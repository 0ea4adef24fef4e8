---------------------------- MODULE SyntheticRun ----------------------------
(***************************************************************************)
(* One run of the synthetic workflow service (workflow.py): created with   *)
(* an open question, answered, paused, resumed or canceled.                *)
(*                                                                         *)
(* Each method of the service holds the visibility lock from its first     *)
(* read to its last write and is suspended at one point only: answer(),    *)
(* while the report's bytes are stored.  Readers of the snapshot wait for  *)
(* that lock, readers of events, outputs and packets do not, so they see   *)
(* the half-done answer.                                                   *)
(***************************************************************************)
EXTENDS Integers, Sequences

CONSTANT MaxControls     \* bound: pauses and resumes of one run
ASSUME ControlsAssumption == MaxControls \in Nat

VARIABLES
  run,       \* the run's row, its one packet and its event log
  answer,    \* the ANSWER command: NONE, SUSPENDED (in put_artifact, with
             \* the lock), RUNNING (the handler has gone), SUCCEEDED
  controls

runVars == <<run, answer, controls>>

TerminalTypes == {"completed", "canceled"}
EventTypes == {"stage", "phase", "output", "packet"} \cup TerminalTypes

(* An answer: who sends it, how often it answers the packet's one question, *)
(* and with what.                                                          *)
Answers == [actor: {"human", "agent"}, items: {0, 1, 2}, value: {"column", "blank", "list"}]

Locked   == answer = "SUSPENDED"
Terminal == run.status = "TERMINAL"
SnapshotSeq == Len(run.log)

(* The row's available_actions go with its status. *)
AvailableActions ==
  CASE run.status = "WAITING_USER" -> {"ANSWER", "PAUSE", "CANCEL"}
    [] run.status = "RUNNING"      -> {"PAUSE", "CANCEL"}
    [] run.status = "PAUSED"       -> {"RESUME", "CANCEL"}
    [] run.status = "TERMINAL"     -> {}

(* create_run: six events and the packet in one piece. *)
Created ==
  [status |-> "WAITING_USER", rev |-> 2, packet |-> "OPEN", packetRev |-> 1,
   log |-> <<"stage", "phase", "output", "stage", "phase", "packet">>]

RunInit == run = Created /\ answer = "NONE" /\ controls = 0

Answerable(packetRev) ==
  /\ packetRev = run.packetRev
  /\ run.packet = "OPEN"
  /\ run.status = "WAITING_USER"

(* The question is asked of a human, takes exactly one value, and the value *)
(* names a column.  An answer that is refused has changed nothing.         *)
DecisionActor(a) == a.actor = "human"
WellFormed(a)    == a.items = 1 /\ a.value # "list"
Accepted(a)      == DecisionActor(a) /\ WellFormed(a) /\ a.value # "blank"

(* answer, up to the call that stores the report.  The packet is closed    *)
(* and the run RUNNING before anything that can fail.                      *)
BeginAnswer(packetRev) ==
  /\ ~Locked
  /\ Answerable(packetRev)
  /\ run' = [run EXCEPT !.status = "RUNNING", !.rev = @ + 1, !.packet = "ANSWERED",
                        !.packetRev = @ + 1, !.log = @ \o <<"phase", "output">>]
  /\ answer' = "SUSPENDED"
  /\ UNCHANGED controls

(* The rest of answer: the report, then result, TERMINAL and the last five *)
(* events in one store mutation.                                           *)
FinishAnswer ==
  /\ Locked
  /\ run' = [run EXCEPT !.status = "TERMINAL", !.rev = @ + 1,
                        !.log = @ \o <<"output", "stage", "stage", "stage", "stage", "completed">>]
  /\ answer' = "SUCCEEDED"
  /\ UNCHANGED controls

(* put_artifact raises: nothing is taken back. *)
BreakAnswer ==
  /\ Locked
  /\ answer' = "RUNNING"
  /\ UNCHANGED <<run, controls>>

(* _control: PAUSE and RESUME need If-Match on the revision; a request with *)
(* another one changes nothing.                                            *)
Controlled(status) ==
  /\ ~Locked /\ controls < MaxControls
  /\ run' = [run EXCEPT !.status = status, !.rev = @ + 1, !.log = Append(@, "phase")]
  /\ controls' = controls + 1
  /\ UNCHANGED answer

Pause == "PAUSE" \in AvailableActions /\ Controlled("PAUSED")

Resume ==
  /\ "RESUME" \in AvailableActions
  /\ Controlled(IF run.packet = "OPEN" THEN "WAITING_USER" ELSE "RUNNING")

(* get_result, 409 until the run has one: it is written with TERMINAL. *)
ResultReadable == ~Locked /\ Terminal

Cancel ==
  /\ ~Locked /\ "CANCEL" \in AvailableActions
  /\ LET superseded == run.packet = "OPEN" IN
     run' = [run EXCEPT !.status = "TERMINAL", !.rev = @ + 1,
                        !.packet = IF superseded THEN "SUPERSEDED" ELSE @,
                        !.packetRev = IF superseded THEN @ + 1 ELSE @,
                        !.log = Append(@, "canceled")]
  /\ UNCHANGED <<answer, controls>>
=============================================================================
