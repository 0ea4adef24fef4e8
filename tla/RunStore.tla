------------------------------ MODULE RunStore ------------------------------
(***************************************************************************)
(* The durable state of one Run - the rows of the SQLite store that belong *)
(* to it - and the store mutations the workflow is built from.             *)
(*                                                                         *)
(* Every mutation is one transaction.  The workflow's code between two     *)
(* suspension points makes several, so it is described by a section: the   *)
(* sequence of durable states it passes through, starting with the state   *)
(* it finds.  The operators below extend a section by what one workflow    *)
(* helper writes; a crash keeps a prefix.                                  *)
(*                                                                         *)
(* Left out, as data no operation's control depends on: revisions (every   *)
(* writer passes the one it read in the same section or under the lock it  *)
(* still holds), progress, the snapshot's stage list and output references,*)
(* artifact records, and events other than stage completions and output    *)
(* commits.  The clock is relative to now = 0: a lease is live (1) or over *)
(* (0), a backoff runs (1) or has elapsed (0).                             *)
(***************************************************************************)
EXTENDS Integers, Sequences

CONSTANT MaxAttempts    \* attempts a job has (5 in the service)

Steps == {"PROFILE", "RESOLVE_TASK", "TRAIN"}
INSTANCE JobTable

Phases  == <<"INGEST", "PROFILE", "PLAN", "TRAIN", "EVALUATE", "PACKAGE">>
Phase   == {Phases[i] : i \in DOMAIN Phases}
PhaseNo(p) == CHOOSE i \in DOMAIN Phases : Phases[i] = p

OutputTypes == {"DATA_QUALITY_REPORT", "TASK_SPEC", "SPLIT_MANIFEST", "BASELINE_RESULT",
                "TRIAL_RESULT", "EVALUATION_REPORT", "MODEL_CARD", "RUN_REPORT",
                "FAILURE_REPORT"}
Commands == {"PAUSE", "RESUME", "CANCEL", "ANSWER"}
Topics   == {"task", "positive"}    \* what a decision packet asks for

Run == [status: {"ABSENT", "QUEUED", "RUNNING", "PAUSED", "WAITING_USER",
                 "WAITING_APPROVAL", "TERMINAL"},
        outcome: {"none", "SUCCEEDED", "FAILED", "CANCELED"},
        phase: Phase,
        actions: SUBSET (Commands \cup {"APPROVE"}),
        blocking: {"none", "packet", "approval"},
        known: SUBSET Topics,     \* the questions resolved_inputs answers
        answering: BOOLEAN]       \* pending_command_id is set

Packet   == [asks: Topics, status: {"OPEN", "ANSWERED", "SUPERSEDED"}]
Approval == {"none", "OPEN", "APPROVED", "DECLINED", "EXPIRED"}
Result   == [outcome: {"none", "SUCCEEDED", "FAILED", "CANCELED"}, eligible: BOOLEAN]

NoJob    == [status |-> "ABSENT"]
NoResult == [outcome |-> "none", eligible |-> FALSE]

Database ==
  [run: Run, job: Job \cup {NoJob}, packets: Seq(Packet), approval: Approval,
   model: BOOLEAN,               \* the candidate is registered
   result: Result, stages: Seq(Phase),
   outputs: [OutputTypes -> Nat], announced: [OutputTypes -> Nat],
   unsettled: [Commands -> Nat]] \* commands not SUCCEEDED yet, by type

Zero(S) == [x \in S |-> 0]
EmptyDatabase ==
  [run |-> [status |-> "ABSENT", outcome |-> "none", phase |-> "INGEST", actions |-> {},
            blocking |-> "none", known |-> {}, answering |-> FALSE],
   job |-> NoJob, packets |-> <<>>, approval |-> "none", model |-> FALSE,
   result |-> NoResult, stages |-> <<>>, outputs |-> Zero(OutputTypes),
   announced |-> Zero(OutputTypes), unsettled |-> Zero(Commands)]

OpenPackets(d) == {i \in DOMAIN d.packets : d.packets[i].status = "OPEN"}
HasStage(d, p) == \E i \in DOMAIN d.stages : d.stages[i] = p

-----------------------------------------------------------------------------
(* Sections. *)

Final(ss)    == ss[Len(ss)]
PutRun(ss, r)  == Append(ss, [Final(ss) EXCEPT !.run = r])
PutJob(ss, j)  == Append(ss, [Final(ss) EXCEPT !.job = j])
Accept(ss, c)  == Append(ss, [Final(ss) EXCEPT !.unsettled[c] = @ + 1])
Settle(ss, c)  == Append(ss, [Final(ss) EXCEPT !.unsettled[c] = @ - 1])

PutApproval(ss, s) == Append(ss, [Final(ss) EXCEPT !.approval = s])
RegisterModel(ss)  == Append(ss, [Final(ss) EXCEPT !.model = TRUE])
PutPackets(ss, ps) == Append(ss, [Final(ss) EXCEPT !.packets = ps])
NewPacket(ss, topic) ==
  PutPackets(ss, Append(Final(ss).packets, [asks |-> topic, status |-> "OPEN"]))
Closing(packets, i, s) == [packets EXCEPT ![i].status = s]

(* _commit_output: the row, then the output.committed event. *)
CommitOutput(ss, t) ==
  LET stored == [Final(ss) EXCEPT !.outputs[t] = @ + 1]
  IN  ss \o <<stored, [stored EXCEPT !.announced[t] = @ + 1]>>

(* Defective variants of the mutations below.  No specification uses them;  *)
(* the README lists which property each of them breaks.                     *)
CompleteStageAgain(ss, p) == Append(ss, [Final(ss) EXCEPT !.stages = Append(@, p)])

RequestPacketFirst(ss, topic) ==
  LET packet == Append(ss, [Final(ss) EXCEPT !.packets =
                              Append(@, [asks |-> topic, status |-> "OPEN"])])
  IN  PutRun(packet, [Final(ss).run EXCEPT !.phase = "PLAN", !.status = "WAITING_USER",
                        !.blocking = "packet", !.actions = {"ANSWER", "PAUSE", "CANCEL"}])

Terminated(d, outcome) ==
  [d EXCEPT !.run = [@ EXCEPT !.status = "TERMINAL", !.outcome = outcome, !.actions = {},
                              !.blocking = "none"],
            !.stages = IF outcome = "SUCCEEDED" THEN Append(@, "PACKAGE") ELSE @]

FinalizeAgain(ss, outcome, eligible) ==
  Append(ss, [Terminated(Final(ss), outcome) EXCEPT
                !.result = [outcome |-> outcome, eligible |-> eligible]])

FinalizeInTwoWrites(ss, outcome, eligible) ==
  LET ended == Append(ss, Terminated(Final(ss), outcome))
  IN  IF Final(ss).result # NoResult THEN ss
      ELSE Append(ended, [Final(ended) EXCEPT !.result = [outcome |-> outcome,
                                                          eligible |-> eligible]])

WakeWaiting(ss) ==
  IF Final(ss).job.status = "WAITING" THEN PutJob(ss, Woken(Final(ss).job, 0)) ELSE ss

(* The callers that look for an output of the type first. *)
CommitOutputOnce(ss, t) ==
  IF Final(ss).outputs[t] > 0 THEN ss ELSE CommitOutput(ss, t)

CompleteStage(ss, p) ==
  IF HasStage(Final(ss), p) THEN ss
  ELSE Append(ss, [Final(ss) EXCEPT !.stages = Append(@, p)])

(* _transition_running_phase *)
TransitionTo(ss, p) ==
  LET r == Final(ss).run
  IN  IF PhaseNo(r.phase) >= PhaseNo(p) THEN ss
      ELSE PutRun(ss, [r EXCEPT !.phase = p, !.status = "RUNNING"])

(* _request_decision: the run waits before its packet exists. *)
RequestDecision(ss, topic) ==
  LET waiting == PutRun(ss, [Final(ss).run EXCEPT !.phase = "PLAN", !.status = "WAITING_USER",
                               !.blocking = "packet", !.actions = {"ANSWER", "PAUSE", "CANCEL"}])
  IN  NewPacket(waiting, topic)

(* finalize_run_with_result: refused when a result exists. *)
Finalize(ss, outcome, eligible) ==
  LET d == Final(ss)
      done == outcome = "SUCCEEDED"
      ended == [d.run EXCEPT !.status = "TERMINAL", !.outcome = outcome, !.actions = {},
                             !.blocking = "none",
                             !.phase = IF done THEN "PACKAGE" ELSE d.run.phase]
  IN  IF d.result # NoResult THEN ss
      ELSE Append(ss, [d EXCEPT !.result = [outcome |-> outcome, eligible |-> eligible],
                                !.run = ended,
                                !.stages = IF done THEN Append(d.stages, "PACKAGE") ELSE d.stages])

(* _fail_run *)
FailRun(ss) == Finalize(CommitOutputOnce(ss, "FAILURE_REPORT"), "FAILED", FALSE)

(* wake_execution_job, where its callers find a job that is not closed. *)
Wake(ss) ==
  LET j == Final(ss).job
  IN  IF j = NoJob \/ j.status \in Closed THEN ss ELSE PutJob(ss, Woken(j, 0))
=============================================================================
