----------------------------- MODULE EventFeed ------------------------------
(***************************************************************************)
(* Readers of a run's events and outputs: the server-sent stream and the   *)
(* pages of app.py, the condition of store.py that wakes a stream, and the *)
(* clients of the Python SDK: stream_run_events, iter_run_events,          *)
(* iter_outputs, and the managed flow wait_for_question, answer_and_wait,  *)
(* wait_for_result, which drives the run.                                  *)
(*                                                                         *)
(* An event is known by its seq, its index in the log, and an output by    *)
(* its created_seq, that of the event that announced it.  Waiting times are*)
(* left out: the deadlines of the managed flow do not pass.                *)
(***************************************************************************)
EXTENDS SyntheticRun, SequencesExt

CONSTANTS
  Filters,       \* the values of `types` a reader may ask for
  PageSize,      \* limit of a JSON page
  Capacity,      \* hardening.max_sse_connections
  Window,        \* bound: events in the network between server and client
  MaxDrops       \* bound: connections that break

ASSUME FeedAssumption ==
  /\ Filters \subseteq SUBSET EventTypes
  /\ PageSize \in Nat \ {0} /\ Capacity \in Nat /\ Window \in Nat \ {0} /\ MaxDrops \in Nat

VARIABLES
  client,    \* the reader
  conns,     \* the streams the server opened for it
  slots,     \* metrics._active_streams
  notice,    \* is a notify_all of the run's condition scheduled?
  driver     \* the managed flow

vars == <<runVars, client, conns, slots, notice, driver>>

Conns   == 1..(MaxDrops + 1)
Current == conns[Len(conns)]
Closed  == {"closed", "leaked"}

Init ==
  /\ RunInit
  /\ client = [pc |-> "idle"]
  /\ conns = <<>> /\ slots = 0 /\ notice = FALSE
  /\ driver = [pc |-> "snapshot"]

(* The two moves that carry nothing else. *)
ConnTo(s, pc) == conns' = [conns EXCEPT ![s].pc = pc]
ClientTo(pc)  == client' = [client EXCEPT !.pc = pc]

Wanted(i) == run.log[i] \in client.types
(* The events the reader asked for, after lo and up to hi. *)
WantedIn(lo, hi) == {i \in (lo + 1)..hi : Wanted(i)}

(* Rows in the order of their seq. *)
InOrder(S) ==
  [k \in 1..Cardinality(S) |-> CHOOSE i \in S : Cardinality({j \in S : j < i}) = k - 1]

-----------------------------------------------------------------------------
(* Defective variants of the definitions below (see the README). *)
ResumePointAtSnapshot == SnapshotSeq
AtEndOnceTerminal(pos) == Terminal
StillBehindNever(pos) == FALSE
AdvancedIfWanted(pos) == IF Wanted(pos + 1) THEN pos + 1 ELSE pos

-----------------------------------------------------------------------------
(* The server's generator, sse_stream. *)

(* The slot of a stream; the readers are of one tenant. *)
EnterStream == slots < Capacity /\ slots' = slots + 1
LeaveStream == slots' = slots - 1

AtEnd(pos) == Terminal /\ pos >= SnapshotSeq
StillBehind(pos) == pos < SnapshotSeq
Advanced(pos) == pos + 1

Started(s) ==
  /\ conns[s].pc = "new"
  /\ ConnTo(s, "read")
  /\ UNCHANGED <<slots, notice>>

ReadBacklog(s) ==
  /\ conns[s].pc = "read"
  /\ IF conns[s].pos < SnapshotSeq
       THEN conns' = [conns EXCEPT ![s].pc = "yield", ![s].upto = SnapshotSeq]
       ELSE ConnTo(s, "look")
  /\ UNCHANGED <<slots, notice>>

Yield(s) ==
  LET c == conns[s]  i == c.pos + 1 IN
  /\ c.pc = "yield"
  /\ Len(c.wire) < Window \/ c.gone
  /\ conns' = [conns EXCEPT
       ![s].pos  = Advanced(@),
       ![s].pc   = IF i = c.upto THEN "read" ELSE "yield",
       ![s].wire = IF Wanted(i) /\ ~c.gone THEN Append(@, i) ELSE @]
  /\ UNCHANGED <<slots, notice>>

(* The snapshot is read under the visibility lock: events may be appended  *)
(* while the generator waits for it.                                       *)
LookAtRun(s) ==
  /\ conns[s].pc = "look" /\ ~Locked
  /\ IF AtEnd(conns[s].pos)
       THEN ConnTo(s, "closed") /\ LeaveStream
       ELSE ConnTo(s, "wait") /\ UNCHANGED slots
  /\ UNCHANGED notice

(* wait_for_events, which reads again once it holds the condition. *)
Wait(s) ==
  /\ conns[s].pc = "wait"
  /\ ConnTo(s, IF StillBehind(conns[s].pos) THEN "read" ELSE "parked")
  /\ UNCHANGED <<slots, notice>>

Notify ==
  /\ notice
  /\ notice' = FALSE
  /\ conns' = [s \in DOMAIN conns |->
                 IF conns[s].pc = "parked" THEN [conns[s] EXCEPT !.pc = "wait"] ELSE conns[s]]
  /\ UNCHANGED <<runVars, client, slots, driver>>

(* Fifteen seconds without an event: authorize again, send a heartbeat. *)
TimesOut(s) ==
  /\ conns[s].pc = "parked"
  /\ ConnTo(s, "beat")
  /\ UNCHANGED <<runVars, client, slots, notice, driver>>

Heartbeat(s) ==
  /\ conns[s].pc = "beat" /\ ~Locked
  /\ ConnTo(s, "read")
  /\ UNCHANGED <<slots, notice>>

(* The server notices that the client has gone and cancels the generator,  *)
(* whose finally gives the slot back.  A generator that was never started  *)
(* has no finally to run.                                                  *)
Reap(s) ==
  /\ conns[s].gone /\ conns[s].pc \notin Closed
  /\ IF conns[s].pc = "new"
       THEN ConnTo(s, "leaked") /\ UNCHANGED slots
       ELSE ConnTo(s, "closed") /\ LeaveStream
  /\ UNCHANGED notice

ServerStep(s) ==
  /\ s \in DOMAIN conns
  /\ \/ Started(s) \/ ReadBacklog(s) \/ Yield(s) \/ LookAtRun(s)
     \/ Wait(s) \/ Heartbeat(s) \/ Reap(s)
  /\ UNCHANGED <<runVars, client, driver>>

-----------------------------------------------------------------------------
(* The reader. *)

Reader(mode, types, start) ==
  [pc |-> IF mode = "sse" THEN "open" ELSE "page", mode |-> mode, types |-> types,
   start |-> start, at |-> start, high |-> 0, got |-> <<>>, dropped |-> FALSE]

(* Without after_seq a stream starts at the snapshot, and ends there when  *)
(* the run has.                                                            *)
StartReading ==
  /\ client.pc = "idle"
  /\ \E types \in Filters :
       \/ \E mode \in {"sse", "json"} : client' = Reader(mode, types, 0)
       \/ client' = Reader("outputs", {"output"}, 0)
       \/ /\ ~Locked
          /\ client' = [Reader("sse", types, SnapshotSeq) EXCEPT !.pc = IF Terminal THEN "returned" ELSE @]
  /\ UNCHANGED <<conns, slots>>

(* Last-Event-ID of a new connection. *)
ResumePoint == client.at

Connection == [pc |-> "new", pos |-> ResumePoint, upto |-> 0, wire |-> <<>>, gone |-> FALSE]

(* read_run_events: the snapshot, then the slot, then the response. *)
Open ==
  /\ client.pc = "open" /\ ~Locked
  /\ \/ /\ EnterStream
        /\ conns' = Append(conns, Connection)
        /\ client' = [client EXCEPT !.pc = "reading", !.dropped = FALSE]
     \/ /\ slots >= Capacity
        /\ ClientTo("refused")
        /\ UNCHANGED <<conns, slots>>

Take ==
  /\ client.pc = "reading" /\ Current.wire # <<>>
  /\ LET i == Head(Current.wire)
         ends == run.log[i] \in TerminalTypes IN
     /\ conns' = [conns EXCEPT ![Len(conns)].wire = IF ends THEN <<>> ELSE Tail(@),
                               ![Len(conns)].gone = ends]
     /\ client' = [client EXCEPT
          !.at  = IF i > @ THEN i ELSE @,
          !.got = IF Contains(@, i) THEN @ ELSE Append(@, i),
          !.pc  = IF ends THEN "returned" ELSE "reading"]
  /\ UNCHANGED slots

EndOfStream ==
  /\ client.pc = "reading" /\ Current.wire = <<>> /\ Current.pc = "closed"
  /\ ClientTo("recheck")
  /\ UNCHANGED <<conns, slots>>

(* However the stream ended, the run decides whether to open another. *)
Recheck ==
  /\ client.pc = "recheck" /\ ~Locked
  /\ ClientTo(IF Terminal THEN "returned" ELSE "open")
  /\ UNCHANGED <<conns, slots>>

(* The first page freezes the high watermark; the cursor carries it and    *)
(* the position to the next.  An item already yielded is passed over.      *)
High == IF client.high = 0 THEN SnapshotSeq ELSE client.high
Page(rest) == {i \in rest : Cardinality({j \in rest : j < i}) < PageSize}
Yielded(page) == client.got \o InOrder(page \ Range(client.got))
Turned(rest) ==
  client' = [client EXCEPT
    !.high = High, !.got = Yielded(Page(rest)),
    !.at = IF rest = {} THEN @ ELSE Max(Page(rest)),
    !.pc = IF Page(rest) = rest THEN "returned" ELSE "page"]

(* A page of the JSON backlog. *)
ReadPage ==
  /\ client.pc = "page" /\ client.mode = "json" /\ ~Locked
  /\ Turned(WantedIn(client.at, High))
  /\ UNCHANGED <<conns, slots>>

(* A page of the outputs: the watermark is taken from the snapshot before  *)
(* the rows are listed.                                                    *)
OutputsIn(lo, hi) == {i \in (lo + 1)..hi : run.log[i] = "output"}
ReadOutputs ==
  /\ client.pc = "page" /\ client.mode = "outputs" /\ ~Locked
  /\ Turned(OutputsIn(client.at, High))
  /\ UNCHANGED <<conns, slots>>

ClientStep ==
  /\ StartReading \/ Open \/ Take \/ EndOfStream \/ Recheck \/ ReadPage \/ ReadOutputs
  /\ UNCHANGED <<runVars, notice, driver>>

(* The connection breaks: what was in the network is lost. *)
Drop ==
  /\ client.pc = "reading" /\ ~Current.gone /\ Len(conns) <= MaxDrops
  /\ conns' = [conns EXCEPT ![Len(conns)].wire = <<>>, ![Len(conns)].gone = TRUE]
  /\ client' = [client EXCEPT !.pc = "recheck", !.dropped = TRUE]
  /\ UNCHANGED <<runVars, slots, notice, driver>>

-----------------------------------------------------------------------------
(* The managed flow.  Its requests and the operator's act on the run; what *)
(* they append wakes the streams.                                          *)

Appends == notice' = (notice \/ run'.log # run.log)

(* wait_for_question: the snapshot is older than the packets listed after. *)
AskSnapshot ==
  /\ driver.pc = "snapshot" /\ ~Locked
  /\ driver' = [pc |-> "packets", terminal |-> Terminal]
  /\ UNCHANGED <<runVars, notice>>

(* The one packet of the run is on the first page of the OPEN ones, or not. *)
OpenPackets == {rev \in {run.packetRev} : run.packet = "OPEN"}
ListPackets ==
  /\ driver.pc = "packets"
  /\ \/ \E rev \in OpenPackets : driver' = [pc |-> "answer", packetRev |-> rev]
     \/ OpenPackets = {} /\ driver' = [pc |-> IF driver.terminal THEN "raised" ELSE "snapshot"]
  /\ UNCHANGED <<runVars, notice>>

(* answer_and_wait: a question that is closed, changed or paused raises,   *)
(* and so does an answer that is refused.                                  *)
SendAnswer ==
  /\ driver.pc = "answer" /\ ~Locked
  /\ \E a \in Answers :
       \/ Accepted(a) /\ BeginAnswer(driver.packetRev) /\ driver' = [pc |-> "sent"]
       \/ /\ ~Answerable(driver.packetRev) \/ ~Accepted(a)
          /\ driver' = [pc |-> "raised"]
          /\ UNCHANGED runVars
  /\ Appends

Receipt ==
  /\ driver.pc = "sent" /\ ~Locked
  /\ driver' = [pc |-> IF answer = "SUCCEEDED" THEN "await" ELSE "raised"]
  /\ UNCHANGED <<runVars, notice>>

(* wait_for_result *)
AwaitResult ==
  /\ driver.pc = "await" /\ ResultReadable
  /\ driver' = [pc |-> "done"]
  /\ UNCHANGED <<runVars, notice>>

DriverStep ==
  /\ AskSnapshot \/ ListPackets \/ SendAnswer \/ Receipt \/ AwaitResult
  /\ UNCHANGED <<client, conns, slots>>

ServiceStep ==
  /\ FinishAnswer \/ BreakAnswer
  /\ Appends
  /\ UNCHANGED <<client, conns, slots, driver>>

(* What the run offers an agent: the packet is for a human to answer. *)
AgentActions == IF Locked THEN {} ELSE AvailableActions \ {"ANSWER"}

Operate ==
  /\ AgentActions # {}
  /\ Pause \/ Resume \/ Cancel
  /\ Appends
  /\ UNCHANGED <<client, conns, slots, driver>>

Next ==
  \/ \E s \in Conns : ServerStep(s) \/ (s \in DOMAIN conns /\ TimesOut(s))
  \/ Notify \/ ClientStep \/ Drop \/ DriverStep \/ ServiceStep \/ Operate

(* Tasks of the event loop and clients that do not stop run; nobody needs  *)
(* to operate, no connection needs to break, and no stream relies on the   *)
(* fifteen seconds passing.                                                *)
Fairness ==
  /\ \A s \in Conns : WF_vars(ServerStep(s))
  /\ WF_vars(Notify) /\ WF_vars(ClientStep) /\ WF_vars(DriverStep) /\ WF_vars(ServiceStep)

Spec == Init /\ [][Next]_vars /\ Fairness

-----------------------------------------------------------------------------
(* q is all that was wanted after lo and up to hi, once and in order. *)
Lists(q, lo, hi) ==
  /\ \A j, k \in DOMAIN q : j < k => q[j] < q[k]
  /\ Range(q) = WantedIn(lo, hi)

(* A reader is given what it asked for in order, each event once and none  *)
(* left out, across broken connections, filters and pages: "SSE resumes    *)
(* with Last-Event-ID, deduplicated by event_id" (docs/user-manual.md).    *)
DeliveredInSequence ==
  client.pc # "idle" =>
    Lists(client.got, client.start, IF client.got = <<>> THEN client.start ELSE Last(client.got))

(* A stream that came to its own end told everything, the end of the run   *)
(* included: sse_stream looks at the run after it looked at the events,    *)
(* and compares its position before it believes TERMINAL.  A batch of      *)
(* pages holds what was there when its first page was read.  A reader      *)
(* whose last connection broke gets no such promise.                       *)
EndedIsComplete ==
  client.pc = "returned" /\ ~client.dropped =>
    IF client.mode = "sse" THEN Terminal /\ Lists(client.got, client.start, SnapshotSeq)
                           ELSE Lists(client.got, client.start, client.high)

(* A stream asleep with events to send has a wake-up on its way: no event  *)
(* falls between wait_for_events' look and its wait.                       *)
NoLostWakeup ==
  \A s \in DOMAIN conns : conns[s].pc = "parked" /\ conns[s].pos < SnapshotSeq => notice

(* Once the run is TERMINAL its readers and the flow that drove it come to *)
(* their end, whichever events the reader filtered out.                    *)
ReadersEnd ==
  Terminal ~> client.pc \in {"returned", "refused"} /\ driver.pc \in {"done", "raised"}
=============================================================================
