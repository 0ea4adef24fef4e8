---------------------------- MODULE RequestsProofs ----------------------------
(***************************************************************************)
(* Machine-checked proofs about idempotent requests, for every set of      *)
(* calls, keys, bodies and attempts, every concurrency limit and any       *)
(* number of faults.                                                       *)
(*                                                                         *)
(* The argument: the handler that found a key free is the only one at work *)
(* behind it (OneWorker), and as long as it is, the record is taken by its *)
(* body (WorkersHoldTheKey).  So a record leaves "taken" only through its   *)
(* one worker, which schedules the wake-up in the same transaction, and     *)
(* never leaves an answer: what a caller was told stays what is recorded.   *)
(***************************************************************************)
EXTENDS Requests, FiniteSetTheorems, TLAPS

Worker(q) == reqs[q].pc \in {"execute", "finish"}

(* A handler at work took its key's record, and the record is still as it   *)
(* left it.                                                                *)
WorkersHoldTheKey == \A q \in Attempt : Worker(q) => records[Key(q)] = Taken(Body(q))

(* No two attempts are at work behind the same key. *)
OneWorker == \A p, q \in Attempt : Worker(p) /\ Worker(q) /\ Key(p) = Key(q) => p = q

(* The work was not done before the worker does it, nor behind a free key;  *)
(* a success says that it was.                                             *)
WorkIsAccounted ==
  /\ \A k \in Keys : /\ records[k] = NoRecord => ~done[k]
                     /\ records[k].state = "ok" => done[k]
  /\ \A q \in Attempt : /\ At(q, "execute") => ~done[Key(q)]
                        /\ At(q, "finish") => reqs[q].answer \in Recorded \cup {"error"}
                        /\ At(q, "finish") /\ reqs[q].answer = "ok" => done[Key(q)]

(* Attempts are numbered as they are sent, up to the client's limit. *)
CallsCounted ==
  \A c \in Callers : /\ calls[c].attempt \in 0..MaxSends[c]
                     /\ calls[c].pc = "send" => calls[c].attempt < MaxSends[c]
                     /\ calls[c].pc = "wait" => calls[c].attempt > 0

(* An attempt that was not sent yet is nowhere on the server. *)
UnsentIsNowhere ==
  \A c \in Callers : \A n \in 1..MaxSends[c] : n > calls[c].attempt => At(<<c, n>>, "none")

Insiders == {q \in Attempt : reqs[q].pc \in Inside}
SlotsCounted == IsFiniteSet(Insiders) /\ active = Cardinality(Insiders)

IInv ==
  /\ TypeOK
  /\ WorkersHoldTheKey /\ OneWorker /\ WorkIsAccounted
  /\ RepliesAreRecorded /\ NoLostWakeup
  /\ CallsCounted /\ UnsentIsNowhere /\ SlotsCounted

-----------------------------------------------------------------------------
(* Typing. *)

(* An attempt is a call and a number, and has a key and a body. *)
LEMMA AttemptTypes ==
  /\ \A q \in Attempt : /\ q[1] \in Callers /\ q[2] \in 1..MaxSends[q[1]] /\ q = <<q[1], q[2]>>
                        /\ Key(q) \in Keys /\ Body(q) \in Bodies
  /\ \A c \in Callers : \A n \in 1..MaxSends[c] : <<c, n>> \in Attempt
BY DEF Attempt, Key, Body, Keys, Bodies

(* NoRecord is none of the records that requests write. *)
LEMMA RecordTypes ==
  /\ \A b \in Bodies : Taken(b) \in Records
  /\ \A r \in Records : /\ r # NoRecord => r = [state |-> r.state, body |-> r.body]
                        /\ r.state = "free" <=> r = NoRecord
BY DEF Records, Taken, NoRecord, Recorded

(* A worker's answer replaces the state of the record it took. *)
LEMMA RecordOfWorker ==
  ASSUME TypeOK, WorkersHoldTheKey, NEW q \in Attempt, Worker(q), NEW a \in Recorded, Record(q, a)
  PROVE  /\ records' = [records EXCEPT ![Key(q)] = [state |-> a, body |-> Body(q)]]
         /\ records' \in [Keys -> Records]
<1>1. Key(q) \in Keys /\ Body(q) \in Bodies
  BY AttemptTypes
<1>2. records[Key(q)] = [state |-> "taken", body |-> Body(q)]
  BY DEF WorkersHoldTheKey, Taken
<1>3. [records[Key(q)] EXCEPT !.state = a] = [state |-> a, body |-> Body(q)]
  BY <1>2
<1>4. records' = [records EXCEPT ![Key(q)] = [state |-> a, body |-> Body(q)]]
  BY <1>1, <1>2, <1>3 DEF Record, TypeOK
<1>5. QED
  BY <1>1, <1>4 DEF TypeOK, Records

(* The rows of the server's side that the actions write are rows. *)
LEMMA RequestTypes ==
  ASSUME reqs \in [Attempt -> Request], NEW q \in Attempt
  PROVE  /\ \A a \in Answer : Settled(q, a) \in [Attempt -> Request]
         /\ [reqs EXCEPT ![q] = [pc |-> "gone", answer |-> "none"]] \in [Attempt -> Request]
         /\ \A a \in Answer : [reqs EXCEPT ![q] = [pc |-> "finish", answer |-> a]] \in [Attempt -> Request]
BY DEF Settled, Request, Inside

(* A request that goes to a point inside the service stays well typed. *)
LEMMA GotoTypes ==
  ASSUME reqs \in [Attempt -> Request], NEW q \in Attempt, NEW pc \in Inside, Goto(q, pc)
  PROVE  reqs' \in [Attempt -> Request]
BY DEF Goto, Request

(* What a record answers with. *)
LEMMA ReadTypes ==
  ASSUME records \in [Keys -> Records], NEW q \in Attempt
  PROVE  /\ ReadRecord(q) = "taken" \/ ReadRecord(q) \in Answer
         /\ ReadRecord(q) = "taken" => records[Key(q)].state = "taken"
         /\ ReadRecord(q) \in Recorded =>
              records[Key(q)] = [state |-> ReadRecord(q), body |-> Body(q)]
<1>1. Key(q) \in Keys
  BY AttemptTypes
<1>2. records[Key(q)] \in Records
  BY <1>1
<1>3. QED
  BY <1>2 DEF ReadRecord, Answer, Records, Recorded, NoRecord

(* The counter is exact, so a request that leaves does not take it below   *)
(* zero.                                                                   *)
LEMMA LeavingTypes ==
  ASSUME active \in 0..MaxActive, SlotsCounted, NEW q \in Attempt, reqs[q].pc \in Inside
  PROVE  active - 1 \in 0..MaxActive
<1>1. q \in Insiders
  BY DEF Insiders
<1>2. active # 0
  BY <1>1, FS_EmptySet DEF SlotsCounted
<1>3. QED
  BY <1>2, RequestsAssumption

(* Every action keeps the types. *)
LEMMA TypeStep ==
  ASSUME TypeOK, CallsCounted, SlotsCounted, WorkersHoldTheKey, WorkIsAccounted, [Next]_vars
  PROVE  TypeOK'
<1>1. /\ calls \in [Callers -> Call] /\ reqs \in [Attempt -> Request]
      /\ records \in [Keys -> Records] /\ done \in [Keys -> BOOLEAN]
      /\ notices \subseteq Keys /\ active \in 0..MaxActive /\ faults \in 0..MaxFaults
  BY DEF TypeOK
<1>2. {"rate_limited", "server_busy", "error", "in_progress"} \subseteq Answer
      /\ Recorded \subseteq Answer /\ "taken" \notin Answer
      /\ {"entered", "checking", "parked", "execute", "finish"} = Inside
  BY DEF Answer, Recorded, Inside
<1>3. ASSUME NEW q \in Attempt, reqs[q].pc \in Inside, NEW a \in Answer, Reply(q, a)
      PROVE  reqs' \in [Attempt -> Request] /\ active' \in 0..MaxActive
  BY <1>1, <1>3, RequestTypes, LeavingTypes DEF Reply
<1>4. ASSUME NEW c \in Callers, Send(c) \/ Receive(c) \/ TransportError(c) PROVE TypeOK'
  <2>1. CASE Send(c)
    <3>1. calls' \in [Callers -> Call]
      BY <1>1, <2>1 DEF Send, Call
    <3>2. reqs' \in [Attempt -> Request]
      BY <1>1, <2>1 DEF Send, Goto, Request
    <3>3. QED
      BY <1>1, <2>1, <3>1, <3>2 DEF Send, TypeOK
  <2>2. CASE Receive(c)
    <3>1. reqs[<<c, calls[c].attempt>>].answer \in Answer \cup {"none"}
      <4>1. <<c, calls[c].attempt>> \in Attempt
        BY <2>2, AttemptTypes DEF Receive, CallsCounted
      <4>2. QED
        BY <1>1, <4>1 DEF Request
    <3>2. calls' \in [Callers -> Call]
      <4> DEFINE sends == [calls[c] EXCEPT !.pc = "send"]
                 ends  == [calls[c] EXCEPT !.pc = "ended",
                                           !.result = reqs[<<c, calls[c].attempt>>].answer]
      <4>1. sends \in Call
        BY <1>1 DEF Call
      <4>2. ends \in Call
        BY <1>1, <2>2, <3>1 DEF Receive, At, Call, Request
      <4>3. calls' = [calls EXCEPT ![c] = sends] \/ calls' = [calls EXCEPT ![c] = ends]
        BY <1>1, <2>2 DEF Receive, EndOr
      <4> HIDE DEF sends, ends
      <4>4. QED
        BY <1>1, <4>1, <4>2, <4>3
    <3>3. reqs' \in [Attempt -> Request]
      BY <1>1, <2>2 DEF Receive, Request
    <3>4. QED
      BY <1>1, <2>2, <3>2, <3>3 DEF Receive, TypeOK
  <2>3. CASE TransportError(c)
    <3>1. calls' \in [Callers -> Call]
      BY <1>1, <2>3 DEF TransportError, EndOr, Call
    <3>2. reqs' \in [Attempt -> Request]
      BY <1>1, <2>3 DEF TransportError, Request
    <3>3. QED
      BY <1>1, <2>3, <3>1, <3>2 DEF TransportError, TypeOK
  <2>4. QED
    BY <1>4, <2>1, <2>2, <2>3
<1>5. ASSUME NEW q \in Attempt, RateLimited(q) \/ ServerBusy(q) \/ Enter(q) PROVE TypeOK'
  <2>1. reqs' \in [Attempt -> Request]
    <3>1. \A a \in Answer : Settled(q, a) \in [Attempt -> Request]
      BY <1>1, RequestTypes
    <3>2. Enter(q) => reqs' \in [Attempt -> Request]
      BY <1>1, <1>2, GotoTypes DEF Enter
    <3>3. QED
      BY <1>2, <1>5, <3>1, <3>2 DEF RateLimited, ServerBusy
  <2>2. active' \in 0..MaxActive
    BY <1>1, <1>5, RequestsAssumption DEF RateLimited, ServerBusy, Enter
  <2>3. QED
    BY <1>1, <1>5, <2>1, <2>2 DEF RateLimited, ServerBusy, Enter, TypeOK
<1>6. ASSUME NEW q \in Attempt, Begin(q) PROVE TypeOK'
  <2>1. reqs' \in [Attempt -> Request] /\ active' \in 0..MaxActive
    <3>1. CASE Goto(q, "execute") \/ Goto(q, "checking")
      <4>1. reqs' \in [Attempt -> Request]
        BY <1>1, <1>2, <3>1, GotoTypes
      <4>2. active' = active \/ \E a \in Answer : Reply(q, a)
        BY <1>6, ReadTypes, <1>1 DEF Begin
      <4>3. QED
        BY <1>1, <1>2, <1>3, <1>6, <4>1, <4>2 DEF Begin, At
    <3>2. CASE Reply(q, ReadRecord(q)) /\ ReadRecord(q) # "taken"
      BY <1>1, <1>2, <1>3, <1>6, <3>2, ReadTypes DEF Begin, At
    <3>3. QED
      BY <1>1, <1>6, <3>1, <3>2 DEF Begin
  <2>2. records' \in [Keys -> Records]
    BY <1>1, <1>6, AttemptTypes, RecordTypes DEF Begin
  <2>3. QED
    BY <1>1, <1>6, <2>1, <2>2 DEF Begin, TypeOK
<1>7. ASSUME NEW q \in Attempt, Check(q) \/ WaitTimesOut(q) PROVE TypeOK'
  <2>1. reqs' \in [Attempt -> Request] /\ active' \in 0..MaxActive
    <3>1. CASE Goto(q, "parked") /\ UNCHANGED active
      BY <1>1, <1>2, <3>1, GotoTypes
    <3>2. CASE \E a \in Answer : Reply(q, a)
      BY <1>1, <1>2, <1>3, <1>7, <3>2 DEF Check, WaitTimesOut, At
    <3>3. QED
      BY <1>1, <1>2, <1>7, <3>1, <3>2, ReadTypes DEF Check, WaitTimesOut
  <2>2. QED
    BY <1>1, <1>7, <2>1 DEF Check, WaitTimesOut, TypeOK
<1>8. ASSUME NEW q \in Attempt, Execute(q) PROVE TypeOK'
  <2>1. reqs' \in [Attempt -> Request]
    BY <1>1, <1>2, <1>8, RequestTypes DEF Execute
  <2>2. done' \in [Keys -> BOOLEAN]
    BY <1>1, <1>8, AttemptTypes DEF Execute
  <2>3. QED
    BY <1>1, <1>8, <2>1, <2>2 DEF Execute, TypeOK
<1>9. ASSUME NEW q \in Attempt, Finish(q) \/ FinishFails(q) PROVE TypeOK'
  <2>1. At(q, "finish") /\ Worker(q) /\ reqs[q].answer \in Recorded \cup {"error"}
    BY <1>9 DEF Finish, FinishFails, At, Worker, WorkIsAccounted
  <2>2. reqs' \in [Attempt -> Request] /\ active' \in 0..MaxActive
    BY <1>2, <1>3, <1>9, <2>1 DEF Finish, FinishFails, At
  <2>3. Key(q) \in Keys /\ NoRecord \in Records
    BY AttemptTypes DEF Records
  <2>4. Abort(q) => /\ records' \in [Keys -> Records] /\ done' \in [Keys -> BOOLEAN]
                    /\ notices' \subseteq Keys
    BY <1>1, <2>3 DEF Abort
  <2>5. \A a \in Recorded : Record(q, a) => /\ records' \in [Keys -> Records] /\ done' = done
                                            /\ notices' \subseteq Keys
    BY <1>1, <2>1, <2>3, RecordOfWorker DEF Record
  <2>6. faults' \in 0..MaxFaults /\ calls' = calls
    BY <1>1, <1>9, RequestsAssumption DEF Finish, FinishFails, Fault
  <2>7. QED
    BY <1>1, <1>9, <2>1, <2>2, <2>4, <2>5, <2>6 DEF Finish, FinishFails, TypeOK
<1>10. ASSUME NEW q \in Attempt, BeginFails(q) \/ Cancel(q) PROVE TypeOK'
  <2>1. reqs' \in [Attempt -> Request] /\ active' \in 0..MaxActive
    BY <1>1, <1>2, <1>3, <1>10, RequestTypes, LeavingTypes DEF BeginFails, Cancel, At
  <2>2. faults' \in 0..MaxFaults
    BY <1>1, <1>10, RequestsAssumption DEF BeginFails, Cancel, Fault
  <2>3. QED
    BY <1>1, <1>10, <2>1, <2>2 DEF BeginFails, Cancel, TypeOK
<1>11. ASSUME NEW k \in Keys, Notify(k) PROVE TypeOK'
  <2>1. reqs' \in [Attempt -> Request]
    BY <1>1, <1>2, <1>11 DEF Notify, Request
  <2>2. QED
    BY <1>1, <1>11, <2>1 DEF Notify, TypeOK
<1>12. CASE Crash
  <2>1. reqs' \in [Attempt -> Request]
    BY <1>1, <1>12 DEF Crash, Request
  <2>2. QED
    BY <1>1, <1>12, <2>1, RequestsAssumption DEF Crash, Fault, TypeOK
<1>13. CASE UNCHANGED vars
  BY <1>1, <1>13 DEF vars, TypeOK
<1>14. QED
  BY <1>4, <1>5, <1>6, <1>7, <1>8, <1>9, <1>10, <1>11, <1>12, <1>13 DEF Next, Handle

-----------------------------------------------------------------------------
(* What a step does to the records and to the work behind them. *)

(* Handlers may leave, and a caller may be told what is recorded. *)
Quiet ==
  /\ records' = records /\ done' = done
  /\ \A p \in Attempt :
       /\ Worker(p)' => reqs'[p] = reqs[p]
       /\ At(p, "replied")' /\ reqs'[p].answer \in Recorded =>
            reqs'[p] = reqs[p] \/ records[Key(p)] = [state |-> reqs'[p].answer, body |-> Body(p)]

Others(q) == \A p \in Attempt : p # q => reqs'[p] = reqs[p]

(* A handler finds its key free and takes it. *)
Starts(q) ==
  /\ records[Key(q)] = NoRecord
  /\ records' = [records EXCEPT ![Key(q)] = Taken(Body(q))] /\ done' = done
  /\ reqs'[q].pc = "execute" /\ Others(q)

(* The worker has done its work, all of it or in part. *)
Works(q) ==
  /\ At(q, "execute") /\ records' = records
  /\ \E a \in Recorded \cup {"error"}, work \in BOOLEAN :
       /\ a = "ok" => work
       /\ reqs'[q] = [pc |-> "finish", answer |-> a] /\ Others(q)
       /\ done' = [done EXCEPT ![Key(q)] = work]

(* The worker leaves an answer, or leaves its key free. *)
Leaves(q) ==
  /\ At(q, "finish") /\ ~Worker(q)' /\ Others(q)
  /\ \/ \E a \in Recorded :
          /\ a = "ok" => done[Key(q)]
          /\ records' = [records EXCEPT ![Key(q)] = [state |-> a, body |-> Body(q)]] /\ done' = done
          /\ At(q, "replied")' => reqs'[q].answer = a
     \/ /\ records' = [records EXCEPT ![Key(q)] = NoRecord]
        /\ done' = [done EXCEPT ![Key(q)] = FALSE]
        /\ At(q, "replied")' => reqs'[q].answer = "error"

(* The row a settled request is left with. *)
LEMMA SettledRow ==
  ASSUME reqs \in [Attempt -> Request], NEW q \in Attempt, NEW a, reqs' = Settled(q, a)
  PROVE  /\ Others(q)
         /\ reqs'[q] = [pc |-> "replied", answer |-> a] \/ reqs'[q] = [pc |-> "gone", answer |-> "none"]
BY DEF Settled, Others

(* Every step is of one of these kinds. *)
LEMMA Kinds ==
  ASSUME TypeOK, CallsCounted, WorkersHoldTheKey, WorkIsAccounted, [Next]_vars
  PROVE  Quiet \/ \E q \in Attempt : Starts(q) \/ Works(q) \/ Leaves(q)
<1>1. reqs \in [Attempt -> Request] /\ records \in [Keys -> Records] /\ done \in [Keys -> BOOLEAN]
  BY DEF TypeOK
<1>2. {"rate_limited", "server_busy", "error", "in_progress", "none"} \cap Recorded = {}
  BY DEF Recorded
<1>3. ASSUME NEW q \in Attempt, NEW a, reqs' = Settled(q, a), records' = records, done' = done,
             a \notin Recorded \/ a = ReadRecord(q)
      PROVE  Quiet
  <2>1. Others(q)
        /\ (reqs'[q] = [pc |-> "replied", answer |-> a] \/ reqs'[q] = [pc |-> "gone", answer |-> "none"])
    BY <1>1, <1>3, SettledRow
  <2>2. a \in Recorded => records[Key(q)] = [state |-> a, body |-> Body(q)]
    BY <1>1, <1>3, ReadTypes
  <2>3. QED
    BY <1>2, <1>3, <2>1, <2>2 DEF Quiet, Others, Worker, At
<1>4. ASSUME NEW q \in Attempt, NEW pc \in {"entered", "sent", "checking", "parked"}, Goto(q, pc),
             records' = records, done' = done
      PROVE  Quiet
  BY <1>1, <1>4 DEF Goto, Quiet, Worker, At, Request
<1>5. ASSUME NEW c \in Callers, Send(c) \/ Receive(c) \/ TransportError(c) PROVE Quiet
  <2>1. CASE Send(c)
    <3>1. <<c, calls[c].attempt + 1>> \in Attempt
      BY <2>1, AttemptTypes, RequestsAssumption DEF Send, CallsCounted
    <3>2. QED
      BY <1>4, <2>1, <3>1 DEF Send
  <2>2. CASE Receive(c)
    BY <1>1, <1>2, <2>2 DEF Receive, Quiet, Worker, At
  <2>3. CASE TransportError(c)
    BY <1>1, <1>2, <2>3 DEF TransportError, Quiet, Worker, At
  <2>4. QED
    BY <1>5, <2>1, <2>2, <2>3
<1>6. ASSUME NEW q \in Attempt, RateLimited(q) \/ ServerBusy(q) \/ Enter(q) PROVE Quiet
  BY <1>2, <1>3, <1>4, <1>6 DEF RateLimited, ServerBusy, Enter
<1>7. ASSUME NEW q \in Attempt, Begin(q) PROVE Quiet \/ Starts(q)
  <2>1. CASE records[Key(q)] = NoRecord
    BY <1>1, <1>7, <2>1 DEF Begin, Starts, Goto, Others, Request
  <2>2. CASE records[Key(q)] # NoRecord /\ ReadRecord(q) = "taken"
    BY <1>4, <1>7, <2>2 DEF Begin
  <2>3. CASE records[Key(q)] # NoRecord /\ ReadRecord(q) # "taken"
    BY <1>3, <1>7, <2>3 DEF Begin, Reply
  <2>4. QED
    BY <2>1, <2>2, <2>3
<1>8. ASSUME NEW q \in Attempt, Check(q) \/ WaitTimesOut(q) PROVE Quiet
  <2>1. CASE Check(q)
    BY <1>3, <1>4, <2>1 DEF Check, Reply
  <2>2. CASE WaitTimesOut(q)
    BY <1>2, <1>3, <2>2 DEF WaitTimesOut, Reply
  <2>3. QED
    BY <1>8, <2>1, <2>2
<1>9. ASSUME NEW q \in Attempt, Execute(q) PROVE Works(q)
  BY <1>1, <1>9 DEF Execute, Works, Others
<1>10. ASSUME NEW q \in Attempt, Finish(q) \/ FinishFails(q) PROVE Quiet \/ Leaves(q)
  <2>1. At(q, "finish") /\ Worker(q) /\ reqs[q].answer \in Recorded \cup {"error"}
        /\ (reqs[q].answer = "ok" => done[Key(q)])
    BY <1>10 DEF Finish, FinishFails, At, Worker, WorkIsAccounted
  <2>2. ASSUME NEW a, reqs' = Settled(q, a)
        PROVE  ~Worker(q)' /\ Others(q) /\ (At(q, "replied")' => reqs'[q].answer = a)
    <3>1. Others(q) /\ (\/ reqs'[q] = [pc |-> "replied", answer |-> a]
                        \/ reqs'[q] = [pc |-> "gone", answer |-> "none"])
      BY <1>1, <2>2, SettledRow
    <3>2. QED
      BY <3>1 DEF Worker, At
  <2>3. CASE Finish(q) /\ reqs[q].answer # "error"
    <3>1. reqs[q].answer \in Recorded /\ Record(q, reqs[q].answer) /\ reqs' = Settled(q, reqs[q].answer)
      BY <2>1, <2>3 DEF Finish, Reply
    <3>2. records' = [records EXCEPT ![Key(q)] = [state |-> reqs[q].answer, body |-> Body(q)]]
      BY <2>1, <3>1, RecordOfWorker
    <3>3. QED
      BY <2>1, <2>2, <3>1, <3>2 DEF Record, Leaves
  <2>4. CASE Finish(q) /\ reqs[q].answer = "error"
    BY <2>1, <2>2, <2>4 DEF Finish, Reply, Abort, Leaves
  <2>5. CASE FinishFails(q) /\ Abort(q)
    BY <2>1, <2>2, <2>5 DEF FinishFails, Reply, Abort, Leaves
  <2>6. CASE FinishFails(q) /\ ~Abort(q)
    BY <1>2, <1>3, <2>6 DEF FinishFails, Reply
  <2>7. QED
    BY <1>10, <2>3, <2>4, <2>5, <2>6
<1>11. ASSUME NEW q \in Attempt, BeginFails(q) \/ Cancel(q) PROVE Quiet
  <2>1. CASE BeginFails(q)
    BY <1>2, <1>3, <2>1 DEF BeginFails, Reply
  <2>2. CASE Cancel(q)
    BY <1>1, <1>2, <2>2 DEF Cancel, Quiet, Worker, At
  <2>3. QED
    BY <1>11, <2>1, <2>2
<1>12. ASSUME NEW k \in Keys, Notify(k) PROVE Quiet
  BY <1>1, <1>12 DEF Notify, Quiet, Worker, At, Request
<1>13. CASE Crash
  BY <1>1, <1>2, <1>13 DEF Crash, Quiet, Worker, At, Inside
<1>14. CASE UNCHANGED vars
  BY <1>14 DEF vars, Quiet, Worker, At
<1>15. QED
  BY <1>5, <1>6, <1>7, <1>8, <1>9, <1>10, <1>11, <1>12, <1>13, <1>14 DEF Next, Handle

-----------------------------------------------------------------------------
(* The parts of the invariant. *)

(* A key has one worker, and its record and its work are that worker's:    *)
(* nobody else starts while it is there, and it takes both with it.        *)
LEMMA WorkStep ==
  ASSUME TypeOK, WorkersHoldTheKey, OneWorker, WorkIsAccounted,
         Quiet \/ \E q \in Attempt : Starts(q) \/ Works(q) \/ Leaves(q)
  PROVE  WorkersHoldTheKey' /\ OneWorker' /\ WorkIsAccounted'
<1>1. /\ reqs \in [Attempt -> Request] /\ records \in [Keys -> Records] /\ done \in [Keys -> BOOLEAN]
      /\ \A q \in Attempt : Key(q) \in Keys
      /\ \A q \in Attempt : Taken(Body(q)) # NoRecord
  BY AttemptTypes DEF TypeOK, Taken, NoRecord
<1>2. CASE Quiet
  <2>1. \A p \in Attempt : Worker(p)' => Worker(p) /\ reqs'[p] = reqs[p]
    BY <1>2 DEF Quiet, Worker
  <2>2. QED
    BY <1>2, <2>1 DEF Quiet, WorkersHoldTheKey, OneWorker, WorkIsAccounted, Worker, At
<1>3. ASSUME NEW q \in Attempt, Starts(q) PROVE WorkersHoldTheKey' /\ OneWorker' /\ WorkIsAccounted'
  <2>1. \A p \in Attempt : Worker(p) => Key(p) # Key(q)
    BY <1>1, <1>3 DEF Starts, WorkersHoldTheKey
  <2>2. \A p \in Attempt : p # q /\ Worker(p)' => Worker(p) /\ reqs'[p] = reqs[p]
    BY <1>3 DEF Starts, Others, Worker
  <2>3. WorkersHoldTheKey' /\ OneWorker'
    BY <1>1, <1>3, <2>1, <2>2 DEF Starts, WorkersHoldTheKey, OneWorker
  <2>4. Taken(Body(q)).state = "taken" /\ ~done[Key(q)]
    BY <1>1, <1>3 DEF Taken, Starts, WorkIsAccounted
  <2>5. QED
    BY <1>1, <1>3, <2>1, <2>2, <2>3, <2>4 DEF Starts, WorkIsAccounted, Worker, At
<1>4. ASSUME NEW q \in Attempt, Works(q) PROVE WorkersHoldTheKey' /\ OneWorker' /\ WorkIsAccounted'
  <2>1. Worker(q) /\ records[Key(q)] = Taken(Body(q))
    BY <1>4 DEF Works, At, Worker, WorkersHoldTheKey
  <2>2. \A p \in Attempt : p # q /\ Worker(p)' => Worker(p) /\ reqs'[p] = reqs[p] /\ Key(p) # Key(q)
    BY <1>4, <2>1 DEF Works, Others, Worker, OneWorker
  <2>3. Worker(q)' /\ records' = records /\ reqs'[q].pc = "finish" /\ reqs'[q].answer \in Recorded \cup {"error"}
    BY <1>4 DEF Works, Worker
  <2>4. WorkersHoldTheKey' /\ OneWorker'
    BY <1>1, <2>1, <2>2, <2>3 DEF WorkersHoldTheKey, OneWorker
  <2>5. /\ \A k \in Keys : k # Key(q) => done'[k] = done[k]
        /\ reqs'[q].answer = "ok" => done'[Key(q)]
    BY <1>1, <1>4 DEF Works
  <2>6. Taken(Body(q)).state = "taken"
    BY DEF Taken
  <2>7. QED
    BY <1>1, <2>1, <2>2, <2>3, <2>4, <2>5, <2>6 DEF WorkIsAccounted, Worker, At
<1>5. ASSUME NEW q \in Attempt, Leaves(q) PROVE WorkersHoldTheKey' /\ OneWorker' /\ WorkIsAccounted'
  <2>1. Worker(q) /\ ~Worker(q)'
    BY <1>5 DEF Leaves, At, Worker
  <2>2. \A p \in Attempt : Worker(p)' => p # q /\ Worker(p) /\ reqs'[p] = reqs[p] /\ Key(p) # Key(q)
    BY <1>5, <2>1 DEF Leaves, Others, Worker, OneWorker
  <2>3. /\ \A k \in Keys : k # Key(q) => records'[k] = records[k] /\ done'[k] = done[k]
        /\ \/ records'[Key(q)] = NoRecord /\ ~done'[Key(q)]
           \/ /\ records'[Key(q)] # NoRecord
              /\ records'[Key(q)].state = "ok" => done'[Key(q)]
    BY <1>1, <1>5 DEF Leaves, NoRecord, Recorded
  <2>4. NoRecord.state # "ok"
    BY DEF NoRecord
  <2>5. WorkersHoldTheKey' /\ OneWorker'
    BY <1>1, <2>2, <2>3 DEF WorkersHoldTheKey, OneWorker
  <2>6. \A k \in Keys : /\ records'[k] = NoRecord => ~done'[k]
                        /\ records'[k].state = "ok" => done'[k]
    BY <2>3, <2>4 DEF WorkIsAccounted
  <2>7. ASSUME NEW p \in Attempt, Worker(p)'
        PROVE  reqs'[p] = reqs[p] /\ done'[Key(p)] = done[Key(p)]
    BY <1>1, <2>2, <2>3, <2>7
  <2>8. \A p \in Attempt : /\ At(p, "execute")' => Worker(p)'
                           /\ At(p, "finish")' => Worker(p)'
    BY DEF At, Worker
  <2>9. \A p \in Attempt : /\ At(p, "execute")' => ~done'[Key(p)]
                           /\ At(p, "finish")' => reqs'[p].answer \in Recorded \cup {"error"}
                           /\ At(p, "finish")' /\ reqs'[p].answer = "ok" => done'[Key(p)]
    BY <2>7, <2>8 DEF WorkIsAccounted, At
  <2>10. QED
    BY <2>5, <2>6, <2>9 DEF WorkIsAccounted
<1>6. QED
  BY <1>2, <1>3, <1>4, <1>5

(* No step takes a recorded answer back, so what callers were told stays    *)
(* what is recorded.                                                       *)
LEMMA ReplyStep ==
  ASSUME TypeOK, WorkersHoldTheKey, RepliesAreRecorded,
         Quiet \/ \E q \in Attempt : Starts(q) \/ Works(q) \/ Leaves(q)
  PROVE  RepliesAreRecorded'
<1>1. /\ reqs \in [Attempt -> Request] /\ records \in [Keys -> Records]
      /\ \A q \in Attempt : Key(q) \in Keys
  BY AttemptTypes DEF TypeOK
<1>2. "taken" \notin Recorded /\ "free" \notin Recorded /\ "error" \notin Recorded
  BY DEF Recorded
<1>3. CASE Quiet
  BY <1>3 DEF Quiet, RepliesAreRecorded, At
<1>4. ASSUME NEW q \in Attempt, Starts(q) \/ Works(q) \/ Leaves(q),
             NEW p \in Attempt, reqs'[p].pc = "replied", reqs'[p].answer \in Recorded
      PROVE  records'[Key(p)] = [state |-> reqs'[p].answer, body |-> Body(p)]
  <2>1. CASE p = q
    <3>1. ~Starts(q)
      BY <1>4, <2>1 DEF Starts
    <3>2. ~Works(q)
      <4>1. Works(q) => reqs'[q].pc = "finish"
        BY DEF Works
      <4>2. QED
        BY <1>4, <2>1, <4>1
    <3>3. Leaves(q)
      BY <1>4, <3>1, <3>2
    <3>4. PICK a \in Recorded : /\ reqs'[q].answer = a
                               /\ records' = [records EXCEPT ![Key(q)] = [state |-> a, body |-> Body(q)]]
      BY <1>2, <1>4, <2>1, <3>3 DEF Leaves, At
    <3>5. QED
      BY <1>1, <2>1, <3>4
  <2>2. CASE p # q
    <3>1. reqs'[p] = reqs[p]
      BY <1>4, <2>2 DEF Starts, Works, Leaves, Others
    <3>2. records[Key(p)] = [state |-> reqs'[p].answer, body |-> Body(p)]
      BY <1>4, <3>1 DEF RepliesAreRecorded, At
    <3>3. records[Key(p)].state \in Recorded
      BY <1>4, <3>2
    <3>4. Works(q) \/ Leaves(q) => records[Key(q)] = Taken(Body(q))
      BY DEF Works, Leaves, At, Worker, WorkersHoldTheKey
    <3>5. Taken(Body(q)).state = "taken" /\ NoRecord.state = "free"
      BY DEF Taken, NoRecord
    <3>6. CASE Works(q)
      BY <3>2, <3>6 DEF Works
    <3>7. CASE Starts(q) \/ Leaves(q)
      <4>1. Key(p) # Key(q)
        BY <1>2, <3>3, <3>4, <3>5, <3>7 DEF Starts
      <4>2. records'[Key(p)] = records[Key(p)]
        BY <1>1, <3>7, <4>1 DEF Starts, Leaves
      <4>3. QED
        BY <3>2, <4>2
    <3>8. QED
      BY <1>4, <3>6, <3>7
  <2>3. QED
    BY <2>1, <2>2
<1>5. QED
  BY <1>3, <1>4 DEF RepliesAreRecorded, At

(* What the end of an attempt makes of its call. *)
LEMMA EndOrRow ==
  ASSUME calls \in [Callers -> Call], NEW c \in Callers, Receive(c) \/ TransportError(c)
  PROVE  /\ \A d \in Callers : d # c => calls'[d] = calls[d]
         /\ calls'[c].attempt = calls[c].attempt /\ calls'[c].pc \in {"send", "ended"}
         /\ calls'[c].pc = "send" => calls[c].attempt < MaxSends[c]
<1>1. calls[c] \in Call
  OBVIOUS
<1>2. /\ \A d \in Callers : d # c => calls'[d] = calls[d]
      /\ \/ /\ calls[c].attempt < MaxSends[c]
            /\ calls'[c] = [calls[c] EXCEPT !.pc = "send"]
         \/ \E result : calls'[c] = [calls[c] EXCEPT !.pc = "ended", !.result = result]
  BY DEF Receive, TransportError, EndOr
<1>3. QED
  BY <1>1, <1>2 DEF Call

(* The SDK numbers its attempts and sends each of them once. *)
LEMMA CallsStep ==
  ASSUME TypeOK, CallsCounted, UnsentIsNowhere, [Next]_vars
  PROVE  CallsCounted' /\ UnsentIsNowhere'
<1>1. /\ calls \in [Callers -> Call] /\ reqs \in [Attempt -> Request]
      /\ \A c \in Callers : MaxSends[c] \in Nat \ {0}
  BY RequestsAssumption DEF TypeOK
<1>2. ASSUME NEW c \in Callers, Send(c) \/ Receive(c) \/ TransportError(c)
      PROVE  CallsCounted' /\ UnsentIsNowhere'
  <2>1. /\ \A d \in Callers : d # c => calls'[d] = calls[d]
        /\ calls'[c].attempt \in {calls[c].attempt, calls[c].attempt + 1}
        /\ calls'[c].attempt \in 0..MaxSends[c]
        /\ calls'[c].pc = "send" => calls'[c].attempt < MaxSends[c]
        /\ calls'[c].pc = "wait" => calls'[c].attempt > 0
    <3>1. calls[c] \in Call /\ calls[c].attempt \in 0..MaxSends[c] /\ MaxSends[c] \in Nat
      BY <1>1 DEF CallsCounted
    <3>2. CASE Send(c)
      <4>1. calls'[c] = [calls[c] EXCEPT !.pc = "wait", !.attempt = calls[c].attempt + 1]
            /\ \A d \in Callers : d # c => calls'[d] = calls[d]
        BY <1>1, <3>2 DEF Send
      <4>2. calls[c].attempt < MaxSends[c]
        BY <3>2 DEF Send, CallsCounted
      <4>3. QED
        BY <3>1, <4>1, <4>2 DEF Call
    <3>3. CASE Receive(c) \/ TransportError(c)
      BY <1>1, <3>1, <3>3, EndOrRow
    <3>4. QED
      BY <1>2, <3>2, <3>3
  <2>2. CallsCounted'
    BY <2>1 DEF CallsCounted
  <2>3. ASSUME NEW d \in Callers, NEW n \in 1..MaxSends[d], n > calls'[d].attempt
        PROVE  reqs'[<<d, n>>] = reqs[<<d, n>>]
    <3>1. <<d, n>> \in Attempt /\ calls[c].attempt \in Nat
      BY <1>1, AttemptTypes DEF Call
    <3>2. d = c => n > calls[c].attempt
      BY <2>1, <2>3, <3>1
    <3>3. CASE Send(c)
      <4>1. d = c => n # calls[c].attempt + 1
        BY <1>1, <2>3, <3>1, <3>3 DEF Send, Call
      <4>2. QED
        BY <1>1, <3>1, <3>3, <4>1 DEF Send, Goto
    <3>4. CASE Receive(c) \/ TransportError(c)
      <4>1. <<d, n>> # <<c, calls[c].attempt>>
        BY <3>1, <3>2
      <4>2. QED
        BY <1>1, <3>1, <3>4, <4>1 DEF Receive, TransportError
    <3>5. QED
      BY <1>2, <3>3, <3>4
  <2>4. \A d \in Callers : \A n \in 1..MaxSends[d] : n > calls'[d].attempt => n > calls[d].attempt
    BY <1>1, <2>1 DEF Call
  <2>5. UnsentIsNowhere'
    BY <2>3, <2>4 DEF UnsentIsNowhere, At
  <2>6. QED
    BY <2>2, <2>5
<1>3. ASSUME calls' = calls, \A q \in Attempt : At(q, "none") => At(q, "none")'
      PROVE  CallsCounted' /\ UnsentIsNowhere'
  BY <1>3, AttemptTypes DEF CallsCounted, UnsentIsNowhere
<1>4. ASSUME NEW q \in Attempt, ~At(q, "none"), Others(q), calls' = calls
      PROVE  CallsCounted' /\ UnsentIsNowhere'
  BY <1>3, <1>4 DEF Others, At
<1>5. ASSUME NEW q \in Attempt,
             \/ RateLimited(q) \/ ServerBusy(q) \/ Enter(q) \/ Handle(q)
             \/ FinishFails(q) \/ BeginFails(q) \/ Cancel(q)
      PROVE  ~At(q, "none") /\ Others(q) /\ calls' = calls
  <2>1. ~At(q, "none") /\ calls' = calls
    BY <1>5 DEF RateLimited, ServerBusy, Enter, Handle, FinishFails, BeginFails, Cancel, Begin,
                Check, WaitTimesOut, Execute, Finish, At, Inside
  <2>2. \A pc : Goto(q, pc) => Others(q)
    BY <1>1 DEF Goto, Others
  <2>3. \A a : reqs' = Settled(q, a) => Others(q)
    BY <1>1, SettledRow
  <2>4. Execute(q) \/ Cancel(q) => Others(q)
    BY <1>1 DEF Execute, Cancel, Others
  <2>5. QED
    BY <1>5, <2>1, <2>2, <2>3, <2>4 DEF RateLimited, ServerBusy, Enter, Handle, FinishFails,
       BeginFails, Begin, Check, WaitTimesOut, Finish, Reply
<1>6. ASSUME NEW k \in Keys, Notify(k) PROVE CallsCounted' /\ UnsentIsNowhere'
  BY <1>1, <1>3, <1>6 DEF Notify, At
<1>7. CASE Crash
  BY <1>1, <1>3, <1>7 DEF Crash, At, Inside
<1>8. CASE UNCHANGED vars
  BY <1>3, <1>8 DEF vars, At
<1>9. QED
  BY <1>2, <1>4, <1>5, <1>6, <1>7, <1>8 DEF Next

(* A handler parks only on a key that is taken, and the step that ends      *)
(* that schedules the wake-up of everybody parked on it.                   *)
LEMMA WakeStep ==
  ASSUME TypeOK, WorkersHoldTheKey, WorkIsAccounted, NoLostWakeup, [Next]_vars
  PROVE  NoLostWakeup'
<1>1. reqs \in [Attempt -> Request] /\ records \in [Keys -> Records]
      /\ \A q \in Attempt : Key(q) \in Keys
  BY AttemptTypes DEF TypeOK
<1>2. ASSUME \A p \in Attempt : At(p, "parked")' => At(p, "parked") \/ records[Key(p)].state = "taken",
             \A k \in Keys : \/ records'[k] = records[k]
                             \/ records'[k].state = "taken"
                             \/ k \in notices',
             notices \subseteq notices'
      PROVE  NoLostWakeup'
  BY <1>1, <1>2 DEF NoLostWakeup
<1>3. ASSUME NEW q \in Attempt, Others(q), ~At(q, "parked")' \/ records[Key(q)].state = "taken"
      PROVE  \A p \in Attempt : At(p, "parked")' => At(p, "parked") \/ records[Key(p)].state = "taken"
  BY <1>3 DEF Others, At
<1>4. ASSUME NEW q \in Attempt, NEW a, reqs' = Settled(q, a)
      PROVE  Others(q) /\ ~At(q, "parked")'
  <2>1. Others(q) /\ (\/ reqs'[q] = [pc |-> "replied", answer |-> a]
                      \/ reqs'[q] = [pc |-> "gone", answer |-> "none"])
    BY <1>1, <1>4, SettledRow
  <2>2. QED
    BY <2>1 DEF At
<1>5. ASSUME NEW q \in Attempt, NEW pc, Goto(q, pc)
      PROVE  Others(q) /\ At(q, pc)'
  BY <1>1, <1>5 DEF Goto, Others, At, Request
<1>6. ASSUME NEW c \in Callers, Send(c) \/ Receive(c) \/ TransportError(c) PROVE NoLostWakeup'
  <2>1. records' = records /\ notices' = notices
    BY <1>6 DEF Send, Receive, TransportError
  <2>2. \A p \in Attempt : At(p, "parked")' => At(p, "parked")
    <3>1. CASE Send(c)
      BY <1>1, <3>1 DEF Send, Goto, At, Request
    <3>2. CASE Receive(c)
      BY <1>1, <3>2 DEF Receive, At
    <3>3. CASE TransportError(c)
      BY <1>1, <3>3 DEF TransportError, At
    <3>4. QED
      BY <1>6, <3>1, <3>2, <3>3
  <2>3. QED
    BY <1>2, <2>1, <2>2
<1>7. ASSUME NEW q \in Attempt,
             \/ RateLimited(q) \/ ServerBusy(q) \/ Enter(q) \/ Begin(q) \/ WaitTimesOut(q)
             \/ Execute(q) \/ Finish(q) \/ FinishFails(q) \/ BeginFails(q) \/ Cancel(q)
      PROVE  NoLostWakeup'
  <2>1. Others(q) /\ ~At(q, "parked")'
    <3>1. Execute(q) \/ Cancel(q) => Others(q) /\ ~At(q, "parked")'
      BY <1>1 DEF Execute, Cancel, Others, At
    <3>2. \A pc \in {"entered", "execute", "checking"} : Goto(q, pc) => Others(q) /\ ~At(q, "parked")'
      BY <1>5 DEF At
    <3>3. QED
      BY <1>4, <1>7, <3>1, <3>2 DEF RateLimited, ServerBusy, Enter, Begin, WaitTimesOut, Finish,
         FinishFails, BeginFails, Reply
  <2>2. /\ notices \subseteq notices'
        /\ \A k \in Keys : \/ records'[k] = records[k] \/ records'[k].state = "taken"
                           \/ k \in notices'
    <3>1. CASE Finish(q) \/ FinishFails(q)
      BY <1>1, <3>1 DEF Finish, FinishFails, Record, Abort
    <3>2. CASE Begin(q)
      BY <1>1, <3>2 DEF Begin, Taken
    <3>3. CASE ~(Finish(q) \/ FinishFails(q) \/ Begin(q))
      BY <1>7, <3>3 DEF RateLimited, ServerBusy, Enter, WaitTimesOut, Execute, BeginFails, Cancel
    <3>4. QED
      BY <3>1, <3>2, <3>3
  <2>3. QED
    BY <1>2, <1>3, <2>1, <2>2
<1>8. ASSUME NEW q \in Attempt, Check(q) PROVE NoLostWakeup'
  <2>1. Others(q) /\ (~At(q, "parked")' \/ records[Key(q)].state = "taken")
    BY <1>1, <1>4, <1>5, <1>8, ReadTypes DEF Check, Reply
  <2>2. QED
    BY <1>2, <1>3, <1>8, <2>1 DEF Check
<1>9. ASSUME NEW k \in Keys, Notify(k) PROVE NoLostWakeup'
  <2>1. records' = records /\ notices' = notices \ {k}
    BY <1>9 DEF Notify
  <2>2. \A p \in Attempt : At(p, "parked")' => At(p, "parked") /\ Key(p) # k
    BY <1>1, <1>9 DEF Notify, At, Request
  <2>3. QED
    BY <2>1, <2>2 DEF NoLostWakeup
<1>10. CASE Crash
  <2>1. \A p \in Attempt : ~At(p, "parked")'
    BY <1>1, <1>10 DEF Crash, At, Inside
  <2>2. QED
    BY <2>1 DEF NoLostWakeup
<1>11. CASE UNCHANGED vars
  BY <1>2, <1>11 DEF vars, At
<1>12. QED
  BY <1>6, <1>7, <1>8, <1>9, <1>10, <1>11 DEF Next, Handle

(* Every way in and out of the middleware moves one request and the        *)
(* counter with it.                                                        *)
LEMMA SlotsStep ==
  ASSUME TypeOK, CallsCounted, UnsentIsNowhere, SlotsCounted, [Next]_vars
  PROVE  SlotsCounted'
<1>1. reqs \in [Attempt -> Request]
  BY DEF TypeOK
<1>2. ASSUME Insiders' = Insiders, active' = active PROVE SlotsCounted'
  BY <1>2 DEF SlotsCounted
<1>3. ASSUME NEW q \in Attempt, Others(q), reqs[q].pc \in Inside, reqs'[q].pc \in Inside,
             active' = active
      PROVE  SlotsCounted'
  <2>1. Insiders' = Insiders
    BY <1>3 DEF Insiders, Others
  <2>2. QED
    BY <1>2, <1>3, <2>1
<1>4. ASSUME NEW q \in Attempt, Others(q), reqs[q].pc \notin Inside, reqs'[q].pc \notin Inside,
             active' = active
      PROVE  SlotsCounted'
  <2>1. Insiders' = Insiders
    BY <1>4 DEF Insiders, Others
  <2>2. QED
    BY <1>2, <1>4, <2>1
<1>5. ASSUME NEW q \in Attempt, Others(q), reqs[q].pc \in Inside, reqs'[q].pc \notin Inside,
             active' = active - 1
      PROVE  SlotsCounted'
  <2>1. Insiders' = Insiders \ {q} /\ q \in Insiders
    BY <1>5 DEF Insiders, Others
  <2>2. QED
    BY <1>5, <2>1, FS_RemoveElement DEF SlotsCounted
<1>6. ASSUME NEW q \in Attempt, NEW a, reqs' = Settled(q, a)
      PROVE  Others(q) /\ reqs'[q].pc \notin Inside
  <2>1. Others(q) /\ (\/ reqs'[q] = [pc |-> "replied", answer |-> a]
                      \/ reqs'[q] = [pc |-> "gone", answer |-> "none"])
    BY <1>1, <1>6, SettledRow
  <2>2. QED
    BY <2>1 DEF Inside
<1>7. ASSUME NEW q \in Attempt, NEW pc, Goto(q, pc)
      PROVE  Others(q) /\ reqs'[q].pc = pc
  BY <1>1, <1>7 DEF Goto, Others, Request
<1>8. ASSUME NEW q \in Attempt, NEW a, reqs[q].pc \in Inside, Reply(q, a) PROVE SlotsCounted'
  BY <1>5, <1>6, <1>8 DEF Reply
<1>9. ASSUME NEW c \in Callers, Send(c) \/ Receive(c) \/ TransportError(c) PROVE SlotsCounted'
  <2>1. active' = active
    BY <1>9 DEF Send, Receive, TransportError
  <2>2. CASE Send(c)
    <3>1. <<c, calls[c].attempt + 1>> \in Attempt /\ At(<<c, calls[c].attempt + 1>>, "none")
      <4>1. calls[c].attempt + 1 \in 1..MaxSends[c] /\ calls[c].attempt + 1 > calls[c].attempt
        BY <2>2, RequestsAssumption DEF Send, CallsCounted
      <4>2. QED
        BY <4>1, AttemptTypes DEF UnsentIsNowhere
    <3>2. QED
      BY <1>4, <1>7, <2>1, <2>2, <3>1 DEF Send, At, Inside
  <2>3. CASE Receive(c)
    <3>1. Insiders' = Insiders
      BY <1>1, <2>3 DEF Receive, Insiders, At, Inside
    <3>2. QED
      BY <1>2, <2>1, <3>1
  <2>4. CASE TransportError(c)
    <3>1. Insiders' = Insiders
      BY <1>1, <2>4 DEF TransportError, Insiders, At, Inside
    <3>2. QED
      BY <1>2, <2>1, <3>1
  <2>5. QED
    BY <1>9, <2>2, <2>3, <2>4
<1>10. ASSUME NEW q \in Attempt, RateLimited(q) \/ ServerBusy(q) PROVE SlotsCounted'
  BY <1>4, <1>6, <1>10 DEF RateLimited, ServerBusy, At, Inside
<1>11. ASSUME NEW q \in Attempt, Enter(q) PROVE SlotsCounted'
  <2>1. Others(q) /\ reqs'[q].pc = "entered" /\ reqs[q].pc = "sent" /\ active' = active + 1
    BY <1>7, <1>11 DEF Enter, At
  <2>2. Insiders' = Insiders \cup {q} /\ q \notin Insiders
    BY <2>1 DEF Insiders, Others, Inside
  <2>3. QED
    BY <2>1, <2>2, FS_AddElement DEF SlotsCounted
<1>12. ASSUME NEW q \in Attempt, Begin(q) \/ Check(q) PROVE SlotsCounted'
  <2>1. reqs[q].pc \in Inside
    BY <1>12 DEF Begin, Check, At, Inside
  <2>2. \/ active' = active /\ (Goto(q, "execute") \/ Goto(q, "checking") \/ Goto(q, "parked"))
        \/ Reply(q, ReadRecord(q))
    BY <1>12 DEF Begin, Check
  <2>3. CASE active' = active /\ (Goto(q, "execute") \/ Goto(q, "checking") \/ Goto(q, "parked"))
    <3>1. Others(q) /\ reqs'[q].pc \in Inside
      BY <1>7, <2>3 DEF Inside
    <3>2. QED
      BY <1>3, <2>1, <2>3, <3>1
  <2>4. QED
    BY <1>8, <2>1, <2>2, <2>3
<1>13. ASSUME NEW q \in Attempt, Execute(q) PROVE SlotsCounted'
  BY <1>1, <1>3, <1>13 DEF Execute, Others, At, Inside
<1>14. ASSUME NEW q \in Attempt, WaitTimesOut(q) \/ Finish(q) \/ FinishFails(q) \/ BeginFails(q)
       PROVE  SlotsCounted'
  <2>1. reqs[q].pc \in Inside
    BY <1>14 DEF WaitTimesOut, Finish, FinishFails, BeginFails, At, Inside
  <2>2. QED
    BY <1>8, <1>14, <2>1 DEF WaitTimesOut, Finish, FinishFails, BeginFails
<1>15. ASSUME NEW q \in Attempt, Cancel(q) PROVE SlotsCounted'
  BY <1>1, <1>5, <1>15 DEF Cancel, Others, Inside
<1>16. ASSUME NEW k \in Keys, Notify(k) PROVE SlotsCounted'
  <2>1. Insiders' = Insiders
    BY <1>1, <1>16 DEF Notify, Insiders, At, Inside, Request
  <2>2. QED
    BY <1>2, <1>16, <2>1 DEF Notify
<1>17. CASE Crash
  <2>1. Insiders' = {} /\ active' = 0
    BY <1>1, <1>17 DEF Crash, Insiders, Inside
  <2>2. QED
    BY <2>1, FS_EmptySet DEF SlotsCounted
<1>18. CASE UNCHANGED vars
  BY <1>2, <1>18 DEF vars, Insiders
<1>19. QED
  BY <1>9, <1>10, <1>11, <1>12, <1>13, <1>14, <1>15, <1>16, <1>17, <1>18 DEF Next, Handle

-----------------------------------------------------------------------------
(* The inductive invariant. *)

(* Nothing has been sent, claimed or counted at the start. *)
LEMMA InitStep == Init => IInv
<1>1. SUFFICES ASSUME Init PROVE IInv
  OBVIOUS
<1>2. /\ calls = [c \in Callers |-> [pc |-> "send", attempt |-> 0, result |-> "none"]]
      /\ reqs = [q \in Attempt |-> [pc |-> "none", answer |-> "none"]]
      /\ records = [k \in Keys |-> NoRecord] /\ done = [k \in Keys |-> FALSE]
      /\ notices = {} /\ active = 0 /\ faults = 0
  BY <1>1 DEF Init
<1>3. TypeOK
  BY <1>2, RequestsAssumption DEF TypeOK, Call, Request, Records
<1>4. CallsCounted
  BY <1>2, RequestsAssumption DEF CallsCounted
<1>5. UnsentIsNowhere
  BY <1>2, AttemptTypes DEF UnsentIsNowhere, At
<1>6. Insiders = {}
  BY <1>2 DEF Insiders, Inside
<1>7. SlotsCounted
  BY <1>2, <1>6, FS_EmptySet DEF SlotsCounted
<1>8. \A q \in Attempt : reqs[q].pc = "none"
  BY <1>2
<1>9. WorkIsAccounted
  BY <1>2, <1>8 DEF WorkIsAccounted, At, NoRecord
<1>10. WorkersHoldTheKey /\ OneWorker /\ RepliesAreRecorded /\ NoLostWakeup
  BY <1>8 DEF WorkersHoldTheKey, OneWorker, RepliesAreRecorded, NoLostWakeup, Worker, At
<1>11. QED
  BY <1>3, <1>4, <1>5, <1>7, <1>9, <1>10 DEF IInv

(* Every step of a caller, of a request and of the process keeps it. *)
LEMMA NextStep == IInv /\ [Next]_vars => IInv'
<1>1. SUFFICES ASSUME IInv, [Next]_vars PROVE IInv'
  OBVIOUS
<1>2. /\ TypeOK /\ WorkersHoldTheKey /\ OneWorker /\ WorkIsAccounted /\ RepliesAreRecorded
      /\ NoLostWakeup /\ CallsCounted /\ UnsentIsNowhere /\ SlotsCounted
  BY <1>1 DEF IInv
<1>3. Quiet \/ \E q \in Attempt : Starts(q) \/ Works(q) \/ Leaves(q)
  BY <1>1, <1>2, Kinds
<1>4. TypeOK'
  BY <1>1, <1>2, TypeStep
<1>5. WorkersHoldTheKey' /\ OneWorker' /\ WorkIsAccounted'
  BY <1>2, <1>3, WorkStep
<1>6. RepliesAreRecorded'
  BY <1>2, <1>3, ReplyStep
<1>7. CallsCounted' /\ UnsentIsNowhere'
  BY <1>1, <1>2, CallsStep
<1>8. NoLostWakeup'
  BY <1>1, <1>2, WakeStep
<1>9. SlotsCounted'
  BY <1>1, <1>2, SlotsStep
<1>10. QED
  BY <1>4, <1>5, <1>6, <1>7, <1>8, <1>9 DEF IInv

(* The inductive invariant of the idempotency wrapper and the admission     *)
(* middleware, for any calls, keys, bodies, limits and number of faults.   *)
THEOREM RequestsInvariant == Spec => []IInv
BY InitStep, NextStep, PTL DEF Spec

(* Calls, attempts and records keep their types, and the counter of the     *)
(* middleware stays between zero and its limit.                            *)
THEOREM RequestsTypes == Spec => []TypeOK
<1>1. IInv => TypeOK
  BY DEF IInv
<1>2. QED
  BY <1>1, RequestsInvariant, PTL

(* Behind an Idempotency-Key at most one request is at work (_idempotent    *)
(* runs execute() only after begin answered NEW).                          *)
THEOREM RequestsOneWorker == Spec => []OneWorker
<1>1. IInv => OneWorker
  BY DEF IInv
<1>2. QED
  BY <1>1, RequestsInvariant, PTL

(* An answer of the endpoint on its way to a caller is the recorded one.   *)
THEOREM RequestsRepliesRecorded == Spec => []RepliesAreRecorded
<1>1. IInv => RepliesAreRecorded
  BY DEF IInv
<1>2. QED
  BY <1>1, RequestsInvariant, PTL

(* wait_for_idempotent_response: whoever sleeps on a settled key is about   *)
(* to be woken.                                                            *)
THEOREM RequestsNoLostWakeup == Spec => []NoLostWakeup
<1>1. IInv => NoLostWakeup
  BY DEF IInv
<1>2. QED
  BY <1>1, RequestsInvariant, PTL

(* ServiceMetrics counts exactly the requests that are inside.             *)
THEOREM RequestsSlotsBalanced == Spec => []SlotsBalanced
<1>1. IInv => SlotsBalanced
  BY DEF IInv, SlotsCounted, SlotsBalanced, Insiders
<1>2. QED
  BY <1>1, RequestsInvariant, PTL

-----------------------------------------------------------------------------
(* The refinement. *)

KeyState == [k \in Keys |-> records[k].state]

(* Quiet steps stutter; the worker's steps are the steps of the promise.   *)
LEMMA OnceStep == IInv /\ [Next]_vars => [Once!Next]_<<KeyState, done>>
<1>1. SUFFICES ASSUME IInv, [Next]_vars PROVE [Once!Next]_<<KeyState, done>>
  OBVIOUS
<1>2. /\ TypeOK /\ WorkersHoldTheKey /\ WorkIsAccounted
      /\ records \in [Keys -> Records] /\ done \in [Keys -> BOOLEAN]
  BY <1>1 DEF IInv, TypeOK
<1>3. Quiet \/ \E q \in Attempt : Starts(q) \/ Works(q) \/ Leaves(q)
  BY <1>1, Kinds DEF IInv
<1>4. CASE Quiet
  BY <1>4 DEF Quiet, KeyState
<1>5. ASSUME NEW q \in Attempt, Starts(q) PROVE Once!Take(Key(q)) /\ Key(q) \in Keys
  <2>1. Key(q) \in Keys /\ NoRecord.state = "free" /\ Taken(Body(q)).state = "taken"
    BY AttemptTypes DEF NoRecord, Taken
  <2>2. KeyState' = [KeyState EXCEPT ![Key(q)] = "taken"]
    BY <1>2, <1>5, <2>1 DEF Starts, KeyState
  <2>3. KeyState[Key(q)] = "free"
    BY <1>5, <2>1 DEF Starts, KeyState
  <2>4. QED
    BY <1>5, <2>1, <2>2, <2>3 DEF Starts, Once!Take, KeyState
<1>6. ASSUME NEW q \in Attempt, Works(q)
      PROVE  UNCHANGED <<KeyState, done>> \/ (Once!Do(Key(q)) /\ Key(q) \in Keys)
  <2>1. Key(q) \in Keys
    BY AttemptTypes
  <2>2. records[Key(q)].state = "taken" /\ ~done[Key(q)]
    <3>1. Worker(q) /\ At(q, "execute")
      BY <1>6 DEF Works, At, Worker
    <3>2. records[Key(q)] = Taken(Body(q)) /\ ~done[Key(q)]
      BY <1>2, <3>1 DEF WorkersHoldTheKey, WorkIsAccounted
    <3>3. QED
      BY <3>2 DEF Taken
  <2>3. KeyState' = KeyState /\ KeyState[Key(q)] = "taken"
    BY <1>6, <2>1, <2>2 DEF Works, KeyState
  <2>4. PICK work \in BOOLEAN : done' = [done EXCEPT ![Key(q)] = work]
    BY <1>6 DEF Works
  <2>5. CASE work = FALSE
    BY <1>2, <2>1, <2>2, <2>3, <2>4, <2>5
  <2>6. CASE work = TRUE
    BY <2>1, <2>2, <2>3, <2>4, <2>6 DEF Once!Do, KeyState
  <2>7. QED
    BY <2>4, <2>5, <2>6
<1>7. ASSUME NEW q \in Attempt, Leaves(q)
      PROVE  /\ Key(q) \in Keys
             /\ Once!Release(Key(q)) \/ \E a \in Recorded : Once!Answer(Key(q), a)
  <2>1. Key(q) \in Keys /\ NoRecord.state = "free"
    BY AttemptTypes DEF NoRecord
  <2>2. KeyState[Key(q)] = "taken"
    <3>1. records[Key(q)] = Taken(Body(q))
      BY <1>2, <1>7 DEF Leaves, At, Worker, WorkersHoldTheKey
    <3>2. QED
      BY <2>1, <3>1 DEF Taken, KeyState
  <2>3. CASE /\ records' = [records EXCEPT ![Key(q)] = NoRecord]
             /\ done' = [done EXCEPT ![Key(q)] = FALSE]
    <3>1. KeyState' = [KeyState EXCEPT ![Key(q)] = "free"]
      BY <1>2, <2>1, <2>3 DEF KeyState
    <3>2. QED
      BY <2>1, <2>2, <2>3, <3>1 DEF Once!Release, KeyState
  <2>4. ASSUME NEW a \in Recorded, a = "ok" => done[Key(q)], done' = done,
               records' = [records EXCEPT ![Key(q)] = [state |-> a, body |-> Body(q)]]
        PROVE  Once!Answer(Key(q), a)
    <3>1. KeyState' = [KeyState EXCEPT ![Key(q)] = a]
      BY <1>2, <2>1, <2>4 DEF KeyState
    <3>2. QED
      BY <2>2, <2>4, <3>1 DEF Once!Answer, KeyState
  <2>5. QED
    BY <1>7, <2>1, <2>3, <2>4 DEF Leaves
<1>8. QED
  BY <1>3, <1>4, <1>5, <1>6, <1>7 DEF Once!Next

(* The records keep the promise of an Idempotency-Key: the work behind a    *)
(* key is done at most once while the key is taken, and an answer is final.*)
THEOREM RequestsImplementOncePerKey == Spec => ImplementsOncePerKey
<1>1. Init => Once!Init
  BY DEF Init, Once!Init, NoRecord
<1>2. IInv /\ [Next]_vars => [Once!Next]_<<KeyState, done>>
  BY OnceStep
<1>3. QED
  BY <1>1, <1>2, RequestsInvariant, PTL
     DEF Spec, ImplementsOncePerKey, Once!Spec, Once!keyVars, KeyState
=============================================================================
