------------------------------ MODULE Requests ------------------------------
(***************************************************************************)
(* A mutating request on its way from the SDK to the store and back: the   *)
(* retry loop of the SDK (client.py, _request), the admission middleware   *)
(* (hardening.py) and the idempotency wrapper every such endpoint runs in  *)
(* (app.py, _idempotent) over the records of the store.                    *)
(*                                                                         *)
(* Requests and answers may be lost or late: a caller that gives an        *)
(* attempt up sends the next one while the first is still being handled.   *)
(* Handlers share one event loop and are interleaved where they are        *)
(* suspended.  What the endpoint does is abstracted to its outcome: it     *)
(* does its work and returns, raises an APIProblem, or raises anything     *)
(* else; a problem may be one the SDK retries (429, 503).                  *)
(***************************************************************************)
EXTENDS Naturals, FiniteSets

CONSTANTS
  Callers,      \* SDK calls; each makes one request, in several attempts
  KeyOf, BodyOf,     \* the Idempotency-Key and the fingerprint of each call
  MaxSends,     \* max_transport_retries + 1 of each call's client
  MaxActive,    \* max_concurrent_requests
  MaxFaults     \* bound: crashes, cancellations and failing writes

Keys   == {KeyOf[c] : c \in Callers}
Bodies == {BodyOf[c] : c \in Callers}
ASSUME RequestsAssumption ==
  MaxSends \in [Callers -> Nat \ {0}] /\ MaxActive \in Nat \ {0} /\ MaxFaults \in Nat
Attempt == UNION {{c} \X (1..MaxSends[c]) : c \in Callers}

VARIABLES
  calls,     \* the SDK side: attempt in progress and how the call ended
  reqs,      \* the server side: where each attempt's handler is
  records,   \* the idempotency records (durable)
  done,      \* has the work behind a key been done since its record exists?
  notices,   \* keys whose waiters a scheduled task will wake
  active,    \* requests inside, as ServiceMetrics counts them
  faults

vars == <<calls, reqs, records, done, notices, active, faults>>

Recorded == {"ok", "refused", "busy"}   \* 2xx; 4xx; 429 or 503 as an APIProblem
Answer   == Recorded \cup {"rate_limited", "server_busy", "key_reused", "in_progress", "error"}
Retried  == {"busy", "rate_limited", "server_busy"}   \* _should_retry_response
Inside   == {"entered", "execute", "finish", "checking", "parked"}

NoRecord == [state |-> "free"]
Taken(body) == [state |-> "taken", body |-> body]

Call    == [pc: {"send", "wait", "ended"}, attempt: Nat, result: Answer \cup {"none", "transport"}]
Request == [pc: {"none", "sent", "replied", "gone"} \cup Inside, answer: Answer \cup {"none"}]
Records == {NoRecord} \cup [state: {"taken"} \cup Recorded, body: Bodies]

TypeOK ==
  /\ calls \in [Callers -> Call] /\ reqs \in [Attempt -> Request]
  /\ records \in [Keys -> Records] /\ done \in [Keys -> BOOLEAN]
  /\ notices \subseteq Keys /\ active \in 0..MaxActive /\ faults \in 0..MaxFaults

Init ==
  /\ calls = [c \in Callers |-> [pc |-> "send", attempt |-> 0, result |-> "none"]]
  /\ reqs = [q \in Attempt |-> [pc |-> "none", answer |-> "none"]]
  /\ records = [k \in Keys |-> NoRecord]
  /\ done = [k \in Keys |-> FALSE]
  /\ notices = {} /\ active = 0 /\ faults = 0

Key(q)  == KeyOf[q[1]]
Body(q) == BodyOf[q[1]]
At(q, pc) == reqs[q].pc = pc

Goto(q, pc) == reqs' = [reqs EXCEPT ![q].pc = pc]
(* An answer to an attempt its caller has given up reaches nobody. *)
Awaited(q) == calls[q[1]].pc = "wait" /\ calls[q[1]].attempt = q[2]
Settled(q, a) ==
  [reqs EXCEPT ![q] = IF Awaited(q) THEN [pc |-> "replied", answer |-> a]
                                    ELSE [pc |-> "gone", answer |-> "none"]]
(* The middleware leaves in a finally clause, whatever comes back. *)
Reply(q, a) == reqs' = Settled(q, a) /\ active' = active - 1
Fault == faults < MaxFaults /\ faults' = faults + 1

-----------------------------------------------------------------------------
(* The SDK. *)

Send(c) ==
  LET n == calls[c].attempt + 1
  IN  /\ calls[c].pc = "send"
      /\ calls' = [calls EXCEPT ![c].pc = "wait", ![c].attempt = n]
      /\ Goto(<<c, n>>, "sent")
      /\ UNCHANGED <<records, done, notices, active, faults>>

EndOr(c, retry, result) ==
  calls' = [calls EXCEPT ![c] =
              IF retry /\ @.attempt < MaxSends[c] THEN [@ EXCEPT !.pc = "send"]
              ELSE [@ EXCEPT !.pc = "ended", !.result = result]]

Receive(c) ==
  LET q == <<c, calls[c].attempt>>
  IN  /\ calls[c].pc = "wait" /\ At(q, "replied")
      /\ EndOr(c, reqs[q].answer \in Retried, reqs[q].answer)
      /\ reqs' = [reqs EXCEPT ![q] = [pc |-> "gone", answer |-> "none"]]
      /\ UNCHANGED <<records, done, notices, active, faults>>

(* A timeout, or a lost request or answer: a request still "sent" is lost   *)
(* or arrives later, and a handler goes on regardless.                      *)
TransportError(c) ==
  LET q == <<c, calls[c].attempt>>
  IN  /\ calls[c].pc = "wait"
      /\ EndOr(c, TRUE, "transport")
      /\ reqs' = [reqs EXCEPT ![q] = IF @.pc = "replied" THEN [pc |-> "gone", answer |-> "none"]
                                     ELSE @]
      /\ UNCHANGED <<records, done, notices, active, faults>>

-----------------------------------------------------------------------------
(* Defective variants of the definitions below (see the README). *)
BeginTwice(q) ==
  LET r == records[Key(q)]
  IN  /\ At(q, "entered")
      /\ IF r.state \in {"free", "taken"}
           THEN /\ records' = [records EXCEPT ![Key(q)] = Taken(Body(q))]
                /\ Goto(q, "execute")
                /\ UNCHANGED active
           ELSE /\ Reply(q, r.state)
                /\ UNCHANGED records
      /\ UNCHANGED <<calls, done, notices, faults>>

RecordAndKeepSilent(q, a) ==
  /\ records' = [records EXCEPT ![Key(q)].state = a]
  /\ UNCHANGED <<done, notices>>

ReadRecordAnyBody(q) ==
  IF records[Key(q)] = NoRecord THEN "in_progress" ELSE records[Key(q)].state

CancelKeepingSlot(q) ==
  /\ reqs[q].pc \in Inside
  /\ reqs' = [reqs EXCEPT ![q] = [pc |-> "gone", answer |-> "none"]]
  /\ Fault
  /\ UNCHANGED <<calls, records, done, notices, active>>

WaitsOn(q) ==
  /\ At(q, "parked")
  /\ Goto(q, "checking")
  /\ UNCHANGED <<calls, records, done, notices, active, faults>>

-----------------------------------------------------------------------------
(* The middleware: both limits answer before a record exists.  The windows  *)
(* of the rate limiters are abstracted: any request may meet a full one.    *)

RateLimited(q) ==
  /\ At(q, "sent")
  /\ reqs' = Settled(q, "rate_limited")
  /\ UNCHANGED <<calls, records, done, notices, active, faults>>

ServerBusy(q) ==
  /\ At(q, "sent") /\ active >= MaxActive
  /\ reqs' = Settled(q, "server_busy")
  /\ UNCHANGED <<calls, records, done, notices, active, faults>>

Enter(q) ==
  /\ At(q, "sent") /\ active < MaxActive
  /\ Goto(q, "entered")
  /\ active' = active + 1
  /\ UNCHANGED <<calls, records, done, notices, faults>>

-----------------------------------------------------------------------------
(* _idempotent. *)

(* What _idempotency_decision makes of the record; a record that is gone    *)
(* (MISS) is answered like one in progress.                                 *)
ReadRecord(q) ==
  LET r == records[Key(q)]
  IN  IF r = NoRecord THEN "in_progress"
      ELSE IF r.body # Body(q) THEN "key_reused"
      ELSE r.state

Begin(q) ==
  /\ At(q, "entered")
  /\ \/ /\ records[Key(q)] = NoRecord
        /\ records' = [records EXCEPT ![Key(q)] = Taken(Body(q))]
        /\ Goto(q, "execute")
        /\ UNCHANGED active
     \/ /\ records[Key(q)] # NoRecord
        /\ IF ReadRecord(q) = "taken" THEN Goto(q, "checking") /\ UNCHANGED active
                                      ELSE Reply(q, ReadRecord(q))
        /\ UNCHANGED records
  /\ UNCHANGED <<calls, done, notices, faults>>

(* The loop of wait_for_idempotent_response, under the key's condition. *)
Check(q) ==
  /\ At(q, "checking")
  /\ IF ReadRecord(q) = "taken" THEN Goto(q, "parked") /\ UNCHANGED active
                                ELSE Reply(q, ReadRecord(q))
  /\ UNCHANGED <<calls, records, done, notices, faults>>

Notify(k) ==
  /\ k \in notices
  /\ notices' = notices \ {k}
  /\ reqs' = [q \in Attempt |-> IF Key(q) = k /\ At(q, "parked")
                                  THEN [reqs[q] EXCEPT !.pc = "checking"] ELSE reqs[q]]
  /\ UNCHANGED <<calls, records, done, active, faults>>

(* 30 seconds are over: one last look. *)
WaitTimesOut(q) ==
  /\ At(q, "parked")
  /\ Reply(q, IF ReadRecord(q) = "taken" THEN "in_progress" ELSE ReadRecord(q))
  /\ UNCHANGED <<calls, records, done, notices, faults>>

(* The endpoint.  A problem or an exception may come after part of the work. *)
Execute(q) ==
  /\ At(q, "execute")
  /\ \E a \in Recorded \cup {"error"}, work \in BOOLEAN :
       /\ a = "ok" => work
       /\ reqs' = [reqs EXCEPT ![q] = [pc |-> "finish", answer |-> a]]
       /\ done' = [done EXCEPT ![Key(q)] = work]
  /\ UNCHANGED <<calls, records, notices, active, faults>>

(* complete_idempotent_request *)
Record(q, a) ==
  /\ records' = [records EXCEPT ![Key(q)].state = a]
  /\ notices' = notices \cup {Key(q)}
  /\ UNCHANGED done

(* abort_idempotent_request: the key is free again. *)
Abort(q) ==
  /\ records' = [records EXCEPT ![Key(q)] = NoRecord]
  /\ done' = [done EXCEPT ![Key(q)] = FALSE]
  /\ notices' = notices \cup {Key(q)}

Finish(q) ==
  /\ At(q, "finish")
  /\ Reply(q, reqs[q].answer)
  /\ IF reqs[q].answer = "error" THEN Abort(q) ELSE Record(q, reqs[q].answer)
  /\ UNCHANGED <<calls, faults>>

(* The write of the response fails.  After an endpoint that returned, the   *)
(* key is released like after an exception; a problem whose record cannot   *)
(* be written, or a release that fails too, leaves the key taken.           *)
FinishFails(q) ==
  /\ At(q, "finish")
  /\ Reply(q, "error")
  /\ Fault
  /\ \/ reqs[q].answer = "ok" /\ Abort(q)
     \/ UNCHANGED <<records, done, notices>>
  /\ UNCHANGED calls

BeginFails(q) ==
  /\ At(q, "entered")
  /\ Reply(q, "error")
  /\ Fault
  /\ UNCHANGED <<calls, records, done, notices>>

(* CancelledError passes every except clause of _idempotent. *)
Cancel(q) ==
  /\ reqs[q].pc \in Inside
  /\ reqs' = [reqs EXCEPT ![q] = [pc |-> "gone", answer |-> "none"]]
  /\ active' = active - 1
  /\ Fault
  /\ UNCHANGED <<calls, records, done, notices>>

(* Only the records and the work survive the process. *)
Crash ==
  /\ \E q \in Attempt : reqs[q].pc \in Inside
  /\ reqs' = [q \in Attempt |-> IF reqs[q].pc \in Inside \cup {"replied"}
                                  THEN [pc |-> "gone", answer |-> "none"] ELSE reqs[q]]
  /\ active' = 0 /\ notices' = {}
  /\ Fault
  /\ UNCHANGED <<calls, records, done>>

Handle(q) == Begin(q) \/ Check(q) \/ WaitTimesOut(q) \/ Execute(q) \/ Finish(q)

Next ==
  \/ \E c \in Callers : Send(c) \/ Receive(c) \/ TransportError(c)
  \/ \E q \in Attempt :
       \/ RateLimited(q) \/ ServerBusy(q) \/ Enter(q) \/ Handle(q)
       \/ FinishFails(q) \/ BeginFails(q) \/ Cancel(q)
  \/ \E k \in Keys : Notify(k)
  \/ Crash

(* The event loop runs every task that can run, and timeouts elapse. *)
Fairness ==
  /\ \A q \in Attempt : WF_vars(Handle(q))
  /\ \A k \in Keys : WF_vars(Notify(k))

Spec == Init /\ [][Next]_vars /\ Fairness

-----------------------------------------------------------------------------
(* Properties *)

(* Whoever asks with the same key and the same body is told the same thing: *)
(* an answer of the endpoint that is on its way to a caller is the recorded *)
(* one, whichever attempt, caller or incarnation of the service did the     *)
(* work, and an answer to another body never is.                            *)
RepliesAreRecorded ==
  \A q \in Attempt : At(q, "replied") /\ reqs[q].answer \in Recorded =>
    records[Key(q)] = [state |-> reqs[q].answer, body |-> Body(q)]

(* wait_for_idempotent_response tests and then waits; a handler parked on a *)
(* key whose record is written or gone has a wake-up coming to it.          *)
NoLostWakeup ==
  \A q \in Attempt : At(q, "parked") /\ records[Key(q)].state # "taken" => Key(q) \in notices

(* The concurrency limit counts exactly the requests that are inside,       *)
(* through refusals, failures, cancellations and crashes: a slot that       *)
(* leaked would answer server_busy until the next restart.                  *)
SlotsBalanced == active = Cardinality({q \in Attempt : reqs[q].pc \in Inside})

(* Every request that gets in is answered or canceled: even behind a key    *)
(* that a crash left taken for ever, whose waiters are told to try later.   *)
RequestsEnd == \A q \in Attempt : At(q, "entered") ~> reqs[q].pc \in {"replied", "gone"}

(* The records implement the promise of an Idempotency-Key. *)
Once == INSTANCE OncePerKey WITH
          Answers <- Recorded, Success <- "ok",
          state <- [k \in Keys |-> records[k].state]
ImplementsOncePerKey == Once!Spec
=============================================================================
