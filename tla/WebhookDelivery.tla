-------------------------- MODULE WebhookDelivery --------------------------
(***************************************************************************)
(* Webhook endpoints, the outbox of deliveries and the one dispatcher that *)
(* shares the store with the API (webhooks.py, the outbox of store.py, the *)
(* webhook routes of app.py).                                              *)
(*                                                                         *)
(* A store call is one transaction.  The dispatcher runs without being     *)
(* suspended from the listing to the write of DELIVERING, is suspended for *)
(* the name lookup and the POST, and writes the outcome in one piece: only *)
(* a crash or a failing write comes between two writes of the same piece.  *)
(*                                                                         *)
(* Time is abstracted to what the code compares: a delivery is due or its  *)
(* backoff still runs; it is old once max_age_hours passed since its first *)
(* attempt; the window of redelivery or of a previous secret is over.  The *)
(* text of created_at, which the dispatcher sorts by, is its rank among    *)
(* these texts.  A later event's may rank lower: the clock may be set      *)
(* back, and isoformat leaves out a fraction of zero, so that the text of  *)
(* a whole second ("05Z") ranks behind those of the moments that follow it *)
(* ("05.3Z").                                                              *)
(***************************************************************************)
EXTENDS Integers, Sequences, FiniteSetsExt

CONSTANTS
  Endpoints,        \* endpoint ids, as numbers in the order of the listing
  Runs,             \* run ids, as numbers in the order of their creation
  Wants,            \* event_types of each endpoint
  Stamps,           \* ranks of the texts of created_at
  MaxAttempts,      \* settings.max_attempts (12)
  MaxEvents,        \* bound: events all runs append
  MaxFaults,        \* bound: stops, crashes and failing outcome writes
  MaxRedeliveries, MaxRotations    \* bounds on the operators' requests

EventTypes == {"stage", "other"}
ASSUME WebhookAssumption ==
  /\ Endpoints \subseteq Nat /\ Runs \subseteq Nat
  /\ Wants \in [Endpoints -> SUBSET EventTypes]
  /\ Stamps \subseteq Nat
  /\ MaxAttempts \in Nat \ {0}

VARIABLES
  endpoints,   \* the webhook_endpoint rows
  outbox,      \* per endpoint, its deliveries in the order of their events
  runs,        \* which endpoints a run notifies, and its last event
  worker,      \* the dispatcher and the POST it is suspended in
  budget       \* faults, redeliveries and rotations so far

vars == <<endpoints, outbox, runs, worker, budget>>

Unfinished == {"PENDING", "DELIVERING", "RETRYING"}
Endpoint == [status: {"ABSENT", "ACTIVE", "PAUSED", "DISABLED"},
             secret: Nat, previous: BOOLEAN]     \* is secret - 1 still valid?
Delivery == [run: Runs, seq: Nat, at: Stamps, status: Unfinished \cup {"SUCCEEDED", "EXHAUSTED"},
             attempts: Nat, due: BOOLEAN, old: BOOLEAN, expired: BOOLEAN,
             \* not in the row: it was once EXHAUSTED; its outcome was never
             \* written; attempts that an operator or a fault added
             gaveUp: BOOLEAN, lost: BOOLEAN, extra: Nat]
Idle == [pc |-> "idle"]
Down == [pc |-> "down"]
Post == [pc: {"posting"}, endpoint: Endpoints, index: Nat, secret: Nat, arrived: BOOLEAN]

TypeOK ==
  /\ endpoints \in [Endpoints -> Endpoint] /\ outbox \in [Endpoints -> Seq(Delivery)]
  /\ runs \in [Runs -> [created: BOOLEAN, hooks: SUBSET Endpoints, seq: Nat]]
  /\ worker \in {Idle, Down} \cup Post

Init ==
  /\ endpoints = [e \in Endpoints |-> [status |-> "ABSENT", secret |-> 0, previous |-> FALSE]]
  /\ outbox = [e \in Endpoints |-> <<>>]
  /\ runs = [r \in Runs |-> [created |-> FALSE, hooks |-> {}, seq |-> 0]]
  /\ worker = Down
  /\ budget = [faults |-> 0, redeliveries |-> 0, rotations |-> 0]

NewDelivery(r, n, at) ==
  [run |-> r, seq |-> n, at |-> at, status |-> "PENDING", attempts |-> 0, due |-> TRUE, old |-> FALSE,
   expired |-> FALSE, gaveUp |-> FALSE, lost |-> FALSE, extra |-> 0]

Spend(what) == budget' = [budget EXCEPT ![what] = @ + 1]
SetEndpoint(e, row) == endpoints' = [endpoints EXCEPT ![e] = row]
SetDelivery(e, i, row) == outbox' = [outbox EXCEPT ![e][i] = row]

Posting == worker.pc = "posting"
Posted  == outbox[worker.endpoint][worker.index]

(* The sort key (created_at, delivery_id) of _dispatch_one. *)
Precedes(q, i, j) == q[i].at < q[j].at \/ (q[i].at = q[j].at /\ i < j)

-----------------------------------------------------------------------------
(* Defective variants of the definitions below (see the README). *)
HeadsBehindBackoff(e) ==
  {i \in DOMAIN outbox[e] :
     /\ outbox[e][i].status \in Unfinished
     /\ \A j \in DOMAIN outbox[e] :
          Precedes(outbox[e], j, i) /\ outbox[e][j].run = outbox[e][i].run
            => outbox[e][j].status \notin Unfinished \/ ~outbox[e][j].due}
RecoveredNot(d) == d
HopelessOneLate(d) == d.attempts > MaxAttempts \/ d.old
RotatedAtOnce(row) == [row EXCEPT !.secret = @ + 1, !.previous = FALSE]
ReadyPending(e) ==
  IF endpoints[e].status # "ACTIVE" THEN {}
  ELSE {i \in HeadsBehindBackoff(e) : outbox[e][i].status = "PENDING" /\ outbox[e][i].due}

-----------------------------------------------------------------------------
(* The API. *)

CreateEndpoint(e) ==
  /\ endpoints[e].status = "ABSENT"
  /\ SetEndpoint(e, [status |-> "ACTIVE", secret |-> 1, previous |-> FALSE])
  /\ UNCHANGED <<outbox, runs, worker, budget>>

(* Deleting an endpoint only disables it, and enabling revives it. *)
DeleteEndpoint(e) ==
  /\ endpoints[e].status \in {"ACTIVE", "PAUSED"}
  /\ SetEndpoint(e, [endpoints[e] EXCEPT !.status = "DISABLED"])
  /\ UNCHANGED <<outbox, runs, worker, budget>>

EnableEndpoint(e) ==
  /\ endpoints[e].status \in {"PAUSED", "DISABLED"}
  /\ SetEndpoint(e, [endpoints[e] EXCEPT !.status = "ACTIVE"])
  /\ UNCHANGED <<outbox, runs, worker, budget>>

(* The previous secret stays valid for 300 seconds, or until it is replaced. *)
Rotated(row) == [row EXCEPT !.secret = @ + 1, !.previous = TRUE]
RotateSecret(e) ==
  /\ budget.rotations < MaxRotations
  /\ endpoints[e].status \in {"ACTIVE", "PAUSED"}
  /\ SetEndpoint(e, Rotated(endpoints[e]))
  /\ Spend("rotations")
  /\ UNCHANGED <<outbox, runs, worker>>

(* A request reaches the receiver within the lookup's and the connection's  *)
(* timeouts, which are far shorter than those 300 seconds.                  *)
PreviousSecretExpires(e) ==
  /\ endpoints[e].previous
  /\ ~(Posting /\ worker.endpoint = e /\ ~worker.arrived)
  /\ SetEndpoint(e, [endpoints[e] EXCEPT !.previous = FALSE])
  /\ UNCHANGED <<outbox, runs, worker, budget>>

(* _resolve_run_webhooks: every endpoint a run selects is ACTIVE.  A run    *)
(* that selects none causes no delivery and is left out.                   *)
CreateRun(r, hooks) ==
  /\ hooks # {}
  /\ ~runs[r].created /\ \A q \in Runs : q < r => runs[q].created
  /\ \A e \in hooks : endpoints[e].status = "ACTIVE"
  /\ runs' = [runs EXCEPT ![r] = [created |-> TRUE, hooks |-> hooks, seq |-> 0]]
  /\ UNCHANGED <<endpoints, outbox, worker, budget>>

(* An event, stamped with the clock of the moment, and the deliveries it    *)
(* causes are one transaction.                                             *)
AppendEvent(r, type, at) ==
  LET n == runs[r].seq + 1
      notified == {e \in runs[r].hooks : endpoints[e].status # "DISABLED" /\ type \in Wants[e]}
  IN  /\ runs[r].created
      /\ FoldSet(LAMBDA q, sum : runs[q].seq + sum, 0, Runs) < MaxEvents
      /\ runs' = [runs EXCEPT ![r].seq = n]
      /\ outbox' = [e \in Endpoints |-> IF e \in notified
                                          THEN Append(outbox[e], NewDelivery(r, n, at))
                                          ELSE outbox[e]]
      /\ UNCHANGED <<endpoints, worker, budget>>

(* redeliver: neither the attempts nor the first attempt's time are reset. *)
Redeliver(e, i) ==
  LET d == outbox[e][i]
  IN  /\ budget.redeliveries < MaxRedeliveries
      /\ endpoints[e].status = "ACTIVE"
      /\ d.status \in {"PENDING", "RETRYING", "EXHAUSTED"}
      /\ d.status = "EXHAUSTED" => ~d.expired
      /\ SetDelivery(e, i, [d EXCEPT !.status = "PENDING", !.due = TRUE, !.extra = @ + 1])
      /\ Spend("redeliveries")
      /\ UNCHANGED <<endpoints, runs, worker>>

-----------------------------------------------------------------------------
(* Time. *)

BackoffElapses(e, i) ==
  /\ i \in DOMAIN outbox[e]
  /\ outbox[e][i].status = "RETRYING" /\ ~outbox[e][i].due
  /\ SetDelivery(e, i, [outbox[e][i] EXCEPT !.due = TRUE])
  /\ UNCHANGED <<endpoints, runs, worker, budget>>

GrowsOld(e, i) ==
  /\ outbox[e][i].attempts > 0 /\ ~outbox[e][i].old /\ outbox[e][i].status # "SUCCEEDED"
  /\ SetDelivery(e, i, [outbox[e][i] EXCEPT !.old = TRUE])
  /\ UNCHANGED <<endpoints, runs, worker, budget>>

RedeliveryExpires(e, i) ==
  /\ outbox[e][i].status = "EXHAUSTED" /\ ~outbox[e][i].expired
  /\ SetDelivery(e, i, [outbox[e][i] EXCEPT !.expired = TRUE])
  /\ UNCHANGED <<endpoints, runs, worker, budget>>

-----------------------------------------------------------------------------
(* The dispatcher. *)

(* _recover_interrupted_deliveries, before the task starts. *)
Recovered(d) ==
  IF d.status = "DELIVERING"
    THEN [d EXCEPT !.status = "RETRYING", !.due = TRUE, !.lost = FALSE, !.extra = @ + 1]
    ELSE d
Start ==
  /\ worker = Down
  /\ outbox' = [e \in Endpoints |-> [i \in DOMAIN outbox[e] |-> Recovered(outbox[e][i])]]
  /\ worker' = Idle
  /\ UNCHANGED <<endpoints, runs, budget>>

(* blocked_runs: a run's first unfinished delivery in the order of the sort *)
(* hides the others.                                                        *)
Heads(e) ==
  {i \in DOMAIN outbox[e] :
     /\ outbox[e][i].status \in Unfinished
     /\ \A j \in DOMAIN outbox[e] :
          Precedes(outbox[e], j, i) /\ outbox[e][j].run = outbox[e][i].run
            => outbox[e][j].status \notin Unfinished}
Ready(e) ==
  IF endpoints[e].status # "ACTIVE" THEN {}
  ELSE {i \in Heads(e) : outbox[e][i].status # "DELIVERING" /\ outbox[e][i].due}

(* _dispatch_one up to the POST of _deliver. *)
Dispatch ==
  /\ worker = Idle
  /\ \E e \in Endpoints :
       /\ \A f \in Endpoints : f < e => Ready(f) = {}
       /\ \E i \in Ready(e) :
            /\ \A j \in Ready(e) : ~Precedes(outbox[e], j, i)
            /\ SetDelivery(e, i, [outbox[e][i] EXCEPT !.status = "DELIVERING",
                                    !.attempts = @ + 1, !.due = FALSE])
            /\ worker' = [pc |-> "posting", endpoint |-> e, index |-> i,
                          secret |-> endpoints[e].secret, arrived |-> FALSE]
  /\ UNCHANGED <<endpoints, runs, budget>>

Arrive ==
  /\ Posting /\ ~worker.arrived
  /\ worker' = [worker EXCEPT !.arrived = TRUE]
  /\ UNCHANGED <<endpoints, outbox, runs, budget>>

Write(row) == SetDelivery(worker.endpoint, worker.index, row)

(* A 2xx answer. *)
Succeed ==
  /\ Posting /\ worker.arrived
  /\ Write([Posted EXCEPT !.status = "SUCCEEDED"])
  /\ worker' = Idle
  /\ UNCHANGED <<endpoints, runs, budget>>

(* _retry_or_exhaust, on any other answer, error or timeout. *)
Hopeless(d) == d.attempts >= MaxAttempts \/ d.old
Retried(d, due) == [d EXCEPT !.status = "RETRYING", !.due = due]
GivenUp(d) == [d EXCEPT !.status = "EXHAUSTED", !.gaveUp = TRUE]
Fail ==
  /\ Posting
  /\ worker' = Idle
  /\ \/ /\ ~Hopeless(Posted)
        /\ \E due \in BOOLEAN : Write(Retried(Posted, due))    \* random.uniform from 0
        /\ UNCHANGED endpoints
     \/ /\ Hopeless(Posted)
        /\ Write(GivenUp(Posted))
        /\ SetEndpoint(worker.endpoint, [endpoints[worker.endpoint] EXCEPT !.status = "PAUSED"])
  /\ UNCHANGED <<runs, budget>>

(* stop(): the canceled POST is written RETRYING before the task ends. *)
Stop ==
  /\ worker # Down /\ budget.faults < MaxFaults
  /\ IF Posting THEN Write([Retried(Posted, TRUE) EXCEPT !.extra = @ + 1]) ELSE UNCHANGED outbox
  /\ worker' = Down
  /\ Spend("faults")
  /\ UNCHANGED <<endpoints, runs>>

(* The process dies, possibly between the two writes of an exhaustion. *)
Crash ==
  /\ worker # Down /\ budget.faults < MaxFaults
  /\ \/ UNCHANGED outbox
     \/ Posting /\ Hopeless(Posted) /\ Write(GivenUp(Posted))
  /\ worker' = Down
  /\ Spend("faults")
  /\ UNCHANGED <<endpoints, runs>>

(* The write of the outcome raises; _run logs it and goes on. *)
OutcomeLost ==
  /\ Posting /\ budget.faults < MaxFaults
  /\ Write([Posted EXCEPT !.lost = TRUE])
  /\ worker' = Idle
  /\ Spend("faults")
  /\ UNCHANGED <<endpoints, runs>>

Next ==
  \/ \E e \in Endpoints :
       \/ CreateEndpoint(e) \/ DeleteEndpoint(e) \/ EnableEndpoint(e)
       \/ RotateSecret(e) \/ PreviousSecretExpires(e)
       \/ \E i \in DOMAIN outbox[e] :
            Redeliver(e, i) \/ BackoffElapses(e, i) \/ GrowsOld(e, i) \/ RedeliveryExpires(e, i)
  \/ \E r \in Runs :
       \/ \E hooks \in SUBSET Endpoints : CreateRun(r, hooks)
       \/ \E type \in EventTypes, at \in Stamps : AppendEvent(r, type, at)
  \/ Start \/ Dispatch \/ Arrive \/ Succeed \/ Fail \/ Stop \/ Crash \/ OutcomeLost

(* A restarted process starts the dispatcher, which goes on by itself; a    *)
(* POST ends within its timeouts, and a backoff is a finite time.           *)
Slots == 1..MaxEvents
Fairness ==
  /\ WF_vars(Start) /\ WF_vars(Dispatch) /\ WF_vars(Succeed \/ Fail)
  /\ \A e \in Endpoints, i \in Slots : WF_vars(BackoffElapses(e, i))

Spec == Init /\ [][Next]_vars /\ Fairness

-----------------------------------------------------------------------------
(* Properties *)

(* docs/api-route-reference.md:766: after an endpoint is enabled again, the *)
(* unfinished deliveries go on in order.  Of two events of a run whose      *)
(* stamps sort as the events happened, the later one is sent to an endpoint *)
(* only after the earlier one was acknowledged there or given up, whatever  *)
(* the backoffs, pauses, redeliveries and restarts, and whatever events     *)
(* with other stamps come between.  Two events whose stamps sort the other  *)
(* way round may be sent the other way round, against the document.         *)
InRunOrder ==
  \A e \in Endpoints : \A j \in DOMAIN outbox[e] : outbox[e][j].attempts > 0 =>
    \A i \in 1..(j - 1) :
      outbox[e][i].run = outbox[e][j].run /\ outbox[e][i].at <= outbox[e][j].at =>
        outbox[e][i].status = "SUCCEEDED" \/ outbox[e][i].gaveUp

(* DELIVERING hides a delivery, and the rest of its run, from the           *)
(* dispatcher: it must be the one being posted, unless the process is down  *)
(* or the write of its outcome failed.                                      *)
DeliveringIsPosted ==
  \A e \in Endpoints : \A i \in DOMAIN outbox[e] : outbox[e][i].status = "DELIVERING" =>
    \/ worker = Down
    \/ Posting /\ worker.endpoint = e /\ worker.index = i
    \/ outbox[e][i].lost

(* max_attempts holds across crashes, stops and redeliveries: each of them  *)
(* adds one attempt and no more, since the count is written before the POST.*)
AttemptsBounded ==
  \A e \in Endpoints : \A i \in DOMAIN outbox[e] :
    outbox[e][i].attempts <= MaxAttempts + outbox[e][i].extra

(* A message signed before a rotation arrives after it: a receiver that     *)
(* keeps the current and the previous secret can verify it, unless the      *)
(* secret was rotated twice while the message was on its way.               *)
SignatureVerifiable ==
  Posting /\ ~worker.arrived =>
    LET row == endpoints[worker.endpoint]
    IN  \/ worker.secret = row.secret
        \/ worker.secret = row.secret - 1 /\ row.previous
        \/ worker.secret < row.secret - 1

(* docs/stage-callback-contract.md:213: at least once.  While its endpoint  *)
(* is active, every delivery is acknowledged or given up, through refused   *)
(* and lost POSTs, stops and crashes; only a delivery of its run whose      *)
(* outcome could not be written holds it up, until the next restart.        *)
Queued(e, i) == i \in DOMAIN outbox[e]
HeldUp(e, i) ==
  \E j \in DOMAIN outbox[e] : /\ j = i \/ Precedes(outbox[e], j, i)
                             /\ outbox[e][j].run = outbox[e][i].run /\ outbox[e][j].lost
Settled(e, i) ==
  \/ outbox[e][i].status \in {"SUCCEEDED", "EXHAUSTED"}
  \/ endpoints[e].status # "ACTIVE"
  \/ HeldUp(e, i)
DeliveriesSettle ==
  \A e \in Endpoints, i \in Slots : Queued(e, i) ~> Queued(e, i) /\ Settled(e, i)
=============================================================================
