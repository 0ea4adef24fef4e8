---------------------------- MODULE ExecutionJob ----------------------------
(***************************************************************************)
(* The execution_job table of SqliteStore (persistence.py) under every     *)
(* caller the code allows.  A claim hands its caller a ticket - the run,   *)
(* the lease generation and the control epoch it read - and any ticket     *)
(* ever handed out may be presented again at any later time: by a handler, *)
(* a heartbeat or a backend callback that outlived its lease, or by a      *)
(* second process on the same file.                                        *)
(*                                                                         *)
(* Each operation is one SQLite transaction under the durability lock and  *)
(* so one atomic step.                                                     *)
(***************************************************************************)
EXTENDS JobTable, FiniteSets

CONSTANTS
  Runs,         \* run ids, as numbers in the order new_id issues them
  LeaseTicks,   \* lease_seconds, in clock ticks
  Delays,       \* the retry delays, in ticks, that callers ask for
  MaxTime, MaxGen, MaxEpoch   \* bounds on the clock and on the counters

ASSUME RunsAssumption  == Runs \subseteq Nat
ASSUME LeaseAssumption == LeaseTicks \in Nat \ {0}
ASSUME DelayAssumption == Delays \subseteq Nat
ASSUME BoundAssumption == MaxTime \in Nat /\ MaxGen \in Nat /\ MaxEpoch \in Nat

VARIABLES
  now,      \* julianday('now') of the database clock, in ticks
  jobs,     \* the table: created run ids -> rows
  issued    \* tickets handed out by claims so far (callers' memory)

vars == <<now, jobs, issued>>

Ticket == [run: Runs, gen: 1..MaxGen, epoch: 0..MaxEpoch]

TypeOK ==
  /\ now \in Nat
  /\ DOMAIN jobs \subseteq Runs
  /\ \A r \in DOMAIN jobs : jobs[r] \in Job
  /\ issued \subseteq Ticket

Passes(t) ==
  /\ t.run \in DOMAIN jobs
  /\ FenceHolds(jobs[t.run], t.gen, t.epoch, now)

Init ==
  /\ now = 0
  /\ jobs = [r \in {} |-> NewJob(CHOOSE s \in Steps : TRUE, 0)]
  /\ issued = {}

SetJob(r, j) == jobs' = [jobs EXCEPT ![r] = j]

(* Defective variants (see the README): a wake that skips the status check, *)
(* and an active-lease check with its comparison turned around.             *)
WakeAnyStatus(r) ==
  /\ r \in DOMAIN jobs
  /\ jobs[r].epoch < MaxEpoch
  /\ SetJob(r, Woken(jobs[r], now))
  /\ UNCHANGED <<now, issued>>

AnyExpired == \E r \in DOMAIN jobs : LeaseOver(jobs[r], now)

(* create_execution_job: the run_id primary key admits one row per run. *)
Create(r, step) ==
  /\ r \notin DOMAIN jobs
  /\ jobs' = [q \in DOMAIN jobs \cup {r} |-> IF q = r THEN NewJob(step, now) ELSE jobs[q]]
  /\ UNCHANGED <<now, issued>>

(* wake_execution_job, called by answer, resume and cancel. *)
Wake(r) ==
  /\ r \in DOMAIN jobs
  /\ jobs[r].status \notin Closed
  /\ jobs[r].epoch < MaxEpoch
  /\ SetJob(r, Woken(jobs[r], now))
  /\ UNCHANGED <<now, issued>>

(* ORDER BY COALESCE(available_at, lease_expires_at), created_at, run_id *)
Before(q, r) ==
  \/ ClaimKey(jobs[q]) < ClaimKey(jobs[r])
  \/ /\ ClaimKey(jobs[q]) = ClaimKey(jobs[r])
     /\ \/ jobs[q].created < jobs[r].created
        \/ jobs[q].created = jobs[r].created /\ q <= r

Candidates == {r \in DOMAIN jobs : Claimable(jobs[r], now)}
AnyLive    == \E r \in DOMAIN jobs : LeaseLive(jobs[r], now)
SweptJobs  == [r \in DOMAIN jobs |-> Swept(jobs[r], now)]

(* claim_execution_job that finds nothing: the sweep is committed anyway. *)
ClaimNothing ==
  /\ AnyLive \/ Candidates = {}
  /\ jobs' = SweptJobs
  /\ UNCHANGED <<now, issued>>

(* claim_execution_job that leases the first candidate. *)
Claim(r) ==
  /\ ~AnyLive
  /\ r \in Candidates
  /\ \A q \in Candidates : Before(r, q)
  /\ jobs[r].gen < MaxGen
  /\ LET j == Claimed(jobs[r], now, LeaseTicks)
     IN  /\ jobs' = [SweptJobs EXCEPT ![r] = j]
         /\ issued' = issued \cup {[run |-> r, gen |-> j.gen, epoch |-> j.epoch]}
  /\ UNCHANGED now

(* The fenced operations, presented with a ticket; JobFenceError is no step. *)
Fenced(t, j) ==
  /\ Passes(t)
  /\ SetJob(t.run, j)
  /\ UNCHANGED <<now, issued>>

Renew(t) == Fenced(t, Renewed(jobs[t.run], now, LeaseTicks))

Checkpoint(t, step, status) == Fenced(t, Checkpointed(jobs[t.run], step, status, now))

Complete(t) == Fenced(t, Completed(jobs[t.run]))

Retry(t, delay) == Fenced(t, Retried(jobs[t.run], now, delay))

Tick ==
  /\ now < MaxTime
  /\ now' = now + 1
  /\ UNCHANGED <<jobs, issued>>

Next ==
  \/ \E r \in Runs : Wake(r) \/ Claim(r) \/ \E s \in Steps : Create(r, s)
  \/ ClaimNothing
  \/ \E t \in issued :
       \/ Renew(t)
       \/ Complete(t)
       \/ \E s \in Steps, st \in {"READY", "WAITING"} : Checkpoint(t, s, st)
       \/ \E d \in Delays : Retry(t, d)
  \/ Tick

Spec == Init /\ [][Next]_vars

-----------------------------------------------------------------------------
(* Properties *)

(* SqliteStore's docstring: "SQLite mode intentionally permits only one    *)
(* active job lease at a time."  Two live leases would need a claim that   *)
(* misses a lease another caller keeps renewing.                           *)
OneLiveLease ==
  \A q, r \in DOMAIN jobs : LeaseLive(jobs[q], now) /\ LeaseLive(jobs[r], now) => q = r

(* Whatever tickets callers still hold, at most one of them can write: the *)
(* fence of _require_job_fence never lets two holders through.             *)
OneTicketPasses ==
  \A s, t \in issued : Passes(s) /\ Passes(t) => s = t

(* A row whose retries are used up is closed only by a caller that used    *)
(* them (Retry) or by the sweep; no woken or checkpointed row dies early.  *)
DeadMeansExhausted ==
  \A r \in DOMAIN jobs : jobs[r].status = "DEAD" => jobs[r].attempt = MaxAttempts

(* Fencing is final: a ticket that stopped passing - released, revoked by  *)
(* a wake, or expired - never passes again, whatever later claims, renews  *)
(* and retries do to the row.                                              *)
LostFenceStaysLost ==
  [][\A t \in issued : ~Passes(t) => ~Passes(t)']_vars

(* COMPLETED and DEAD rows are never claimed, woken or rewritten.          *)
ClosedRowsStayClosed ==
  [][\A r \in DOMAIN jobs : jobs[r].status \in Closed => jobs'[r] = jobs[r]]_vars

(* The table implements the lease service the worker relies on.            *)
NoTicket == [run |-> -1, gen |-> 0, epoch |-> 0]
Holder == IF \E t \in issued : Passes(t) THEN CHOOSE t \in issued : Passes(t) ELSE NoTicket
Lease == INSTANCE FencedLease WITH holder <- Holder
ImplementsFencedLease == Lease!Spec
=============================================================================
