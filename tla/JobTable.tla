------------------------------ MODULE JobTable ------------------------------
(***************************************************************************)
(* The execution_job row of the SQLite store (persistence.py) and what     *)
(* each store operation does to one row.  The operators are functions of   *)
(* the row, so that the job table on its own (ExecutionJob) and the        *)
(* durable workflow (DurableRun) share them.                               *)
(*                                                                         *)
(* Times are integers: `now` is julianday('now'), and a lease or a backoff *)
(* is a number of ticks.  NoTime stands for SQL NULL.  The checkpoint JSON,*)
(* last_error and updated_at columns carry data no operation tests and are *)
(* left out; max_attempts is the same constant in every row the service    *)
(* creates.                                                                *)
(***************************************************************************)
EXTENDS Integers

CONSTANTS
  Steps,        \* values of the workflow_step column
  MaxAttempts   \* the max_attempts column (5 in the service)

ASSUME MaxAttemptsAssumption == MaxAttempts \in Nat \ {0}

NoTime == -1
Time   == Nat \cup {NoTime}

JobStatus == {"READY", "RETRY", "LEASED", "WAITING", "COMPLETED", "DEAD"}
Closed    == {"COMPLETED", "DEAD"}

Job == [step: Steps, status: JobStatus, attempt: 0..MaxAttempts, avail: Time,
        expires: Time, gen: Nat, epoch: Nat, created: Nat]

(* INSERT INTO execution_job *)
NewJob(step, now) ==
  [step |-> step, status |-> "READY", attempt |-> 0, avail |-> now,
   expires |-> NoTime, gen |-> 0, epoch |-> 0, created |-> now]

Leased(j)         == j.status = "LEASED"
LeaseLive(j, now) == Leased(j) /\ j.expires > now
LeaseOver(j, now) == Leased(j) /\ j.expires <= now

-----------------------------------------------------------------------------
(* Defective variants of the operations below.  No specification uses them; *)
(* the README lists which property each of them breaks.                    *)
ClaimableWithoutLimit(j, now) ==
  \/ j.status \in {"READY", "RETRY"} /\ j.avail # NoTime /\ j.avail <= now
  \/ LeaseOver(j, now)

ClaimedSameGeneration(j, now, lease) ==
  [j EXCEPT !.status = "LEASED", !.attempt = @ + 1, !.expires = now + lease]

FenceWithoutGeneration(j, gen, epoch, now) == LeaseLive(j, now) /\ j.epoch = epoch

FencePastExpiry(j, gen, epoch, now) == Leased(j) /\ j.gen = gen /\ j.epoch = epoch

RetriedOnceTooFew(j, now, delay) ==
  IF j.attempt + 1 >= MaxAttempts
    THEN [j EXCEPT !.status = "DEAD", !.avail = NoTime, !.expires = NoTime]
    ELSE [j EXCEPT !.status = "RETRY", !.avail = now + delay, !.expires = NoTime]

CheckpointedSameStep(j, step, status, now) ==
  [j EXCEPT !.status = status, !.attempt = 0, !.expires = NoTime,
            !.avail = IF status = "READY" THEN now ELSE NoTime]

CheckpointedAsleep(j, step, status, now) ==
  [j EXCEPT !.step = step, !.status = status, !.attempt = 0, !.expires = NoTime, !.avail = NoTime]

-----------------------------------------------------------------------------
(* The operations. *)

(* The sweep that opens every claim. *)
Exhausted(j, now) == LeaseOver(j, now) /\ j.attempt >= MaxAttempts
Swept(j, now) ==
  IF Exhausted(j, now) THEN [j EXCEPT !.status = "DEAD", !.expires = NoTime] ELSE j

(* The WHERE clause and the ORDER BY key of the claim's SELECT. *)
Claimable(j, now) ==
  /\ j.attempt < MaxAttempts
  /\ \/ j.status \in {"READY", "RETRY"} /\ j.avail # NoTime /\ j.avail <= now
     \/ LeaseOver(j, now)
ClaimKey(j) == IF j.avail # NoTime THEN j.avail ELSE j.expires

Claimed(j, now, lease) ==
  [j EXCEPT !.status = "LEASED", !.attempt = @ + 1, !.expires = now + lease, !.gen = @ + 1]

(* _require_job_fence: what a holder must present to write the row. *)
FenceHolds(j, gen, epoch, now) == LeaseLive(j, now) /\ j.gen = gen /\ j.epoch = epoch

Renewed(j, now, lease) == [j EXCEPT !.expires = now + lease]

Checkpointed(j, step, status, now) ==
  [j EXCEPT !.step = step, !.status = status, !.attempt = 0, !.expires = NoTime,
            !.avail = IF status = "READY" THEN now ELSE NoTime]

Completed(j) == [j EXCEPT !.status = "COMPLETED", !.avail = NoTime, !.expires = NoTime]

Retried(j, now, delay) ==
  IF j.attempt >= MaxAttempts
    THEN [j EXCEPT !.status = "DEAD", !.avail = NoTime, !.expires = NoTime]
    ELSE [j EXCEPT !.status = "RETRY", !.avail = now + delay, !.expires = NoTime]

(* wake_execution_job: refused on a COMPLETED or DEAD row. *)
Woken(j, now) ==
  [j EXCEPT !.status = "READY", !.avail = now, !.expires = NoTime,
            !.epoch = @ + 1, !.attempt = 0]
=============================================================================
