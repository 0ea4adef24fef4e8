------------------------- MODULE ExecutionJobProofs -------------------------
(***************************************************************************)
(* Machine-checked proofs about the job table, for every set of runs, every *)
(* lease length, retry delay and attempt limit.                            *)
(*                                                                         *)
(* The argument: a row only changes by one of the row operators of         *)
(* JobTable, each of which keeps the row well formed; a ticket never       *)
(* carries a generation above its row's, so the generation a claim creates *)
(* is above every ticket in circulation; and a claim leases a row only     *)
(* while no lease is live, so a ticket that passes is the only one.        *)
(***************************************************************************)
EXTENDS ExecutionJob, TLAPS

(* No ticket is ahead of its row: the store counts generations up and a    *)
(* ticket is a copy of them.                                               *)
TicketsBehind ==
  \A t \in issued : t.run \in DOMAIN jobs /\ t.gen <= jobs[t.run].gen

(* Each claim of a row raises its generation, so two tickets of one row    *)
(* and one generation are the same ticket.                                 *)
OneTicketPerGeneration ==
  \A s, t \in issued : s.run = t.run /\ s.gen = t.gen => s = t

CountersBounded ==
  \A r \in DOMAIN jobs : jobs[r].gen \in 0..MaxGen /\ jobs[r].epoch \in 0..MaxEpoch

IInv ==
  /\ TypeOK
  /\ CountersBounded
  /\ TicketsBehind
  /\ OneTicketPerGeneration
  /\ OneLiveLease

-----------------------------------------------------------------------------
(* The row operators keep a row well formed.                               *)

(* Writing one column with a value of its type leaves a row of the table.  *)
LEMMA ColumnTypes ==
  ASSUME NEW j \in Job
  PROVE  /\ \A x \in Steps : [j EXCEPT !.step = x] \in Job
         /\ \A x \in JobStatus : [j EXCEPT !.status = x] \in Job
         /\ \A x \in 0..MaxAttempts : [j EXCEPT !.attempt = x] \in Job
         /\ \A x \in Time : [j EXCEPT !.avail = x] \in Job
         /\ \A x \in Time : [j EXCEPT !.expires = x] \in Job
         /\ \A x \in Nat : [j EXCEPT !.gen = x] \in Job
         /\ \A x \in Nat : [j EXCEPT !.epoch = x] \in Job
BY DEF Job

(* The values the operations write are of the columns' types.              *)
LEMMA ColumnValues ==
  /\ \A n \in Nat : n \in Time
  /\ NoTime \in Time
  /\ 0 \in 0..MaxAttempts
  /\ JobStatus = {"READY", "RETRY", "LEASED", "WAITING", "COMPLETED", "DEAD"}
BY MaxAttemptsAssumption DEF Time, NoTime, JobStatus

(* A fresh row is a row of the table.                                      *)
LEMMA NewJobType ==
  ASSUME NEW s \in Steps, NEW n \in Nat
  PROVE  NewJob(s, n) \in Job
BY ColumnValues DEF NewJob, Job

(* Every store operation on a row leaves a row; leasing needs the attempt  *)
(* limit that Claimable checks.                                            *)
LEMMA RowOpsType ==
  ASSUME NEW j \in Job, NEW n \in Nat, NEW d \in Nat
  PROVE  /\ Woken(j, n) \in Job
         /\ Completed(j) \in Job
         /\ Swept(j, n) \in Job
         /\ Renewed(j, n, d) \in Job
         /\ Retried(j, n, d) \in Job
         /\ \A s \in Steps, st \in {"READY", "WAITING"} : Checkpointed(j, s, st, n) \in Job
         /\ Claimable(j, n) => Claimed(j, n, d) \in Job
<1>1. j.epoch + 1 \in Nat /\ j.gen + 1 \in Nat /\ n + d \in Nat
  BY DEF Job
<1>2. Claimable(j, n) => j.attempt + 1 \in 0..MaxAttempts
  BY MaxAttemptsAssumption DEF Claimable, Job
<1>3. Woken(j, n) \in Job
  BY <1>1, ColumnTypes, ColumnValues DEF Woken
<1>4. Completed(j) \in Job /\ Swept(j, n) \in Job
  BY ColumnTypes, ColumnValues DEF Completed, Swept
<1>5. Renewed(j, n, d) \in Job /\ Retried(j, n, d) \in Job
  BY <1>1, ColumnTypes, ColumnValues DEF Renewed, Retried
<1>6. ASSUME NEW s \in Steps, NEW st \in {"READY", "WAITING"}
      PROVE  Checkpointed(j, s, st, n) \in Job
  BY ColumnTypes, ColumnValues DEF Checkpointed
<1>7. Claimable(j, n) => Claimed(j, n, d) \in Job
  BY <1>1, <1>2, ColumnTypes, ColumnValues DEF Claimed
<1>8. QED
  BY <1>3, <1>4, <1>5, <1>6, <1>7

(* What each operation does to the columns the fence reads: only Renew and *)
(* Claim leave a row leased, only Claim raises its generation, and only    *)
(* Wake its epoch.                                                         *)
LEMMA RowOpsFence ==
  ASSUME NEW j \in Job, NEW n \in Nat, NEW d \in Nat
  PROVE  /\ ~Leased(Woken(j, n)) /\ Woken(j, n).gen = j.gen /\ Woken(j, n).epoch = j.epoch + 1
         /\ ~Leased(Completed(j)) /\ Completed(j).gen = j.gen /\ Completed(j).epoch = j.epoch
         /\ ~Leased(Retried(j, n, d)) /\ Retried(j, n, d).gen = j.gen
         /\ Retried(j, n, d).epoch = j.epoch
         /\ Renewed(j, n, d).gen = j.gen /\ Renewed(j, n, d).epoch = j.epoch
         /\ Claimed(j, n, d).gen = j.gen + 1 /\ Claimed(j, n, d).epoch = j.epoch
         /\ Swept(j, n).gen = j.gen /\ Swept(j, n).epoch = j.epoch
         /\ LeaseLive(Swept(j, n), n) <=> LeaseLive(j, n)
         /\ \A s \in Steps, st \in {"READY", "WAITING"} :
              /\ ~Leased(Checkpointed(j, s, st, n))
              /\ Checkpointed(j, s, st, n).gen = j.gen
              /\ Checkpointed(j, s, st, n).epoch = j.epoch
<1>1. /\ ~Leased(Woken(j, n)) /\ Woken(j, n).gen = j.gen /\ Woken(j, n).epoch = j.epoch + 1
      /\ ~Leased(Completed(j)) /\ Completed(j).gen = j.gen /\ Completed(j).epoch = j.epoch
  BY DEF Woken, Completed, Leased, Job
<1>2. /\ ~Leased(Retried(j, n, d)) /\ Retried(j, n, d).gen = j.gen
      /\ Retried(j, n, d).epoch = j.epoch
  BY DEF Retried, Leased, Job
<1>3. /\ Renewed(j, n, d).gen = j.gen /\ Renewed(j, n, d).epoch = j.epoch
      /\ Claimed(j, n, d).gen = j.gen + 1 /\ Claimed(j, n, d).epoch = j.epoch
  BY DEF Renewed, Claimed, Job
<1>4. Swept(j, n).gen = j.gen /\ Swept(j, n).epoch = j.epoch
  BY DEF Swept, Job
<1>5. LeaseLive(Swept(j, n), n) <=> LeaseLive(j, n)
  <2>1. CASE Exhausted(j, n)
    BY <2>1, ColumnValues DEF Swept, Exhausted, LeaseOver, LeaseLive, Leased, Job, NoTime, Time
  <2>2. CASE ~Exhausted(j, n)
    BY <2>2 DEF Swept
  <2>3. QED BY <2>1, <2>2
<1>6. ASSUME NEW s \in Steps, NEW st \in {"READY", "WAITING"}
      PROVE  /\ ~Leased(Checkpointed(j, s, st, n))
             /\ Checkpointed(j, s, st, n).gen = j.gen
             /\ Checkpointed(j, s, st, n).epoch = j.epoch
  BY DEF Checkpointed, Leased, Job
<1>7. QED
  BY <1>1, <1>2, <1>3, <1>4, <1>5, <1>6

-----------------------------------------------------------------------------
(* The inductive invariant.                                                *)

(* A store operation on one row that starts no lease keeps the invariant,  *)
(* and no ticket passes after it that did not pass before.                 *)
LEMMA RowStep ==
  ASSUME IInv, NEW r \in DOMAIN jobs, NEW j \in Job,
         SetJob(r, j), UNCHANGED <<now, issued>>,
         j.gen = jobs[r].gen, j.epoch \in 0..MaxEpoch,
         LeaseLive(j, now) => LeaseLive(jobs[r], now) /\ j.epoch = jobs[r].epoch
  PROVE  IInv' /\ \A t \in issued : Passes(t)' => Passes(t)
<1>1. /\ DOMAIN jobs' = DOMAIN jobs
      /\ \A q \in DOMAIN jobs : jobs'[q] = IF q = r THEN j ELSE jobs[q]
  BY DEF SetJob
<1>2. TypeOK' /\ CountersBounded'
  BY <1>1 DEF IInv, TypeOK, CountersBounded
<1>3. TicketsBehind' /\ OneTicketPerGeneration'
  BY <1>1 DEF IInv, TicketsBehind, OneTicketPerGeneration
<1>4. \A q \in DOMAIN jobs : LeaseLive(jobs'[q], now) => LeaseLive(jobs[q], now)
  BY <1>1
<1>5. OneLiveLease'
  BY <1>1, <1>4 DEF IInv, OneLiveLease
<1>6. ASSUME NEW t \in issued, Passes(t)'
      PROVE  Passes(t)
  BY <1>1, <1>6 DEF Passes, FenceHolds
<1>7. QED
  BY <1>2, <1>3, <1>5, <1>6 DEF IInv

(* The sweep that opens a claim touches no live lease and no counter.      *)
LEMMA SweepStep ==
  ASSUME IInv, NEW r \in DOMAIN jobs
  PROVE  /\ SweptJobs[r] \in Job
         /\ SweptJobs[r].gen = jobs[r].gen /\ SweptJobs[r].epoch = jobs[r].epoch
         /\ LeaseLive(SweptJobs[r], now) <=> LeaseLive(jobs[r], now)
<1>1. jobs[r] \in Job /\ now \in Nat
  BY DEF IInv, TypeOK
<1>2. SweptJobs[r] = Swept(jobs[r], now)
  BY DEF SweptJobs
<1>3. 0 \in Nat
  OBVIOUS
<1>4. QED
  BY <1>1, <1>2, <1>3, RowOpsType, RowOpsFence

(* A claim starts a lease while none is live, under a generation no ticket *)
(* has: the invariant is kept and no older ticket passes.                  *)
LEMMA ClaimStep ==
  ASSUME IInv, NEW r \in Runs, Claim(r)
  PROVE  IInv' /\ \A t \in issued : ~Passes(t)'
<1> DEFINE j == Claimed(jobs[r], now, LeaseTicks)
           new == [run |-> r, gen |-> j.gen, epoch |-> j.epoch]
<1>1. /\ r \in DOMAIN jobs /\ jobs[r] \in Job /\ now \in Nat /\ LeaseTicks \in Nat
      /\ Claimable(jobs[r], now) /\ jobs[r].gen < MaxGen
  BY LeaseAssumption DEF Claim, Candidates, IInv, TypeOK
<1>2. j \in Job /\ j.gen = jobs[r].gen + 1 /\ j.epoch = jobs[r].epoch
  BY <1>1, RowOpsType, RowOpsFence
<1> HIDE DEF j
<1>3. DOMAIN SweptJobs = DOMAIN jobs
  BY DEF SweptJobs
<1>4. jobs' = [SweptJobs EXCEPT ![r] = j] /\ issued' = issued \cup {new} /\ now' = now
  BY DEF Claim, j
<1>5. /\ DOMAIN jobs' = DOMAIN jobs
      /\ jobs'[r] = j
      /\ \A q \in DOMAIN jobs : q # r => jobs'[q] = SweptJobs[q]
  BY <1>1, <1>3, <1>4
<1>6. \A q \in DOMAIN jobs : q # r => ~LeaseLive(jobs'[q], now)
  BY <1>5, SweepStep DEF Claim, AnyLive
<1>7. CountersBounded'
  BY <1>1, <1>2, <1>5, SweepStep, BoundAssumption DEF IInv, CountersBounded
<1>8. new \in Ticket
  BY <1>1, <1>2, BoundAssumption DEF Ticket, IInv, CountersBounded
<1>9. TypeOK'
  BY <1>2, <1>4, <1>5, <1>8, SweepStep DEF IInv, TypeOK
<1>10. \A t \in issued : t.run \in DOMAIN jobs /\ t.gen <= jobs[t.run].gen /\ t \in Ticket
  BY DEF IInv, TicketsBehind, TypeOK
<1>11. \A t \in issued : t.run = r => t.gen < new.gen
  BY <1>1, <1>2, <1>10 DEF Ticket, Job
<1>12. TicketsBehind'
  <2>1. new.run \in DOMAIN jobs' /\ new.gen <= jobs'[new.run].gen
    BY <1>1, <1>2, <1>5 DEF Job
  <2>2. ASSUME NEW t \in issued
        PROVE  t.run \in DOMAIN jobs' /\ t.gen <= jobs'[t.run].gen
    <3>1. CASE t.run = r
      BY <3>1, <1>1, <1>2, <1>5, <1>10 DEF Ticket, Job
    <3>2. CASE t.run # r
      BY <3>2, <1>5, <1>10, SweepStep
    <3>3. QED BY <3>1, <3>2
  <2>3. QED BY <2>1, <2>2, <1>4 DEF TicketsBehind
<1>13. OneTicketPerGeneration'
  BY <1>1, <1>2, <1>4, <1>10, <1>11 DEF IInv, OneTicketPerGeneration, Ticket, Job
<1>14. OneLiveLease'
  BY <1>4, <1>5, <1>6 DEF OneLiveLease
<1>15. ASSUME NEW t \in issued PROVE ~Passes(t)'
  <2>1. CASE t.run = r
    BY <2>1, <1>1, <1>2, <1>5, <1>10, <1>11 DEF Passes, FenceHolds, Ticket, Job
  <2>2. CASE t.run # r
    BY <2>2, <1>4, <1>5, <1>6 DEF Passes, FenceHolds
  <2>3. QED BY <2>1, <2>2
<1>16. QED
  BY <1>7, <1>9, <1>12, <1>13, <1>14, <1>15 DEF IInv

(* Time only ends leases.                                                  *)
LEMMA TickStep ==
  ASSUME IInv, Tick
  PROVE  IInv' /\ \A t \in issued : Passes(t)' => Passes(t)
<1>1. now \in Nat /\ now' = now + 1 /\ jobs' = jobs /\ issued' = issued
  BY DEF Tick, IInv, TypeOK
<1>2. \A r \in DOMAIN jobs : LeaseLive(jobs[r], now') => LeaseLive(jobs[r], now)
  BY <1>1 DEF LeaseLive, IInv, TypeOK, Job, Time, NoTime
<1>3. OneLiveLease'
  BY <1>1, <1>2 DEF IInv, OneLiveLease
<1>4. \A t \in issued : Passes(t)' => Passes(t)
  BY <1>1, <1>2 DEF Passes, FenceHolds
<1>5. QED
  BY <1>1, <1>3, <1>4
     DEF IInv, TypeOK, CountersBounded, TicketsBehind, OneTicketPerGeneration

(* Each store operation as a RowStep.                                      *)
LEMMA OperationStep ==
  ASSUME IInv,
         \/ \E r \in Runs : Wake(r)
         \/ \E t \in issued :
              \/ Renew(t)
              \/ Complete(t)
              \/ \E s \in Steps, st \in {"READY", "WAITING"} : Checkpoint(t, s, st)
              \/ \E d \in Delays : Retry(t, d)
  PROVE  IInv' /\ \A t \in issued : Passes(t)' => Passes(t)
<1>1. now \in Nat /\ 0 \in Nat /\ LeaseTicks \in Nat /\ Delays \subseteq Nat
  BY LeaseAssumption, DelayAssumption DEF IInv, TypeOK
<1>2. \A r \in DOMAIN jobs :
        jobs[r] \in Job /\ jobs[r].gen \in 0..MaxGen /\ jobs[r].epoch \in 0..MaxEpoch
  BY DEF IInv, TypeOK, CountersBounded
<1>3. ASSUME NEW r \in Runs, Wake(r)
      PROVE  IInv' /\ \A t \in issued : Passes(t)' => Passes(t)
  <2> DEFINE j == Woken(jobs[r], now)
  <2>1. r \in DOMAIN jobs /\ jobs[r].epoch < MaxEpoch /\ SetJob(r, j) /\ UNCHANGED <<now, issued>>
    BY <1>3 DEF Wake
  <2>2. /\ j \in Job /\ j.gen = jobs[r].gen /\ ~Leased(j)
        /\ j.epoch = jobs[r].epoch + 1
    BY <1>1, <1>2, <2>1, RowOpsType, RowOpsFence
  <2> HIDE DEF j
  <2>3. j.epoch \in 0..MaxEpoch /\ ~LeaseLive(j, now)
    BY <1>2, <2>1, <2>2, BoundAssumption DEF LeaseLive
  <2>4. QED BY <2>1, <2>2, <2>3, RowStep
<1>4. ASSUME NEW u \in issued, NEW j \in Job, Fenced(u, j),
             j.gen = jobs[u.run].gen, j.epoch = jobs[u.run].epoch
      PROVE  IInv' /\ \A t \in issued : Passes(t)' => Passes(t)
  <2>1. u.run \in DOMAIN jobs /\ LeaseLive(jobs[u.run], now)
    BY <1>4 DEF Fenced, Passes, FenceHolds
  <2>2. SetJob(u.run, j) /\ UNCHANGED <<now, issued>>
    BY <1>4 DEF Fenced
  <2>3. j.epoch \in 0..MaxEpoch
    BY <1>2, <1>4, <2>1
  <2>4. QED BY <1>4, <2>1, <2>2, <2>3, RowStep
<1>5. ASSUME NEW u \in issued,
             \/ Renew(u)
             \/ Complete(u)
             \/ \E s \in Steps, st \in {"READY", "WAITING"} : Checkpoint(u, s, st)
             \/ \E d \in Delays : Retry(u, d)
      PROVE  IInv' /\ \A t \in issued : Passes(t)' => Passes(t)
  <2>1. jobs[u.run] \in Job
    BY <1>2, <1>5 DEF Renew, Complete, Checkpoint, Retry, Fenced, Passes
  <2>2. CASE Renew(u)
    <3> DEFINE j == Renewed(jobs[u.run], now, LeaseTicks)
    <3>1. j \in Job
      BY <1>1, <2>1, RowOpsType
    <3>2. j.gen = jobs[u.run].gen /\ j.epoch = jobs[u.run].epoch
      BY <1>1, <2>1, RowOpsFence
    <3>3. Fenced(u, j)
      BY <2>2 DEF Renew
    <3>4. QED BY <3>1, <3>2, <3>3, <1>4
  <2>3. CASE Complete(u)
    <3> DEFINE j == Completed(jobs[u.run])
    <3>1. j \in Job
      BY <1>1, <2>1, RowOpsType
    <3>2. j.gen = jobs[u.run].gen /\ j.epoch = jobs[u.run].epoch
      BY <1>1, <2>1, RowOpsFence
    <3>3. Fenced(u, j)
      BY <2>3 DEF Complete
    <3>4. QED BY <3>1, <3>2, <3>3, <1>4
  <2>4. ASSUME NEW s \in Steps, NEW st \in {"READY", "WAITING"}, Checkpoint(u, s, st)
        PROVE  IInv' /\ \A t \in issued : Passes(t)' => Passes(t)
    <3> DEFINE j == Checkpointed(jobs[u.run], s, st, now)
    <3>1. j \in Job
      BY <1>1, <2>1, RowOpsType
    <3>2. j.gen = jobs[u.run].gen /\ j.epoch = jobs[u.run].epoch
      BY <2>1 DEF Checkpointed, Job
    <3>3. Fenced(u, j)
      BY <2>4 DEF Checkpoint
    <3>4. QED BY <3>1, <3>2, <3>3, <1>4
  <2>5. ASSUME NEW d \in Delays, Retry(u, d)
        PROVE  IInv' /\ \A t \in issued : Passes(t)' => Passes(t)
    <3> DEFINE j == Retried(jobs[u.run], now, d)
    <3>0. d \in Nat /\ now \in Nat
      BY <1>1
    <3>1. j \in Job
      BY <2>1, <3>0, RowOpsType
    <3>2. j.gen = jobs[u.run].gen /\ j.epoch = jobs[u.run].epoch
      BY <2>1 DEF Retried, Job
    <3>3. Fenced(u, j)
      BY <2>5 DEF Retry
    <3>4. QED BY <3>1, <3>2, <3>3, <1>4
  <2>6. QED BY <1>5, <2>2, <2>3, <2>4, <2>5
<1>6. QED
  BY <1>3, <1>5

(* Creating a row, a claim that finds nothing: no lease starts.            *)
LEMMA OtherStep ==
  ASSUME IInv,
         ClaimNothing \/ \E r \in Runs, s \in Steps : Create(r, s)
  PROVE  IInv' /\ \A t \in issued : Passes(t)' => Passes(t)
<1>1. CASE ClaimNothing
  <2>1. jobs' = SweptJobs /\ UNCHANGED <<now, issued>> /\ DOMAIN SweptJobs = DOMAIN jobs
    BY <1>1 DEF ClaimNothing, SweptJobs
  <2>2. OneLiveLease'
    BY <2>1, SweepStep DEF IInv, OneLiveLease
  <2>3. \A t \in issued : Passes(t)' => Passes(t)
    BY <2>1, SweepStep DEF Passes, FenceHolds
  <2>4. TypeOK' /\ CountersBounded' /\ TicketsBehind' /\ OneTicketPerGeneration'
    BY <2>1, SweepStep
       DEF IInv, TypeOK, CountersBounded, TicketsBehind, OneTicketPerGeneration
  <2>5. QED BY <2>2, <2>3, <2>4 DEF IInv
<1>2. ASSUME NEW r \in Runs, NEW s \in Steps, Create(r, s)
      PROVE  IInv' /\ \A t \in issued : Passes(t)' => Passes(t)
  <2> DEFINE j == NewJob(s, now)
  <2>1. now \in Nat /\ r \notin DOMAIN jobs /\ UNCHANGED <<now, issued>>
    BY <1>2 DEF Create, IInv, TypeOK
  <2>2. j \in Job /\ j.gen = 0 /\ j.epoch = 0 /\ ~LeaseLive(j, now)
    BY <2>1, NewJobType DEF NewJob, LeaseLive, Leased
  <2>3. /\ DOMAIN jobs' = DOMAIN jobs \cup {r}
        /\ jobs'[r] = j
        /\ \A q \in DOMAIN jobs : jobs'[q] = jobs[q]
    BY <1>2, <2>1 DEF Create
  <2> HIDE DEF j
  <2>4. TypeOK' /\ CountersBounded'
    BY <2>1, <2>2, <2>3, BoundAssumption DEF IInv, TypeOK, CountersBounded
  <2>5. TicketsBehind' /\ OneTicketPerGeneration'
    BY <2>1, <2>3 DEF IInv, TicketsBehind, OneTicketPerGeneration
  <2>6. OneLiveLease'
    BY <2>1, <2>2, <2>3 DEF IInv, OneLiveLease
  <2>7. \A t \in issued : Passes(t)' => Passes(t)
    BY <2>1, <2>3 DEF Passes, IInv, TicketsBehind
  <2>8. QED BY <2>4, <2>5, <2>6, <2>7 DEF IInv
<1>3. QED
  BY <1>1, <1>2

(* Every step of the table keeps the invariant, and lets a ticket pass     *)
(* that did not pass before only if it is the one being issued.            *)
LEMMA NextStep ==
  ASSUME IInv, [Next]_vars
  PROVE  IInv' /\ \A t \in issued : Passes(t)' => Passes(t)
<1>1. CASE UNCHANGED vars
  BY <1>1 DEF vars, IInv, TypeOK, CountersBounded, TicketsBehind, OneTicketPerGeneration,
              OneLiveLease, Passes
<1>2. CASE Next
  <2>1. ASSUME NEW r \in Runs, Claim(r)
        PROVE  IInv' /\ \A t \in issued : Passes(t)' => Passes(t)
    BY <2>1, ClaimStep
  <2>2. QED BY <1>2, <2>1, TickStep, OperationStep, OtherStep DEF Next
<1>3. QED BY <1>1, <1>2

(* The empty table satisfies the invariant.                                *)
LEMMA InitStep == Init => IInv
BY DEF Init, IInv, TypeOK, CountersBounded, TicketsBehind, OneTicketPerGeneration, OneLiveLease

-----------------------------------------------------------------------------
(* The theorems.                                                           *)

(* The inductive invariant holds of the job table.                         *)
THEOREM TableInvariant == Spec => []IInv
BY InitStep, NextStep, PTL DEF Spec

(* Rows and tickets always have their types.                               *)
THEOREM TableTypes == Spec => []TypeOK
BY TableInvariant, PTL DEF IInv

(* "SQLite mode intentionally permits only one active job lease at a       *)
(* time", however many workers claim from however many runs.               *)
THEOREM TableOneLease == Spec => []OneLiveLease
BY TableInvariant, PTL DEF IInv

(* At most one of all the tickets ever handed out can write the table.     *)
THEOREM TableOneTicket == Spec => []OneTicketPasses
<1>1. IInv => OneTicketPasses
  BY DEF IInv, OneLiveLease, OneTicketPerGeneration, OneTicketPasses, Passes, FenceHolds
<1>2. QED
  BY <1>1, TableInvariant, PTL

(* A fence that was lost stays lost: no later claim, wake, renewal or      *)
(* retry makes an old ticket pass again.                                   *)
THEOREM TableFencingFinal == Spec => LostFenceStaysLost
<1>1. IInv /\ [Next]_vars => [\A t \in issued : ~Passes(t) => ~Passes(t)']_vars
  BY NextStep
<1>2. QED
  BY <1>1, TableInvariant, PTL DEF Spec, LostFenceStaysLost

-----------------------------------------------------------------------------
(* What may happen to a row.                                               *)

DeadIsExhausted(j) == j.status = "DEAD" => j.attempt = MaxAttempts

(* A row changes only while it is open, and dies only of its last attempt. *)
RowChange(old, new) ==
  \/ new = old
  \/ old.status \notin Closed /\ DeadIsExhausted(new)

(* Each operation, under the guard its SQL or its fence checks, is such a  *)
(* change.                                                                 *)
LEMMA RowOpsChange ==
  ASSUME NEW j \in Job, NEW n \in Nat, NEW d \in Nat
  PROVE  /\ j.status \notin Closed => RowChange(j, Woken(j, n))
         /\ RowChange(j, Swept(j, n))
         /\ Claimable(j, n) => RowChange(j, Claimed(j, n, d))
         /\ Leased(j) => /\ RowChange(j, Completed(j))
                         /\ RowChange(j, Renewed(j, n, d))
                         /\ RowChange(j, Retried(j, n, d))
                         /\ \A s \in Steps, st \in {"READY", "WAITING"} :
                              RowChange(j, Checkpointed(j, s, st, n))
<1>1. j.status \notin Closed => RowChange(j, Woken(j, n))
  BY DEF RowChange, DeadIsExhausted, Woken, Job
<1>2. RowChange(j, Swept(j, n))
  BY MaxAttemptsAssumption
     DEF RowChange, DeadIsExhausted, Swept, Exhausted, LeaseOver, Leased, Closed, Job
<1>3. Claimable(j, n) => RowChange(j, Claimed(j, n, d))
  BY DEF RowChange, DeadIsExhausted, Claimable, Claimed, LeaseOver, Leased, Closed, Job
<1>4. Leased(j) => j.status \notin Closed
  BY DEF Leased, Closed
<1>5. DeadIsExhausted(Completed(j))
  BY DEF DeadIsExhausted, Completed, Job
<1>6. Leased(j) => DeadIsExhausted(Renewed(j, n, d))
  BY DEF DeadIsExhausted, Renewed, Leased, Job
<1>7. DeadIsExhausted(Retried(j, n, d))
  BY MaxAttemptsAssumption DEF DeadIsExhausted, Retried, Job
<1>8. ASSUME NEW s \in Steps, NEW st \in {"READY", "WAITING"}
      PROVE  DeadIsExhausted(Checkpointed(j, s, st, n))
  BY DEF DeadIsExhausted, Checkpointed, Job
<1>9. QED
  BY <1>1, <1>2, <1>3, <1>4, <1>5, <1>6, <1>7, <1>8 DEF RowChange

(* A step of the table makes only such changes, and adds no dead row.      *)
LEMMA TableChange ==
  ASSUME IInv, Next
  PROVE  /\ \A r \in DOMAIN jobs : r \in DOMAIN jobs' /\ RowChange(jobs[r], jobs'[r])
         /\ \A r \in DOMAIN jobs' \ DOMAIN jobs : jobs'[r].status # "DEAD"
<1> DEFINE Goal == /\ \A r \in DOMAIN jobs : r \in DOMAIN jobs' /\ RowChange(jobs[r], jobs'[r])
                   /\ \A r \in DOMAIN jobs' \ DOMAIN jobs : jobs'[r].status # "DEAD"
<1>1. /\ now \in Nat /\ LeaseTicks \in Nat /\ Delays \subseteq Nat
      /\ \A r \in DOMAIN jobs : jobs[r] \in Job
  BY LeaseAssumption, DelayAssumption DEF IInv, TypeOK
<1>2. ASSUME NEW r \in DOMAIN jobs, NEW j, SetJob(r, j), RowChange(jobs[r], j)
      PROVE  Goal
  BY <1>2 DEF SetJob, RowChange
<1>3. ASSUME NEW r \in Runs, Wake(r)
      PROVE  Goal
  <2>1. r \in DOMAIN jobs /\ jobs[r].status \notin Closed /\ SetJob(r, Woken(jobs[r], now))
    BY <1>3 DEF Wake
  <2>2. RowChange(jobs[r], Woken(jobs[r], now))
    BY <1>1, <2>1, RowOpsChange
  <2>3. QED BY <1>2, <2>1, <2>2
<1>4. \A r \in DOMAIN jobs : RowChange(jobs[r], SweptJobs[r])
  BY <1>1, RowOpsChange DEF SweptJobs
<1>5. ASSUME NEW r \in Runs, Claim(r)
      PROVE  Goal
  <2>1. /\ r \in DOMAIN jobs /\ Claimable(jobs[r], now)
        /\ jobs' = [SweptJobs EXCEPT ![r] = Claimed(jobs[r], now, LeaseTicks)]
        /\ DOMAIN SweptJobs = DOMAIN jobs
    BY <1>5 DEF Claim, Candidates, SweptJobs
  <2>2. RowChange(jobs[r], Claimed(jobs[r], now, LeaseTicks))
    BY <1>1, <2>1, RowOpsChange
  <2>3. QED BY <1>4, <2>1, <2>2
<1>6. ASSUME NEW r \in Runs, NEW s \in Steps, Create(r, s)
      PROVE  Goal
  BY <1>6 DEF Create, NewJob, RowChange
<1>7. ASSUME ClaimNothing
      PROVE  Goal
  BY <1>4, <1>7 DEF ClaimNothing, SweptJobs
<1>8. ASSUME NEW t \in issued,
             \/ Renew(t)
             \/ Complete(t)
             \/ \E s \in Steps, st \in {"READY", "WAITING"} : Checkpoint(t, s, st)
             \/ \E d \in Delays : Retry(t, d)
      PROVE  Goal
  <2>1. t.run \in DOMAIN jobs /\ Leased(jobs[t.run])
    BY <1>8 DEF Renew, Complete, Checkpoint, Retry, Fenced, Passes, FenceHolds, LeaseLive
  <2>2. CASE Renew(t)
    BY <1>1, <1>2, <2>1, <2>2, RowOpsChange DEF Renew, Fenced
  <2>3. CASE Complete(t)
    BY <1>1, <1>2, <2>1, <2>3, RowOpsChange DEF Complete, Fenced
  <2>4. ASSUME NEW s \in Steps, NEW st \in {"READY", "WAITING"}, Checkpoint(t, s, st)
        PROVE  Goal
    BY <1>1, <1>2, <2>1, <2>4, RowOpsChange DEF Checkpoint, Fenced
  <2>5. ASSUME NEW d \in Delays, Retry(t, d)
        PROVE  Goal
    BY <1>1, <1>2, <2>1, <2>5, RowOpsChange DEF Retry, Fenced
  <2>6. QED BY <1>8, <2>2, <2>3, <2>4, <2>5
<1>9. CASE Tick
  BY <1>9 DEF Tick, RowChange
<1>10. QED
  BY <1>3, <1>5, <1>6, <1>7, <1>8, <1>9 DEF Next

(* A job is DEAD only after as many attempts as it was allowed.            *)
THEOREM TableDeadExhausted == Spec => []DeadMeansExhausted
<1>1. Init => DeadMeansExhausted
  BY DEF Init, DeadMeansExhausted
<1>2. ASSUME IInv, DeadMeansExhausted, [Next]_vars
      PROVE  DeadMeansExhausted'
  <2>1. CASE Next
    BY <1>2, <2>1, TableChange DEF DeadMeansExhausted, RowChange, DeadIsExhausted
  <2>2. CASE UNCHANGED vars
    BY <1>2, <2>2 DEF DeadMeansExhausted, vars
  <2>3. QED BY <1>2, <2>1, <2>2
<1>3. QED
  BY <1>1, <1>2, TableInvariant, PTL DEF Spec

(* No claim, wake, retry or stale verdict rewrites a COMPLETED or DEAD row. *)
THEOREM TableClosedFinal == Spec => ClosedRowsStayClosed
<1>1. IInv /\ [Next]_vars
        => [\A r \in DOMAIN jobs : jobs[r].status \in Closed => jobs'[r] = jobs[r]]_vars
  BY TableChange DEF RowChange
<1>2. QED
  BY <1>1, TableInvariant, PTL DEF Spec, ClosedRowsStayClosed

-----------------------------------------------------------------------------
(* The table implements the abstract lease service.                        *)

HolderIsThePassing ==
  /\ \A t \in issued : Passes(t) => Holder = t
  /\ (\A t \in issued : ~Passes(t)) => Holder = NoTicket

(* The abstract holder is the one ticket that passes, if any does.         *)
LEMMA HolderPasses == IInv => HolderIsThePassing
<1>1. IInv => \A s, t \in issued : Passes(s) /\ Passes(t) => s = t
  BY DEF IInv, OneLiveLease, OneTicketPerGeneration, Passes, FenceHolds
<1>2. QED
  BY <1>1 DEF Holder, HolderIsThePassing

(* A claim hands out one ticket that no caller had and that passes.        *)
LEMMA ClaimTicket ==
  ASSUME IInv, NEW r \in Runs, Claim(r)
  PROVE  \E t \in Ticket : t \notin issued /\ issued' = issued \cup {t} /\ Passes(t)'
<1> DEFINE j == Claimed(jobs[r], now, LeaseTicks)
           new == [run |-> r, gen |-> j.gen, epoch |-> j.epoch]
<1>1. /\ r \in DOMAIN jobs /\ jobs[r] \in Job /\ now \in Nat
      /\ LeaseTicks \in Nat \ {0} /\ now' = now
      /\ jobs' = [SweptJobs EXCEPT ![r] = j] /\ issued' = issued \cup {new}
      /\ DOMAIN SweptJobs = DOMAIN jobs
  BY LeaseAssumption DEF Claim, Candidates, IInv, TypeOK, SweptJobs
<1>2. j.status = "LEASED" /\ j.expires = now + LeaseTicks /\ j.gen = jobs[r].gen + 1
  BY <1>1 DEF Claimed, Job
<1> HIDE DEF j
<1>3. jobs[r].gen \in Nat
  BY <1>1 DEF Job
<1>4. new \notin issued
  BY <1>2, <1>3 DEF IInv, TicketsBehind
<1>5. r \in DOMAIN jobs' /\ jobs'[r] = j /\ now' + LeaseTicks > now'
  BY <1>1
<1>6. PICK t : t = new
  OBVIOUS
<1>7. Passes(t)'
  BY <1>1, <1>2, <1>5, <1>6 DEF Passes, FenceHolds, LeaseLive, Leased
<1>8. IInv'
  BY ClaimStep
<1>9. t \in Ticket
  BY <1>1, <1>6, <1>8 DEF IInv, TypeOK
<1>10. QED
  BY <1>1, <1>4, <1>6, <1>7, <1>9

(* Every step of the table grants one lease, ends one, or is invisible to  *)
(* the lease service.                                                      *)
LEMMA LeaseStep ==
  ASSUME IInv, [Next]_vars
  PROVE  [Lease!Next]_<<Holder, issued>>
<1>1. IInv' /\ \A t \in issued : Passes(t)' => Passes(t)
  BY NextStep
<1>2. HolderIsThePassing
  BY HolderPasses
<1>3. HolderIsThePassing'
  BY <1>1, HolderPasses, PTL
<1>4. ASSUME NEW r \in Runs, Claim(r)
      PROVE  Lease!Next
  <2>1. PICK t \in Ticket : t \notin issued /\ issued' = issued \cup {t} /\ Passes(t)'
    BY <1>4, ClaimTicket
  <2>2. Holder = NoTicket
    BY <1>2, <1>4 DEF HolderIsThePassing, Claim, AnyLive, Passes, FenceHolds
  <2>3. Holder' = t
    BY <1>3, <2>1 DEF HolderIsThePassing
  <2>4. QED BY <2>1, <2>2, <2>3 DEF Lease!Next, Lease!Grant
<1>5. ASSUME issued' = issued
      PROVE  [Lease!Next]_<<Holder, issued>>
  <2>1. CASE \E t \in issued : Passes(t)'
    BY <2>1, <1>1, <1>2, <1>3, <1>5 DEF HolderIsThePassing
  <2>2. CASE ~ \E t \in issued : Passes(t)'
    <3>1. Holder' = NoTicket
      BY <2>2, <1>3, <1>5 DEF HolderIsThePassing
    <3>2. QED BY <3>1, <1>5 DEF Lease!Next, Lease!End
  <2>3. QED BY <2>1, <2>2
<1>6. issued' = issued \/ \E r \in Runs : Claim(r)
  BY DEF Next, vars, Wake, Create, ClaimNothing, Renew, Complete, Checkpoint, Retry, Fenced, Tick
<1>7. QED
  BY <1>4, <1>5, <1>6

(* The job table implements FencedLease: leases are granted one at a time, *)
(* each under a new ticket, and end for good.                              *)
THEOREM TableImplementsLease == Spec => ImplementsFencedLease
<1>1. Init => Lease!Init
  BY DEF Init, Lease!Init, Holder
<1>2. IInv /\ [Next]_vars => [Lease!Next]_<<Holder, issued>>
  BY LeaseStep
<1>3. QED
  BY <1>1, <1>2, TableInvariant, PTL
     DEF Spec, ImplementsFencedLease, Lease!Spec, Lease!leaseVars
=============================================================================
