---------------------------- MODULE FencedLease ----------------------------
(***************************************************************************)
(* What the job table promises to the worker, without rows, statuses or    *)
(* clocks: leases are granted one at a time, each under a ticket of its    *)
(* own, and a ticket whose lease is over never becomes valid again.        *)
(***************************************************************************)
CONSTANTS
  Ticket,     \* every (run, generation, epoch) a claim may hand out
  NoTicket    \* no lease is live

VARIABLES
  holder,     \* the ticket whose lease is live, or NoTicket
  issued      \* the tickets handed out so far

leaseVars == <<holder, issued>>

Init == holder = NoTicket /\ issued = {}

(* A claim: only while no lease is live, and under a new ticket. *)
Grant(t) ==
  /\ holder = NoTicket
  /\ t \notin issued
  /\ holder' = t
  /\ issued' = issued \cup {t}

(* The lease ends: released, revoked by a control command, or expired. *)
End ==
  /\ holder # NoTicket
  /\ holder' = NoTicket
  /\ UNCHANGED issued

Next == End \/ \E t \in Ticket : Grant(t)

Spec == Init /\ [][Next]_leaseVars
=============================================================================
