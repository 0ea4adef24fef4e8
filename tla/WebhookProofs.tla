---------------------------- MODULE WebhookProofs ----------------------------
(***************************************************************************)
(* Machine-checked proofs about the webhook dispatcher, for any endpoints, *)
(* runs and filters, any limit on attempts, and any number of events,      *)
(* faults, redeliveries and rotations.                                     *)
(*                                                                         *)
(* The argument: apart from a dispatch no step adds an attempt, and none   *)
(* takes back that a delivery was acknowledged or given up; a dispatch     *)
(* takes the head of its run's queue, and whatever sorts before it is over. *)
(* The one row that is DELIVERING is the worker's until it writes the      *)
(* outcome, since no request or timer touches a row in that status.        *)
(***************************************************************************)
EXTENDS WebhookDelivery, SequenceTheorems, TLAPS

Over(d) == d.status = "SUCCEEDED" \/ d.gaveUp

(* A row keeps account of its attempts: one that may be sent again has one  *)
(* left.                                                                   *)
RowOK(d) ==
  /\ d.status = "EXHAUSTED" => d.gaveUp
  /\ d.attempts <= MaxAttempts + d.extra
  /\ d.status \in {"PENDING", "RETRYING"} => d.attempts < MaxAttempts + d.extra
RowsOK == \A e \in Endpoints : \A i \in DOMAIN outbox[e] : RowOK(outbox[e][i])

(* The POST in flight belongs to a row that says so. *)
PostIsOpen ==
  Posting => /\ worker.endpoint \in Endpoints /\ worker.index \in DOMAIN outbox[worker.endpoint]
             /\ Posted.status = "DELIVERING"
             /\ endpoints[worker.endpoint].status # "ABSENT"

IInv ==
  /\ TypeOK /\ RowsOK /\ PostIsOpen
  /\ InRunOrder /\ DeliveringIsPosted /\ SignatureVerifiable

-----------------------------------------------------------------------------
(* Rows. *)

(* What an edit of a row other than the dispatcher's keeps ... *)
Keeps(d, c) ==
  /\ c \in Delivery /\ RowOK(c)
  /\ c.run = d.run /\ c.at = d.at /\ c.attempts = d.attempts
  /\ Over(d) => Over(c)
  /\ c.status = "DELIVERING" => d.status = "DELIVERING" /\ (d.lost => c.lost)

(* ... and all of it, if it is not the outcome of a POST. *)
Still(d, c) == Keeps(d, c) /\ (d.status = "DELIVERING" => c.status = "DELIVERING")

(* An edit with this account of its fields keeps the row.                  *)
LEMMA FieldsKept ==
  ASSUME NEW d \in Delivery, RowOK(d), NEW c \in Delivery,
         c.run = d.run, c.at = d.at, c.attempts = d.attempts, d.gaveUp => c.gaveUp,
         d.status = "SUCCEEDED" => c.status = "SUCCEEDED",
         c.status = "EXHAUSTED" => c.gaveUp,
         c.status = "DELIVERING" => d.status = "DELIVERING" /\ (d.lost => c.lost),
         \/ c.extra = d.extra + 1
         \/ c.extra = d.extra /\ c.status = d.status
         \/ c.extra = d.extra /\ d.attempts < MaxAttempts
         \/ c.extra = d.extra /\ c.status \notin {"PENDING", "RETRYING"}
  PROVE  Keeps(d, c)
<1>1. d.attempts \in Nat /\ d.extra \in Nat /\ MaxAttempts \in Nat
  BY WebhookAssumption DEF Delivery
<1>2. c.attempts <= MaxAttempts + c.extra
  BY <1>1 DEF RowOK
<1>3. c.status \in {"PENDING", "RETRYING"} => c.attempts < MaxAttempts + c.extra
  BY <1>1 DEF RowOK
<1>4. RowOK(c)
  BY <1>2, <1>3 DEF RowOK
<1>5. Over(d) => Over(c)
  BY DEF Over
<1>6. QED
  BY <1>4, <1>5 DEF Keeps

(* An edited row is still a row.                                           *)
LEMMA EditedType ==
  ASSUME NEW d \in Delivery, NEW n \in Nat, NEW due \in BOOLEAN
  PROVE  /\ [d EXCEPT !.status = "PENDING", !.due = due, !.extra = n] \in Delivery
         /\ [d EXCEPT !.status = "RETRYING", !.due = due] \in Delivery
         /\ [[d EXCEPT !.status = "RETRYING", !.due = due] EXCEPT !.extra = n] \in Delivery
         /\ [d EXCEPT !.status = "RETRYING", !.due = due, !.lost = FALSE, !.extra = n] \in Delivery
BY Zenon DEF Delivery, Unfinished

(* Requests and timers leave a delivery in flight alone.                   *)
LEMMA Edits ==
  ASSUME NEW d \in Delivery, RowOK(d)
  PROVE  /\ d.status \in {"PENDING", "RETRYING", "EXHAUSTED"} =>
              Still(d, [d EXCEPT !.status = "PENDING", !.due = TRUE, !.extra = d.extra + 1])
         /\ Still(d, [d EXCEPT !.due = TRUE])
         /\ Still(d, [d EXCEPT !.old = TRUE])
         /\ Still(d, [d EXCEPT !.expired = TRUE])
         /\ Still(d, d)
<1>1. /\ d.status \in Unfinished \cup {"SUCCEEDED", "EXHAUSTED"} /\ d.attempts \in Nat /\ d.extra \in Nat
      /\ MaxAttempts \in Nat \ {0}
  BY WebhookAssumption DEF Delivery
<1>2. ASSUME d.status \in {"PENDING", "RETRYING", "EXHAUSTED"}, NEW c,
             c = [d EXCEPT !.status = "PENDING", !.due = TRUE, !.extra = d.extra + 1]
      PROVE  Still(d, c)
  <2>1. c \in Delivery
    <3>1. d.extra + 1 \in Nat
      BY <1>1
    <3>2. QED
      BY <1>2, <3>1, EditedType
  <2>2. c.run = d.run /\ c.at = d.at /\ c.attempts = d.attempts /\ c.status = "PENDING" /\ c.extra = d.extra + 1
    BY <1>2 DEF Delivery
  <2>3. d.gaveUp => c.gaveUp
    BY <1>2 DEF Delivery
  <2>4. Keeps(d, c)
    BY <1>2, <2>1, <2>2, <2>3, FieldsKept
  <2>5. QED
    BY <1>2, <2>4 DEF Still
<1>3. Still(d, [d EXCEPT !.due = TRUE])
  BY <1>1 DEF Still, Keeps, RowOK, Over, Delivery, Unfinished
<1>4. Still(d, [d EXCEPT !.old = TRUE])
  BY <1>1 DEF Still, Keeps, RowOK, Over, Delivery, Unfinished
<1>5. Still(d, [d EXCEPT !.expired = TRUE])
  BY <1>1 DEF Still, Keeps, RowOK, Over, Delivery, Unfinished
<1>6. Still(d, d)
  BY <1>1 DEF Still, Keeps, RowOK, Over, Delivery, Unfinished
<1>7. QED
  BY <1>2, <1>3, <1>4, <1>5, <1>6

(* A row that goes back to RETRYING has an attempt left, or gets one more. *)
LEMMA Retries ==
  ASSUME NEW d \in Delivery, RowOK(d), d.status = "DELIVERING", NEW c, NEW due \in BOOLEAN,
         \/ c = Retried(d, due) /\ d.attempts < MaxAttempts
         \/ c = [Retried(d, due) EXCEPT !.extra = d.extra + 1]
         \/ c = [d EXCEPT !.status = "RETRYING", !.due = due, !.lost = FALSE, !.extra = d.extra + 1]
  PROVE  Keeps(d, c) /\ c.status = "RETRYING"
<1>1. d.extra + 1 \in Nat
  BY DEF Delivery
<1>2. c \in Delivery
  <2>1. CASE c = Retried(d, due)
    BY <1>1, <2>1, EditedType DEF Retried
  <2>2. CASE c = [Retried(d, due) EXCEPT !.extra = d.extra + 1]
    BY <1>1, <2>2, EditedType DEF Retried
  <2>3. CASE c = [d EXCEPT !.status = "RETRYING", !.due = due, !.lost = FALSE, !.extra = d.extra + 1]
    BY <1>1, <2>3, EditedType
  <2>4. QED
    BY <2>1, <2>2, <2>3
<1>3. c.run = d.run /\ c.at = d.at /\ c.attempts = d.attempts /\ c.status = "RETRYING"
  BY DEF Retried, Delivery
<1>4. c.extra = d.extra + 1 \/ (c.extra = d.extra /\ d.attempts < MaxAttempts)
  BY DEF Retried, Delivery
<1>5. d.gaveUp => c.gaveUp
  BY DEF Retried, Delivery
<1>6. QED
  BY <1>2, <1>3, <1>4, <1>5, FieldsKept

(* The outcome of a POST, its loss, and the recovery at the start.         *)
LEMMA Outcomes ==
  ASSUME NEW d \in Delivery, RowOK(d)
  PROVE  /\ Keeps(d, Recovered(d)) /\ Recovered(d).status # "DELIVERING"
         /\ d.status = "DELIVERING" =>
              /\ Keeps(d, [d EXCEPT !.status = "SUCCEEDED"])
              /\ [d EXCEPT !.status = "SUCCEEDED"].status = "SUCCEEDED"
              /\ Keeps(d, GivenUp(d)) /\ GivenUp(d).status = "EXHAUSTED"
              /\ Keeps(d, [d EXCEPT !.lost = TRUE]) /\ [d EXCEPT !.lost = TRUE].lost
<1>1. /\ d.status \in Unfinished \cup {"SUCCEEDED", "EXHAUSTED"} /\ d.attempts \in Nat /\ d.extra \in Nat
      /\ MaxAttempts \in Nat \ {0}
  BY WebhookAssumption DEF Delivery
<1>2. CASE d.status = "DELIVERING"
  <2>1. Keeps(d, Recovered(d)) /\ Recovered(d).status = "RETRYING"
    BY <1>2, Retries DEF Recovered
  <2>2. /\ Keeps(d, [d EXCEPT !.status = "SUCCEEDED"])
        /\ [d EXCEPT !.status = "SUCCEEDED"].status = "SUCCEEDED"
        /\ Keeps(d, GivenUp(d)) /\ GivenUp(d).status = "EXHAUSTED"
        /\ Keeps(d, [d EXCEPT !.lost = TRUE]) /\ [d EXCEPT !.lost = TRUE].lost
    BY <1>1, <1>2 DEF GivenUp, Keeps, RowOK, Over, Delivery, Unfinished
  <2>3. QED
    BY <2>1, <2>2
<1>3. CASE d.status # "DELIVERING"
  <2>1. Recovered(d) = d /\ Keeps(d, d)
    BY <1>3, Edits DEF Recovered, Still
  <2>2. QED
    BY <1>3, <2>1
<1>4. QED
  BY <1>2, <1>3

(* Writing one row leaves the others and the queues' lengths alone.        *)
LEMMA RowUpdate ==
  ASSUME outbox \in [Endpoints -> Seq(Delivery)], NEW e \in Endpoints, NEW i \in DOMAIN outbox[e],
         NEW row \in Delivery, SetDelivery(e, i, row)
  PROVE  /\ outbox' \in [Endpoints -> Seq(Delivery)]
         /\ \A f \in Endpoints : DOMAIN outbox'[f] = DOMAIN outbox[f]
         /\ outbox'[e][i] = row
         /\ \A f \in Endpoints : \A j \in DOMAIN outbox[f] :
              f # e \/ j # i => outbox'[f][j] = outbox[f][j]
<1>1. outbox' = [outbox EXCEPT ![e] = [outbox[e] EXCEPT ![i] = row]]
  BY DEF SetDelivery
<1>2. outbox[e] \in Seq(Delivery) /\ DOMAIN outbox[e] = 1..Len(outbox[e])
  BY LenProperties
<1>3. /\ [outbox[e] EXCEPT ![i] = row] \in Seq(Delivery)
      /\ DOMAIN [outbox[e] EXCEPT ![i] = row] = DOMAIN outbox[e]
      /\ [outbox[e] EXCEPT ![i] = row][i] = row
      /\ \A j \in DOMAIN outbox[e] : j # i => [outbox[e] EXCEPT ![i] = row][j] = outbox[e][j]
  BY <1>2, ExceptSeq
<1>4. QED
  BY <1>1, <1>3

-----------------------------------------------------------------------------
(* Queues. *)

(* Every row of every queue is kept in the sense of K.                     *)
AllKept ==
  \A e \in Endpoints :
    /\ DOMAIN outbox'[e] = DOMAIN outbox[e]
    /\ \A i \in DOMAIN outbox[e] : Keeps(outbox[e][i], outbox'[e][i])
AllStill ==
  \A e \in Endpoints :
    /\ DOMAIN outbox'[e] = DOMAIN outbox[e]
    /\ \A i \in DOMAIN outbox[e] : Still(outbox[e][i], outbox'[e][i])

(* The rows of well-typed queues are deliveries.                           *)
LEMMA RowTypes ==
  ASSUME TypeOK
  PROVE  \A e \in Endpoints : \A i \in DOMAIN outbox[e] : outbox[e][i] \in Delivery
<1>1. TAKE e \in Endpoints
<1>2. TAKE i \in DOMAIN outbox[e]
<1>3. outbox[e] \in Seq(Delivery)
  BY DEF TypeOK
<1>4. QED
  BY <1>3, LenProperties, ElementOfSeq

(* Editing one row is an edit of all of them.                              *)
LEMMA OneRowStill ==
  ASSUME TypeOK, RowsOK, NEW e \in Endpoints, NEW i \in DOMAIN outbox[e], NEW row,
         Still(outbox[e][i], row), SetDelivery(e, i, row)
  PROVE  AllStill /\ outbox' \in [Endpoints -> Seq(Delivery)]
<1>1. row \in Delivery /\ outbox \in [Endpoints -> Seq(Delivery)]
  BY DEF Still, Keeps, TypeOK
<1>2. \A f \in Endpoints : \A j \in DOMAIN outbox[f] : Still(outbox[f][j], outbox[f][j])
  BY RowTypes, Edits DEF RowsOK
<1>3. /\ outbox' \in [Endpoints -> Seq(Delivery)] /\ outbox'[e][i] = row
      /\ \A f \in Endpoints : DOMAIN outbox'[f] = DOMAIN outbox[f]
      /\ \A f \in Endpoints : \A j \in DOMAIN outbox[f] : f # e \/ j # i => outbox'[f][j] = outbox[f][j]
  BY <1>1, RowUpdate
<1>4. QED
  BY <1>2, <1>3 DEF AllStill

(* A write of one delivery that keeps what is settled keeps it for all.    *)
LEMMA OneRowKept ==
  ASSUME TypeOK, RowsOK, NEW e \in Endpoints, NEW i \in DOMAIN outbox[e], NEW row,
         Keeps(outbox[e][i], row), SetDelivery(e, i, row)
  PROVE  /\ AllKept /\ outbox' \in [Endpoints -> Seq(Delivery)] /\ outbox'[e][i] = row
<1>1. row \in Delivery /\ outbox \in [Endpoints -> Seq(Delivery)]
  BY DEF Keeps, TypeOK
<1>2. \A f \in Endpoints : \A j \in DOMAIN outbox[f] : Keeps(outbox[f][j], outbox[f][j])
  BY RowTypes, Edits DEF RowsOK, Still
<1>3. /\ outbox' \in [Endpoints -> Seq(Delivery)] /\ outbox'[e][i] = row
      /\ \A f \in Endpoints : DOMAIN outbox'[f] = DOMAIN outbox[f]
      /\ \A f \in Endpoints : \A j \in DOMAIN outbox[f] : f # e \/ j # i => outbox'[f][j] = outbox[f][j]
  BY <1>1, RowUpdate
<1>4. QED
  BY <1>2, <1>3 DEF AllKept

(* Kept rows keep the order and the account.                               *)
LEMMA KeptOrder ==
  ASSUME RowsOK, InRunOrder, AllKept, TypeOK
  PROVE  RowsOK' /\ InRunOrder'
<1>1. RowsOK'
  BY DEF RowsOK, AllKept, Keeps
<1>2. ASSUME NEW e \in Endpoints, NEW j \in DOMAIN outbox'[e], outbox'[e][j].attempts > 0,
             NEW i \in 1..(j - 1), outbox'[e][i].run = outbox'[e][j].run,
             outbox'[e][i].at <= outbox'[e][j].at
      PROVE  Over(outbox'[e][i])
  <2>1. j \in DOMAIN outbox[e] /\ DOMAIN outbox[e] = 1..Len(outbox[e]) /\ Len(outbox[e]) \in Nat
    <3>1. outbox[e] \in Seq(Delivery)
      BY DEF TypeOK
    <3>2. QED
      BY <1>2, <3>1, LenProperties DEF AllKept
  <2>2. i \in DOMAIN outbox[e]
    BY <2>1
  <2>3. Keeps(outbox[e][i], outbox'[e][i]) /\ Keeps(outbox[e][j], outbox'[e][j])
    BY <2>1, <2>2 DEF AllKept
  <2>4. Over(outbox[e][i])
    BY <1>2, <2>1, <2>3 DEF InRunOrder, Keeps, Over
  <2>5. QED
    BY <2>3, <2>4 DEF Keeps
<1>3. QED
  BY <1>1, <1>2 DEF InRunOrder, Over

-----------------------------------------------------------------------------
(* What the steps do to the queues. *)

(* Requests, timers and a rotation: every row stays what it is.            *)
LEMMA StillStep ==
  ASSUME TypeOK, RowsOK,
         \/ UNCHANGED outbox
         \/ \E e \in Endpoints : \E i \in DOMAIN outbox[e] :
              Redeliver(e, i) \/ BackoffElapses(e, i) \/ GrowsOld(e, i) \/ RedeliveryExpires(e, i)
  PROVE  AllStill /\ outbox' \in [Endpoints -> Seq(Delivery)]
<1>1. CASE UNCHANGED outbox
  <2>1. \A f \in Endpoints : \A j \in DOMAIN outbox[f] : Still(outbox[f][j], outbox[f][j])
    BY RowTypes, Edits DEF RowsOK
  <2>2. QED
    BY <1>1, <2>1 DEF AllStill, TypeOK
<1>2. ASSUME NEW e \in Endpoints, NEW i \in DOMAIN outbox[e],
             Redeliver(e, i) \/ BackoffElapses(e, i) \/ GrowsOld(e, i) \/ RedeliveryExpires(e, i)
      PROVE  AllStill /\ outbox' \in [Endpoints -> Seq(Delivery)]
  <2>1. outbox[e][i] \in Delivery /\ RowOK(outbox[e][i])
    BY RowTypes DEF RowsOK
  <2>2. PICK row : Still(outbox[e][i], row) /\ SetDelivery(e, i, row)
    <3>1. CASE Redeliver(e, i)
      BY <2>1, <3>1, Edits DEF Redeliver
    <3>2. CASE BackoffElapses(e, i)
      BY <2>1, <3>2, Edits DEF BackoffElapses
    <3>3. CASE GrowsOld(e, i)
      BY <2>1, <3>3, Edits DEF GrowsOld
    <3>4. CASE RedeliveryExpires(e, i)
      BY <2>1, <3>4, Edits DEF RedeliveryExpires
    <3>5. QED
      BY <1>2, <3>1, <3>2, <3>3, <3>4
  <2>3. QED
    BY <2>2, OneRowStill
<1>3. QED
  BY <1>1, <1>2

(* The recovery at the start leaves nothing DELIVERING.                    *)
LEMMA StartStep ==
  ASSUME TypeOK, RowsOK, Start
  PROVE  /\ AllKept /\ outbox' \in [Endpoints -> Seq(Delivery)]
         /\ \A e \in Endpoints : \A i \in DOMAIN outbox'[e] : outbox'[e][i].status # "DELIVERING"
<1>1. ASSUME NEW e \in Endpoints
      PROVE  /\ DOMAIN outbox'[e] = DOMAIN outbox[e] /\ outbox'[e] \in Seq(Delivery)
             /\ \A i \in DOMAIN outbox[e] :
                  Keeps(outbox[e][i], outbox'[e][i]) /\ outbox'[e][i].status # "DELIVERING"
  <2>1. outbox'[e] = [i \in DOMAIN outbox[e] |-> Recovered(outbox[e][i])]
    BY DEF Start
  <2>2. \A i \in DOMAIN outbox[e] :
          Keeps(outbox[e][i], Recovered(outbox[e][i])) /\ Recovered(outbox[e][i]).status # "DELIVERING"
    BY RowTypes, Outcomes DEF RowsOK
  <2>3. Len(outbox[e]) \in Nat /\ DOMAIN outbox[e] = 1..Len(outbox[e])
    BY LenProperties DEF TypeOK
  <2>4. outbox'[e] \in Seq(Delivery)
    <3>1. \A i \in 1..Len(outbox[e]) : Recovered(outbox[e][i]) \in Delivery
      BY <2>2, <2>3 DEF Keeps
    <3>2. [i \in 1..Len(outbox[e]) |-> Recovered(outbox[e][i])] \in Seq(Delivery)
      BY <2>3, <3>1, IsASeq
    <3>3. QED
      BY <2>1, <2>3, <3>2
  <2>5. QED
    BY <2>1, <2>2, <2>4
<1>2. outbox' \in [Endpoints -> Seq(Delivery)]
  <2>1. outbox' = [e \in Endpoints |-> outbox'[e]]
    BY DEF Start
  <2>2. QED
    BY <1>1, <2>1
<1>3. QED
  BY <1>1, <1>2 DEF AllKept

(* The worker leaves its POST: the row has an outcome, or is marked lost,   *)
(* or the process is down.                                                 *)
LEMMA OutcomeStep ==
  ASSUME TypeOK, RowsOK, PostIsOpen, Succeed \/ Fail \/ Stop \/ Crash \/ OutcomeLost
  PROVE  /\ AllKept /\ outbox' \in [Endpoints -> Seq(Delivery)]
         /\ \/ worker' = Down
            \/ /\ worker' = Idle /\ Posting
               /\ LET row == outbox'[worker.endpoint][worker.index]
                  IN  row.status = "DELIVERING" => row.lost
<1> DEFINE e == worker.endpoint
           i == worker.index
<1>1. ASSUME UNCHANGED outbox
      PROVE  AllKept /\ outbox' \in [Endpoints -> Seq(Delivery)]
  BY <1>1, StillStep DEF AllStill, AllKept, Still
<1>2. ASSUME Posting, NEW row, Keeps(Posted, row), Write(row)
      PROVE  AllKept /\ outbox' \in [Endpoints -> Seq(Delivery)] /\ outbox'[e][i] = row
  BY <1>2, OneRowKept DEF PostIsOpen, Write, Posted
<1>3. ASSUME Posting
      PROVE  Posted \in Delivery /\ RowOK(Posted) /\ Posted.status = "DELIVERING"
  BY <1>3, RowTypes DEF PostIsOpen, Posted, RowsOK
<1>4. CASE Succeed
  <2>1. Posting /\ Write([Posted EXCEPT !.status = "SUCCEEDED"]) /\ worker' = Idle
    BY <1>4 DEF Succeed
  <2>2. /\ Keeps(Posted, [Posted EXCEPT !.status = "SUCCEEDED"])
        /\ [Posted EXCEPT !.status = "SUCCEEDED"].status = "SUCCEEDED"
    BY <1>3, <2>1, Outcomes
  <2>3. QED
    BY <1>2, <2>1, <2>2
<1>5. CASE Fail
  <2>1. Posting /\ worker' = Idle
    BY <1>5 DEF Fail
  <2>2. PICK row : Write(row) /\ Keeps(Posted, row) /\ row.status # "DELIVERING"
    <3>1. CASE ~Hopeless(Posted)
      <4>1. PICK due \in BOOLEAN : Write(Retried(Posted, due))
        BY <1>5, <3>1 DEF Fail
      <4>2. Posted.attempts < MaxAttempts
        BY <1>3, <2>1, <3>1, WebhookAssumption DEF Hopeless, Delivery
      <4>3. Keeps(Posted, Retried(Posted, due)) /\ Retried(Posted, due).status = "RETRYING"
        BY <1>3, <2>1, <4>2, Retries
      <4>4. QED
        BY <4>1, <4>3
    <3>2. CASE Hopeless(Posted)
      BY <1>3, <1>5, <2>1, <3>2, Outcomes DEF Fail
    <3>3. QED
      BY <3>1, <3>2
  <2>3. QED
    BY <1>2, <2>1, <2>2
<1>6. CASE Stop
  <2>1. CASE Posting
    <3>1. Keeps(Posted, [Retried(Posted, TRUE) EXCEPT !.extra = Posted.extra + 1])
      BY <1>3, <2>1, Retries
    <3>2. Write([Retried(Posted, TRUE) EXCEPT !.extra = @ + 1]) /\ worker' = Down
      BY <1>6, <2>1 DEF Stop
    <3>3. Retried(Posted, TRUE).extra = Posted.extra
      BY <1>3, <2>1 DEF Retried, Delivery
    <3>4. QED
      BY <1>2, <2>1, <3>1, <3>2, <3>3
  <2>2. CASE ~Posting
    BY <1>1, <1>6, <2>2 DEF Stop
  <2>3. QED
    BY <2>1, <2>2
<1>7. CASE Crash
  <2>1. CASE UNCHANGED outbox
    BY <1>1, <1>7, <2>1 DEF Crash
  <2>2. CASE Posting /\ Write(GivenUp(Posted))
    <3>1. Keeps(Posted, GivenUp(Posted))
      BY <1>3, <2>2, Outcomes
    <3>2. QED
      BY <1>2, <1>7, <2>2, <3>1 DEF Crash
  <2>3. QED
    BY <1>7, <2>1, <2>2 DEF Crash
<1>8. CASE OutcomeLost
  <2>1. Posting /\ Write([Posted EXCEPT !.lost = TRUE]) /\ worker' = Idle
    BY <1>8 DEF OutcomeLost
  <2>2. Keeps(Posted, [Posted EXCEPT !.lost = TRUE]) /\ [Posted EXCEPT !.lost = TRUE].lost
    BY <1>3, <2>1, Outcomes
  <2>3. QED
    BY <1>2, <2>1, <2>2
<1>9. QED
  BY <1>4, <1>5, <1>6, <1>7, <1>8

(* A dispatch takes a run's first unfinished delivery in the order of the   *)
(* sort: whatever sorts before it is over.                                 *)
LEMMA DispatchStep ==
  ASSUME TypeOK, RowsOK, InRunOrder, Dispatch
  PROVE  /\ outbox' \in [Endpoints -> Seq(Delivery)]
         /\ RowsOK' /\ InRunOrder'
         /\ \E e \in Endpoints : \E i \in DOMAIN outbox[e] :
              /\ worker' = [pc |-> "posting", endpoint |-> e, index |-> i,
                            secret |-> endpoints[e].secret, arrived |-> FALSE]
              /\ endpoints[e].status = "ACTIVE"
              /\ outbox'[e][i].status = "DELIVERING"
              /\ \A f \in Endpoints : DOMAIN outbox'[f] = DOMAIN outbox[f]
              /\ \A f \in Endpoints : \A j \in DOMAIN outbox[f] :
                   f # e \/ j # i => outbox'[f][j] = outbox[f][j]
<1>a. PICK e \in Endpoints : \E i \in Ready(e) :
        /\ SetDelivery(e, i, [outbox[e][i] EXCEPT !.status = "DELIVERING",
                                !.attempts = @ + 1, !.due = FALSE])
        /\ worker' = [pc |-> "posting", endpoint |-> e, index |-> i,
                      secret |-> endpoints[e].secret, arrived |-> FALSE]
  BY DEF Dispatch
<1>1. PICK i \in Ready(e) :
        /\ SetDelivery(e, i, [outbox[e][i] EXCEPT !.status = "DELIVERING",
                                !.attempts = @ + 1, !.due = FALSE])
        /\ worker' = [pc |-> "posting", endpoint |-> e, index |-> i,
                      secret |-> endpoints[e].secret, arrived |-> FALSE]
  BY <1>a
<1> DEFINE d == outbox[e][i]
           c == [d EXCEPT !.status = "DELIVERING", !.attempts = d.attempts + 1, !.due = FALSE]
<1>2. /\ endpoints[e].status = "ACTIVE" /\ i \in DOMAIN outbox[e]
      /\ d.status \in {"PENDING", "RETRYING"}
      /\ \A j \in DOMAIN outbox[e] : Precedes(outbox[e], j, i) /\ outbox[e][j].run = d.run
                                       => outbox[e][j].status \notin Unfinished
  BY <1>1 DEF Ready, Heads, Unfinished
<1>3. d \in Delivery /\ RowOK(d)
  BY <1>2, RowTypes DEF RowsOK
<1>4. c \in Delivery
  <2>1. d.attempts + 1 \in Nat
    BY <1>3 DEF Delivery
  <2>2. \A n \in Nat : [d EXCEPT !.status = "DELIVERING", !.attempts = n, !.due = FALSE] \in Delivery
    BY <1>3, Zenon DEF Delivery, Unfinished
  <2>3. QED
    BY <2>1, <2>2
<1>5. c.run = d.run /\ c.at = d.at /\ c.status = "DELIVERING" /\ c.extra = d.extra /\ c.attempts = d.attempts + 1
  BY <1>3 DEF Delivery
<1>6. RowOK(c)
  <2>1. d.attempts \in Nat /\ d.extra \in Nat /\ MaxAttempts \in Nat
    BY <1>3, WebhookAssumption DEF Delivery
  <2>2. d.attempts < MaxAttempts + d.extra
    BY <1>2, <1>3 DEF RowOK
  <2>3. c.attempts <= MaxAttempts + c.extra
    BY <1>5, <2>1, <2>2
  <2>4. QED
    BY <1>5, <2>3 DEF RowOK
<1>7. /\ outbox' \in [Endpoints -> Seq(Delivery)] /\ outbox'[e][i] = c
      /\ \A f \in Endpoints : DOMAIN outbox'[f] = DOMAIN outbox[f]
      /\ \A f \in Endpoints : \A j \in DOMAIN outbox[f] : f # e \/ j # i => outbox'[f][j] = outbox[f][j]
  <2>1. SetDelivery(e, i, c)
    BY <1>1 DEF SetDelivery
  <2>2. outbox \in [Endpoints -> Seq(Delivery)]
    BY DEF TypeOK
  <2>3. QED
    BY <1>2, <1>4, <2>1, <2>2, RowUpdate
<1>8. RowsOK'
  BY <1>6, <1>7 DEF RowsOK
<1>9. InRunOrder'
  <2>1. ASSUME NEW f \in Endpoints, NEW j \in DOMAIN outbox'[f], outbox'[f][j].attempts > 0,
               NEW k \in 1..(j - 1), outbox'[f][k].run = outbox'[f][j].run,
               outbox'[f][k].at <= outbox'[f][j].at
        PROVE  Over(outbox'[f][k])
    <3>1. j \in DOMAIN outbox[f] /\ DOMAIN outbox[f] = 1..Len(outbox[f]) /\ Len(outbox[f]) \in Nat
      BY <1>7, <2>1, LenProperties DEF TypeOK
    <3>2. k \in DOMAIN outbox[f] /\ k # j
      BY <3>1
    <3>3. CASE f # e \/ (k # i /\ j # i)
      BY <1>7, <2>1, <3>1, <3>2, <3>3 DEF InRunOrder, Over
    <3>4. CASE f = e /\ k = i
      <4>1. /\ outbox[e][j].attempts > 0 /\ outbox[e][j].run = d.run
            /\ d.at <= outbox[e][j].at
        BY <1>5, <1>7, <2>1, <3>1, <3>2, <3>4
      <4>2. Over(d)
        BY <2>1, <3>1, <3>4, <4>1 DEF InRunOrder, Over
      <4>3. c.gaveUp = d.gaveUp /\ d.status # "SUCCEEDED"
        BY <1>2, <1>3 DEF Delivery
      <4>4. QED
        BY <1>7, <3>4, <4>2, <4>3 DEF Over
    <3>5. CASE f = e /\ j = i
      <4>1. /\ outbox[e][k].run = d.run /\ outbox'[e][k] = outbox[e][k]
            /\ outbox[e][k].at <= d.at
        BY <1>5, <1>7, <2>1, <3>2, <3>5
      <4>5. Precedes(outbox[e], k, i)
        <5>1. outbox[e][k].at \in Nat /\ d.at \in Nat
          BY <1>3, <3>2, <3>5, RowTypes, WebhookAssumption DEF Delivery
        <5>2. k \in Int /\ i \in Int /\ k < i
          BY <2>1, <3>1, <3>5
        <5>3. QED
          BY <4>1, <5>1, <5>2 DEF Precedes
      <4>2. outbox[e][k].status \notin Unfinished /\ outbox[e][k] \in Delivery /\ RowOK(outbox[e][k])
        BY <1>2, <2>1, <3>2, <3>5, <4>1, <4>5, RowTypes DEF RowsOK
      <4>3. outbox[e][k].status \in {"SUCCEEDED", "EXHAUSTED"}
        BY <4>2 DEF Delivery
      <4>4. QED
        BY <3>5, <4>1, <4>2, <4>3 DEF RowOK, Over
    <3>6. QED
      BY <3>3, <3>4, <3>5
  <2>2. QED
    BY <2>1 DEF InRunOrder, Over
<1>10. i \in DOMAIN outbox[e] /\ outbox'[e][i].status = "DELIVERING"
  BY <1>2, <1>5, <1>7
<1>11. QED
  BY <1>1, <1>2, <1>7, <1>8, <1>9, <1>10, Zenon

(* An event adds deliveries nobody attempted at the ends of the queues.    *)
LEMMA AppendStep ==
  ASSUME TypeOK, RowsOK, InRunOrder, NEW r \in Runs, NEW type \in EventTypes, NEW at \in Stamps,
         AppendEvent(r, type, at)
  PROVE  /\ outbox' \in [Endpoints -> Seq(Delivery)]
         /\ RowsOK' /\ InRunOrder'
         /\ \A e \in Endpoints :
              /\ DOMAIN outbox[e] \subseteq DOMAIN outbox'[e]
              /\ \A i \in DOMAIN outbox'[e] :
                   \/ i \in DOMAIN outbox[e] /\ outbox'[e][i] = outbox[e][i]
                   \/ i \notin DOMAIN outbox[e] /\ outbox'[e][i].status = "PENDING"
              /\ \A i \in DOMAIN outbox[e] : outbox'[e][i] = outbox[e][i]
<1> DEFINE row == NewDelivery(r, runs[r].seq + 1, at)
<1>1. row \in Delivery /\ row.status = "PENDING" /\ row.attempts = 0 /\ RowOK(row)
  <2>1. runs[r].seq + 1 \in Nat /\ MaxAttempts \in Nat \ {0}
    BY WebhookAssumption DEF TypeOK
  <2>2. row \in Delivery
    BY <2>1 DEF NewDelivery, Delivery, Unfinished
  <2>3. QED
    BY <2>1, <2>2 DEF NewDelivery, RowOK
<1>2. \A e \in Endpoints : outbox'[e] \in {outbox[e], Append(outbox[e], row)}
  BY DEF AppendEvent
<1>3. ASSUME NEW e \in Endpoints
      PROVE  /\ outbox'[e] \in Seq(Delivery)
             /\ DOMAIN outbox[e] = 1..Len(outbox[e]) /\ DOMAIN outbox'[e] = 1..Len(outbox'[e])
             /\ Len(outbox[e]) \in Nat
             /\ \/ outbox'[e] = outbox[e]
                \/ /\ Len(outbox'[e]) = Len(outbox[e]) + 1
                   /\ outbox'[e][Len(outbox[e]) + 1] = row
             /\ \A i \in DOMAIN outbox[e] : outbox'[e][i] = outbox[e][i]
  <2>1. outbox[e] \in Seq(Delivery)
    BY DEF TypeOK
  <2>2. CASE outbox'[e] = outbox[e]
    BY <2>1, <2>2, LenProperties
  <2>3. CASE outbox'[e] = Append(outbox[e], row)
    BY <1>1, <2>1, <2>3, LenProperties, AppendProperties
  <2>4. QED
    BY <1>2, <2>2, <2>3
<1>4. outbox' \in [Endpoints -> Seq(Delivery)]
  <2>1. outbox' = [e \in Endpoints |-> outbox'[e]]
    BY DEF AppendEvent
  <2>2. QED
    BY <1>3, <2>1
<1>5. ASSUME NEW e \in Endpoints, NEW i \in DOMAIN outbox'[e]
      PROVE  \/ i \in DOMAIN outbox[e] /\ outbox'[e][i] = outbox[e][i]
             \/ i \notin DOMAIN outbox[e] /\ outbox'[e][i] = row
  BY <1>3
<1>6. RowsOK'
  BY <1>1, <1>5 DEF RowsOK
<1>7. InRunOrder'
  <2>1. ASSUME NEW e \in Endpoints, NEW j \in DOMAIN outbox'[e], outbox'[e][j].attempts > 0,
               NEW k \in 1..(j - 1), outbox'[e][k].run = outbox'[e][j].run,
               outbox'[e][k].at <= outbox'[e][j].at
        PROVE  Over(outbox'[e][k])
    <3>1. j \in DOMAIN outbox[e] /\ outbox'[e][j] = outbox[e][j]
      BY <1>1, <1>5, <2>1
    <3>2. k \in DOMAIN outbox[e] /\ outbox'[e][k] = outbox[e][k]
      BY <1>3, <3>1
    <3>3. QED
      BY <2>1, <3>1, <3>2 DEF InRunOrder, Over
  <2>2. QED
    BY <2>1 DEF InRunOrder, Over
<1>8. QED
  BY <1>1, <1>3, <1>4, <1>5, <1>6, <1>7

-----------------------------------------------------------------------------
(* What the steps do to the endpoints. *)

(* An endpoint exists for ever, and a message on its way stays verifiable. *)
LEMMA EndpointStep ==
  ASSUME TypeOK, PostIsOpen, SignatureVerifiable, NEW e \in Endpoints, UNCHANGED worker,
         \/ CreateEndpoint(e) \/ DeleteEndpoint(e) \/ EnableEndpoint(e)
         \/ RotateSecret(e) \/ PreviousSecretExpires(e)
  PROVE  /\ endpoints' \in [Endpoints -> Endpoint]
         /\ \A f \in Endpoints : endpoints[f].status # "ABSENT" => endpoints'[f].status # "ABSENT"
         /\ SignatureVerifiable'
<1>1. /\ endpoints \in [Endpoints -> Endpoint] /\ endpoints[e] \in Endpoint
      /\ endpoints[e].secret \in Nat
  BY DEF TypeOK, Endpoint
<1>2. PICK row \in Endpoint :
        /\ SetEndpoint(e, row) /\ (endpoints[e].status # "ABSENT" => row.status # "ABSENT")
        /\ \/ endpoints[e].status = "ABSENT"
           \/ row.secret = endpoints[e].secret /\ row.previous = endpoints[e].previous
           \/ row.secret = endpoints[e].secret + 1 /\ row.previous
           \/ row.secret = endpoints[e].secret /\ ~(Posting /\ worker.endpoint = e /\ ~worker.arrived)
  <2>1. CASE CreateEndpoint(e)
    BY <2>1 DEF CreateEndpoint, Endpoint
  <2>2. CASE DeleteEndpoint(e)
    BY <1>1, <2>2 DEF DeleteEndpoint, Endpoint
  <2>3. CASE EnableEndpoint(e)
    BY <1>1, <2>3 DEF EnableEndpoint, Endpoint
  <2>4. CASE RotateSecret(e)
    <3>1. SetEndpoint(e, Rotated(endpoints[e])) /\ endpoints[e].status # "ABSENT"
      BY <2>4 DEF RotateSecret
    <3>2. /\ Rotated(endpoints[e]) \in Endpoint
          /\ Rotated(endpoints[e]).secret = endpoints[e].secret + 1
          /\ Rotated(endpoints[e]).previous
          /\ Rotated(endpoints[e]).status = endpoints[e].status
      <4>1. endpoints[e].secret + 1 \in Nat
        BY <1>1
      <4>2. \A n \in Nat : [endpoints[e] EXCEPT !.secret = n, !.previous = TRUE] \in Endpoint
        BY <1>1, Zenon DEF Endpoint
      <4>3. QED
        BY <1>1, <4>1, <4>2 DEF Rotated, Endpoint
    <3>3. QED
      BY <3>1, <3>2
  <2>5. CASE PreviousSecretExpires(e)
    <3> DEFINE expired == [endpoints[e] EXCEPT !.previous = FALSE]
    <3>1. SetEndpoint(e, expired) /\ ~(Posting /\ worker.endpoint = e /\ ~worker.arrived)
      BY <2>5 DEF PreviousSecretExpires
    <3>2. /\ expired \in Endpoint /\ expired.secret = endpoints[e].secret
          /\ expired.status = endpoints[e].status
      BY <1>1 DEF Endpoint
    <3>3. QED
      BY <3>1, <3>2
  <2>6. QED
    BY <2>1, <2>2, <2>3, <2>4, <2>5
<1>3. /\ endpoints' \in [Endpoints -> Endpoint] /\ endpoints'[e] = row
      /\ \A f \in Endpoints : f # e => endpoints'[f] = endpoints[f]
  BY <1>1, <1>2 DEF SetEndpoint
<1>4. \A f \in Endpoints : endpoints[f].status # "ABSENT" => endpoints'[f].status # "ABSENT"
  BY <1>2, <1>3
<1>5. SignatureVerifiable'
  <2>1. ASSUME Posting, ~worker.arrived
        PROVE  LET now == endpoints'[worker.endpoint]
               IN  \/ worker.secret = now.secret
                   \/ worker.secret = now.secret - 1 /\ now.previous
                   \/ worker.secret < now.secret - 1
    <3>1. /\ worker.endpoint \in Endpoints /\ endpoints[worker.endpoint].status # "ABSENT"
          /\ worker.secret \in Nat
      BY <2>1 DEF PostIsOpen, TypeOK, Post, Idle, Down, Posting
    <3>2. CASE worker.endpoint # e
      BY <1>3, <2>1, <3>1, <3>2 DEF SignatureVerifiable
    <3>3. CASE worker.endpoint = e
      BY <1>1, <1>2, <1>3, <2>1, <3>1, <3>3 DEF SignatureVerifiable
    <3>4. QED
      BY <3>2, <3>3
  <2>2. QED
    BY <2>1 DEF SignatureVerifiable, Posting
<1>6. QED
  BY <1>3, <1>4, <1>5

-----------------------------------------------------------------------------
(* The invariant. *)

(* Steps that leave the worker where it is, and the rows what they are.    *)
LEMMA StillKeeps ==
  ASSUME IInv, AllStill,
         worker' = worker \/ (Posting /\ worker' = [worker EXCEPT !.arrived = TRUE]),
         \A f \in Endpoints : endpoints[f].status # "ABSENT" => endpoints'[f].status # "ABSENT"
  PROVE  RowsOK' /\ InRunOrder' /\ PostIsOpen' /\ DeliveringIsPosted'
<1>1. RowsOK' /\ InRunOrder'
  BY KeptOrder DEF IInv, AllStill, AllKept, Still
<1>2. /\ Posting' => Posting /\ worker'.endpoint = worker.endpoint /\ worker'.index = worker.index
      /\ Posting => Posting' /\ worker'.endpoint = worker.endpoint /\ worker'.index = worker.index
      /\ worker = Down => worker' = Down
  BY DEF IInv, TypeOK, Post, Idle, Down, Posting
<1>3. PostIsOpen'
  BY <1>2 DEF IInv, PostIsOpen, Posted, AllStill, Still
<1>4. DeliveringIsPosted'
  <2>1. ASSUME NEW e \in Endpoints, NEW i \in DOMAIN outbox'[e], outbox'[e][i].status = "DELIVERING"
        PROVE  \/ worker' = Down
               \/ Posting' /\ worker'.endpoint = e /\ worker'.index = i
               \/ outbox'[e][i].lost
    <3>1. i \in DOMAIN outbox[e] /\ Keeps(outbox[e][i], outbox'[e][i])
      BY <2>1 DEF AllStill, Still
    <3>2. outbox[e][i].status = "DELIVERING" /\ (outbox[e][i].lost => outbox'[e][i].lost)
      BY <2>1, <3>1 DEF Keeps
    <3>3. QED
      BY <1>2, <3>1, <3>2 DEF IInv, DeliveringIsPosted
  <2>2. QED
    BY <2>1 DEF DeliveringIsPosted
<1>5. QED
  BY <1>1, <1>3, <1>4

(* The initial state.                                                      *)
LEMMA InitStep == Init => IInv
<1>1. SUFFICES ASSUME Init PROVE IInv
  OBVIOUS
<1>2. TypeOK
  BY <1>1, EmptySeq DEF Init, TypeOK, Endpoint
<1>3. \A e \in Endpoints : DOMAIN outbox[e] = {}
  BY <1>1 DEF Init
<1>4. ~Posting
  BY <1>1 DEF Init, Posting, Down
<1>5. QED
  BY <1>2, <1>3, <1>4 DEF IInv, RowsOK, PostIsOpen, InRunOrder, DeliveringIsPosted, SignatureVerifiable

(* An outcome, or a stop, ends the POST.                                   *)
LEMMA OutcomeKeeps ==
  ASSUME IInv, Succeed \/ Fail \/ Stop \/ Crash \/ OutcomeLost
  PROVE  IInv'
<1>1. TypeOK /\ RowsOK /\ PostIsOpen /\ InRunOrder /\ DeliveringIsPosted
  BY DEF IInv
<1>2. /\ AllKept /\ outbox' \in [Endpoints -> Seq(Delivery)]
      /\ \/ worker' = Down
         \/ /\ worker' = Idle /\ Posting
            /\ outbox'[worker.endpoint][worker.index].status = "DELIVERING"
                 => outbox'[worker.endpoint][worker.index].lost
  BY <1>1, OutcomeStep
<1>3. RowsOK' /\ InRunOrder'
  BY <1>1, <1>2, KeptOrder
<1>4. ~Posting'
  BY <1>2 DEF Posting, Idle, Down
<1>5. PostIsOpen' /\ SignatureVerifiable'
  BY <1>4 DEF PostIsOpen, SignatureVerifiable
<1>6. TypeOK'
  <2>1. runs' = runs
    BY DEF Succeed, Fail, Stop, Crash, OutcomeLost
  <2>2. endpoints' \in [Endpoints -> Endpoint]
    <3>1. CASE UNCHANGED endpoints
      BY <1>1, <3>1 DEF TypeOK
    <3>2. CASE Fail /\ ~UNCHANGED endpoints
      <4>1. Posting /\ SetEndpoint(worker.endpoint, [endpoints[worker.endpoint] EXCEPT !.status = "PAUSED"])
        BY <3>2 DEF Fail
      <4>2. worker.endpoint \in Endpoints
        BY <1>1, <4>1 DEF PostIsOpen
      <4>3. [endpoints[worker.endpoint] EXCEPT !.status = "PAUSED"] \in Endpoint
        <5>1. endpoints[worker.endpoint] \in Endpoint
          BY <1>1, <4>2 DEF TypeOK
        <5>2. QED
          BY <5>1, Zenon DEF Endpoint
      <4>4. QED
        BY <1>1, <4>1, <4>2, <4>3 DEF TypeOK, SetEndpoint
    <3>3. QED
      BY <3>1, <3>2 DEF Succeed, Stop, Crash, OutcomeLost
  <2>3. worker' \in {Idle, Down} \cup Post
    BY <1>2
  <2>4. QED
    BY <1>1, <1>2, <2>1, <2>2, <2>3 DEF TypeOK
<1>7. DeliveringIsPosted'
  <2>1. CASE worker' = Down
    BY <2>1 DEF DeliveringIsPosted
  <2>2. ASSUME worker' = Idle, Posting, NEW e \in Endpoints, NEW i \in DOMAIN outbox'[e],
               outbox'[e][i].status = "DELIVERING"
        PROVE  outbox'[e][i].lost
    <3>1. i \in DOMAIN outbox[e] /\ Keeps(outbox[e][i], outbox'[e][i])
      BY <1>2, <2>2 DEF AllKept
    <3>2. CASE worker.endpoint = e /\ worker.index = i
      BY <1>2, <2>2, <3>2 DEF Idle, Down
    <3>3. CASE ~(worker.endpoint = e /\ worker.index = i)
      <4>1. outbox[e][i].status = "DELIVERING" /\ (outbox[e][i].lost => outbox'[e][i].lost)
        BY <2>2, <3>1 DEF Keeps
      <4>2. outbox[e][i].lost
        BY <1>1, <2>2, <3>1, <3>3, <4>1 DEF DeliveringIsPosted, Posting, Down
      <4>3. QED
        BY <4>1, <4>2
    <3>4. QED
      BY <3>2, <3>3
  <2>3. QED
    BY <1>2, <2>1, <2>2 DEF DeliveringIsPosted
<1>8. QED
  BY <1>3, <1>5, <1>6, <1>7 DEF IInv

(* Every other step. *)
LEMMA NextStep ==
  ASSUME IInv, [Next]_vars
  PROVE  IInv'
<1>1. TypeOK /\ RowsOK /\ PostIsOpen /\ InRunOrder /\ DeliveringIsPosted /\ SignatureVerifiable
  BY DEF IInv
<1>2. CASE UNCHANGED vars
  BY <1>1, <1>2 DEF vars, IInv, TypeOK, RowsOK, PostIsOpen, InRunOrder, DeliveringIsPosted,
     SignatureVerifiable, Posting, Posted
<1>3. ASSUME NEW e \in Endpoints,
             \/ CreateEndpoint(e) \/ DeleteEndpoint(e) \/ EnableEndpoint(e)
             \/ RotateSecret(e) \/ PreviousSecretExpires(e)
      PROVE  IInv'
  <2>1. UNCHANGED <<outbox, runs, worker>>
    BY <1>3 DEF CreateEndpoint, DeleteEndpoint, EnableEndpoint, RotateSecret, PreviousSecretExpires
  <2>2. AllStill
    BY <1>1, <2>1, StillStep
  <2>3. /\ endpoints' \in [Endpoints -> Endpoint] /\ SignatureVerifiable'
        /\ \A f \in Endpoints : endpoints[f].status # "ABSENT" => endpoints'[f].status # "ABSENT"
    BY <1>1, <1>3, <2>1, EndpointStep
  <2>4. QED
    BY <1>1, <2>1, <2>2, <2>3, StillKeeps DEF IInv, TypeOK
<1>4. ASSUME NEW e \in Endpoints, NEW i \in DOMAIN outbox[e],
             Redeliver(e, i) \/ BackoffElapses(e, i) \/ GrowsOld(e, i) \/ RedeliveryExpires(e, i)
      PROVE  IInv'
  <2>1. UNCHANGED <<endpoints, runs, worker>>
    BY <1>4 DEF Redeliver, BackoffElapses, GrowsOld, RedeliveryExpires
  <2>2. AllStill /\ outbox' \in [Endpoints -> Seq(Delivery)]
    BY <1>1, <1>4, StillStep
  <2>3. SignatureVerifiable'
    BY <1>1, <2>1 DEF SignatureVerifiable, Posting
  <2>4. QED
    BY <1>1, <2>1, <2>2, <2>3, StillKeeps DEF IInv, TypeOK
<1>5. ASSUME NEW r \in Runs, NEW hooks \in SUBSET Endpoints, CreateRun(r, hooks)
      PROVE  IInv'
  <2>1. /\ UNCHANGED <<endpoints, outbox, worker>>
        /\ runs' = [runs EXCEPT ![r] = [created |-> TRUE, hooks |-> hooks, seq |-> 0]]
    BY <1>5 DEF CreateRun
  <2>2. AllStill /\ SignatureVerifiable'
    BY <1>1, <2>1, StillStep DEF SignatureVerifiable, Posting
  <2>3. TypeOK'
    <3>1. \A q \in Runs : runs'[q] \in [created: BOOLEAN, hooks: SUBSET Endpoints, seq: Nat]
      BY <1>1, <2>1 DEF TypeOK
    <3>2. runs' \in [Runs -> [created: BOOLEAN, hooks: SUBSET Endpoints, seq: Nat]]
      BY <1>1, <2>1, <3>1 DEF TypeOK
    <3>3. QED
      BY <1>1, <2>1, <3>2 DEF TypeOK
  <2>4. QED
    BY <1>1, <2>1, <2>2, <2>3, StillKeeps DEF IInv
<1>6. ASSUME NEW r \in Runs, NEW type \in EventTypes, NEW at \in Stamps, AppendEvent(r, type, at)
      PROVE  IInv'
  <2>1. /\ UNCHANGED <<endpoints, worker>> /\ runs' = [runs EXCEPT ![r].seq = runs[r].seq + 1]
    BY <1>6 DEF AppendEvent
  <2>2. /\ outbox' \in [Endpoints -> Seq(Delivery)] /\ RowsOK' /\ InRunOrder'
        /\ \A e \in Endpoints :
             /\ DOMAIN outbox[e] \subseteq DOMAIN outbox'[e]
             /\ \A i \in DOMAIN outbox'[e] :
                  \/ i \in DOMAIN outbox[e] /\ outbox'[e][i] = outbox[e][i]
                  \/ i \notin DOMAIN outbox[e] /\ outbox'[e][i].status = "PENDING"
             /\ \A i \in DOMAIN outbox[e] : outbox'[e][i] = outbox[e][i]
    BY <1>1, <1>6, AppendStep
  <2>3. TypeOK'
    <3> DEFINE Run == [created: BOOLEAN, hooks: SUBSET Endpoints, seq: Nat]
    <3>1. runs[r] \in Run /\ runs[r].seq + 1 \in Nat
      BY <1>1 DEF TypeOK
    <3>2. \A n \in Nat : [runs[r] EXCEPT !.seq = n] \in Run
      BY <3>1, Zenon
    <3>3. runs' = [runs EXCEPT ![r] = [runs[r] EXCEPT !.seq = runs[r].seq + 1]]
      BY <2>1
    <3>4. runs \in [Runs -> Run]
      BY <1>1 DEF TypeOK
    <3>5. runs' \in [Runs -> Run]
      <4> HIDE DEF Run
      <4>1. [runs[r] EXCEPT !.seq = runs[r].seq + 1] \in Run
        BY <3>1, <3>2
      <4>2. QED
        BY <3>3, <3>4, <4>1
    <3>6. QED
      BY <1>1, <2>1, <2>2, <3>5 DEF TypeOK
  <2>4. PostIsOpen' /\ SignatureVerifiable'
    BY <1>1, <2>1, <2>2 DEF PostIsOpen, SignatureVerifiable, Posting, Posted
  <2>5. DeliveringIsPosted'
    BY <1>1, <2>1, <2>2 DEF DeliveringIsPosted, Posting
  <2>6. QED
    BY <2>2, <2>3, <2>4, <2>5 DEF IInv
<1>7. CASE Start
  <2>1. worker' = Idle /\ UNCHANGED <<endpoints, runs>>
    BY <1>7 DEF Start
  <2>2. /\ AllKept /\ outbox' \in [Endpoints -> Seq(Delivery)]
        /\ \A e \in Endpoints : \A i \in DOMAIN outbox'[e] : outbox'[e][i].status # "DELIVERING"
    BY <1>1, <1>7, StartStep
  <2>3. RowsOK' /\ InRunOrder'
    BY <1>1, <2>2, KeptOrder
  <2>4. PostIsOpen' /\ SignatureVerifiable' /\ DeliveringIsPosted'
    BY <2>1, <2>2 DEF PostIsOpen, SignatureVerifiable, DeliveringIsPosted, Posting, Idle
  <2>5. QED
    BY <1>1, <2>1, <2>2, <2>3, <2>4 DEF IInv, TypeOK
<1>8. CASE Dispatch
  <2>1. UNCHANGED <<endpoints, runs>> /\ worker = Idle
    BY <1>8 DEF Dispatch
  <2>2. outbox' \in [Endpoints -> Seq(Delivery)] /\ RowsOK' /\ InRunOrder'
    BY <1>1, <1>8, DispatchStep
  <2>a. PICK e \in Endpoints : \E i \in DOMAIN outbox[e] :
          /\ worker' = [pc |-> "posting", endpoint |-> e, index |-> i,
                        secret |-> endpoints[e].secret, arrived |-> FALSE]
          /\ endpoints[e].status = "ACTIVE"
          /\ outbox'[e][i].status = "DELIVERING"
          /\ \A f \in Endpoints : DOMAIN outbox'[f] = DOMAIN outbox[f]
          /\ \A f \in Endpoints : \A j \in DOMAIN outbox[f] :
               f # e \/ j # i => outbox'[f][j] = outbox[f][j]
    BY <1>1, <1>8, DispatchStep, Zenon
  <2>3. PICK i \in DOMAIN outbox[e] :
          /\ worker' = [pc |-> "posting", endpoint |-> e, index |-> i,
                        secret |-> endpoints[e].secret, arrived |-> FALSE]
          /\ endpoints[e].status = "ACTIVE"
          /\ outbox'[e][i].status = "DELIVERING"
          /\ \A f \in Endpoints : DOMAIN outbox'[f] = DOMAIN outbox[f]
          /\ \A f \in Endpoints : \A j \in DOMAIN outbox[f] :
               f # e \/ j # i => outbox'[f][j] = outbox[f][j]
    BY <2>a
  <2>4. /\ worker'.endpoint = e /\ worker'.index = i /\ worker'.secret = endpoints[e].secret
        /\ Posting'
    BY <2>3 DEF Posting
  <2>5. TypeOK'
    <3>1. i \in Nat /\ endpoints[e].secret \in Nat
      BY <1>1, LenProperties DEF TypeOK, Endpoint
    <3>2. worker' \in Post
      BY <2>3, <3>1 DEF Post
    <3>3. QED
      BY <1>1, <2>1, <2>2, <3>2 DEF TypeOK
  <2>6. PostIsOpen' /\ SignatureVerifiable'
    BY <2>1, <2>3, <2>4 DEF PostIsOpen, SignatureVerifiable, Posted
  <2>7. DeliveringIsPosted'
    BY <1>1, <2>1, <2>3, <2>4 DEF DeliveringIsPosted, Posting, Idle, Down
  <2>8. QED
    BY <2>2, <2>5, <2>6, <2>7 DEF IInv
<1>9. CASE Arrive
  <2>1. /\ UNCHANGED <<endpoints, outbox, runs>> /\ Posting
        /\ worker' = [worker EXCEPT !.arrived = TRUE]
    BY <1>9 DEF Arrive
  <2>2. AllStill
    BY <1>1, <2>1, StillStep
  <2>3. worker' \in Post /\ worker'.arrived
    <3>1. worker \in Post
      BY <1>1, <2>1 DEF TypeOK, Posting, Idle, Down
    <3>2. QED
      BY <2>1, <3>1, Zenon DEF Post
  <2>4. TypeOK' /\ SignatureVerifiable'
    BY <1>1, <2>1, <2>3 DEF TypeOK, SignatureVerifiable
  <2>5. QED
    BY <1>1, <2>1, <2>2, <2>4, StillKeeps DEF IInv
<1>10. CASE Succeed \/ Fail \/ Stop \/ Crash \/ OutcomeLost
  BY <1>10, OutcomeKeeps
<1>11. QED
  BY <1>2, <1>3, <1>4, <1>5, <1>6, <1>7, <1>8, <1>9, <1>10 DEF Next

(* The invariant holds of every behaviour of the dispatcher and the API.   *)
THEOREM WebhookInvariant == Spec => []IInv
<1>1. IInv /\ [Next]_vars => IInv'
  BY NextStep
<1>2. QED
  BY InitStep, <1>1, PTL DEF Spec

(* The tables and the dispatcher keep their types.                         *)
THEOREM WebhookTypes == Spec => []TypeOK
<1>1. IInv => TypeOK
  BY DEF IInv
<1>2. QED
  BY WebhookInvariant, <1>1, PTL

(* Of two events of a run whose stamps sort as they happened, the later one *)
(* is not sent before the earlier one is over.                             *)
THEOREM WebhookInRunOrder == Spec => []InRunOrder
<1>1. IInv => InRunOrder
  BY DEF IInv
<1>2. QED
  BY WebhookInvariant, <1>1, PTL

(* While the process is up, a delivery marked DELIVERING is the one being   *)
(* posted, or its outcome could not be written.                            *)
THEOREM WebhookDeliveringIsPosted == Spec => []DeliveringIsPosted
<1>1. IInv => DeliveringIsPosted
  BY DEF IInv
<1>2. QED
  BY WebhookInvariant, <1>1, PTL

(* No crash, stop or redelivery lets a delivery have more attempts than its *)
(* share.                                                                  *)
THEOREM WebhookAttemptsBounded == Spec => []AttemptsBounded
<1>1. IInv => AttemptsBounded
  BY DEF IInv, RowsOK, RowOK, AttemptsBounded
<1>2. QED
  BY WebhookInvariant, <1>1, PTL

(* A receiver that keeps two secrets can verify what reaches it.           *)
THEOREM WebhookSignatureVerifiable == Spec => []SignatureVerifiable
<1>1. IInv => SignatureVerifiable
  BY DEF IInv
<1>2. QED
  BY WebhookInvariant, <1>1, PTL
=============================================================================
