----------------------------- MODULE FeedProofs -----------------------------
(***************************************************************************)
(* Machine-checked proofs about the readers of a run's events, for any     *)
(* filters, page size, number of streams, network and breaks.              *)
(*                                                                         *)
(* Between a stream and its reader nothing is lost and nothing invented:   *)
(* what the reader holds, and what is in the network after it, are lists   *)
(* (ListsOf) of the log's wanted events, one up to where the reader is,    *)
(* the other from there to where the stream is.  Each step moves an event  *)
(* from one list to the next.  Pages are lists of ranks: InOrderLists      *)
(* shows that a finite set of rows has an order.                           *)
(***************************************************************************)
EXTENDS EventFeed, FiniteSetTheorems, TLAPS

-----------------------------------------------------------------------------
(* Rows in order. *)

(* The rows of S before i; their number is the rank of i. *)
Below(S, i) == {j \in S : j < i}

(* Ranks are numbers below the size of the set. *)
LEMMA RankType ==
  ASSUME NEW S, S \subseteq Nat, IsFiniteSet(S), NEW i \in S
  PROVE  /\ IsFiniteSet(Below(S, i))
         /\ Cardinality(Below(S, i)) \in Nat
         /\ Cardinality(S) \in Nat
         /\ Cardinality(Below(S, i)) < Cardinality(S)
<1>1. Below(S, i) \in SUBSET S /\ Below(S, i) # S
  BY DEF Below
<1>2. IsFiniteSet(Below(S, i)) /\ Cardinality(Below(S, i)) \in Nat /\ Cardinality(S) \in Nat
  BY <1>1, FS_Subset, FS_CardinalityType
<1>3. Cardinality(Below(S, i)) <= Cardinality(S) /\ Cardinality(Below(S, i)) # Cardinality(S)
  BY <1>1, FS_Subset
<1> QED
  BY <1>2, <1>3

(* Ranks go up with the rows.                                              *)
LEMMA RankGrows ==
  ASSUME NEW S, S \subseteq Nat, IsFiniteSet(S), NEW i \in S, NEW j \in S, i < j
  PROVE  Cardinality(Below(S, i)) < Cardinality(Below(S, j))
<1>1. IsFiniteSet(Below(S, j)) /\ Cardinality(Below(S, j)) \in Nat /\ Cardinality(Below(S, i)) \in Nat
  BY RankType
<1>2. Below(S, i) \in SUBSET Below(S, j)
  <2>1. \A k \in S : k < i => k < j
    <3>1. i \in Nat /\ j \in Nat /\ \A k \in S : k \in Nat
      OBVIOUS
    <3> QED
      BY <3>1
  <2> QED
    BY <2>1 DEF Below
<1>3. i \in Below(S, j) /\ i \notin Below(S, i)
  BY DEF Below
<1>4. Cardinality(Below(S, i)) <= Cardinality(Below(S, j))
      /\ Cardinality(Below(S, i)) # Cardinality(Below(S, j))
  BY <1>1, <1>2, <1>3, FS_Subset
<1> QED
  BY <1>1, <1>4

(* Two elements of one rank are one. *)
LEMMA RankUnique ==
  ASSUME NEW S, S \subseteq Nat, IsFiniteSet(S), NEW i \in S, NEW j \in S,
         Cardinality(Below(S, i)) = Cardinality(Below(S, j))
  PROVE  i = j
<1>1. Cardinality(Below(S, i)) \in Nat /\ Cardinality(Below(S, j)) \in Nat
  BY RankType
<1>2. CASE i < j
  <2>1. Cardinality(Below(S, i)) < Cardinality(Below(S, j))
    BY <1>2, RankGrows
  <2> QED
    BY <2>1, <1>1
<1>3. CASE j < i
  <2>1. Cardinality(Below(S, j)) < Cardinality(Below(S, i))
    BY <1>3, RankGrows
  <2> QED
    BY <2>1, <1>1
<1> QED
  BY <1>2, <1>3

(* Every rank is taken. *)
LEMMA RankTaken ==
  ASSUME NEW S, S \subseteq Nat, IsFiniteSet(S), NEW k \in 1..Cardinality(S)
  PROVE  \E i \in S : Cardinality(Below(S, i)) = k - 1
<1> DEFINE f == [i \in S |-> Cardinality(Below(S, i)) + 1]
           T == 1..Cardinality(S)
<1>1. Cardinality(S) \in Nat
  BY FS_CardinalityType
<1>2. ASSUME NEW i \in S
      PROVE  f[i] \in T /\ f[i] = Cardinality(Below(S, i)) + 1
  <2>1. Cardinality(Below(S, i)) \in Nat /\ Cardinality(Below(S, i)) < Cardinality(S)
    BY RankType
  <2> QED
    BY <2>1, <1>1
<1>3. ASSUME NEW i \in S, NEW j \in S, f[i] = f[j]
      PROVE  i = j
  <2>1. Cardinality(Below(S, i)) = Cardinality(Below(S, j))
    <3>1. Cardinality(Below(S, i)) \in Nat /\ Cardinality(Below(S, j)) \in Nat
      BY RankType
    <3> QED
      BY <3>1, <1>3, <1>2
  <2> QED
    BY <2>1, RankUnique
<1>4. f \in [S -> T]
  BY <1>2
<1>5. IsFiniteSet(T) /\ Cardinality(T) = Cardinality(S)
  BY <1>1, FS_Interval
<1>6. \E i \in S : f[i] = k
  <2> HIDE DEF f
  <2>1. f \in Injection(S, T)
    BY <1>3, <1>4 DEF Injection, IsInjective
  <2>2. f \in Surjection(S, T)
    BY <2>1, <1>5, FS_Injection
  <2> QED
    BY <2>2 DEF Surjection
<1> QED
  <2>1. PICK i \in S : f[i] = k
    BY <1>6
  <2>2. Cardinality(Below(S, i)) \in Nat
    BY RankType
  <2> QED
    BY <2>1, <2>2, <1>2

(* InOrder is a sequence of all the rows, going up.                        *)
LEMMA InOrderLists ==
  ASSUME NEW S, S \subseteq Nat, IsFiniteSet(S)
  PROVE  /\ InOrder(S) \in Seq(S)
         /\ \A k, l \in DOMAIN InOrder(S) : k < l => InOrder(S)[k] < InOrder(S)[l]
         /\ \A i \in S : \E k \in DOMAIN InOrder(S) : InOrder(S)[k] = i
<1> DEFINE q == InOrder(S)
<1>1. Cardinality(S) \in Nat
  BY FS_CardinalityType
<1>2. q = [k \in 1..Cardinality(S) |-> CHOOSE i \in S : Cardinality(Below(S, i)) = k - 1]
  BY DEF InOrder, Below
<1> HIDE DEF q
<1>3. ASSUME NEW k \in 1..Cardinality(S)
      PROVE  q[k] \in S /\ Cardinality(Below(S, q[k])) = k - 1
  <2>1. q[k] = CHOOSE i \in S : Cardinality(Below(S, i)) = k - 1
    BY <1>2
  <2> QED
    BY <2>1, RankTaken
<1>4. q \in [1..Cardinality(S) -> S]
  BY <1>2, <1>3
<1>5. ASSUME NEW k \in 1..Cardinality(S), NEW l \in 1..Cardinality(S), k < l
      PROVE  q[k] < q[l]
  <2>1. /\ q[k] \in S /\ Cardinality(Below(S, q[k])) = k - 1
        /\ q[l] \in S /\ Cardinality(Below(S, q[l])) = l - 1
    BY <1>3
  <2>2. CASE q[l] < q[k]
    <3>1. Cardinality(Below(S, q[l])) < Cardinality(Below(S, q[k]))
      BY <2>1, <2>2, RankGrows
    <3> QED
      BY <3>1, <2>1, <1>5, <1>1
  <2>3. q[k] # q[l]
    BY <2>1, <1>5, <1>1
  <2>4. q[k] \in Nat /\ q[l] \in Nat
    BY <2>1
  <2> QED
    BY <2>2, <2>3, <2>4
<1>6. ASSUME NEW i \in S
      PROVE  \E k \in 1..Cardinality(S) : q[k] = i
  <2> DEFINE k == Cardinality(Below(S, i)) + 1
  <2>1. k \in 1..Cardinality(S) /\ Cardinality(Below(S, i)) = k - 1
    <3>1. Cardinality(Below(S, i)) \in Nat /\ Cardinality(Below(S, i)) < Cardinality(S)
      BY RankType
    <3> QED
      BY <3>1, <1>1
  <2> HIDE DEF k
  <2>2. q[k] \in S /\ Cardinality(Below(S, q[k])) = Cardinality(Below(S, i))
    BY <2>1, <1>3
  <2>3. q[k] = i
    BY <2>2, RankUnique
  <2> QED
    BY <2>1, <2>3
<1>7. q \in Seq(S) /\ DOMAIN q = 1..Cardinality(S)
  BY <1>4, <1>1
<1> QED
  BY <1>5, <1>6, <1>7 DEF q

-----------------------------------------------------------------------------
(* q is, once and in order, all of log that types wants after lo and up to *)
(* hi: Lists, with the log and the types it speaks about.                  *)
ListsOf(q, lo, hi, log, types) ==
  /\ \A j, k \in DOMAIN q : j < k => q[j] < q[k]
  /\ \A k \in DOMAIN q : lo < q[k] /\ q[k] <= hi /\ log[q[k]] \in types
  /\ \A i \in Nat : lo < i /\ i <= hi /\ log[i] \in types => \E k \in DOMAIN q : q[k] = i

(* Nothing in log is wanted after lo and up to hi. *)
NothingIn(lo, hi, log, types) == \A i \in Nat : lo < i /\ i <= hi => log[i] \notin types

Statuses == {"WAITING_USER", "RUNNING", "PAUSED", "TERMINAL"}
Runs == [status: Statuses, rev: Nat, packet: {"OPEN", "ANSWERED", "SUPERSEDED"}, packetRev: Nat,
         log: Seq(EventTypes)]

(* The log's last event says that the run has ended, and no other does. *)
RunOK ==
  /\ run \in Runs
  /\ Locked => run.status = "RUNNING"
  /\ Len(run.log) > 0
  /\ \A i \in DOMAIN run.log : run.log[i] \in TerminalTypes => Terminal /\ i = Len(run.log)

StreamPcs == {"new", "read", "yield", "look", "wait", "parked", "beat", "closed", "leaked"}
Streams == [pc: StreamPcs, pos: Nat, upto: Nat, wire: Seq(Nat), gone: BOOLEAN]

StreamOK(c) ==
  /\ c.pos <= SnapshotSeq
  /\ c.pc = "yield" => c.pos < c.upto /\ c.upto <= SnapshotSeq
StreamsOK == conns \in Seq(Streams) /\ \A s \in DOMAIN conns : StreamOK(conns[s])

OverSse == {"open", "reading", "recheck", "refused"}
Readers ==
  [pc: OverSse \cup {"page", "returned"}, mode: {"sse", "json", "outputs"},
   types: SUBSET EventTypes, start: Nat, at: Nat, high: Nat, got: Seq(Nat), dropped: BOOLEAN]

(* What the reader holds is what it wanted up to where it is. *)
HoldsOK ==
  /\ client.start <= client.at /\ client.at <= SnapshotSeq
  /\ client.at = IF client.got = <<>> THEN client.start ELSE client.got[Len(client.got)]
  /\ ListsOf(client.got, client.start, client.at, run.log, client.types)

(* A stream that ended by itself, and a batch, leave nothing out. *)
EndsOK ==
  /\ client.mode = "sse" /\ client.pc \in {"recheck", "returned"} /\ ~client.dropped =>
       Terminal /\ NothingIn(client.at, SnapshotSeq, run.log, client.types)
  /\ client.mode # "sse" /\ client.pc = "returned" =>
       /\ client.at <= client.high
       /\ NothingIn(client.at, client.high, run.log, client.types)

ReaderOK ==
  client.pc # "idle" =>
    /\ client \in Readers
    /\ client.pc \in OverSse => client.mode = "sse"
    /\ client.pc = "page" => client.mode # "sse"
    /\ client.mode = "sse" => client.high = 0
    /\ client.mode = "outputs" => client.types = {"output"}
    /\ client.high <= SnapshotSeq
    /\ client.high # 0 => client.at <= client.high
    /\ HoldsOK
    /\ EndsOK

(* What is in the network is what lies between the reader and the stream. *)
CarriesOK(c) ==
  /\ ~c.gone /\ c.pc # "leaked"
  /\ client.at <= c.pos
  /\ ListsOf(c.wire, client.at, c.pos, run.log, client.types)
  /\ c.pc = "closed" => Terminal /\ c.pos = SnapshotSeq
InFlightOK == client.pc = "reading" => conns # <<>> /\ CarriesOK(conns[Len(conns)])

IInv == RunOK /\ StreamsOK /\ ReaderOK /\ InFlightOK /\ NoLostWakeup

-----------------------------------------------------------------------------
(* The lists a reader is given. *)

(* Nothing lies between n and n.                                           *)
LEMMA OfNone ==
  ASSUME NEW n \in Nat, NEW log, NEW types
  PROVE  ListsOf(<<>>, n, n, log, types)
BY DEF ListsOf

(* A list goes as far as nothing else is wanted. *)
LEMMA OfNothing ==
  ASSUME NEW q \in Seq(Nat), NEW lo \in Nat, NEW mid \in Nat, NEW hi \in Nat, NEW log, NEW types,
         mid <= hi, ListsOf(q, lo, mid, log, types), NothingIn(mid, hi, log, types)
  PROVE  ListsOf(q, lo, hi, log, types)
<1>1. \A k \in DOMAIN q : q[k] \in Nat
  OBVIOUS
<1>2. ASSUME NEW k \in DOMAIN q
      PROVE  lo < q[k] /\ q[k] <= hi /\ log[q[k]] \in types
  BY <1>1 DEF ListsOf
<1>3. ASSUME NEW i \in Nat, lo < i, i <= hi, log[i] \in types
      PROVE  \E k \in DOMAIN q : q[k] = i
  <2>1. i <= mid
    BY <1>3 DEF NothingIn
  <2> QED
    BY <1>3, <2>1 DEF ListsOf
<1> QED
  BY <1>2, <1>3 DEF ListsOf

(* The next event of the log, when it is wanted. *)
LEMMA OfNext ==
  ASSUME NEW q \in Seq(Nat), NEW lo \in Nat, NEW hi \in Nat, NEW log, NEW types,
         lo <= hi, ListsOf(q, lo, hi, log, types), log[hi + 1] \in types
  PROVE  ListsOf(Append(q, hi + 1), lo, hi + 1, log, types)
<1> DEFINE r == Append(q, hi + 1)
<1>1. /\ r \in Seq(Nat) /\ DOMAIN r = 1..(Len(q) + 1) /\ Len(q) \in Nat /\ DOMAIN q = 1..Len(q)
      /\ r[Len(q) + 1] = hi + 1
      /\ \A k \in 1..Len(q) : r[k] = q[k] /\ q[k] \in Nat
  OBVIOUS
<1> HIDE DEF r
<1>2. \A k \in 1..Len(q) : lo < q[k] /\ q[k] <= hi /\ log[q[k]] \in types
  BY <1>1 DEF ListsOf
<1>3. ASSUME NEW j \in DOMAIN r, NEW k \in DOMAIN r, j < k
      PROVE  r[j] < r[k]
  <2>1. j \in 1..Len(q)
    BY <1>1, <1>3
  <2>2. CASE k = Len(q) + 1
    BY <2>1, <2>2, <1>1, <1>2
  <2>3. CASE k \in 1..Len(q)
    BY <2>1, <2>3, <1>1, <1>3 DEF ListsOf
  <2> QED
    BY <2>2, <2>3, <1>1
<1>4. ASSUME NEW k \in DOMAIN r
      PROVE  lo < r[k] /\ r[k] <= hi + 1 /\ log[r[k]] \in types
  <2>1. CASE k = Len(q) + 1
    BY <2>1, <1>1
  <2>2. CASE k \in 1..Len(q)
    BY <2>2, <1>1, <1>2
  <2> QED
    BY <2>1, <2>2, <1>1
<1>5. ASSUME NEW i \in Nat, lo < i, i <= hi + 1, log[i] \in types
      PROVE  \E k \in DOMAIN r : r[k] = i
  <2>1. CASE i = hi + 1
    BY <2>1, <1>1
  <2>2. CASE i <= hi
    <3>1. PICK k \in 1..Len(q) : q[k] = i
      BY <2>2, <1>5, <1>1 DEF ListsOf
    <3>2. r[k] = q[k]
      BY <1>1
    <3>3. k \in DOMAIN r
      BY <1>1
    <3> QED
      BY <3>1, <3>2, <3>3
  <2> QED
    BY <2>1, <2>2, <1>5
<1> QED
  BY <1>3, <1>4, <1>5 DEF ListsOf, r

(* The first of a list: nothing wanted lies before it. *)
LEMMA OfHead ==
  ASSUME NEW q \in Seq(Nat), q # <<>>, NEW lo \in Nat, NEW hi \in Nat, NEW log, NEW types,
         ListsOf(q, lo, hi, log, types)
  PROVE  /\ Head(q) \in Nat /\ lo < Head(q) /\ Head(q) <= hi /\ log[Head(q)] \in types
         /\ NothingIn(lo, Head(q) - 1, log, types)
         /\ ListsOf(Tail(q), Head(q), hi, log, types)
         /\ Tail(q) \in Seq(Nat)
<1> DEFINE r == Tail(q)
<1>1. /\ Len(q) \in Nat /\ Len(q) > 0 /\ DOMAIN q = 1..Len(q) /\ Head(q) = q[1]
      /\ \A k \in 1..Len(q) : q[k] \in Nat
  OBVIOUS
<1>2. /\ r \in Seq(Nat) /\ DOMAIN r = 1..(Len(q) - 1)
      /\ \A k \in 1..(Len(q) - 1) : r[k] = q[k + 1]
  OBVIOUS
<1> HIDE DEF r
<1>3. \A k \in 1..Len(q) : lo < q[k] /\ q[k] <= hi /\ log[q[k]] \in types
  BY <1>1 DEF ListsOf
<1>4. \A k \in 1..Len(q) : k # 1 => q[1] < q[k]
  BY <1>1 DEF ListsOf
<1>5. ASSUME NEW i \in Nat, lo < i, i <= q[1] - 1
      PROVE  log[i] \notin types
  <2>1. i <= hi
    BY <1>1, <1>3, <1>5
  <2>2. SUFFICES ASSUME log[i] \in types PROVE FALSE
    OBVIOUS
  <2>3. PICK k \in 1..Len(q) : q[k] = i
    BY <1>1, <1>5, <2>1, <2>2 DEF ListsOf
  <2> QED
    BY <2>3, <1>1, <1>4, <1>5
<1>6. ListsOf(r, q[1], hi, log, types)
  <2>1. \A j, k \in DOMAIN r : j < k => r[j] < r[k]
    <3>1. ASSUME NEW j \in DOMAIN r, NEW k \in DOMAIN r, j < k PROVE r[j] < r[k]
      <4>1. /\ j + 1 \in 1..Len(q) /\ k + 1 \in 1..Len(q) /\ j + 1 < k + 1
            /\ r[j] = q[j + 1] /\ r[k] = q[k + 1]
        <5>1. j \in 1..(Len(q) - 1) /\ k \in 1..(Len(q) - 1)
          BY <1>2
        <5>2. r[j] = q[j + 1] /\ r[k] = q[k + 1]
          BY <5>1, <1>2
        <5>3. j \in Int /\ k \in Int
          BY <5>1, <1>1
        <5> QED
          BY <5>1, <5>2, <5>3, <1>1, <3>1
      <4>2. q[j + 1] < q[k + 1]
        BY <4>1, <1>1 DEF ListsOf
      <4> QED
        BY <4>1, <4>2
    <3> QED
      BY <3>1
  <2>2. \A k \in DOMAIN r : q[1] < r[k] /\ r[k] <= hi /\ log[r[k]] \in types
    <3>1. ASSUME NEW k \in DOMAIN r PROVE q[1] < r[k] /\ r[k] <= hi /\ log[r[k]] \in types
      <4>1. k + 1 \in 1..Len(q) /\ k + 1 # 1 /\ r[k] = q[k + 1]
        BY <1>1, <1>2
      <4> QED
        BY <4>1, <1>3, <1>4
    <3> QED
      BY <3>1
  <2>3. ASSUME NEW i \in Nat, q[1] < i, i <= hi, log[i] \in types
        PROVE  \E k \in DOMAIN r : r[k] = i
    <3>1. lo < i
      BY <2>3, <1>1, <1>3
    <3>2. PICK k \in 1..Len(q) : q[k] = i
      BY <1>1, <3>1, <2>3 DEF ListsOf
    <3>3. k # 1
      BY <3>2, <2>3, <1>1
    <3>4. k - 1 \in DOMAIN r /\ r[k - 1] = q[k]
      BY <3>2, <3>3, <1>1, <1>2
    <3> QED
      BY <3>2, <3>4
  <2> QED
    BY <2>1, <2>2, <2>3 DEF ListsOf
<1> QED
  BY <1>1, <1>2, <1>3, <1>5, <1>6 DEF NothingIn, r

(* Two lists one after the other. *)
LEMMA OfConcat ==
  ASSUME NEW q \in Seq(Nat), NEW r \in Seq(Nat), NEW lo \in Nat, NEW mid \in Nat, NEW hi \in Nat,
         NEW log, NEW types, lo <= mid, mid <= hi,
         ListsOf(q, lo, mid, log, types), ListsOf(r, mid, hi, log, types)
  PROVE  ListsOf(q \o r, lo, hi, log, types)
<1> DEFINE t == q \o r
<1>1. /\ Len(q) \in Nat /\ Len(r) \in Nat
      /\ DOMAIN q = 1..Len(q) /\ DOMAIN r = 1..Len(r) /\ DOMAIN t = 1..(Len(q) + Len(r))
      /\ \A k \in 1..Len(q) : t[k] = q[k] /\ q[k] \in Nat
      /\ \A k \in 1..Len(r) : r[k] \in Nat
  OBVIOUS
<1>2. \A k \in 1..Len(r) : t[Len(q) + k] = r[k]
  <2> TAKE k \in 1..Len(r)
  <2> QED
    BY <1>1
<1> HIDE DEF t
<1>3. \A k \in 1..Len(q) : lo < q[k] /\ q[k] <= mid /\ log[q[k]] \in types
  BY <1>1 DEF ListsOf
<1>4. \A k \in 1..Len(r) : mid < r[k] /\ r[k] <= hi /\ log[r[k]] \in types
  BY <1>1 DEF ListsOf
<1>5. \A k \in DOMAIN t :
        \/ k \in 1..Len(q) /\ t[k] = q[k]
        \/ k - Len(q) \in 1..Len(r) /\ t[k] = r[k - Len(q)]
  <2>1. ASSUME NEW k \in DOMAIN t, k \notin 1..Len(q)
        PROVE  k - Len(q) \in 1..Len(r) /\ t[k] = r[k - Len(q)]
    <3>1. k - Len(q) \in 1..Len(r) /\ Len(q) + (k - Len(q)) = k
      BY <1>1, <2>1
    <3> QED
      BY <3>1, <1>2
  <2> QED
    BY <2>1, <1>1
<1>6. ASSUME NEW j \in DOMAIN t, NEW k \in DOMAIN t, j < k
      PROVE  t[j] < t[k]
  <2>1. CASE j \in 1..Len(q) /\ k \in 1..Len(q)
    BY <2>1, <1>1, <1>6 DEF ListsOf
  <2>2. CASE j \in 1..Len(q) /\ k \notin 1..Len(q)
    <3>1. t[j] = q[j] /\ k - Len(q) \in 1..Len(r) /\ t[k] = r[k - Len(q)]
      BY <2>2, <1>1, <1>5
    <3> QED
      BY <3>1, <2>2, <1>1, <1>3, <1>4
  <2>3. CASE j \notin 1..Len(q)
    <3>1. j - Len(q) \in 1..Len(r) /\ t[j] = r[j - Len(q)]
      BY <2>3, <1>5
    <3>2. k \notin 1..Len(q)
      BY <2>3, <1>1, <1>6
    <3>3. k - Len(q) \in 1..Len(r) /\ t[k] = r[k - Len(q)] /\ j - Len(q) < k - Len(q)
      BY <3>2, <1>1, <1>5, <1>6
    <3> QED
      BY <3>1, <3>3, <1>1 DEF ListsOf
  <2> QED
    BY <2>1, <2>2, <2>3
<1>7. ASSUME NEW k \in DOMAIN t
      PROVE  lo < t[k] /\ t[k] <= hi /\ log[t[k]] \in types
  <2>1. CASE k \in 1..Len(q) /\ t[k] = q[k]
    BY <2>1, <1>1, <1>3
  <2>2. CASE k - Len(q) \in 1..Len(r) /\ t[k] = r[k - Len(q)]
    BY <2>2, <1>1, <1>4
  <2> QED
    BY <2>1, <2>2, <1>5
<1>8. ASSUME NEW i \in Nat, lo < i, i <= hi, log[i] \in types
      PROVE  \E k \in DOMAIN t : t[k] = i
  <2>1. CASE i <= mid
    <3>1. PICK k \in 1..Len(q) : q[k] = i
      BY <2>1, <1>8, <1>1 DEF ListsOf
    <3>2. t[k] = q[k]
      BY <1>1
    <3>3. k \in DOMAIN t
      BY <1>1
    <3> QED
      BY <3>1, <3>2, <3>3
  <2>2. CASE mid < i
    <3>1. PICK k \in 1..Len(r) : r[k] = i
      BY <2>2, <1>8, <1>1 DEF ListsOf
    <3>2. Len(q) + k \in DOMAIN t /\ t[Len(q) + k] = i
      BY <3>1, <1>1, <1>2
    <3> QED
      BY <3>2
  <2> QED
    BY <2>1, <2>2
<1> QED
  BY <1>6, <1>7, <1>8 DEF ListsOf, t

(* What a log says of events it already had. *)
LEMMA OfLonger ==
  ASSUME NEW q \in Seq(Nat), NEW lo \in Nat, NEW hi \in Nat, NEW log, NEW log2, NEW types,
         \A i \in 1..hi : log2[i] = log[i],
         ListsOf(q, lo, hi, log, types)
  PROVE  ListsOf(q, lo, hi, log2, types)
<1>1. ASSUME NEW k \in DOMAIN q
      PROVE  lo < q[k] /\ q[k] <= hi /\ log2[q[k]] \in types
  <2>1. q[k] \in Nat
    OBVIOUS
  <2>2. lo < q[k] /\ q[k] <= hi /\ log[q[k]] \in types
    BY DEF ListsOf
  <2> QED
    BY <2>1, <2>2
<1>2. ASSUME NEW i \in Nat, lo < i, i <= hi, log2[i] \in types
      PROVE  \E k \in DOMAIN q : q[k] = i
  BY <1>2 DEF ListsOf
<1> QED
  BY <1>1, <1>2 DEF ListsOf

(* The properties of the runs speak of these lists. *)
LEMMA ListsIs ==
  ASSUME NEW q \in Seq(Nat), NEW lo \in Nat, NEW hi \in Nat,
         ListsOf(q, lo, hi, run.log, client.types)
  PROVE  Lists(q, lo, hi)
<1>1. \A k \in DOMAIN q : q[k] \in Nat
  OBVIOUS
<1>2. Range(q) \subseteq WantedIn(lo, hi)
  BY <1>1 DEF ListsOf, Range, WantedIn, Wanted
<1>3. ASSUME NEW i \in WantedIn(lo, hi) PROVE i \in Range(q)
  <2>1. i \in Nat /\ lo < i /\ i <= hi /\ run.log[i] \in client.types
    BY DEF WantedIn, Wanted
  <2> QED
    BY <2>1 DEF ListsOf, Range
<1> QED
  BY <1>2, <1>3 DEF Lists, ListsOf

-----------------------------------------------------------------------------
(* The server's steps. *)

(* A step of one stream keeps the invariant when the stream stays behind   *)
(* the log, sleeps only with nothing to send, and carries what it carried. *)
LEMMA StreamMoves ==
  ASSUME IInv, NEW s \in DOMAIN conns, NEW c \in Streams,
         conns' = [conns EXCEPT ![s] = c], UNCHANGED <<runVars, client, notice>>,
         StreamOK(c),
         c.pc = "parked" => ~(c.pos < SnapshotSeq),
         client.pc = "reading" /\ CarriesOK(conns[s]) => CarriesOK(c)
  PROVE  IInv'
<1>1. conns \in Seq(Streams)
  BY DEF IInv, StreamsOK
<1>2. /\ conns' \in Seq(Streams) /\ Len(conns') = Len(conns) /\ DOMAIN conns' = DOMAIN conns
      /\ conns'[s] = c /\ \A r \in DOMAIN conns : r # s => conns'[r] = conns[r]
  BY <1>1
<1>3. RunOK' /\ ReaderOK'
  BY DEF IInv, RunOK, ReaderOK, HoldsOK, EndsOK, ListsOf, NothingIn, runVars, Locked, Terminal, SnapshotSeq
<1>4. StreamsOK'
  BY <1>2 DEF IInv, StreamsOK, StreamOK, SnapshotSeq, runVars
<1>5. InFlightOK'
  <2>1. SUFFICES ASSUME client'.pc = "reading"
                 PROVE  conns' # <<>> /\ CarriesOK(conns[Len(conns)])'
    BY DEF InFlightOK
  <2>2. conns # <<>> /\ CarriesOK(conns[Len(conns)])
    BY <2>1 DEF IInv, InFlightOK
  <2>3. Len(conns) \in DOMAIN conns /\ conns' # <<>>
    BY <1>1, <1>2, <2>2
  <2>4. CASE s = Len(conns)
    <3>1. conns'[Len(conns')] = c
      BY <2>4, <1>2
    <3>2. CarriesOK(c)
      BY <2>1, <2>2, <2>4
    <3> QED
      BY <2>3, <3>1, <3>2 DEF CarriesOK, ListsOf, Terminal, SnapshotSeq, runVars
  <2>5. CASE s # Len(conns)
    <3>1. conns'[Len(conns')] = conns[Len(conns)]
      BY <2>3, <2>5, <1>2
    <3> QED
      BY <2>2, <2>3, <3>1 DEF CarriesOK, ListsOf, Terminal, SnapshotSeq, runVars
  <2> QED
    BY <2>4, <2>5
<1>6. NoLostWakeup'
  BY <1>2 DEF IInv, NoLostWakeup, SnapshotSeq, runVars
<1> QED
  BY <1>3, <1>4, <1>5, <1>6 DEF IInv

(* A stream that only turns to something else. *)
LEMMA StreamTurns ==
  ASSUME IInv, NEW s \in DOMAIN conns, NEW pc \in StreamPcs \ {"yield"}, ConnTo(s, pc),
         UNCHANGED <<runVars, client, notice>>,
         pc = "parked" => ~(conns[s].pos < SnapshotSeq),
         pc = "leaked" => conns[s].gone,
         pc = "closed" => conns[s].gone \/ (Terminal /\ conns[s].pos >= SnapshotSeq)
  PROVE  IInv'
<1> DEFINE c == [conns[s] EXCEPT !.pc = pc]
<1>1. conns[s] \in Streams /\ StreamOK(conns[s])
  BY DEF IInv, StreamsOK
<1>2. /\ c \in Streams /\ c.pc = pc /\ c.pos = conns[s].pos /\ c.wire = conns[s].wire
      /\ c.gone = conns[s].gone
  BY <1>1 DEF Streams
<1>3. conns' = [conns EXCEPT ![s] = c]
  BY DEF ConnTo
<1>4. SnapshotSeq \in Nat /\ conns[s].pos \in Nat
  BY <1>1 DEF IInv, RunOK, Runs, SnapshotSeq, Streams
<1> HIDE DEF c
<1>5. StreamOK(c)
  BY <1>1, <1>2 DEF StreamOK
<1>6. CarriesOK(conns[s]) => CarriesOK(c)
  BY <1>1, <1>2, <1>4 DEF CarriesOK, StreamOK
<1> QED
  BY <1>2, <1>3, <1>5, <1>6, StreamMoves

(* A stream sees how far the log is, or that it has caught up.             *)
LEMMA ReadBacklogStep ==
  ASSUME IInv, NEW s \in DOMAIN conns, ReadBacklog(s), UNCHANGED <<runVars, client>>
  PROVE  IInv'
<1>1. CASE ~(conns[s].pos < SnapshotSeq)
  BY <1>1, StreamTurns DEF ReadBacklog, StreamPcs
<1>2. CASE conns[s].pos < SnapshotSeq
  <2> DEFINE c == [conns[s] EXCEPT !.pc = "yield", !.upto = SnapshotSeq]
  <2>1. conns[s] \in Streams /\ StreamOK(conns[s]) /\ SnapshotSeq \in Nat
    BY DEF IInv, StreamsOK, RunOK, Runs, SnapshotSeq
  <2>2. /\ c \in Streams /\ c.pc = "yield" /\ c.pos = conns[s].pos /\ c.wire = conns[s].wire
        /\ c.gone = conns[s].gone /\ c.upto = SnapshotSeq
    BY <2>1 DEF Streams, StreamPcs
  <2>3. conns' = [conns EXCEPT ![s] = c] /\ UNCHANGED notice
    BY <1>2, <2>1 DEF ReadBacklog, IInv, StreamsOK, Streams
  <2> HIDE DEF c
  <2>4. StreamOK(c) /\ (CarriesOK(conns[s]) => CarriesOK(c))
    BY <1>2, <2>1, <2>2 DEF StreamOK, CarriesOK
  <2> QED
    BY <2>2, <2>3, <2>4, StreamMoves
<1> QED
  BY <1>1, <1>2

(* An event goes into the network, or is not wanted. *)
LEMMA YieldStep ==
  ASSUME IInv, NEW s \in DOMAIN conns, Yield(s), UNCHANGED <<runVars, client>>
  PROVE  IInv'
<1> DEFINE o == conns[s]
           i == o.pos + 1
           p == IF i = o.upto THEN "read" ELSE "yield"
           w == IF Wanted(i) /\ ~o.gone THEN Append(o.wire, i) ELSE o.wire
           c == [o EXCEPT !.pos = i, !.pc = p, !.wire = w]
<1>1. o \in Streams /\ StreamOK(o) /\ o.pc = "yield"
  BY DEF IInv, StreamsOK, Yield
<1>2. o.pos \in Nat /\ o.upto \in Nat /\ o.wire \in Seq(Nat) /\ SnapshotSeq \in Nat
  BY <1>1 DEF Streams, IInv, RunOK, Runs, SnapshotSeq
<1>3. o.pos < o.upto /\ o.upto <= SnapshotSeq
  BY <1>1 DEF StreamOK
<1>4. conns' = [conns EXCEPT ![s] = c] /\ UNCHANGED notice
  BY <1>1 DEF Yield, Advanced, IInv, StreamsOK, Streams
<1>5. /\ c \in Streams /\ c.pos = i /\ c.gone = o.gone /\ c.upto = o.upto
      /\ c.pc = p /\ c.wire = w
  <2>1. Append(o.wire, i) \in Seq(Nat) /\ i \in Nat
    BY <1>2
  <2>2. p \in StreamPcs /\ w \in Seq(Nat)
    BY <2>1, <1>2 DEF StreamPcs
  <2> HIDE DEF p, w
  <2> QED
    BY <1>1, <2>1, <2>2 DEF Streams
<1>6. StreamOK(c)
  BY <1>2, <1>3, <1>5 DEF StreamOK
<1>7. ASSUME client.pc = "reading", CarriesOK(o) PROVE CarriesOK(c)
  <2>0. client.at \in Nat
    BY <1>7 DEF IInv, ReaderOK, Readers
  <2>1. ~o.gone /\ client.at <= o.pos /\ ListsOf(o.wire, client.at, o.pos, run.log, client.types)
    BY <1>7 DEF CarriesOK
  <2>2. ListsOf(c.wire, client.at, i, run.log, client.types)
    <3>1. CASE Wanted(i)
      <4>1. c.wire = Append(o.wire, i) /\ run.log[o.pos + 1] \in client.types
        BY <3>1, <2>1, <1>5 DEF Wanted
      <4> HIDE DEF c
      <4> QED
        BY <4>1, <2>0, <2>1, <1>2, OfNext
    <3>2. CASE ~Wanted(i)
      <4>1. NothingIn(o.pos, i, run.log, client.types)
        BY <3>2, <1>2 DEF NothingIn, Wanted
      <4>2. c.wire = o.wire
        BY <3>2, <1>5
      <4> HIDE DEF c
      <4>3. i \in Nat /\ o.pos <= i
        BY <1>2
      <4> QED
        BY <4>1, <4>2, <4>3, <2>0, <2>1, <1>2, OfNothing
    <3> QED
      BY <3>1, <3>2
  <2> QED
    <3>1. c.pc # "closed" /\ c.pc # "leaked" /\ ~c.gone /\ c.pos = i
      BY <2>1, <1>5
    <3>2. client.at <= i
      BY <2>0, <2>1, <1>2
    <3> HIDE DEF c
    <3> QED
      BY <3>1, <3>2, <2>2 DEF CarriesOK
<1>8. c.pc # "parked"
  BY <1>5
<1> HIDE DEF c
<1> QED
  BY <1>4, <1>5, <1>6, <1>7, <1>8, StreamMoves

(* Every step of a stream.                                                 *)
LEMMA ServerSteps ==
  ASSUME IInv, NEW s, ServerStep(s)
  PROVE  IInv'
<1>0. s \in DOMAIN conns /\ UNCHANGED <<runVars, client>>
  BY DEF ServerStep
<1>1. conns[s] \in Streams /\ StreamOK(conns[s])
  BY <1>0 DEF IInv, StreamsOK
<1>2. CASE Started(s)
  BY <1>0, <1>2, StreamTurns DEF Started, StreamPcs
<1>3. CASE ReadBacklog(s)
  BY <1>0, <1>3, ReadBacklogStep
<1>4. CASE Yield(s)
  BY <1>0, <1>4, YieldStep
<1>5. CASE LookAtRun(s)
  <2>1. UNCHANGED notice /\ (ConnTo(s, "wait") \/ (AtEnd(conns[s].pos) /\ ConnTo(s, "closed")))
    BY <1>5 DEF LookAtRun
  <2> QED
    BY <1>0, <2>1, StreamTurns DEF AtEnd, StreamPcs
<1>6. CASE Wait(s)
  <2>1. UNCHANGED notice /\ ConnTo(s, IF StillBehind(conns[s].pos) THEN "read" ELSE "parked")
    BY <1>6 DEF Wait
  <2>2. CASE StillBehind(conns[s].pos)
    BY <1>0, <2>1, <2>2, StreamTurns DEF StreamPcs
  <2>3. CASE ~StillBehind(conns[s].pos)
    BY <1>0, <2>1, <2>3, StreamTurns DEF StillBehind, StreamPcs
  <2> QED
    BY <2>2, <2>3
<1>7. CASE Heartbeat(s)
  BY <1>0, <1>7, StreamTurns DEF Heartbeat, StreamPcs
<1>8. CASE Reap(s)
  <2>1. conns[s].gone /\ UNCHANGED notice /\ (ConnTo(s, "leaked") \/ ConnTo(s, "closed"))
    BY <1>8 DEF Reap
  <2> QED
    BY <1>0, <2>1, StreamTurns DEF StreamPcs
<1> QED
  BY <1>2, <1>3, <1>4, <1>5, <1>6, <1>7, <1>8 DEF ServerStep

(* A stream that waited in vain for fifteen seconds.                       *)
LEMMA TimeOut ==
  ASSUME IInv, NEW s \in DOMAIN conns, TimesOut(s)
  PROVE  IInv'
BY StreamTurns DEF TimesOut, StreamPcs

(* Every sleeper looks again. *)
LEMMA NotifyStep ==
  ASSUME IInv, Notify
  PROVE  IInv'
<1>1. conns \in Seq(Streams) /\ UNCHANGED <<run, answer, controls, client>>
  BY DEF Notify, runVars, IInv, StreamsOK
<1> DEFINE woken(c) == IF c.pc = "parked" THEN [c EXCEPT !.pc = "wait"] ELSE c
<1>2. \A c \in Streams :
        /\ woken(c) \in Streams /\ woken(c).pos = c.pos /\ woken(c).upto = c.upto
        /\ woken(c).wire = c.wire /\ woken(c).gone = c.gone /\ woken(c).pc # "parked"
        /\ c.pc # "parked" => woken(c) = c
        /\ c.pc = "parked" => woken(c).pc = "wait"
  BY DEF Streams, StreamPcs
<1>3. conns' = [s \in DOMAIN conns |-> woken(conns[s])]
  BY DEF Notify
<1> HIDE DEF woken
<1>4. /\ DOMAIN conns = 1..Len(conns) /\ Len(conns) \in Nat
      /\ \A s \in DOMAIN conns : conns[s] \in Streams
  BY <1>1
<1>5. /\ conns' \in Seq(Streams) /\ Len(conns') = Len(conns) /\ DOMAIN conns' = DOMAIN conns
      /\ \A s \in DOMAIN conns : conns'[s] = woken(conns[s])
  <2>1. conns' \in [1..Len(conns) -> Streams]
    BY <1>2, <1>3, <1>4
  <2> QED
    BY <2>1, <1>3, <1>4
<1>6. RunOK' /\ ReaderOK'
  BY <1>1 DEF IInv, RunOK, ReaderOK, HoldsOK, EndsOK, ListsOf, NothingIn, Locked, Terminal, SnapshotSeq
<1>7. StreamsOK'
  <2>1. ASSUME NEW s \in DOMAIN conns PROVE StreamOK(woken(conns[s]))
    BY <1>2, <1>4 DEF IInv, StreamsOK, StreamOK
  <2> QED
    BY <1>1, <1>5, <2>1 DEF StreamsOK, StreamOK, SnapshotSeq
<1>8. InFlightOK'
  <2>1. SUFFICES ASSUME client.pc = "reading" PROVE conns' # <<>> /\ CarriesOK(conns[Len(conns)])'
    BY <1>1 DEF InFlightOK
  <2>2. conns # <<>> /\ CarriesOK(conns[Len(conns)])
    BY <2>1 DEF IInv, InFlightOK
  <2>3. Len(conns) \in DOMAIN conns
    BY <1>1, <2>2
  <2>4. CarriesOK(woken(conns[Len(conns)]))
    BY <1>2, <1>4, <2>2, <2>3 DEF CarriesOK
  <2>5. conns'[Len(conns')] = woken(conns[Len(conns)]) /\ conns' # <<>>
    BY <1>5, <2>3, <1>4
  <2> QED
    BY <1>1, <2>4, <2>5 DEF CarriesOK, ListsOf, Terminal, SnapshotSeq
<1>9. NoLostWakeup'
  BY <1>2, <1>4, <1>5 DEF NoLostWakeup
<1> QED
  BY <1>6, <1>7, <1>8, <1>9 DEF IInv

-----------------------------------------------------------------------------
(* The reader's steps. *)

(* The reader's fields.                                                    *)
LEMMA ReaderFields ==
  ASSUME IInv, client.pc # "idle"
  PROVE  /\ client \in Readers
         /\ client.types \in SUBSET EventTypes /\ client.start \in Nat /\ client.at \in Nat
         /\ client.high \in Nat /\ client.got \in Seq(Nat)
         /\ run.log \in Seq(EventTypes) /\ SnapshotSeq \in Nat /\ SnapshotSeq > 0
         /\ client.at <= SnapshotSeq /\ client.start <= client.at
BY DEF IInv, ReaderOK, HoldsOK, Readers, RunOK, Runs, SnapshotSeq

(* Where only the reader moves, and not into a stream. *)
LEMMA ReaderMoves ==
  ASSUME IInv, UNCHANGED <<runVars, conns, notice>>, ReaderOK', client'.pc # "reading"
  PROVE  IInv'
<1>1. RunOK'
  BY DEF IInv, RunOK, runVars, Locked, Terminal
<1>2. StreamsOK'
  BY DEF IInv, StreamsOK, StreamOK, SnapshotSeq, runVars
<1>3. InFlightOK' /\ NoLostWakeup'
  BY DEF IInv, InFlightOK, NoLostWakeup, SnapshotSeq, runVars
<1> QED
  BY <1>1, <1>2, <1>3 DEF IInv

(* A reader starts with nothing, at the start or at the snapshot.          *)
LEMMA StartReadingStep ==
  ASSUME IInv, StartReading, UNCHANGED <<runVars, notice>>
  PROVE  IInv'
<1>1. UNCHANGED <<run, conns, notice>> /\ SnapshotSeq \in Nat /\ run.log \in Seq(EventTypes)
  BY DEF StartReading, runVars, IInv, RunOK, Runs, SnapshotSeq
<1>2. \A types \in Filters : types \in SUBSET EventTypes
  BY FeedAssumption
<1>3. ASSUME NEW types \in SUBSET EventTypes, NEW mode \in {"sse", "json", "outputs"},
             NEW n \in {0, SnapshotSeq}, NEW pc \in {"open", "page", "returned"},
             client' = [pc |-> pc, mode |-> mode, types |-> types, start |-> n, at |-> n,
                        high |-> 0, got |-> <<>>, dropped |-> FALSE],
             pc = "open" => mode = "sse", pc = "page" => mode # "sse",
             mode = "outputs" => types = {"output"},
             pc = "returned" => Terminal /\ n = SnapshotSeq /\ mode = "sse"
      PROVE  IInv'
  <2>1. /\ client' \in Readers /\ client'.pc = pc /\ client'.mode = mode /\ client'.types = types
        /\ client'.start = n /\ client'.at = n /\ client'.high = 0 /\ client'.got = <<>>
    <3>1. n \in Nat /\ <<>> \in Seq(Nat)
      BY <1>1
    <3> QED
      BY <1>3, <3>1 DEF Readers, OverSse
  <2>2. SnapshotSeq' = SnapshotSeq /\ Terminal' = Terminal /\ run'.log = run.log
    BY <1>1 DEF SnapshotSeq, Terminal
  <2>3. HoldsOK'
    <3>1. ListsOf(<<>>, n, n, run.log, types)
      BY <1>1, OfNone
    <3> QED
      BY <2>1, <2>2, <3>1, <1>1 DEF HoldsOK
  <2>4. EndsOK'
    BY <1>1, <1>3, <2>1, <2>2 DEF EndsOK, NothingIn
  <2>5. ReaderOK'
    BY <1>1, <1>3, <2>1, <2>2, <2>3, <2>4 DEF ReaderOK, OverSse
  <2> QED
    BY <2>1, <2>5, ReaderMoves, <1>1
<1>4. ASSUME NEW types \in Filters, NEW mode \in {"sse", "json"}, client' = Reader(mode, types, 0)
      PROVE  IInv'
  <2>1. CASE mode = "sse"
    BY <2>1, <1>2, <1>3, <1>4 DEF Reader
  <2>2. CASE mode = "json"
    BY <2>2, <1>2, <1>3, <1>4 DEF Reader
  <2> QED
    BY <2>1, <2>2
<1>5. ASSUME client' = Reader("outputs", {"output"}, 0)
      PROVE  IInv'
  BY <1>3, <1>5 DEF Reader, EventTypes
<1>6. ASSUME NEW types \in Filters,
             client' = [Reader("sse", types, SnapshotSeq) EXCEPT !.pc = IF Terminal THEN "returned" ELSE @]
      PROVE  IInv'
  <2> DEFINE pc == IF Terminal THEN "returned" ELSE "open"
  <2>1. client' = [pc |-> pc, mode |-> "sse", types |-> types, start |-> SnapshotSeq,
                   at |-> SnapshotSeq, high |-> 0, got |-> <<>>, dropped |-> FALSE]
    BY <1>6 DEF Reader
  <2>2. pc \in {"open", "returned"} /\ (pc = "returned" => Terminal)
    OBVIOUS
  <2> HIDE DEF pc
  <2> QED
    BY <2>1, <2>2, <1>2, <1>3
<1> QED
  BY <1>4, <1>5, <1>6 DEF StartReading

(* A new stream starts where the reader is.                                *)
LEMMA OpenStep ==
  ASSUME IInv, Open, UNCHANGED <<runVars, notice>>
  PROVE  IInv'
<1>1. client.pc = "open" /\ UNCHANGED <<run, answer, controls, notice>>
  BY DEF Open, runVars
<1>2. client \in Readers /\ client.mode = "sse" /\ SnapshotSeq \in Nat /\ conns \in Seq(Streams)
      /\ client.at \in Nat /\ client.at <= SnapshotSeq
  BY <1>1, ReaderFields DEF IInv, ReaderOK, StreamsOK, OverSse
<1>3. CASE conns' = Append(conns, Connection) /\ client' = [client EXCEPT !.pc = "reading", !.dropped = FALSE]
  <2> DEFINE c == Connection
  <2>1. c \in Streams /\ c.pc = "new" /\ c.pos = client.at /\ c.wire = <<>> /\ c.gone = FALSE
    <3>1. <<>> \in Seq(Nat)
      OBVIOUS
    <3> QED
      BY <1>2, <3>1 DEF Connection, ResumePoint, Streams, StreamPcs
  <2> HIDE DEF c
  <2>2. /\ conns' \in Seq(Streams) /\ conns' # <<>> /\ Len(conns') = Len(conns) + 1
        /\ DOMAIN conns' = 1..(Len(conns) + 1) /\ DOMAIN conns = 1..Len(conns) /\ Len(conns) \in Nat
        /\ conns'[Len(conns) + 1] = c /\ \A s \in 1..Len(conns) : conns'[s] = conns[s]
    BY <1>2, <1>3, <2>1 DEF c
  <2>3. /\ client' \in Readers /\ client'.pc = "reading" /\ client'.mode = "sse"
        /\ client'.types = client.types /\ client'.start = client.start /\ client'.at = client.at
        /\ client'.high = client.high /\ client'.got = client.got
    BY <1>2, <1>3 DEF Readers, OverSse
  <2>4. RunOK'
    BY <1>1 DEF IInv, RunOK, Locked, Terminal
  <2>5. StreamsOK'
    <3>1. StreamOK(c)
      BY <1>2, <2>1 DEF StreamOK
    <3>2. \A s \in DOMAIN conns' : s \in 1..Len(conns) \/ s = Len(conns) + 1
      BY <2>2
    <3> QED
      BY <1>1, <2>2, <3>1, <3>2 DEF IInv, StreamsOK, StreamOK, SnapshotSeq
  <2>6. ReaderOK'
    BY <1>1, <2>3 DEF IInv, ReaderOK, HoldsOK, EndsOK, SnapshotSeq, OverSse
  <2>7. InFlightOK'
    <3>1. ListsOf(<<>>, client.at, client.at, run.log, client.types)
      BY <1>2, OfNone
    <3> QED
      BY <1>1, <1>2, <2>1, <2>2, <2>3, <3>1 DEF InFlightOK, CarriesOK
  <2>8. NoLostWakeup'
    <3>1. \A s \in DOMAIN conns' : s \in 1..Len(conns) \/ s = Len(conns) + 1
      BY <2>2
    <3> QED
      BY <1>1, <2>1, <2>2, <3>1 DEF IInv, NoLostWakeup, SnapshotSeq
  <2> QED
    BY <2>4, <2>5, <2>6, <2>7, <2>8 DEF IInv
<1>4. CASE ClientTo("refused") /\ UNCHANGED conns
  <2>1. /\ client' \in Readers /\ client'.pc = "refused" /\ client'.mode = "sse"
        /\ client'.types = client.types /\ client'.start = client.start /\ client'.at = client.at
        /\ client'.high = client.high /\ client'.got = client.got
    BY <1>2, <1>4 DEF Readers, OverSse, ClientTo
  <2>2. ReaderOK'
    BY <1>1, <2>1 DEF IInv, ReaderOK, HoldsOK, EndsOK, SnapshotSeq, OverSse
  <2> QED
    BY <1>4, <2>1, <2>2, ReaderMoves
<1> QED
  BY <1>3, <1>4 DEF Open

(* A stream that closed by itself, its last event taken, leaves nothing.   *)
LEMMA EndOfStreamStep ==
  ASSUME IInv, EndOfStream, UNCHANGED <<runVars, notice>>
  PROVE  IInv'
<1>1. /\ client.pc = "reading" /\ Current.wire = <<>> /\ Current.pc = "closed" /\ ClientTo("recheck")
      /\ UNCHANGED <<run, answer, controls, conns, notice>>
  BY DEF EndOfStream, runVars
<1>2. client \in Readers /\ client.mode = "sse"
  BY <1>1, ReaderFields DEF IInv, ReaderOK, OverSse
<1>3. Terminal /\ NothingIn(client.at, SnapshotSeq, run.log, client.types)
  <2>1. CarriesOK(Current)
    BY <1>1 DEF IInv, InFlightOK, Current
  <2> QED
    BY <1>1, <2>1 DEF CarriesOK, ListsOf, NothingIn
<1>4. /\ client' \in Readers /\ client'.pc = "recheck" /\ client'.mode = "sse"
      /\ client'.types = client.types /\ client'.start = client.start /\ client'.at = client.at
      /\ client'.high = client.high /\ client'.got = client.got /\ client'.dropped = client.dropped
  BY <1>1, <1>2 DEF Readers, OverSse, ClientTo
<1>5. ReaderOK'
  BY <1>1, <1>3, <1>4 DEF IInv, ReaderOK, HoldsOK, EndsOK, SnapshotSeq, Terminal, OverSse
<1> QED
  BY <1>1, <1>4, <1>5, ReaderMoves

(* The reader stops only where the run has ended.                          *)
LEMMA RecheckStep ==
  ASSUME IInv, Recheck, UNCHANGED <<runVars, notice>>
  PROVE  IInv'
<1> DEFINE pc == IF Terminal THEN "returned" ELSE "open"
<1>1. client.pc = "recheck" /\ ClientTo(pc) /\ UNCHANGED <<run, answer, controls, conns, notice>>
  BY DEF Recheck, runVars
<1>2. client \in Readers /\ client.mode = "sse"
  BY <1>1, ReaderFields DEF IInv, ReaderOK, OverSse
<1>3. pc \in {"returned", "open"} /\ (pc = "returned" => Terminal)
  OBVIOUS
<1> HIDE DEF pc
<1>4. /\ client' \in Readers /\ client'.pc = pc /\ client'.mode = "sse"
      /\ client'.types = client.types /\ client'.start = client.start /\ client'.at = client.at
      /\ client'.high = client.high /\ client'.got = client.got /\ client'.dropped = client.dropped
  BY <1>1, <1>2, <1>3 DEF Readers, OverSse, ClientTo
<1>5. ReaderOK'
  BY <1>1, <1>3, <1>4 DEF IInv, ReaderOK, HoldsOK, EndsOK, SnapshotSeq, Terminal, OverSse
<1> QED
  BY <1>1, <1>3, <1>4, <1>5, ReaderMoves

(* What a step needs that moves the reader and its stream together. *)
LEMMA CurrentSet ==
  ASSUME IInv, client.pc = "reading", NEW s \in DOMAIN conns, NEW c \in Streams,
         s = Len(conns), conns' = [conns EXCEPT ![s] = c], UNCHANGED <<runVars, notice>>,
         c.pc = Current.pc, c.pos = Current.pos, c.upto = Current.upto
  PROVE  /\ RunOK' /\ StreamsOK' /\ NoLostWakeup'
         /\ conns' # <<>> /\ conns'[Len(conns')] = c
<1>1. conns \in Seq(Streams) /\ conns[s] = Current
  BY DEF IInv, StreamsOK, Current
<1>2. /\ conns' \in Seq(Streams) /\ Len(conns') = Len(conns) /\ DOMAIN conns' = DOMAIN conns
      /\ conns'[s] = c /\ \A r \in DOMAIN conns : r # s => conns'[r] = conns[r]
  BY <1>1
<1>3. RunOK'
  BY DEF IInv, RunOK, runVars, Locked, Terminal
<1>4. StreamsOK'
  <2>1. StreamOK(c)
    BY <1>1 DEF IInv, StreamsOK, StreamOK
  <2> QED
    BY <1>2, <2>1 DEF IInv, StreamsOK, StreamOK, SnapshotSeq, runVars
<1>5. NoLostWakeup'
  BY <1>1, <1>2 DEF IInv, NoLostWakeup, SnapshotSeq, runVars
<1>6. conns' # <<>>
  BY <1>1, <1>2
<1> QED
  BY <1>2, <1>3, <1>4, <1>5, <1>6

(* Such a step changes what the stream has in the network.                 *)
LEMMA CurrentMoves ==
  ASSUME IInv, client.pc = "reading", NEW w \in Seq(Nat), NEW g \in BOOLEAN,
         conns' = [conns EXCEPT ![Len(conns)].wire = w, ![Len(conns)].gone = g],
         UNCHANGED <<runVars, notice>>
  PROVE  /\ RunOK' /\ StreamsOK' /\ NoLostWakeup'
         /\ conns' # <<>>
         /\ conns'[Len(conns')].pc = Current.pc /\ conns'[Len(conns')].pos = Current.pos
         /\ conns'[Len(conns')].wire = w /\ conns'[Len(conns')].gone = g
<1> DEFINE c == [Current EXCEPT !.wire = w, !.gone = g]
<1>1. conns \in Seq(Streams) /\ conns # <<>> /\ Len(conns) \in DOMAIN conns
  BY DEF IInv, StreamsOK, InFlightOK
<1>2. Current \in Streams
  BY <1>1 DEF Current
<1>3. /\ c \in Streams /\ c.pc = Current.pc /\ c.pos = Current.pos /\ c.upto = Current.upto
      /\ c.wire = w /\ c.gone = g
  BY <1>2 DEF Streams
<1>4. conns' = [conns EXCEPT ![Len(conns)] = c]
  BY <1>1, <1>2 DEF Current, Streams
<1> HIDE DEF c
<1> QED
  BY <1>1, <1>3, <1>4, CurrentSet

(* What is appended comes last. *)
LEMMA LastAppended ==
  ASSUME NEW q \in Seq(Nat), NEW n \in Nat
  PROVE  Append(q, n) # <<>> /\ Append(q, n)[Len(Append(q, n))] = n
<1>1. Len(Append(q, n)) = Len(q) + 1 /\ Len(q) \in Nat /\ Append(q, n)[Len(q) + 1] = n
  OBVIOUS
<1>2. Append(q, n) # <<>>
  OBVIOUS
<1>3. QED
  BY <1>1, <1>2

(* The first event in the network is the next one wanted. *)
LEMMA TakeStep ==
  ASSUME IInv, Take, UNCHANGED <<runVars, notice>>
  PROVE  IInv'
<1> DEFINE i == Head(Current.wire)
           ends == run.log[i] \in TerminalTypes
           w == IF ends THEN <<>> ELSE Tail(Current.wire)
           pc == IF ends THEN "returned" ELSE "reading"
           got == Append(client.got, i)
<1>1. /\ client.pc = "reading" /\ Current.wire # <<>>
      /\ UNCHANGED <<run, answer, controls, notice>>
  BY DEF Take, runVars
<1>2. /\ client \in Readers /\ client.mode = "sse" /\ client.got \in Seq(Nat) /\ client.at \in Nat
      /\ client.start \in Nat /\ client.start <= client.at /\ client.high \in Nat
      /\ run.log \in Seq(EventTypes) /\ SnapshotSeq \in Nat
  BY <1>1, ReaderFields DEF IInv, ReaderOK, OverSse
<1>3. HoldsOK /\ CarriesOK(Current)
  BY <1>1 DEF IInv, ReaderOK, InFlightOK, Current
<1>4. Current.wire \in Seq(Nat) /\ Current.pos \in Nat /\ Current.pos <= SnapshotSeq
  <2>1. Current \in Streams /\ StreamOK(Current)
    BY <1>1 DEF IInv, StreamsOK, InFlightOK, Current
  <2> QED
    BY <2>1 DEF Streams, StreamOK
<1>5. /\ i \in Nat /\ client.at < i /\ i <= Current.pos /\ run.log[i] \in client.types
      /\ NothingIn(client.at, i - 1, run.log, client.types)
      /\ ListsOf(Tail(Current.wire), i, Current.pos, run.log, client.types)
      /\ Tail(Current.wire) \in Seq(Nat)
  BY <1>1, <1>2, <1>3, <1>4, OfHead DEF CarriesOK
<1>6. ListsOf(got, client.start, i, run.log, client.types) /\ got \in Seq(Nat)
  <2>1. i - 1 \in Nat /\ client.at <= i - 1 /\ client.start <= i - 1 /\ (i - 1) + 1 = i
    <3> HIDE DEF i
    <3> QED
      BY <1>2, <1>5
  <2>2. ListsOf(client.got, client.start, i - 1, run.log, client.types)
    BY <1>2, <1>3, <1>5, <2>1, OfNothing DEF HoldsOK
  <2>3. ListsOf(Append(client.got, (i - 1) + 1), client.start, (i - 1) + 1, run.log, client.types)
    BY <1>2, <1>5, <2>1, <2>2, OfNext
  <2> QED
    BY <1>2, <1>5, <2>1, <2>3
<1>7. ~Contains(client.got, i)
  <2>1. \A k \in DOMAIN client.got : client.got[k] \in Nat /\ client.got[k] <= client.at
    BY <1>2, <1>3 DEF HoldsOK, ListsOf
  <2>2. \A k \in DOMAIN client.got : client.got[k] # i
    BY <1>2, <1>5, <2>1
  <2> QED
    BY <1>2, <2>2 DEF Contains
<1>8. /\ conns' = [conns EXCEPT ![Len(conns)].wire = w, ![Len(conns)].gone = ends]
      /\ client' = [client EXCEPT !.at = i, !.got = got, !.pc = pc]
  <2>1. /\ conns # <<>> /\ conns \in Seq(Streams) /\ Len(conns) \in DOMAIN conns /\ conns[Len(conns)] = Current
        /\ Current \in Streams
    BY <1>1 DEF IInv, InFlightOK, StreamsOK, Current
  <2>2. conns' = [conns EXCEPT ![Len(conns)].wire = w, ![Len(conns)].gone = ends]
    BY <2>1 DEF Take, Streams
  <2>3. client' = [client EXCEPT !.at = i, !.got = got, !.pc = pc]
    BY <1>2, <1>5, <1>7 DEF Take, Readers
  <2> QED
    BY <2>2, <2>3
<1>9. w \in Seq(Nat) /\ ends \in BOOLEAN /\ pc \in {"returned", "reading"}
  BY <1>5
<1>10. ends => Terminal /\ i = SnapshotSeq
  <2>1. i \in 1..SnapshotSeq
    <3> HIDE DEF i
    <3> QED
      BY <1>2, <1>4, <1>5
  <2>2. DOMAIN run.log = 1..SnapshotSeq
    BY <1>2 DEF SnapshotSeq
  <2> QED
    BY <2>1, <2>2 DEF IInv, RunOK, SnapshotSeq
<1>11. (pc = "returned" <=> ends) /\ (~ends => w = Tail(Current.wire))
  OBVIOUS
<1>12. i <= SnapshotSeq
  BY <1>2, <1>4, <1>5
<1>13. got # <<>> /\ got[Len(got)] = i
  <2>1. client.got \in Seq(Nat) /\ i \in Nat
    BY <1>2, <1>5
  <2> QED
    BY <2>1, LastAppended
<1> HIDE DEF i, ends, w, pc, got
<1>14. /\ RunOK' /\ StreamsOK' /\ NoLostWakeup'
       /\ conns' # <<>>
       /\ conns'[Len(conns')].pc = Current.pc /\ conns'[Len(conns')].pos = Current.pos
       /\ conns'[Len(conns')].wire = w /\ conns'[Len(conns')].gone = ends
  <2>1. client.pc = "reading" /\ UNCHANGED <<runVars, notice>>
    BY <1>1 DEF runVars
  <2>2. conns' = [conns EXCEPT ![Len(conns)].wire = w, ![Len(conns)].gone = ends]
    BY <1>8
  <2> QED
    BY <1>9, <2>1, <2>2, CurrentMoves
<1>15. /\ client' \in Readers /\ client'.pc = pc /\ client'.mode = "sse"
       /\ client'.types = client.types /\ client'.start = client.start /\ client'.at = i
       /\ client'.high = client.high /\ client'.got = got /\ client'.dropped = client.dropped
  BY <1>2, <1>5, <1>6, <1>8, <1>9 DEF Readers, OverSse
<1>16. ReaderOK'
  <2>1. HoldsOK'
    BY <1>1, <1>2, <1>5, <1>6, <1>12, <1>13, <1>15 DEF HoldsOK, SnapshotSeq
  <2>2. EndsOK'
    <3>1. ends => NothingIn(i, SnapshotSeq, run.log, client.types)
      BY <1>10, <1>2 DEF NothingIn
    <3> QED
      BY <1>1, <1>9, <1>10, <1>11, <1>15, <3>1 DEF EndsOK, SnapshotSeq, Terminal
  <2>3. client'.high = 0 \/ client'.at <= client'.high
    <3>1. client.high = 0
      BY <1>1, <1>2 DEF IInv, ReaderOK
    <3> QED
      BY <3>1, <1>15
  <2> QED
    BY <1>1, <1>9, <1>15, <2>1, <2>2, <2>3 DEF IInv, ReaderOK, SnapshotSeq, OverSse
<1>17. InFlightOK'
  <2>1. SUFFICES ASSUME pc = "reading" PROVE CarriesOK(conns[Len(conns)])'
    BY <1>14, <1>15 DEF InFlightOK
  <2>2. ~ends /\ w = Tail(Current.wire)
    BY <2>1, <1>11, <1>9 DEF pc
  <2> QED
    BY <2>2, <1>1, <1>3, <1>5, <1>14, <1>15 DEF CarriesOK, SnapshotSeq, Terminal
<1> QED
  BY <1>14, <1>16, <1>17 DEF IInv

(* What is lost with a connection will be sent again on the next.          *)
LEMMA DropStep ==
  ASSUME IInv, Drop
  PROVE  IInv'
<1>1. client.pc = "reading" /\ UNCHANGED <<run, answer, controls, notice>>
  BY DEF Drop, runVars
<1>2. client \in Readers /\ client.mode = "sse" /\ <<>> \in Seq(Nat)
  BY <1>1, ReaderFields DEF IInv, ReaderOK, OverSse
<1>3. /\ conns' = [conns EXCEPT ![Len(conns)].wire = <<>>, ![Len(conns)].gone = TRUE]
      /\ client' = [client EXCEPT !.pc = "recheck", !.dropped = TRUE]
  BY DEF Drop
<1>4. RunOK' /\ StreamsOK' /\ NoLostWakeup'
  BY <1>1, <1>2, <1>3, CurrentMoves DEF runVars
<1>5. /\ client' \in Readers /\ client'.pc = "recheck" /\ client'.mode = "sse"
      /\ client'.types = client.types /\ client'.start = client.start /\ client'.at = client.at
      /\ client'.high = client.high /\ client'.got = client.got /\ client'.dropped = TRUE
  BY <1>2, <1>3 DEF Readers, OverSse
<1>6. ReaderOK'
  BY <1>1, <1>5 DEF IInv, ReaderOK, HoldsOK, EndsOK, SnapshotSeq, OverSse
<1>7. InFlightOK'
  BY <1>5 DEF InFlightOK
<1> QED
  BY <1>4, <1>6, <1>7 DEF IInv

-----------------------------------------------------------------------------
(* Pages. *)

(* The first PageSize rows of a set of them. *)
LEMMA PageIsFirst ==
  ASSUME NEW rest, rest \subseteq Nat, IsFiniteSet(rest)
  PROVE  /\ Page(rest) \subseteq rest /\ IsFiniteSet(Page(rest))
         /\ rest # {} => Page(rest) # {}
         /\ \A i \in Page(rest), j \in rest : j < i => j \in Page(rest)
<1>1. Page(rest) = {i \in rest : Cardinality(Below(rest, i)) < PageSize}
  BY DEF Page, Below
<1>2. Page(rest) \subseteq rest /\ IsFiniteSet(Page(rest))
  BY <1>1, FS_Subset
<1>3. ASSUME rest # {} PROVE Page(rest) # {}
  <2>1. Cardinality(rest) \in Nat /\ Cardinality(rest) # 0
    BY <1>3, FS_CardinalityType, FS_EmptySet
  <2>2. 1 \in 1..Cardinality(rest)
    BY <2>1
  <2>3. PICK i \in rest : Cardinality(Below(rest, i)) = 1 - 1
    BY <2>2, RankTaken
  <2>4. Cardinality(Below(rest, i)) < PageSize
    BY <2>3, FeedAssumption
  <2> QED
    BY <1>1, <2>4
<1>4. ASSUME NEW i \in Page(rest), NEW j \in rest, j < i
      PROVE  j \in Page(rest)
  <2>1. i \in rest /\ Cardinality(Below(rest, i)) < PageSize
    BY <1>1
  <2>2. Cardinality(Below(rest, j)) < Cardinality(Below(rest, i))
    BY <1>4, <2>1, RankGrows
  <2>3. Cardinality(Below(rest, i)) \in Nat /\ Cardinality(Below(rest, j)) \in Nat
    BY <2>1, RankType
  <2>4. Cardinality(Below(rest, j)) < PageSize
    BY <2>1, <2>2, <2>3, FeedAssumption
  <2> QED
    BY <1>1, <2>4
<1> QED
  BY <1>2, <1>3, <1>4

(* A finite set of rows has a last one.                                    *)
LEMMA LastIsMax ==
  ASSUME NEW S, S \subseteq Nat, IsFiniteSet(S), S # {}
  PROVE  Max(S) \in S /\ \A i \in S : i <= Max(S)
<1>1. Cardinality(S) \in Nat /\ Cardinality(S) # 0
  BY FS_CardinalityType, FS_EmptySet
<1>2. Cardinality(S) \in 1..Cardinality(S)
  BY <1>1
<1>3. PICK m \in S : Cardinality(Below(S, m)) = Cardinality(S) - 1
  BY <1>2, RankTaken
<1>4. ASSUME NEW i \in S PROVE m >= i
  <2>1. CASE m < i
    <3>1. Cardinality(Below(S, m)) < Cardinality(Below(S, i))
      BY <2>1, RankGrows
    <3>2. Cardinality(Below(S, i)) < Cardinality(S) /\ Cardinality(Below(S, i)) \in Nat
      BY RankType
    <3> QED
      BY <3>1, <3>2, <1>1, <1>3
  <2> QED
    BY <2>1
<1>5. Max(S) \in S /\ \A i \in S : Max(S) >= i
  BY <1>4 DEF Max
<1> QED
  BY <1>5

(* A page after a page. *)
LEMMA TurnedStep ==
  ASSUME IInv, client.pc = "page", UNCHANGED <<runVars, conns, notice>>,
         NEW rest, rest = WantedIn(client.at, High), Turned(rest)
  PROVE  IInv'
<1> DEFINE page == Page(rest)
           pc == IF page = rest THEN "returned" ELSE "page"
           at == IF rest = {} THEN client.at ELSE Max(page)
           got == Yielded(page)
           high == High
<1>1. /\ client \in Readers /\ client.mode # "sse" /\ client.got \in Seq(Nat) /\ client.at \in Nat
      /\ client.start \in Nat /\ client.start <= client.at /\ client.at <= SnapshotSeq
      /\ run.log \in Seq(EventTypes) /\ SnapshotSeq \in Nat /\ SnapshotSeq > 0
      /\ HoldsOK
  BY ReaderFields DEF IInv, ReaderOK, OverSse
<1>2. UNCHANGED <<run, answer, controls, conns, notice>>
  BY DEF runVars
<1>3. high \in Nat /\ high > 0 /\ high <= SnapshotSeq /\ client.at <= high
  <2>1. client.high \in Nat /\ client.high <= SnapshotSeq /\ (client.high # 0 => client.at <= client.high)
    BY ReaderFields DEF IInv, ReaderOK
  <2> QED
    BY <2>1, <1>1 DEF High
<1> HIDE DEF high
<1>4. \A i : i \in rest <=> i \in Nat /\ client.at < i /\ i <= high /\ run.log[i] \in client.types
  BY <1>1, <1>3 DEF WantedIn, Wanted, high
<1>5. rest \subseteq Nat /\ IsFiniteSet(rest)
  <2>1. rest \subseteq 1..high
    BY <1>1, <1>3, <1>4
  <2>2. IsFiniteSet(1..high)
    BY <1>3, FS_Interval
  <2> QED
    BY <2>1, <2>2, <1>4, FS_Subset
<1>6. /\ page \subseteq rest /\ IsFiniteSet(page) /\ page \subseteq Nat
      /\ rest # {} => page # {}
      /\ \A i \in page, j \in rest : j < i => j \in page
  BY <1>5, PageIsFirst
<1> HIDE DEF page
<1>7. /\ at \in Nat /\ client.at <= at /\ at <= high
      /\ \A i \in page : i <= at
      /\ \A i \in rest : i <= at => i \in page
      /\ rest # {} => at \in page
  <2>1. CASE rest = {}
    BY <2>1, <1>1, <1>3, <1>6
  <2>2. CASE rest # {}
    <3>1. at \in page /\ \A i \in page : i <= at
      BY <2>2, <1>6, LastIsMax
    <3> HIDE DEF at
    <3>2. at \in Nat /\ client.at < at /\ at <= high
      BY <3>1, <1>4, <1>6
    <3>3. ASSUME NEW i \in rest, i <= at PROVE i \in page
      <4>1. i < at \/ i = at
        BY <3>2, <3>3, <1>4
      <4> QED
        BY <4>1, <3>1, <1>6
    <3> QED
      BY <3>1, <3>2, <3>3, <1>1
  <2> QED
    BY <2>1, <2>2
<1> HIDE DEF at
<1>8. page \ Range(client.got) = page
  <2>1. \A k \in DOMAIN client.got : client.got[k] \in Nat /\ client.got[k] <= client.at
    BY <1>1 DEF HoldsOK, ListsOf
  <2>2. \A i \in page : i \notin Range(client.got)
    <3>1. ASSUME NEW k \in DOMAIN client.got, client.got[k] \in page PROVE FALSE
      BY <3>1, <2>1, <1>1, <1>4, <1>6
    <3> QED
      BY <3>1 DEF Range
  <2> QED
    BY <2>2
<1>9. got = client.got \o InOrder(page)
  BY <1>8 DEF Yielded
<1>10. /\ InOrder(page) \in Seq(page) /\ InOrder(page) \in Seq(Nat)
       /\ \A k, l \in DOMAIN InOrder(page) : k < l => InOrder(page)[k] < InOrder(page)[l]
       /\ \A i \in page : \E k \in DOMAIN InOrder(page) : InOrder(page)[k] = i
  <2>1. InOrder(page) \in Seq(page)
    BY <1>6, InOrderLists
  <2>2. InOrder(page) \in Seq(Nat)
    <3> DEFINE q == InOrder(page)
    <3> HIDE DEF q
    <3>1. q \in [1..Len(q) -> page] /\ Len(q) \in Nat
      BY <2>1 DEF q
    <3>2. q \in [1..Len(q) -> Nat]
      BY <3>1, <1>6
    <3>3. q \in Seq(Nat)
      BY <3>1, <3>2
    <3> QED
      BY <3>3 DEF q
  <2> QED
    BY <2>1, <2>2, <1>6, InOrderLists
<1> DEFINE r == InOrder(page)
<1> HIDE DEF r, got
<1>11. ListsOf(r, client.at, at, run.log, client.types)
  <2>1. \A k \in DOMAIN r : r[k] \in page
    BY <1>10 DEF r
  <2>2. \A k \in DOMAIN r : client.at < r[k] /\ r[k] <= at /\ run.log[r[k]] \in client.types
    BY <2>1, <1>4, <1>6, <1>7
  <2>3. ASSUME NEW i \in Nat, client.at < i, i <= at, run.log[i] \in client.types
        PROVE  \E k \in DOMAIN r : r[k] = i
    <3>1. i \in page
      <4>1. i <= high
        BY <2>3, <1>3, <1>7
      <4> QED
        BY <4>1, <2>3, <1>4, <1>7
    <3> QED
      BY <3>1, <1>10 DEF r
  <2> QED
    BY <2>2, <2>3, <1>10 DEF ListsOf, r
<1>12. got \in Seq(Nat) /\ ListsOf(got, client.start, at, run.log, client.types)
  <2>1. got = client.got \o r /\ r \in Seq(Nat)
    BY <1>9, <1>10 DEF r
  <2>2. ListsOf(client.got, client.start, client.at, run.log, client.types)
    BY <1>1 DEF HoldsOK
  <2> QED
    BY <2>1, <2>2, <1>1, <1>7, <1>11, OfConcat
<1>13. at = IF got = <<>> THEN client.start ELSE got[Len(got)]
  <2>1. got = client.got \o r /\ r \in Seq(Nat)
    BY <1>9, <1>10 DEF r
  <2>2. CASE rest = {}
    <3>1. page = {} /\ at = client.at
      BY <2>2, <1>6 DEF at
    <3>2. r = <<>>
      BY <3>1, <1>10 DEF r
    <3>3. got = client.got
      BY <2>1, <3>2, <1>1
    <3> QED
      BY <3>1, <3>3, <1>1 DEF HoldsOK
  <2>3. CASE rest # {}
    <3>1. PICK k \in DOMAIN r : r[k] = at
      BY <2>3, <1>7, <1>10 DEF r
    <3>2. Len(r) \in Nat /\ DOMAIN r = 1..Len(r) /\ Len(r) \in DOMAIN r
      BY <3>1, <2>1
    <3>3. r[Len(r)] \in Nat /\ r[Len(r)] <= at
      BY <2>1, <3>2, <1>11 DEF ListsOf
    <3>4. k = Len(r)
      <4>1. k < Len(r) => r[k] < r[Len(r)]
        BY <3>1, <3>2, <1>11 DEF ListsOf
      <4> QED
        BY <4>1, <3>1, <3>2, <3>3, <1>7
    <3>5. Len(client.got) \in Nat /\ Len(got) = Len(client.got) + Len(r)
      BY <1>1, <2>1
    <3>6. got[Len(got)] = r[Len(r)]
      BY <1>1, <2>1, <3>2, <3>5
    <3>7. got # <<>>
      BY <3>2, <3>5, <1>12
    <3> QED
      BY <3>1, <3>4, <3>6, <3>7
  <2> QED
    BY <2>2, <2>3
<1>14. pc = "returned" => NothingIn(at, high, run.log, client.types)
  <2>1. ASSUME page = rest, NEW i \in Nat, at < i, i <= high PROVE run.log[i] \notin client.types
    <3>1. i \notin rest
      BY <2>1, <1>7
    <3>2. client.at < i
      BY <2>1, <1>1, <1>7
    <3> QED
      BY <2>1, <3>1, <3>2, <1>4
  <2> QED
    BY <2>1 DEF NothingIn
<1>15. pc \in {"returned", "page"}
  OBVIOUS
<1>16. client' = [client EXCEPT !.high = high, !.got = got, !.at = at, !.pc = pc]
  BY <1>1 DEF Turned, Readers, high, got, at, page
<1> HIDE DEF pc
<1>17. /\ client' \in Readers /\ client'.pc = pc /\ client'.mode = client.mode
       /\ client'.types = client.types /\ client'.start = client.start /\ client'.at = at
       /\ client'.high = high /\ client'.got = got /\ client'.dropped = client.dropped
  BY <1>1, <1>3, <1>7, <1>12, <1>15, <1>16 DEF Readers
<1>18. ReaderOK'
  <2>1. HoldsOK'
    <3>1. client.start <= at /\ at <= SnapshotSeq
      BY <1>1, <1>3, <1>7
    <3> QED
      BY <1>2, <1>12, <1>13, <1>17, <3>1 DEF HoldsOK, SnapshotSeq
  <2>2. EndsOK'
    BY <1>1, <1>2, <1>7, <1>14, <1>17 DEF EndsOK, SnapshotSeq
  <2> QED
    BY <1>1, <1>2, <1>3, <1>7, <1>15, <1>17, <2>1, <2>2 DEF IInv, ReaderOK, SnapshotSeq, OverSse
<1> QED
  BY <1>2, <1>15, <1>17, <1>18, ReaderMoves

(* Pages of events and of outputs.                                         *)
LEMMA PageSteps ==
  ASSUME IInv, ReadPage \/ ReadOutputs, UNCHANGED <<runVars, notice>>
  PROVE  IInv'
<1>1. CASE ReadPage
  BY <1>1, TurnedStep DEF ReadPage
<1>2. CASE ReadOutputs
  <2>1. client.types = {"output"}
    BY <1>2 DEF ReadOutputs, IInv, ReaderOK
  <2>2. OutputsIn(client.at, High) = WantedIn(client.at, High)
    BY <2>1 DEF OutputsIn, WantedIn, Wanted
  <2> QED
    BY <1>2, <2>2, TurnedStep DEF ReadOutputs
<1> QED
  BY <1>1, <1>2

-----------------------------------------------------------------------------
(* The run's steps, and what they wake. *)

(* The log only grows, and not beyond the end of the run. *)
Grows ==
  /\ run'.log \in Seq(EventTypes) /\ Len(run'.log) >= Len(run.log)
  /\ \A i \in 1..Len(run.log) : run'.log[i] = run.log[i]
  /\ Terminal => Terminal' /\ run'.log = run.log

(* A log and one more event.                                               *)
LEMMA LogPut ==
  ASSUME NEW log \in Seq(EventTypes), NEW e \in EventTypes
  PROVE  /\ Append(log, e) \in Seq(EventTypes) /\ Len(Append(log, e)) = Len(log) + 1
         /\ \A i \in 1..Len(log) : Append(log, e)[i] = log[i]
         /\ Append(log, e)[Len(log) + 1] = e
OBVIOUS

(* A log and some more events.                                             *)
LEMMA LogJoin ==
  ASSUME NEW log \in Seq(EventTypes), NEW last \in Seq(EventTypes)
  PROVE  /\ log \o last \in Seq(EventTypes) /\ Len(log \o last) = Len(log) + Len(last)
         /\ DOMAIN (log \o last) = 1..(Len(log) + Len(last))
         /\ \A i \in 1..Len(log) : (log \o last)[i] = log[i]
         /\ \A k \in 1..Len(last) : (log \o last)[Len(log) + k] = last[k]
<1>1. \A k \in 1..Len(last) : (log \o last)[Len(log) + k] = last[k]
  OBVIOUS
<1>2. /\ log \o last \in Seq(EventTypes) /\ Len(log \o last) = Len(log) + Len(last)
      /\ DOMAIN (log \o last) = 1..(Len(log) + Len(last))
  OBVIOUS
<1>3. \A i \in 1..Len(log) : (log \o last)[i] = log[i]
  OBVIOUS
<1> QED
  BY <1>1, <1>2, <1>3

(* Every operation of the run keeps its log in order.                      *)
LEMMA RunSteps ==
  ASSUME RunOK, NEW rev,
         BeginAnswer(rev) \/ FinishAnswer \/ BreakAnswer \/ Pause \/ Resume \/ Cancel
  PROVE  RunOK' /\ Grows
<1>1. /\ run \in Runs /\ run.log \in Seq(EventTypes) /\ Len(run.log) \in Nat /\ Len(run.log) > 0
      /\ DOMAIN run.log = 1..Len(run.log) /\ run.rev \in Nat /\ run.packetRev \in Nat
      /\ run.packet \in {"OPEN", "ANSWERED", "SUPERSEDED"} /\ run.status \in Statuses
  BY DEF RunOK, Runs
(* One event more, a terminal one only where the run ends. *)
<1>2. ASSUME NEW e \in EventTypes, run'.log = Append(run.log, e), run' \in Runs, ~Terminal,
             e \in TerminalTypes => Terminal', answer' = "SUSPENDED" => run'.status = "RUNNING"
      PROVE  RunOK' /\ Grows
  <2>1. /\ run'.log \in Seq(EventTypes) /\ Len(run'.log) = Len(run.log) + 1
        /\ \A i \in 1..Len(run.log) : run'.log[i] = run.log[i]
        /\ run'.log[Len(run.log) + 1] = e
    BY <1>1, <1>2, LogPut
  <2>2. DOMAIN run'.log = 1..(Len(run.log) + 1)
    BY <2>1, <1>1
  <2>3. \A i \in DOMAIN run'.log : i \in 1..Len(run.log) \/ i = Len(run.log) + 1
    BY <2>2, <1>1
  <2> QED
    BY <1>1, <1>2, <2>1, <2>2, <2>3 DEF RunOK, Grows, Locked
<1>3. ASSUME NEW status \in {"PAUSED", "WAITING_USER", "RUNNING"}, ~Terminal, Controlled(status)
      PROVE  RunOK' /\ Grows
  <2>1. run' = [run EXCEPT !.status = status, !.rev = @ + 1, !.log = Append(@, "phase")]
        /\ answer' # "SUSPENDED"
    BY <1>3 DEF Controlled, Locked
  <2>2. "phase" \in EventTypes /\ "phase" \notin TerminalTypes
    BY DEF EventTypes, TerminalTypes
  <2>3. run' \in Runs /\ run'.log = Append(run.log, "phase")
    <3>1. Append(run.log, "phase") \in Seq(EventTypes)
      BY <1>1, <2>2
    <3>2. run.rev + 1 \in Nat /\ status \in Statuses
      BY <1>1 DEF Statuses
    <3> QED
      BY <1>1, <2>1, <3>1, <3>2 DEF Runs
  <2> QED
    BY <1>2, <1>3, <2>1, <2>2, <2>3
<1>4. CASE Pause
  <2>1. ~Terminal
    BY <1>1, <1>4 DEF Pause, AvailableActions, Terminal, Statuses
  <2> QED
    BY <1>3, <1>4, <2>1 DEF Pause
<1>5. CASE Resume
  <2>1. ~Terminal
    BY <1>1, <1>5 DEF Resume, AvailableActions, Terminal, Statuses
  <2> QED
    BY <1>3, <1>5, <2>1 DEF Resume
<1>6. CASE Cancel
  <2> DEFINE superseded == run.packet = "OPEN"
             packet == IF superseded THEN "SUPERSEDED" ELSE run.packet
             packetRev == IF superseded THEN run.packetRev + 1 ELSE run.packetRev
  <2>1. ~Terminal
    BY <1>1, <1>6 DEF Cancel, AvailableActions, Terminal, Statuses
  <2>2. run' = [run EXCEPT !.status = "TERMINAL", !.rev = @ + 1, !.packet = packet,
                           !.packetRev = packetRev, !.log = Append(@, "canceled")]
        /\ answer' # "SUSPENDED"
    BY <1>6, <1>1 DEF Cancel, Locked, Runs
  <2>3. packet \in {"OPEN", "ANSWERED", "SUPERSEDED"} /\ packetRev \in Nat
    BY <1>1
  <2> HIDE DEF packet, packetRev
  <2>4. "canceled" \in EventTypes
    BY DEF EventTypes, TerminalTypes
  <2>5. run' \in Runs /\ run'.log = Append(run.log, "canceled") /\ run'.status = "TERMINAL"
    <3>1. Append(run.log, "canceled") \in Seq(EventTypes)
      BY <1>1, <2>4
    <3>2. run.rev + 1 \in Nat /\ "TERMINAL" \in Statuses
      BY <1>1 DEF Statuses
    <3> QED
      BY <1>1, <2>2, <2>3, <3>1, <3>2 DEF Runs
  <2> QED
    BY <1>2, <2>1, <2>2, <2>4, <2>5 DEF Terminal
<1>7. CASE BreakAnswer
  BY <1>1, <1>7 DEF BreakAnswer, RunOK, Grows, Locked, Terminal
<1>8. CASE BeginAnswer(rev)
  <2> DEFINE log == run.log \o <<"phase", "output">>
  <2>1. /\ run' = [run EXCEPT !.status = "RUNNING", !.rev = @ + 1, !.packet = "ANSWERED",
                              !.packetRev = @ + 1, !.log = log]
        /\ ~Terminal
    BY <1>8 DEF BeginAnswer, Answerable, Terminal
  <2>2. /\ log \in Seq(EventTypes) /\ Len(log) = Len(run.log) + 2 /\ DOMAIN log = 1..(Len(run.log) + 2)
        /\ \A i \in 1..Len(run.log) : log[i] = run.log[i]
        /\ log[Len(run.log) + 1] = "phase" /\ log[Len(run.log) + 2] = "output"
    BY <1>1 DEF EventTypes
  <2> HIDE DEF log
  <2>3. run' \in Runs /\ run'.log = log /\ run'.status = "RUNNING"
    <3>1. run.rev + 1 \in Nat /\ run.packetRev + 1 \in Nat /\ "RUNNING" \in Statuses
      BY <1>1 DEF Statuses
    <3> QED
      BY <1>1, <2>1, <2>2, <3>1 DEF Runs
  <2>4. \A i \in DOMAIN log : i \in 1..Len(run.log) \/ i = Len(run.log) + 1 \/ i = Len(run.log) + 2
    BY <2>2, <1>1
  <2>5. \A i \in DOMAIN log : log[i] \notin TerminalTypes
    BY <1>1, <2>1, <2>2, <2>4 DEF RunOK, TerminalTypes
  <2> QED
    BY <1>1, <2>1, <2>2, <2>3, <2>5 DEF RunOK, Grows
<1>9. CASE FinishAnswer
  <2> DEFINE n == Len(run.log)
             last == <<"output", "stage", "stage", "stage", "stage", "completed">>
             log == run.log \o last
  <2>1. /\ run' = [run EXCEPT !.status = "TERMINAL", !.rev = @ + 1, !.log = log]
        /\ ~Terminal /\ answer' = "SUCCEEDED"
    BY <1>9 DEF FinishAnswer, RunOK, Terminal
  <2>2. /\ last \in Seq(EventTypes) /\ Len(last) = 6
        /\ \A k \in 1..6 : last[k] \in TerminalTypes => k = 6
    BY DEF EventTypes, TerminalTypes
  <2> HIDE DEF last
  <2>3. /\ log \in Seq(EventTypes) /\ Len(log) = n + 6 /\ DOMAIN log = 1..(n + 6)
        /\ \A i \in 1..n : log[i] = run.log[i]
        /\ \A k \in 1..6 : log[n + k] = last[k]
    <3>1. PICK g \in Seq(EventTypes) : g = run.log
      BY <1>1
    <3>2. /\ g \o last \in Seq(EventTypes) /\ Len(g \o last) = Len(g) + Len(last)
          /\ DOMAIN (g \o last) = 1..(Len(g) + Len(last))
          /\ \A i \in 1..Len(g) : (g \o last)[i] = g[i]
          /\ \A k \in 1..Len(last) : (g \o last)[Len(g) + k] = last[k]
      BY <2>2, LogJoin
    <3> QED
      BY <2>2, <3>1, <3>2
  <2> HIDE DEF log
  <2>4. run' \in Runs /\ run'.log = log /\ run'.status = "TERMINAL"
    <3>1. run.rev + 1 \in Nat /\ "TERMINAL" \in Statuses
      BY <1>1 DEF Statuses
    <3> QED
      BY <1>1, <2>1, <2>3, <3>1 DEF Runs
  <2>5. ASSUME NEW i \in DOMAIN log, log[i] \in TerminalTypes PROVE i = n + 6
    <3>1. CASE i \in 1..n
      BY <1>1, <2>1, <2>3, <2>5, <3>1 DEF RunOK
    <3>2. CASE i \notin 1..n
      <4>1. i - n \in 1..6 /\ log[i] = last[i - n]
        <5>1. i - n \in 1..6 /\ n + (i - n) = i
          <6>1. n \in Nat /\ i \in 1..(n + 6)
            BY <1>1, <2>3
          <6> HIDE DEF n
          <6> QED
            BY <6>1, <3>2
        <5> QED
          BY <5>1, <2>3
      <4>2. i - n = 6
        BY <4>1, <2>2, <2>5
      <4> QED
        BY <4>2, <1>1, <2>3
    <3> QED
      BY <3>1, <3>2
  <2> QED
    <3>1. Terminal' /\ ~Locked'
      BY <2>1, <2>4 DEF Terminal, Locked
    <3>2. Len(run'.log) = n + 6 /\ n \in Nat
      BY <1>1, <2>3, <2>4
    <3>3. RunOK'
      <4> HIDE DEF n
      <4> QED
        BY <2>4, <2>5, <3>1, <3>2 DEF RunOK
    <3>4. Grows
      BY <1>1, <2>1, <2>3, <2>4 DEF Grows, Terminal
    <3> QED
      BY <3>3, <3>4
<1> QED
  BY <1>4, <1>5, <1>6, <1>7, <1>8, <1>9

(* What the readers rely on survives as the log grows, and who sleeps is   *)
(* woken.                                                                  *)
LEMMA LogMoves ==
  ASSUME IInv, RunOK', Grows, UNCHANGED <<client, conns>>,
         notice => notice', run'.log # run.log => notice'
  PROVE  IInv'
<1>1. /\ run.log \in Seq(EventTypes) /\ SnapshotSeq \in Nat /\ SnapshotSeq' \in Nat
      /\ SnapshotSeq <= SnapshotSeq' /\ (Terminal => Terminal' /\ SnapshotSeq' = SnapshotSeq)
      /\ \A i \in 1..SnapshotSeq : run'.log[i] = run.log[i]
  BY DEF IInv, RunOK, Runs, Grows, SnapshotSeq
<1>2. ASSUME NEW q \in Seq(Nat), NEW lo \in Nat, NEW hi \in Nat, hi <= SnapshotSeq, NEW types,
             ListsOf(q, lo, hi, run.log, types)
      PROVE  ListsOf(q, lo, hi, run'.log, types)
  <2>1. \A i \in 1..hi : run'.log[i] = run.log[i]
    BY <1>1, <1>2
  <2> QED
    BY <1>2, <2>1, OfLonger
<1>3. ASSUME NEW lo \in Nat, NEW hi \in Nat, hi <= SnapshotSeq, NEW types, NothingIn(lo, hi, run.log, types)
      PROVE  NothingIn(lo, hi, run'.log, types)
  <2>1. ASSUME NEW i \in Nat, lo < i, i <= hi PROVE run'.log[i] \notin types
    <3>1. i \in 1..SnapshotSeq
      BY <1>1, <1>3, <2>1
    <3> QED
      BY <1>1, <1>3, <2>1, <3>1 DEF NothingIn
  <2> QED
    BY <2>1 DEF NothingIn
<1>4. StreamsOK'
  <2>1. ASSUME NEW s \in DOMAIN conns PROVE StreamOK(conns[s])'
    <3>1. conns[s] \in Streams /\ StreamOK(conns[s])
      BY DEF IInv, StreamsOK
    <3>2. conns[s].pos \in Nat /\ conns[s].upto \in Nat
      BY <3>1 DEF Streams
    <3> QED
      BY <1>1, <3>1, <3>2 DEF StreamOK
  <2> QED
    BY <2>1 DEF IInv, StreamsOK
<1>5. ReaderOK'
  <2>1. SUFFICES ASSUME client.pc # "idle" PROVE ReaderOK'
    BY DEF ReaderOK
  <2>2. /\ client \in Readers /\ client.got \in Seq(Nat) /\ client.start \in Nat /\ client.at \in Nat
        /\ client.high \in Nat /\ client.at <= SnapshotSeq /\ client.high <= SnapshotSeq
    BY <2>1, ReaderFields DEF IInv, ReaderOK
  <2>3. HoldsOK'
    <3>1. HoldsOK
      BY <2>1 DEF IInv, ReaderOK
    <3>2. ListsOf(client.got, client.start, client.at, run'.log, client.types)
      BY <1>2, <2>2, <3>1 DEF HoldsOK
    <3>3. client.at <= SnapshotSeq'
      BY <1>1, <2>2
    <3> QED
      BY <3>1, <3>2, <3>3 DEF HoldsOK
  <2>4. EndsOK'
    <3>1. EndsOK
      BY <2>1 DEF IInv, ReaderOK
    <3>2. ASSUME Terminal, NothingIn(client.at, SnapshotSeq, run.log, client.types)
          PROVE  Terminal' /\ NothingIn(client.at, SnapshotSeq', run'.log, client.types)
      BY <1>1, <1>3, <2>2, <3>2
    <3>3. ASSUME NothingIn(client.at, client.high, run.log, client.types)
          PROVE  NothingIn(client.at, client.high, run'.log, client.types)
      BY <1>3, <2>2, <3>3
    <3> QED
      BY <3>1, <3>2, <3>3 DEF EndsOK
  <2>5. client.high <= SnapshotSeq'
    BY <1>1, <2>2
  <2> QED
    BY <2>1, <2>3, <2>4, <2>5 DEF IInv, ReaderOK
<1>6. InFlightOK'
  <2>1. SUFFICES ASSUME client.pc = "reading" PROVE conns # <<>> /\ CarriesOK(conns[Len(conns)])'
    BY DEF InFlightOK
  <2>2. conns # <<>> /\ CarriesOK(conns[Len(conns)])
    BY <2>1 DEF IInv, InFlightOK
  <2> DEFINE c == conns[Len(conns)]
  <2>3. c \in Streams /\ StreamOK(c)
    BY <2>2 DEF IInv, StreamsOK
  <2>4. c.wire \in Seq(Nat) /\ c.pos \in Nat /\ c.pos <= SnapshotSeq /\ client.at \in Nat
    BY <2>1, <2>3, ReaderFields DEF Streams, StreamOK
  <2>5. ListsOf(c.wire, client.at, c.pos, run'.log, client.types)
    BY <1>2, <2>2, <2>4 DEF CarriesOK
  <2>6. c.pc = "closed" => Terminal' /\ c.pos = SnapshotSeq'
    BY <1>1, <2>2 DEF CarriesOK
  <2> QED
    BY <2>2, <2>5, <2>6 DEF CarriesOK
<1>7. NoLostWakeup'
  <2>1. CASE run'.log = run.log
    BY <2>1 DEF IInv, NoLostWakeup, SnapshotSeq
  <2>2. CASE run'.log # run.log
    BY <2>2 DEF NoLostWakeup
  <2> QED
    BY <2>1, <2>2
<1> QED
  BY <1>4, <1>5, <1>6, <1>7 DEF IInv

(* A run that stays as it is.                                              *)
LEMMA SameRun ==
  ASSUME IInv, UNCHANGED runVars
  PROVE  RunOK' /\ Grows
BY DEF IInv, RunOK, Runs, Grows, runVars, Locked, Terminal

(* The managed flow.                                                       *)
LEMMA DriverSteps ==
  ASSUME IInv, DriverStep
  PROVE  IInv'
<1>1. UNCHANGED <<client, conns>>
  BY DEF DriverStep
<1>2. CASE UNCHANGED <<runVars, notice>>
  BY <1>1, <1>2, SameRun, LogMoves DEF runVars
<1>3. CASE SendAnswer
  <2>1. Appends /\ ((\E rev : BeginAnswer(rev)) \/ UNCHANGED runVars)
    BY <1>3 DEF SendAnswer
  <2>2. RunOK' /\ Grows
    BY <2>1, RunSteps, SameRun DEF IInv
  <2> QED
    BY <1>1, <2>1, <2>2, LogMoves DEF Appends
<1> QED
  BY <1>2, <1>3 DEF DriverStep, AskSnapshot, ListPackets, Receipt, AwaitResult

(* The service, and the operator.                                          *)
LEMMA ServiceSteps ==
  ASSUME IInv, ServiceStep \/ Operate
  PROVE  IInv'
<1>1. /\ UNCHANGED <<client, conns>> /\ Appends
      /\ FinishAnswer \/ BreakAnswer \/ Pause \/ Resume \/ Cancel
  BY DEF ServiceStep, Operate
<1>2. RunOK' /\ Grows
  BY <1>1, RunSteps DEF IInv
<1> QED
  BY <1>1, <1>2, LogMoves DEF Appends

-----------------------------------------------------------------------------
(* The invariant. *)

(* The first state.                                                        *)
LEMMA FeedInit ==
  ASSUME Init
  PROVE  IInv
<1>1. /\ run = Created /\ answer = "NONE" /\ client = [pc |-> "idle"] /\ conns = <<>>
  BY DEF Init, RunInit
<1>2. Created.log \in Seq(EventTypes) /\ Len(Created.log) = 6
      /\ \A i \in 1..6 : Created.log[i] \notin TerminalTypes
  BY DEF Created, EventTypes, TerminalTypes
<1>3. RunOK
  <2>1. Created \in Runs
    BY <1>2 DEF Created, Runs, Statuses
  <2> QED
    BY <1>1, <1>2, <2>1 DEF RunOK, Locked
<1>4. StreamsOK /\ NoLostWakeup
  <2>1. conns \in Seq(Streams) /\ DOMAIN conns = {}
    BY <1>1
  <2> QED
    BY <2>1 DEF StreamsOK, NoLostWakeup
<1>5. ReaderOK /\ InFlightOK
  BY <1>1 DEF ReaderOK, InFlightOK
<1> QED
  BY <1>3, <1>4, <1>5 DEF IInv

(* Nothing happens.                                                        *)
LEMMA FeedStutter ==
  ASSUME IInv, UNCHANGED vars
  PROVE  IInv'
<1>1. UNCHANGED <<runVars, client, conns, notice>>
  BY DEF vars
<1> QED
  BY <1>1, SameRun, LogMoves DEF runVars

(* Every step of the reader.                                               *)
LEMMA ClientSteps ==
  ASSUME IInv, ClientStep
  PROVE  IInv'
<1>1. UNCHANGED <<runVars, notice>>
  BY DEF ClientStep
<1> QED
  BY <1>1, StartReadingStep, OpenStep, TakeStep, EndOfStreamStep, RecheckStep, PageSteps DEF ClientStep

(* Every step.                                                             *)
LEMMA FeedNext ==
  ASSUME IInv, [Next]_vars
  PROVE  IInv'
<1>1. CASE \E s \in Conns : ServerStep(s)
  BY <1>1, ServerSteps
<1>2. CASE \E s \in Conns : s \in DOMAIN conns /\ TimesOut(s)
  BY <1>2, TimeOut
<1>3. CASE Notify
  BY <1>3, NotifyStep
<1>4. CASE ClientStep
  BY <1>4, ClientSteps
<1>5. CASE Drop
  BY <1>5, DropStep
<1>6. CASE DriverStep
  BY <1>6, DriverSteps
<1>7. CASE ServiceStep \/ Operate
  BY <1>7, ServiceSteps
<1>8. CASE UNCHANGED vars
  BY <1>8, FeedStutter
<1> QED
  BY <1>1, <1>2, <1>3, <1>4, <1>5, <1>6, <1>7, <1>8 DEF Next

(* In every reachable state the log ends with the run, every stream lies   *)
(* between its reader and the log, the reader holds all it wanted up to    *)
(* where it is, and the network carries all that lies between.             *)
THEOREM FeedInvariant == Spec => []IInv
<1>1. Init => IInv
  BY FeedInit
<1>2. IInv /\ [Next]_vars => IInv'
  BY FeedNext
<1> QED
  BY <1>1, <1>2, PTL DEF Spec

(* No sleeping stream misses an event: wait_for_events looks again once it *)
(* has the condition, and append_event notifies after it has appended.     *)
THEOREM FeedNoLostWakeup == Spec => []NoLostWakeup
<1>1. IInv => NoLostWakeup
  BY DEF IInv
<1> QED
  BY <1>1, FeedInvariant, PTL

(* A reader of stream_run_events, iter_run_events or iter_outputs is given *)
(* what it asked for in order, once, with no gap, whatever breaks.         *)
THEOREM FeedDeliversInSequence == Spec => []DeliveredInSequence
<1>1. IInv => DeliveredInSequence
  <2>1. SUFFICES ASSUME IInv, client.pc # "idle"
                 PROVE  Lists(client.got, client.start,
                              IF client.got = <<>> THEN client.start ELSE Last(client.got))
    BY DEF DeliveredInSequence
  <2>2. /\ client.got \in Seq(Nat) /\ client.start \in Nat /\ client.at \in Nat /\ HoldsOK
    BY <2>1, ReaderFields DEF IInv, ReaderOK
  <2>3. client.at = IF client.got = <<>> THEN client.start ELSE Last(client.got)
    BY <2>2 DEF HoldsOK, Last
  <2>4. Lists(client.got, client.start, client.at)
    BY <2>2, ListsIs DEF HoldsOK
  <2> QED
    BY <2>3, <2>4
<1> QED
  BY <1>1, FeedInvariant, PTL

(* A stream that came to its own end has told everything, and a batch of   *)
(* pages all that was there when its first page was read.                  *)
THEOREM FeedEndsComplete == Spec => []EndedIsComplete
<1>1. IInv => EndedIsComplete
  <2>1. SUFFICES ASSUME IInv, client.pc = "returned", ~client.dropped
                 PROVE  IF client.mode = "sse"
                          THEN Terminal /\ Lists(client.got, client.start, SnapshotSeq)
                          ELSE Lists(client.got, client.start, client.high)
    BY DEF EndedIsComplete
  <2>2. /\ client.got \in Seq(Nat) /\ client.start \in Nat /\ client.at \in Nat /\ client.high \in Nat
        /\ client.at <= SnapshotSeq /\ SnapshotSeq \in Nat
        /\ ListsOf(client.got, client.start, client.at, run.log, client.types) /\ EndsOK
    BY <2>1, ReaderFields DEF IInv, ReaderOK, HoldsOK
  <2>3. CASE client.mode = "sse"
    <3>1. Terminal /\ NothingIn(client.at, SnapshotSeq, run.log, client.types)
      BY <2>1, <2>2, <2>3 DEF EndsOK
    <3>2. ListsOf(client.got, client.start, SnapshotSeq, run.log, client.types)
      BY <2>2, <3>1, OfNothing
    <3> QED
      BY <2>2, <2>3, <3>1, <3>2, ListsIs
  <2>4. CASE client.mode # "sse"
    <3>1. client.at <= client.high /\ NothingIn(client.at, client.high, run.log, client.types)
      BY <2>1, <2>2, <2>4 DEF EndsOK
    <3>2. ListsOf(client.got, client.start, client.high, run.log, client.types)
      BY <2>2, <3>1, OfNothing
    <3> QED
      BY <2>2, <2>4, <3>2, ListsIs
  <2> QED
    BY <2>3, <2>4
<1> QED
  BY <1>1, FeedInvariant, PTL
=============================================================================
