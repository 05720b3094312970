---------------------------- MODULE GroupsProofs ----------------------------
(***************************************************************************)
(* Theorems about the group coordinator and the consumers that follow it,  *)
(* for every set of members, topics, parked calls and every session        *)
(* timeout and partition count.                                            *)
(***************************************************************************)
EXTENDS ConsumerGroup, FiniteSetTheorems, TLAPS

-----------------------------------------------------------------------------
(***************************************************************************)
(* Arithmetic of the range strategy (rangeAssign in assign.go).            *)
(***************************************************************************)

(***************************************************************************)
(* A product grows with its first factor.                                  *)
(***************************************************************************)
LEMMA ProductMonotone ==
    ASSUME NEW a \in Nat, NEW b \in Nat, NEW c \in Nat, a <= b
    PROVE  a * c <= b * c
<1> DEFINE d == b - a
<1>1. d \in Nat /\ b = a + d
  OBVIOUS
<1>2. (a + d) * c = a * c + d * c
  BY <1>1
<1>3. d * c \in Nat /\ a * c \in Nat
  BY <1>1
<1> QED
  BY <1>1, <1>2, <1>3

(***************************************************************************)
(* The quotient and the remainder that rangeAssign computes.               *)
(***************************************************************************)
LEMMA DivisionFacts ==
    ASSUME NEW n \in Nat \ {0}, NEW k \in Nat
    PROVE  /\ k \div n \in Nat
           /\ k % n \in 0 .. n - 1
           /\ k = n * (k \div n) + (k % n)
  BY SMT

(***************************************************************************)
(* The slice of one rank ends where the slice of the next rank starts.     *)
(***************************************************************************)
LEMMA RangeStep ==
    ASSUME NEW n \in Nat \ {0}, NEW k \in Nat, NEW r \in Nat
    PROVE  /\ RangeStart(n, k, r) \in Nat
           /\ RangeCount(n, k, r) \in Nat
           /\ RangeStart(n, k, r + 1)
                = RangeStart(n, k, r) + RangeCount(n, k, r)
<1> DEFINE base == k \div n
           extra == k % n
<1>1. base \in Nat /\ extra \in Nat
  BY DivisionFacts
<1>2. (r + 1) * base = r * base + base /\ r * base \in Nat
  BY <1>1
<1> HIDE DEF base, extra
<1> QED
  <2>1. RangeStart(n, k, r) = r * base + (IF r < extra THEN r ELSE extra)
    BY Zenon DEF RangeStart, base, extra
  <2>2. RangeStart(n, k, r + 1)
          = (r + 1) * base + (IF r + 1 < extra THEN r + 1 ELSE extra)
    BY Zenon DEF RangeStart, base, extra
  <2>3. RangeCount(n, k, r) = base + (IF r < extra THEN 1 ELSE 0)
    BY Zenon DEF RangeCount, base, extra
  <2> QED
    BY <1>1, <1>2, <2>1, <2>2, <2>3

(***************************************************************************)
(* Slices start in the order of the ranks.                                 *)
(***************************************************************************)
LEMMA RangeStartMonotone ==
    ASSUME NEW n \in Nat \ {0}, NEW k \in Nat, NEW r \in Nat, NEW s \in Nat,
           r <= s
    PROVE  RangeStart(n, k, r) <= RangeStart(n, k, s)
<1> DEFINE base == k \div n
           extra == k % n
<1>1. base \in Nat /\ extra \in Nat
  BY DivisionFacts
<1>2. r * base <= s * base /\ r * base \in Nat /\ s * base \in Nat
  BY <1>1, ProductMonotone
<1> HIDE DEF base, extra
<1>3. /\ RangeStart(n, k, r) = r * base + (IF r < extra THEN r ELSE extra)
      /\ RangeStart(n, k, s) = s * base + (IF s < extra THEN s ELSE extra)
  BY Zenon DEF RangeStart, base, extra
<1> QED
  BY <1>1, <1>2, <1>3

(***************************************************************************)
(* Two ranks never share a partition of a topic.                           *)
(***************************************************************************)
LEMMA RangeDisjoint ==
    ASSUME NEW n \in Nat \ {0}, NEW k \in Nat, NEW r \in Nat, NEW s \in Nat,
           r < s, NEW i \in Int, i \in RangeSlice(n, k, r)
    PROVE  i \notin RangeSlice(n, k, s)
<1>1. /\ RangeStart(n, k, r) \in Nat /\ RangeCount(n, k, r) \in Nat
      /\ RangeStart(n, k, s) \in Nat /\ RangeCount(n, k, s) \in Nat
      /\ RangeStart(n, k, r + 1) = RangeStart(n, k, r) + RangeCount(n, k, r)
  BY RangeStep, Zenon
<1>2. r + 1 \in Nat /\ r + 1 <= s
  OBVIOUS
<1>3. RangeStart(n, k, r + 1) <= RangeStart(n, k, s)
  BY <1>2, RangeStartMonotone, Zenon
<1>4. i < RangeStart(n, k, r + 1)
  BY <1>1 DEF RangeSlice
<1> QED
  BY <1>1, <1>3, <1>4 DEF RangeSlice

(***************************************************************************)
(* Every partition of a topic lies in the slice of some rank: the first    *)
(* `extra' slices have base + 1 partitions, the others base.               *)
(***************************************************************************)
LEMMA RangeCovers ==
    ASSUME NEW n \in Nat \ {0}, NEW k \in Nat, NEW i \in 0 .. k - 1
    PROVE  \E r \in 0 .. n - 1 : i \in RangeSlice(n, k, r)
<1> DEFINE b == k \div n
           e == k % n
<1>1. b \in Nat /\ e \in Nat /\ e < n /\ k = n * b + e
  BY DivisionFacts
<1>2. ASSUME NEW r \in 0 .. n - 1, NEW s \in Nat,
             \/ r < e /\ s <= b /\ i = r * b + r + s
             \/ r >= e /\ s < b /\ i = r * b + e + s
      PROVE  i \in RangeSlice(n, k, r)
  <2>1. r * b \in Nat
    BY <1>1
  <2>2. /\ RangeStart(n, k, r) = r * b + (IF r < e THEN r ELSE e)
        /\ RangeCount(n, k, r) = b + (IF r < e THEN 1 ELSE 0)
    BY Zenon DEF RangeStart, RangeCount
  <2> HIDE DEF b, e
  <2> QED
    BY <1>1, <1>2, <2>1, <2>2 DEF RangeSlice
<1> HIDE DEF b, e
<1>3. CASE i < e * (b + 1)
  <2> DEFINE q == i \div (b + 1)
             s == i % (b + 1)
  <2>1. b + 1 \in Nat \ {0} /\ i \in Nat
    BY <1>1
  <2>2. q \in Nat /\ s \in 0 .. b /\ i = (b + 1) * q + s
    <3>1. q \in Nat /\ s \in 0 .. (b + 1) - 1 /\ i = (b + 1) * q + s
      BY <2>1, DivisionFacts, Zenon
    <3> HIDE DEF q, s
    <3> QED
      BY <1>1, <3>1
  <2> HIDE DEF q, s
  <2>3. q < e
    <3> SUFFICES ASSUME e <= q PROVE FALSE
      BY <1>1, <2>2
    <3>1. e * (b + 1) <= q * (b + 1)
      BY <1>1, <2>1, <2>2, ProductMonotone, Zenon
    <3>2. q * (b + 1) = (b + 1) * q /\ (b + 1) * q \in Nat /\ e * (b + 1) \in Nat
      BY <1>1, <2>2
    <3> QED
      BY <1>3, <2>1, <2>2, <3>1, <3>2
  <2>4. (b + 1) * q = q * b + q
    BY <1>1, <2>2
  <2>5. q \in 0 .. n - 1 /\ s \in Nat /\ s <= b /\ i = q * b + q + s
    BY <1>1, <2>2, <2>3, <2>4
  <2> QED
    BY <1>2, <2>3, <2>5, Zenon
<1>4. CASE ~(i < e * (b + 1))
  <2>1. e * (b + 1) = e * b + e /\ e * b \in Nat /\ n * b \in Nat
    BY <1>1
  <2>2. i >= e * b + e /\ i < n * b + e /\ i \in Nat
    BY <1>1, <1>4, <2>1
  <2>3. b # 0
    BY <1>1, <2>2
  <2> DEFINE j == i - (e * b + e)
             q == j \div b
             s == j % b
  <2>4. j \in Nat /\ b \in Nat \ {0}
    BY <1>1, <2>1, <2>2, <2>3
  <2> HIDE DEF j
  <2>5. q \in Nat /\ s \in 0 .. b - 1 /\ j = b * q + s
    BY <2>4, DivisionFacts, Zenon
  <2> HIDE DEF q, s
  <2>6. i = (e * b + e) + j
    BY <1>1, <2>1, <2>2 DEF j
  <2>7. (e + q) * b = e * b + b * q /\ b * q \in Nat
    BY <1>1, <2>5
  <2>8. e + q < n
    <3> SUFFICES ASSUME n <= e + q PROVE FALSE
      BY <1>1, <2>5
    <3>1. n * b <= (e + q) * b
      BY <1>1, <2>5, ProductMonotone
    <3> QED
      BY <1>1, <2>1, <2>2, <2>5, <2>6, <2>7, <3>1
  <2>9. /\ e + q \in 0 .. n - 1 /\ e + q >= e /\ s \in Nat /\ s < b
        /\ i = (e + q) * b + e + s
    BY <1>1, <2>1, <2>5, <2>6, <2>7, <2>8
  <2> QED
    BY <1>2, <2>9, Zenon
<1> QED
  BY <1>3, <1>4, Zenon

-----------------------------------------------------------------------------
(***************************************************************************)
(* A proper subset of a finite set has fewer elements.                     *)
(***************************************************************************)
LEMMA ProperSubsetIsSmaller ==
    ASSUME NEW S, IsFiniteSet(S), NEW T, T \subseteq S, T # S
    PROVE  /\ Cardinality(T) \in Nat /\ Cardinality(S) \in Nat
           /\ Cardinality(T) < Cardinality(S)
<1>1. /\ IsFiniteSet(T)
      /\ Cardinality(T) <= Cardinality(S)
      /\ Cardinality(S) # Cardinality(T)
  BY FS_Subset, Zenon
<1>2. Cardinality(T) \in Nat /\ Cardinality(S) \in Nat
  BY <1>1, FS_CardinalityType, Zenon
<1> QED
  BY <1>1, <1>2

(***************************************************************************)
(* The rank of a member in the sorted list of IDs is a position of it.     *)
(***************************************************************************)
LEMMA RankIsPosition ==
    ASSUME NEW S, S \subseteq Int, IsFiniteSet(S), NEW m \in S
    PROVE  Rank(S, m) \in 0 .. Cardinality(S) - 1
<1> DEFINE Below == {x \in S : x < m}
<1>1. m \in Int /\ m \notin Below
  OBVIOUS
<1>2. Below \subseteq S /\ Below # S
  BY <1>1, Zenon
<1>3. /\ Cardinality(Below) \in Nat /\ Cardinality(S) \in Nat
      /\ Cardinality(Below) < Cardinality(S)
  BY <1>2, ProperSubsetIsSmaller, Zenon
<1> QED
  BY <1>3 DEF Rank

(***************************************************************************)
(* Ranks follow the order of the IDs, so no two members share one.         *)
(***************************************************************************)
LEMMA RankFollowsOrder ==
    ASSUME NEW S, S \subseteq Int, IsFiniteSet(S),
           NEW a \in S, NEW b \in S, a < b
    PROVE  Rank(S, a) < Rank(S, b)
<1> DEFINE BelowA == {x \in S : x < a}
           BelowB == {x \in S : x < b}
<1>1. a \in Int /\ b \in Int /\ \A x \in S : x \in Int
  BY Zenon
<1>2. BelowA \subseteq BelowB /\ a \in BelowB /\ a \notin BelowA
  <2>1. ~(a < a) /\ \A x \in S : x < a => x < b
    BY <1>1
  <2> QED
    BY <2>1, Zenon
<1>3. IsFiniteSet(BelowB)
  BY FS_Subset, Zenon
<1>4. Cardinality(BelowA) < Cardinality(BelowB)
  BY <1>2, <1>3, ProperSubsetIsSmaller, Zenon
<1> QED
  BY <1>4, Zenon DEF Rank

(***************************************************************************)
(* Two members of the same rank are the same member.                       *)
(***************************************************************************)
LEMMA RankInjective ==
    ASSUME NEW S, S \subseteq Int, IsFiniteSet(S),
           NEW a \in S, NEW b \in S, a # b
    PROVE  Rank(S, a) < Rank(S, b) \/ Rank(S, b) < Rank(S, a)
<1>1. a \in Int /\ b \in Int
  BY Zenon
<1>2. a < b \/ b < a
  BY <1>1
<1> QED
  BY <1>2, RankFollowsOrder, Zenon

(***************************************************************************)
(* Every position of the sorted list is some member's rank.                *)
(***************************************************************************)
LEMMA RankSurjective ==
    ASSUME NEW S, S \subseteq Int, IsFiniteSet(S),
           NEW r \in 0 .. Cardinality(S) - 1
    PROVE  \E m \in S : Rank(S, m) = r
<1> DEFINE n == Cardinality(S)
           f == [m \in S |-> Rank(S, m)]
<1>1. n \in Nat
  BY FS_CardinalityType, Zenon
<1>2. IsFiniteSet(0 .. n - 1) /\ Cardinality(0 .. n - 1) = n
  BY <1>1, FS_Interval
<1>3. f \in [S -> 0 .. n - 1]
  BY RankIsPosition, Zenon
<1>4. ASSUME NEW a \in S, NEW b \in S, f[a] = f[b]
      PROVE  a = b
  <2> SUFFICES ASSUME a # b PROVE FALSE
    BY Zenon
  <2>1. Rank(S, a) < Rank(S, b) \/ Rank(S, b) < Rank(S, a)
    BY RankInjective, Zenon
  <2>2. Rank(S, a) \in 0 .. n - 1 /\ Rank(S, a) = Rank(S, b)
    BY <1>4, RankIsPosition, Zenon
  <2> QED
    BY <1>1, <2>1, <2>2
<1>5. f \in Injection(S, 0 .. n - 1)
  BY <1>3, <1>4, Zenon DEF Injection, IsInjective
<1>6. f \in Surjection(S, 0 .. n - 1)
  BY <1>2, <1>5, FS_Injection, Zenon
<1> QED
  BY <1>6, Zenon DEF Surjection

-----------------------------------------------------------------------------
(***************************************************************************)
(* Both strategies give every partition to at most one member.             *)
(***************************************************************************)
LEMMA AssignIsExclusive ==
    ASSUME NEW ids, NEW S, S \subseteq ids, S \subseteq Int, IsFiniteSet(S),
           NEW subscribed, NEW count,
           \A t \in subscribed : count[t] \in Nat,
           NEW strategy, NEW a \in ids, NEW b \in ids, a # b
    PROVE  Assign(strategy, ids, S, subscribed, count)[a]
             \intersect Assign(strategy, ids, S, subscribed, count)[b] = {}
<1> SUFFICES ASSUME NEW p \in AllPartitions(subscribed, count),
                    a \in S, b \in S,
                    p \in Assign(strategy, ids, S, subscribed, count)[a],
                    p \in Assign(strategy, ids, S, subscribed, count)[b]
             PROVE  FALSE
  BY Zenon DEF Assign
<1> DEFINE n == Cardinality(S)
           k == count[p[1]]
           i == p[2]
           ra == Rank(S, a)
           rb == Rank(S, b)
<1>1. PICK t \in subscribed : \E j \in 0 .. count[t] - 1 : p = <<t, j>>
  BY Zenon DEF AllPartitions
<1>2. k \in Nat /\ i \in Int
  BY <1>1
<1>3. ra \in 0 .. n - 1 /\ rb \in 0 .. n - 1
  BY RankIsPosition, Zenon
<1>4. n \in Nat
  BY FS_CardinalityType, Zenon
<1>5. n \in Nat \ {0} /\ ra \in Nat /\ rb \in Nat
  BY <1>3, <1>4
<1>6. ra < rb \/ rb < ra
  BY RankInjective, Zenon
<1>7. CASE strategy = "roundrobin"
  <2>1. ra = i % n /\ rb = i % n
    BY <1>7, Zenon DEF Assign, RoundRobinOwns
  <2> QED
    BY <2>1, <1>5, <1>6
<1>8. CASE strategy # "roundrobin"
  <2>1. i \in RangeSlice(n, k, ra) /\ i \in RangeSlice(n, k, rb)
    BY <1>8, Zenon DEF Assign, RangeOwns
  <2> HIDE DEF n, k, i, ra, rb
  <2> QED
    BY <2>1, <1>2, <1>5, <1>6, RangeDisjoint, Zenon
<1> QED
  BY <1>7, <1>8, Zenon

(***************************************************************************)
(* Both strategies give every partition to some member, if there is one.   *)
(***************************************************************************)
LEMMA AssignIsComplete ==
    ASSUME NEW ids, NEW S, S \subseteq ids, S \subseteq Int, IsFiniteSet(S),
           S # {}, NEW subscribed, NEW count,
           \A t \in subscribed : count[t] \in Nat,
           NEW strategy, NEW p \in AllPartitions(subscribed, count)
    PROVE  \E m \in S :
                p \in Assign(strategy, ids, S, subscribed, count)[m]
<1> DEFINE n == Cardinality(S)
           k == count[p[1]]
           i == p[2]
<1>1. PICK t \in subscribed : \E j \in 0 .. count[t] - 1 : p = <<t, j>>
  BY Zenon DEF AllPartitions
<1>2. k \in Nat /\ i \in 0 .. k - 1
  BY <1>1
<1>3. n \in Nat \ {0}
  BY FS_CardinalityType, FS_EmptySet, Zenon
<1>4. CASE strategy = "roundrobin"
  <2>1. i % n \in 0 .. n - 1
    <3>1. i \in Nat
      BY <1>2
    <3> HIDE DEF i, n
    <3> QED
      BY <1>3, <3>1, DivisionFacts, Zenon
  <2>2. PICK m \in S : Rank(S, m) = i % n
    BY <2>1, RankSurjective, Zenon
  <2> QED
    BY <1>4, <2>2, Zenon DEF Assign, RoundRobinOwns
<1>5. CASE strategy # "roundrobin"
  <2>1. PICK r \in 0 .. n - 1 : i \in RangeSlice(n, k, r)
    BY <1>2, <1>3, RangeCovers, Zenon
  <2>2. PICK m \in S : Rank(S, m) = r
    BY <2>1, RankSurjective, Zenon
  <2> QED
    BY <1>5, <2>1, <2>2, Zenon DEF Assign, RangeOwns
<1> QED
  BY <1>4, <1>5, Zenon

(***************************************************************************)
(* An assignment consists of partitions of the registered topics, and only *)
(* members get any.                                                        *)
(***************************************************************************)
LEMMA AssignIsTyped ==
    ASSUME NEW S \in SUBSET Member, NEW subscribed \in SUBSET Topic,
           NEW count \in [Topic -> 0 .. MaxPartitions]
    PROVE  /\ Assign(Strategy, Member, S, subscribed, count)
                \in [Member -> SUBSET Partition]
           /\ \A m \in Member \ S :
                Assign(Strategy, Member, S, subscribed, count)[m] = {}
<1>1. AllPartitions(subscribed, count) \subseteq Partition
  <2> SUFFICES ASSUME NEW t \in subscribed, NEW i \in 0 .. count[t] - 1
               PROVE  <<t, i>> \in Partition
    BY DEF AllPartitions
  <2>1. t \in Topic /\ count[t] \in 0 .. MaxPartitions
    BY Zenon
  <2> QED
    BY <2>1, GroupsAssumption DEF Partition
<1> QED
  BY <1>1, Zenon DEF Assign

-----------------------------------------------------------------------------
(***************************************************************************)
(* The bookkeeping of parked calls: a listed channel belongs to a parked   *)
(* call of an up-to-date member of the present group object, and a parked  *)
(* call of the present object is listed.                                   *)
(***************************************************************************)
WatchersInv ==
    /\ \A c \in Call : wait[c].epoch <= epoch
    /\ \A c \in watchers :
        /\ registered
        /\ ~dirty
        /\ wait[c].state = "parked"
        /\ wait[c].epoch = epoch
        /\ wait[c].gen = generation
        /\ wait[c].member \in members
    /\ \A c \in Call :
        /\ wait[c].state = "parked"
        /\ registered
        /\ wait[c].epoch = epoch
        => c \in watchers

GroupsInv ==
    TypeOK /\ OwnersAreMembers /\ ExclusiveOwnership /\ WatchersInv

(***************************************************************************)
(* A call that is not in HeartbeatWait has a well-typed state.             *)
(***************************************************************************)
LEMMA IdleIsWaitState == Idle \in WaitState
  BY Zenon DEF Idle, WaitState

(***************************************************************************)
(* The invariant holds in the coordinator that NewManager returns.         *)
(***************************************************************************)
LEMMA GroupsInvInit == Init => GroupsInv
<1> SUFFICES ASSUME Init PROVE GroupsInv
  BY Zenon
<1>1. TypeOK
  <2>1. 0 \in 0 .. Stale /\ 0 \in 0 .. MaxPartitions
    BY GroupsAssumption DEF Stale
  <2> QED
    BY <2>1, IdleIsWaitState, Zenon DEF Init, TypeOK
<1>2. OwnersAreMembers /\ ExclusiveOwnership
  BY Zenon DEF Init, OwnersAreMembers, ExclusiveOwnership
<1>3. WatchersInv
  BY DEF Init, WatchersInv, Idle
<1> QED
  BY <1>1, <1>2, <1>3, Zenon DEF GroupsInv

-----------------------------------------------------------------------------
(***************************************************************************)
(* The pieces the handlers share keep the types.                           *)
(***************************************************************************)
LEMMA NotifyIsTyped ==
    ASSUME TypeOK, NotifyWatchers
    PROVE  watchers' \in SUBSET Call /\ wait' \in [Call -> WaitState]
  BY SMTT(30) DEF TypeOK, NotifyWatchers, WaitState

(***************************************************************************)
(* Resetting heartbeats keeps the ages in range.                           *)
(***************************************************************************)
LEMMA RefreshedIsTyped ==
    ASSUME TypeOK, NEW ids
    PROVE  Refreshed(ids) \in [Member -> 0 .. Stale]
  BY GroupsAssumption DEF TypeOK, Refreshed, Stale

(***************************************************************************)
(* Dropping assignments keeps the table well-typed.                        *)
(***************************************************************************)
LEMMA WithoutIsTyped ==
    ASSUME TypeOK, NEW gone
    PROVE  Without(gone) \in [Member -> SUBSET Partition]
  BY Zenon DEF TypeOK, Without

(***************************************************************************)
(* Every step keeps the types.                                             *)
(***************************************************************************)
LEMMA TypeStep == TypeOK /\ [Next]_vars => TypeOK'
<1> SUFFICES ASSUME TypeOK, [Next]_vars PROVE TypeOK'
  BY Zenon
<1> USE GroupsAssumption
<1>0. 0 \in 0 .. Stale /\ 0 \in 0 .. MaxPartitions
  BY DEF Stale
<1>1. ASSUME NEW id \in Member, NEW wanted \in SUBSET Topic,
             Join(id, wanted)
      PROVE  TypeOK'
  <2> DEFINE gone == Evicted(members, id)
             present == (members \union {id}) \ gone
             subscribed == topics \union wanted
  <2>1. present \in SUBSET Member /\ subscribed \in SUBSET Topic
    BY Zenon DEF TypeOK
  <2>2. JoinEnter(id, wanted, gone)
    BY <1>1, Zenon DEF Join, JoinRebalance, JoinSkip, JoinFail
  <2>3. /\ registered' \in BOOLEAN /\ epoch' \in Nat
        /\ members' \in SUBSET Member /\ topics' \in SUBSET Topic
        /\ age' \in [Member -> 0 .. Stale]
        /\ partitions' \in [Topic -> 0 .. MaxPartitions]
        /\ committed' \in [Partition -> Offset \union {NoOffset}]
        /\ deleting' \in {"idle", "listing", "clearing"}
    BY <2>1, <2>2, RefreshedIsTyped DEF TypeOK, JoinEnter, storeVars
  <2>4. CASE JoinRebalance(id, wanted)
    <3>1. RebalanceLocked(present, subscribed)
      BY <2>4, Zenon DEF JoinRebalance
    <3>2. assignments' \in [Member -> SUBSET Partition]
      BY <3>1, <2>1, AssignIsTyped, Zenon DEF TypeOK, RebalanceLocked
    <3>3. generation' \in Nat
      BY <3>1 DEF TypeOK, RebalanceLocked
    <3>6. dirty' \in BOOLEAN
      BY <3>1, Zenon DEF RebalanceLocked
    <3>4. basis' \in [Topic -> 0 .. MaxPartitions]
      BY <3>1, <1>0, Zenon DEF TypeOK, RebalanceLocked
    <3>5. watchers' \in SUBSET Call /\ wait' \in [Call -> WaitState]
      BY <3>1, NotifyIsTyped, Zenon DEF RebalanceLocked
    <3> QED
      BY <2>3, <3>2, <3>3, <3>4, <3>5, <3>6, Zenon DEF TypeOK
  <2>5. CASE JoinSkip(id, wanted)
    BY <2>3, <2>5, Zenon DEF TypeOK, JoinSkip
  <2>6. CASE JoinFail(id, wanted)
    <3>1. watchers' \in SUBSET Call /\ wait' \in [Call -> WaitState]
      BY <2>6, NotifyIsTyped, Zenon DEF JoinFail, NotifyIf, TypeOK
    <3>2. /\ assignments' \in [Member -> SUBSET Partition]
          /\ dirty' \in BOOLEAN
          /\ generation' \in Nat
          /\ basis' \in [Topic -> 0 .. MaxPartitions]
      BY <2>6, WithoutIsTyped, Zenon DEF JoinFail, TypeOK
    <3> QED
      BY <2>3, <3>1, <3>2, Zenon DEF TypeOK
  <2> QED
    BY <1>1, <2>4, <2>5, <2>6, Zenon DEF Join
<1>2. ASSUME NEW id \in Member, NEW gone, HeartbeatLocked(id, gone),
             watchers' \in SUBSET Call, wait' \in [Call -> WaitState]
      PROVE  TypeOK'
  BY <1>2, RefreshedIsTyped, WithoutIsTyped, Zenon
     DEF TypeOK, HeartbeatLocked, storeVars
<1>3. ASSUME NEW id \in Member, Heartbeat(id)
      PROVE  TypeOK'
  <2>1. watchers' \in SUBSET Call /\ wait' \in [Call -> WaitState]
    BY <1>3, NotifyIsTyped, Zenon DEF Heartbeat, NotifyIf, TypeOK
  <2> QED
    BY <1>2, <1>3, <2>1, Zenon DEF Heartbeat
<1>4. ASSUME NEW c \in Call, NEW id \in Member, NEW gen \in 0 .. MaxGeneration,
             HeartbeatPark(c, id, gen)
      PROVE  TypeOK'
  <2>1. [state |-> "parked", member |-> id, gen |-> gen, epoch |-> epoch]
            \in WaitState
    BY DEF TypeOK, WaitState
  <2>2. watchers' \in SUBSET Call /\ wait' \in [Call -> WaitState]
    BY <1>4, <2>1, Zenon DEF HeartbeatPark, TypeOK
  <2> QED
    BY <1>2, <1>4, <2>2, Zenon DEF HeartbeatPark
<1>5. ASSUME NEW c \in Call, HeartbeatWake(c)
      PROVE  TypeOK'
  BY <1>5, IdleIsWaitState, Zenon DEF HeartbeatWake, TypeOK, groupVars, storeVars
<1>6. ASSUME NEW c \in Call, HeartbeatExpire(c)
      PROVE  TypeOK'
  BY <1>6, IdleIsWaitState, Zenon DEF HeartbeatExpire, TypeOK, storeVars
<1>7. ASSUME DropGroup, UNCHANGED <<partitions, committed>>,
             deleting' \in {"idle", "listing", "clearing"},
             watchers' \in SUBSET Call, wait' \in [Call -> WaitState]
      PROVE  TypeOK'
  BY <1>0, <1>7, Zenon DEF DropGroup, TypeOK
<1>8. ASSUME NEW id \in Member, Leave(id)
      PROVE  TypeOK'
  <2>1. watchers' \in SUBSET Call /\ wait' \in [Call -> WaitState]
    BY <1>8, NotifyIsTyped, Zenon DEF Leave
  <2>2. CASE members = {id}
    BY <1>7, <1>8, <2>1, <2>2, Zenon DEF Leave, storeVars, TypeOK
  <2>3. CASE members # {id}
    BY <1>8, <2>1, <2>3, RefreshedIsTyped, WithoutIsTyped, Zenon
       DEF Leave, TypeOK, storeVars
  <2> QED
    BY <2>2, <2>3, Zenon
<1>9. CASE Delete
  BY <1>7, <1>9, Zenon DEF Delete, TypeOK
<1>10. CASE DeleteLists \/ DeleteOffsets
  BY <1>10, Zenon DEF DeleteLists, DeleteOffsets, TypeOK, groupVars
<1>11. ASSUME NEW p \in Partition, NEW offset \in Offset, Commit(p, offset)
       PROVE  TypeOK'
  BY <1>11, Zenon DEF Commit, TypeOK, groupVars
<1>12. ASSUME NEW t \in Topic, NEW n \in 1 .. MaxPartitions, CreateTopic(t, n)
       PROVE  TypeOK'
  <2>1. n \in 0 .. MaxPartitions
    OBVIOUS
  <2> QED
    BY <1>12, <2>1, Zenon DEF CreateTopic, TypeOK, groupVars
<1>13. ASSUME NEW t \in Topic, DeleteTopic(t)
       PROVE  TypeOK'
  BY <1>0, <1>13, Zenon DEF DeleteTopic, TypeOK, groupVars
<1>14. CASE Tick
  <2>1. age' \in [Member -> 0 .. Stale]
    BY <1>14 DEF Tick, TypeOK, Stale
  <2> QED
    BY <1>14, <2>1, Zenon DEF Tick, TypeOK, storeVars
<1>15. CASE UNCHANGED vars
  BY <1>15, Zenon DEF TypeOK, vars, groupVars, storeVars
<1> QED
  BY Zenon, <1>1, <1>3, <1>4, <1>5, <1>6, <1>8, <1>9, <1>10, <1>11, <1>12, <1>13,
     <1>14, <1>15 DEF Next

(***************************************************************************)
(* The coordinator's fields keep their types, whatever the handlers do.    *)
(***************************************************************************)
THEOREM TypeCorrect == Spec => []TypeOK
<1>1. Init => TypeOK
  BY GroupsInvInit, Zenon DEF GroupsInv
<1> QED
  BY <1>1, TypeStep, PTL DEF Spec

-----------------------------------------------------------------------------
Ownership == OwnersAreMembers /\ ExclusiveOwnership

(***************************************************************************)
(* Taking assignments away leaves ownership exclusive and with members.    *)
(***************************************************************************)
LEMMA ShrinkKeepsOwnership ==
    ASSUME TypeOK, Ownership, NEW gone \in SUBSET Member,
           assignments' = Without(gone),
           members \ gone \subseteq members',
           registered' <=> members' # {}
    PROVE  Ownership'
<1>1. \A m \in Member : assignments'[m] =
                            IF m \in gone THEN {} ELSE assignments[m]
  BY Zenon DEF Without
<1> QED
  BY <1>1, Zenon DEF Ownership, OwnersAreMembers, ExclusiveOwnership

(***************************************************************************)
(* Every step keeps ownership exclusive and with the members.  Only a      *)
(* successful rebalance hands partitions out; it replaces the whole table  *)
(* by the strategy's result.                                               *)
(***************************************************************************)
LEMMA OwnershipStep == TypeOK /\ Ownership /\ [Next]_vars => Ownership'
<1> SUFFICES ASSUME TypeOK, Ownership, [Next]_vars PROVE Ownership'
  BY Zenon
<1>0. ASSUME UNCHANGED <<registered, members, assignments>>
      PROVE  Ownership'
  BY <1>0, Zenon DEF Ownership, OwnersAreMembers, ExclusiveOwnership
<1>1. ASSUME NEW id \in Member, NEW wanted \in SUBSET Topic,
             Join(id, wanted)
      PROVE  Ownership'
  <2> DEFINE gone == Evicted(members, id)
             present == (members \union {id}) \ gone
             subscribed == topics \union wanted
  <2>1. JoinEnter(id, wanted, gone)
    BY <1>1, Zenon DEF Join, JoinRebalance, JoinSkip, JoinFail
  <2>2. members' = present /\ registered' = TRUE
    BY <2>1, Zenon DEF JoinEnter
  <2>3. id \in present /\ gone \in SUBSET Member
    BY Zenon DEF Evicted, TypeOK
  <2>4. CASE JoinRebalance(id, wanted)
    <3>1. assignments' =
            Assign(Strategy, Member, present, subscribed, partitions)
      BY <2>4, Zenon DEF JoinRebalance, RebalanceLocked
    <3>2. /\ present \in SUBSET Member /\ subscribed \in SUBSET Topic
          /\ partitions \in [Topic -> 0 .. MaxPartitions]
          /\ \A t \in subscribed : partitions[t] \in Nat
      <4>1. present \in SUBSET Member /\ subscribed \in SUBSET Topic
        BY Zenon DEF TypeOK
      <4>2. partitions \in [Topic -> 0 .. MaxPartitions]
        BY Zenon DEF TypeOK
      <4> HIDE DEF present, subscribed
      <4> QED
        BY <4>1, <4>2, GroupsAssumption
    <3>3. present \subseteq Int /\ IsFiniteSet(present)
      BY <3>2, GroupsAssumption, FS_Subset, Zenon
    <3>4. \A m \in Member \ present : assignments'[m] = {}
      BY <3>1, <3>2, AssignIsTyped, Zenon
    <3>5. ASSUME NEW a \in Member, NEW b \in Member, a # b
          PROVE  assignments'[a] \intersect assignments'[b] = {}
      BY <3>1, <3>2, <3>3, <3>5, AssignIsExclusive, Zenon
    <3> QED
      BY <2>2, <2>3, <3>4, <3>5, Zenon
         DEF Ownership, OwnersAreMembers, ExclusiveOwnership
  <2>5. CASE JoinSkip(id, wanted)
    <3>1. gone = {} /\ id \in members /\ UNCHANGED assignments
      BY <2>5, Zenon DEF JoinSkip, SkipsRebalance
    <3> HIDE DEF gone
    <3> QED
      BY <2>2, <3>1, Zenon DEF Ownership, OwnersAreMembers, ExclusiveOwnership
  <2>6. CASE JoinFail(id, wanted)
    <3>1. assignments' = Without(gone)
      BY <2>6, Zenon DEF JoinFail
    <3> QED
      BY <2>2, <2>3, <3>1, ShrinkKeepsOwnership, Zenon
  <2> QED
    BY <1>1, <2>4, <2>5, <2>6, Zenon DEF Join
<1>2. ASSUME NEW id \in Member, NEW gone \in SUBSET Member, id \notin gone,
             HeartbeatLocked(id, gone)
      PROVE  Ownership'
  <2>1. /\ assignments' = Without(gone)
        /\ members' = members \ gone
        /\ registered' /\ id \in members'
    BY <1>2, Zenon DEF HeartbeatLocked
  <2> QED
    BY <2>1, ShrinkKeepsOwnership, Zenon
<1>3. ASSUME NEW id \in Member, Heartbeat(id)
      PROVE  Ownership'
  <2>1. Evicted(members, id) \in SUBSET Member /\ id \notin Evicted(members, id)
    BY Zenon DEF Evicted, TypeOK
  <2> QED
    BY <1>2, <1>3, <2>1, Zenon DEF Heartbeat
<1>4. ASSUME NEW c \in Call, NEW id \in Member, NEW gen \in 0 .. MaxGeneration,
             HeartbeatPark(c, id, gen)
      PROVE  Ownership'
  BY <1>2, <1>4, Zenon DEF HeartbeatPark
<1>5. ASSUME DropGroup
      PROVE  Ownership'
  BY <1>5, Zenon DEF DropGroup, Ownership, OwnersAreMembers, ExclusiveOwnership
<1>6. ASSUME NEW id \in Member, Leave(id)
      PROVE  Ownership'
  <2>1. CASE members = {id}
    BY <1>5, <1>6, <2>1, Zenon DEF Leave
  <2>2. CASE members # {id}
    <3>1. /\ assignments' = Without({id})
          /\ members' = members \ {id}
          /\ registered' /\ members' # {}
      BY <1>6, <2>2, Zenon DEF Leave
    <3> QED
      BY <3>1, ShrinkKeepsOwnership, Zenon
  <2> QED
    BY <2>1, <2>2, Zenon
<1>7. CASE Delete
  BY <1>5, <1>7, Zenon DEF Delete
<1>8. ASSUME NEW c \in Call, HeartbeatWake(c) \/ HeartbeatExpire(c)
      PROVE  Ownership'
  BY <1>0, <1>8, Zenon DEF HeartbeatWake, HeartbeatExpire, groupVars
<1>9. CASE DeleteLists \/ DeleteOffsets \/ Tick \/ UNCHANGED vars
  BY <1>0, <1>9, Zenon DEF DeleteLists, DeleteOffsets, Tick, vars, groupVars
<1>10. ASSUME NEW p \in Partition, NEW offset \in Offset, Commit(p, offset)
       PROVE  Ownership'
  BY <1>0, <1>10, Zenon DEF Commit, groupVars
<1>11. ASSUME NEW t \in Topic, NEW n \in 1 .. MaxPartitions, CreateTopic(t, n)
       PROVE  Ownership'
  BY <1>0, <1>11, Zenon DEF CreateTopic, groupVars
<1>12. ASSUME NEW t \in Topic, DeleteTopic(t)
       PROVE  Ownership'
  BY <1>0, <1>12, Zenon DEF DeleteTopic, groupVars
<1> QED
  BY <1>1, <1>3, <1>4, <1>6, <1>7, <1>8, <1>9, <1>10, <1>11, <1>12, Zenon DEF Next

(***************************************************************************)
(* No partition ever has two owners, for any number of members and topics  *)
(* and any partition counts.                                               *)
(***************************************************************************)
THEOREM OwnershipIsExclusive == Spec => []ExclusiveOwnership
<1>1. Init => TypeOK /\ Ownership
  BY GroupsInvInit, Zenon DEF GroupsInv, Ownership
<1>2. TypeOK /\ Ownership /\ [Next]_vars => (TypeOK /\ Ownership)'
  BY TypeStep, OwnershipStep, Zenon
<1>3. Ownership => ExclusiveOwnership
  BY Zenon DEF Ownership
<1> QED
  BY <1>1, <1>2, <1>3, PTL DEF Spec

(***************************************************************************)
(* Only members own partitions, and a group is registered exactly as long  *)
(* as it has members.                                                      *)
(***************************************************************************)
THEOREM OwnershipIsWithMembers == Spec => []OwnersAreMembers
<1>1. Init => TypeOK /\ Ownership
  BY GroupsInvInit, Zenon DEF GroupsInv, Ownership
<1>2. TypeOK /\ Ownership /\ [Next]_vars => (TypeOK /\ Ownership)'
  BY TypeStep, OwnershipStep, Zenon
<1>3. Ownership => OwnersAreMembers
  BY Zenon DEF Ownership
<1> QED
  BY <1>1, <1>2, <1>3, PTL DEF Spec

-----------------------------------------------------------------------------
(***************************************************************************)
(* After notifyWatchersLocked nothing is listed and no call of the present *)
(* group object is parked unsignalled.                                     *)
(***************************************************************************)
LEMMA NotifyKeepsWatchers ==
    ASSUME GroupsInv, NotifyWatchers, epoch' \in Nat, epoch <= epoch',
           registered' /\ ~registered => epoch < epoch'
    PROVE  WatchersInv'
<1>1. watchers' = {}
  BY Zenon DEF NotifyWatchers
<1>2. \A c \in Call : /\ wait[c] \in WaitState
                      /\ wait[c].epoch \in Nat /\ wait[c].epoch <= epoch
  BY Zenon DEF GroupsInv, WatchersInv, TypeOK, WaitState
<1>3. \A c \in Call : /\ wait'[c].epoch = wait[c].epoch
                      /\ wait'[c].state = IF c \in watchers THEN "signalled"
                                          ELSE wait[c].state
  BY <1>2, Zenon DEF NotifyWatchers, WaitState
<1>4. epoch \in Nat
  BY Zenon DEF GroupsInv, TypeOK
<1>5. \A c \in Call : wait'[c].epoch <= epoch'
  BY <1>2, <1>3, <1>4
<1>6. ASSUME NEW c \in Call, wait'[c].state = "parked", registered',
             wait'[c].epoch = epoch'
      PROVE  FALSE
  <2>1. c \notin watchers /\ wait[c].state = "parked"
    BY <1>3, <1>6, Zenon
  <2>2. wait[c].epoch = epoch' /\ wait[c].epoch <= epoch
    BY <1>2, <1>3, <1>6, Zenon
  <2>3. epoch' = epoch /\ registered
    BY <1>2, <1>4, <1>6, <2>2
  <2> QED
    BY <2>1, <2>2, <2>3, Zenon DEF GroupsInv, WatchersInv
<1> QED
  BY <1>1, <1>5, <1>6, Zenon DEF WatchersInv

(***************************************************************************)
(* Every step keeps the bookkeeping of parked calls: what makes a member   *)
(* stale (a rebalance, an eviction, a Leave) also signals and unlists the  *)
(* calls, and Delete, which does not signal, drops the object itself.      *)
(***************************************************************************)
LEMMA WatchersStep == GroupsInv /\ [Next]_vars => WatchersInv'
<1> SUFFICES ASSUME GroupsInv, [Next]_vars PROVE WatchersInv'
  BY Zenon
<1>a. /\ epoch \in Nat /\ watchers \in SUBSET Call
      /\ wait \in [Call -> WaitState]
  BY Zenon DEF GroupsInv, TypeOK
<1>b. ASSUME UNCHANGED <<registered, epoch, generation, dirty, watchers, wait>>,
             members \subseteq members'
      PROVE  WatchersInv'
  BY <1>b, Zenon DEF GroupsInv, WatchersInv
<1>1. ASSUME NEW id \in Member, NEW wanted \in SUBSET Topic,
             Join(id, wanted)
      PROVE  WatchersInv'
  <2> DEFINE gone == Evicted(members, id)
  <2>1. JoinEnter(id, wanted, gone)
    BY <1>1, Zenon DEF Join, JoinRebalance, JoinSkip, JoinFail
  <2>2. /\ registered'
        /\ epoch' = IF registered THEN epoch ELSE epoch + 1
        /\ members' = (members \union {id}) \ gone
    BY <2>1, Zenon DEF JoinEnter
  <2>3. /\ epoch' \in Nat /\ epoch <= epoch'
        /\ registered' /\ ~registered => epoch < epoch'
    BY <1>a, <2>2
  <2>4. CASE JoinRebalance(id, wanted)
    BY <2>3, <2>4, NotifyKeepsWatchers, Zenon DEF JoinRebalance, RebalanceLocked
  <2>5. CASE JoinSkip(id, wanted)
    <3>1. /\ gone = {} /\ id \in members
          /\ UNCHANGED <<generation, dirty, watchers, wait>>
      BY <2>5, Zenon DEF JoinSkip, SkipsRebalance
    <3>2. registered
      BY <3>1, Zenon DEF GroupsInv, OwnersAreMembers
    <3> HIDE DEF gone
    <3> QED
      BY <1>b, <2>2, <3>1, <3>2, Zenon DEF GroupsInv, TypeOK
  <2>6. CASE JoinFail(id, wanted)
    <3>1. CASE gone # {}
      BY <2>3, <2>6, <3>1, NotifyKeepsWatchers, Zenon DEF JoinFail, NotifyIf
    <3>2. CASE gone = {}
      <4>1. /\ UNCHANGED <<generation, watchers, wait>>
            /\ dirty' = dirty /\ members \subseteq members'
        BY <2>2, <2>6, <3>2, Zenon DEF JoinFail, NotifyIf, GroupsInv, TypeOK
      <4>2. CASE registered
        BY <1>b, <2>2, <4>1, <4>2, Zenon DEF GroupsInv, TypeOK
      <4>3. CASE ~registered
        <5>1. epoch' = epoch + 1 /\ watchers = {}
          BY <2>2, <4>3, Zenon DEF GroupsInv, WatchersInv
        <5>2. \A c \in Call : wait[c].epoch \in Nat /\ wait[c].epoch <= epoch
          BY <1>a, Zenon DEF GroupsInv, WatchersInv, WaitState
        <5>3. \A c \in Call : wait'[c].epoch <= epoch' /\ wait'[c].epoch # epoch'
          BY <1>a, <4>1, <5>1, <5>2
        <5> QED
          BY <4>1, <5>1, <5>3, Zenon DEF WatchersInv
      <4> QED
        BY <4>2, <4>3, Zenon
    <3> QED
      BY <3>1, <3>2, Zenon
  <2> QED
    BY <1>1, <2>4, <2>5, <2>6, Zenon DEF Join
<1>2. ASSUME NEW id \in Member, Heartbeat(id)
      PROVE  WatchersInv'
  <2> DEFINE gone == Evicted(members, id)
  <2>1. /\ UNCHANGED <<registered, epoch, generation>>
        /\ dirty' = (dirty \/ gone # {})
        /\ members' = members \ gone
    BY <1>2, Zenon DEF Heartbeat, HeartbeatLocked
  <2>2. CASE gone # {}
    BY <1>2, <1>a, <2>1, <2>2, NotifyKeepsWatchers DEF Heartbeat, NotifyIf
  <2>3. CASE gone = {}
    BY <1>2, <1>b, <2>1, <2>3, Zenon DEF Heartbeat, NotifyIf, GroupsInv, TypeOK
  <2> QED
    BY <2>2, <2>3, Zenon
<1>3. ASSUME NEW c \in Call, NEW id \in Member, NEW gen \in 0 .. MaxGeneration,
             HeartbeatPark(c, id, gen)
      PROVE  WatchersInv'
  <2> DEFINE parked == [state |-> "parked", member |-> id, gen |-> gen,
                        epoch |-> epoch]
  <2>1. /\ UNCHANGED <<registered, epoch, generation>>
        /\ registered /\ id \in members /\ gen = generation /\ ~dirty /\ ~dirty'
        /\ members' = members
        /\ watchers' = watchers \union {c}
        /\ wait' = [wait EXCEPT ![c] = parked]
    BY <1>3, Zenon DEF HeartbeatPark, HeartbeatLocked, RebalanceNeeded
  <2>2. /\ wait'[c] = parked
        /\ \A d \in Call \ {c} : wait'[d] = wait[d]
    BY <1>a, <2>1, Zenon
  <2>3. /\ wait'[c].state = "parked" /\ wait'[c].member = id
        /\ wait'[c].gen = gen /\ wait'[c].epoch = epoch
    <3>1. /\ parked.state = "parked" /\ parked.member = id
          /\ parked.gen = gen /\ parked.epoch = epoch
      BY Zenon
    <3>2. wait'[c] = parked
      BY <2>2, Zenon
    <3> HIDE DEF parked
    <3> QED
      BY <3>1, <3>2, Zenon
  <2> QED
    BY <1>a, <2>1, <2>2, <2>3 DEF GroupsInv, WatchersInv
<1>4. ASSUME NEW c \in Call, HeartbeatWake(c) \/ HeartbeatExpire(c)
      PROVE  WatchersInv'
  <2>1. /\ UNCHANGED <<registered, epoch, generation, dirty, members>>
        /\ wait' = [wait EXCEPT ![c] = Idle]
        /\ watchers' \subseteq watchers /\ watchers \ {c} \subseteq watchers'
        /\ c \notin watchers'
    <3>1. CASE HeartbeatWake(c)
      BY <3>1, Zenon DEF HeartbeatWake, groupVars, GroupsInv, WatchersInv
    <3>2. CASE HeartbeatExpire(c)
      BY <3>2, Zenon DEF HeartbeatExpire
    <3> QED
      BY <1>4, <3>1, <3>2, Zenon
  <2>2. /\ wait'[c] = Idle
        /\ \A d \in Call \ {c} : wait'[d] = wait[d]
    BY <1>a, <2>1, Zenon
  <2>3. wait'[c].state = "idle" /\ wait'[c].epoch = 0 /\ 0 <= epoch
    BY <1>a, <2>2 DEF Idle
  <2> QED
    BY <1>a, <2>1, <2>2, <2>3, Zenon DEF GroupsInv, WatchersInv
<1>5. ASSUME NEW id \in Member, Leave(id)
      PROVE  WatchersInv'
  <2>1. NotifyWatchers /\ epoch' = epoch /\ (registered' => registered)
    BY <1>5, Zenon DEF Leave, DropGroup
  <2> QED
    BY <1>a, <2>1, NotifyKeepsWatchers
<1>6. CASE Delete
  BY <1>6, Zenon DEF Delete, DropGroup, GroupsInv, WatchersInv
<1>7. CASE DeleteLists \/ DeleteOffsets \/ Tick \/ UNCHANGED vars
  BY <1>b, <1>7, Zenon DEF DeleteLists, DeleteOffsets, Tick, vars, groupVars
<1>8. ASSUME NEW p \in Partition, NEW offset \in Offset, Commit(p, offset)
      PROVE  WatchersInv'
  BY <1>b, <1>8, Zenon DEF Commit, groupVars
<1>9. ASSUME NEW t \in Topic, NEW n \in 1 .. MaxPartitions, CreateTopic(t, n)
      PROVE  WatchersInv'
  BY <1>b, <1>9, Zenon DEF CreateTopic, groupVars
<1>10. ASSUME NEW t \in Topic, DeleteTopic(t)
       PROVE  WatchersInv'
  BY <1>b, <1>10, Zenon DEF DeleteTopic, groupVars
<1> QED
  BY <1>1, <1>2, <1>3, <1>4, <1>5, <1>6, <1>7, <1>8, <1>9, <1>10, Zenon DEF Next

(***************************************************************************)
(* A parked HeartbeatWait that has not been signalled is never behind: its *)
(* member belongs to the group, at the current generation, and no          *)
(* rebalance is due.                                                       *)
(***************************************************************************)
THEOREM WakeupsAreNotLost == Spec => []NoLostWakeup
<1>1. Init => GroupsInv
  BY GroupsInvInit, Zenon
<1>2. GroupsInv /\ [Next]_vars => GroupsInv'
  BY TypeStep, OwnershipStep, WatchersStep, Zenon DEF GroupsInv, Ownership
<1>3. GroupsInv => NoLostWakeup
  BY Zenon DEF GroupsInv, WatchersInv, NoLostWakeup
<1> QED
  BY <1>1, <1>2, <1>3, PTL DEF Spec

-----------------------------------------------------------------------------
(***************************************************************************)
(* Unless the group is marked dirty, the owned partitions are the ones the *)
(* last rebalance divided up (none before the first).                      *)
(***************************************************************************)
CoverageInv ==
    ~dirty => UNION {assignments[m] : m \in Member}
                = AllPartitions(Topic, basis)

(***************************************************************************)
(* A fresh coordinator has nothing to cover.                               *)
(***************************************************************************)
LEMMA CoverageInit == Init => CoverageInv
  BY GroupsAssumption DEF Init, CoverageInv, AllPartitions

(***************************************************************************)
(* Whatever takes partitions from an owner marks the group dirty, and      *)
(* only a rebalance, which hands out everything, clears the mark.          *)
(***************************************************************************)
LEMMA CoverageStep == TypeOK /\ CoverageInv /\ [Next]_vars => CoverageInv'
<1> SUFFICES ASSUME TypeOK, CoverageInv, [Next]_vars PROVE CoverageInv'
  BY Zenon
<1>a. ASSUME UNCHANGED <<dirty, assignments, basis>> PROVE CoverageInv'
  BY <1>a, Zenon DEF CoverageInv
<1>b. ASSUME DropGroup PROVE CoverageInv'
  BY <1>b DEF DropGroup, CoverageInv, AllPartitions
<1>c. ASSUME NEW gone, assignments' = Without(gone), basis' = basis,
             dirty' = (dirty \/ gone # {})
      PROVE  CoverageInv'
  <2>1. CASE gone = {}
    <3>1. \A m \in Member : assignments'[m] = assignments[m]
      BY <1>c, <2>1, Zenon DEF Without
    <3>2. dirty' = dirty
      BY <1>c, <2>1, Zenon DEF TypeOK
    <3> QED
      BY <1>c, <3>1, <3>2, Zenon DEF CoverageInv
  <2>2. CASE gone # {}
    BY <1>c, <2>2, Zenon DEF CoverageInv
  <2> QED
    BY <2>1, <2>2, Zenon
<1>1. ASSUME NEW id \in Member, NEW wanted \in SUBSET Topic,
             JoinRebalance(id, wanted)
      PROVE  CoverageInv'
  <2> DEFINE present == (members \union {id}) \ Evicted(members, id)
             subscribed == topics \union wanted
  <2>1. /\ assignments' =
             Assign(Strategy, Member, present, subscribed, partitions)
        /\ basis' = [t \in Topic |-> IF t \in subscribed
                                     THEN partitions[t] ELSE 0]
    BY <1>1, Zenon DEF JoinRebalance, RebalanceLocked
  <2>2. /\ present \in SUBSET Member /\ subscribed \in SUBSET Topic
        /\ partitions \in [Topic -> 0 .. MaxPartitions]
        /\ present # {}
    BY Zenon DEF TypeOK, Evicted
  <2> HIDE DEF present, subscribed
  <2>3. \A t \in subscribed : partitions[t] \in Nat
    BY <2>2, GroupsAssumption
  <2>4. present \subseteq Int /\ IsFiniteSet(present)
    BY <2>2, GroupsAssumption, FS_Subset, Zenon
  <2>5. AllPartitions(Topic, basis') = AllPartitions(subscribed, partitions)
    <3>1. \A t \in Topic \ subscribed : 0 .. basis'[t] - 1 = {}
      BY <2>1
    <3>2. \A t \in subscribed : basis'[t] = partitions[t]
      BY <2>1, <2>2, Zenon
    <3> QED
      BY <2>2, <3>1, <3>2 DEF AllPartitions
  <2>6. \A m \in Member : assignments'[m] \subseteq
                            AllPartitions(subscribed, partitions)
    BY <2>1, Zenon DEF Assign
  <2>7. \A p \in AllPartitions(subscribed, partitions) :
            \E m \in present : p \in assignments'[m]
    BY <2>1, <2>2, <2>3, <2>4, AssignIsComplete, Zenon
  <2> QED
    BY <2>2, <2>5, <2>6, <2>7, Zenon DEF CoverageInv
<1>2. ASSUME NEW id \in Member, NEW wanted \in SUBSET Topic,
             Join(id, wanted)
      PROVE  CoverageInv'
  <2>1. CASE JoinSkip(id, wanted)
    BY <1>a, <2>1, Zenon DEF JoinSkip
  <2>2. CASE JoinFail(id, wanted)
    BY <1>c, <2>2, Zenon DEF JoinFail
  <2> QED
    BY <1>1, <1>2, <2>1, <2>2, Zenon DEF Join
<1>3. ASSUME NEW id \in Member, Heartbeat(id)
      PROVE  CoverageInv'
  BY <1>c, <1>3, Zenon DEF Heartbeat, HeartbeatLocked
<1>4. ASSUME NEW c \in Call, NEW id \in Member, NEW gen \in 0 .. MaxGeneration,
             HeartbeatPark(c, id, gen)
      PROVE  CoverageInv'
  BY <1>c, <1>4, Zenon DEF HeartbeatPark, HeartbeatLocked
<1>5. ASSUME NEW c \in Call, HeartbeatWake(c) \/ HeartbeatExpire(c)
      PROVE  CoverageInv'
  BY <1>a, <1>5, Zenon DEF HeartbeatWake, HeartbeatExpire, groupVars
<1>6. ASSUME NEW id \in Member, Leave(id)
      PROVE  CoverageInv'
  <2>1. CASE members = {id}
    BY <1>b, <1>6, <2>1, Zenon DEF Leave
  <2>2. CASE members # {id}
    BY <1>6, <2>2, Zenon DEF Leave, CoverageInv
  <2> QED
    BY <2>1, <2>2, Zenon
<1>7. CASE Delete
  BY <1>b, <1>7, Zenon DEF Delete
<1>8. CASE DeleteLists \/ DeleteOffsets \/ Tick \/ UNCHANGED vars
  BY <1>a, <1>8, Zenon DEF DeleteLists, DeleteOffsets, Tick, vars, groupVars
<1>9. ASSUME NEW p \in Partition, NEW offset \in Offset, Commit(p, offset)
      PROVE  CoverageInv'
  BY <1>a, <1>9, Zenon DEF Commit, groupVars
<1>10. ASSUME NEW t \in Topic, NEW n \in 1 .. MaxPartitions, CreateTopic(t, n)
       PROVE  CoverageInv'
  BY <1>a, <1>10, Zenon DEF CreateTopic, groupVars
<1>11. ASSUME NEW t \in Topic, DeleteTopic(t)
       PROVE  CoverageInv'
  BY <1>a, <1>11, Zenon DEF DeleteTopic, groupVars
<1> QED
  BY <1>2, <1>3, <1>4, <1>5, <1>6, <1>7, <1>8, <1>9, <1>10, <1>11, Zenon DEF Next

(***************************************************************************)
(* As long as no rebalance is due, the members own together every          *)
(* partition the last rebalance divided up, for both strategies and any    *)
(* number of members and partitions.                                       *)
(***************************************************************************)
THEOREM CoverageIsFull == Spec => []FullCoverage
<1> DEFINE Inv == TypeOK /\ Ownership /\ CoverageInv
<1>1. Init => Inv
  BY GroupsInvInit, CoverageInit, Zenon DEF GroupsInv, Ownership
<1>2. Inv /\ [Next]_vars => Inv'
  BY TypeStep, OwnershipStep, CoverageStep, Zenon
<1>3. Inv => FullCoverage
  <2> SUFFICES ASSUME TypeOK, OwnersAreMembers, CoverageInv, ~dirty
               PROVE  UNION {assignments[m] : m \in members}
                        = AllPartitions(Topic, basis)
    BY Zenon DEF FullCoverage, Ownership
  <2>1. members \subseteq Member
    BY Zenon DEF TypeOK
  <2> QED
    BY <2>1, Zenon DEF OwnersAreMembers, CoverageInv
<1> QED
  BY <1>1, <1>2, <1>3, PTL DEF Spec

-----------------------------------------------------------------------------
(***************************************************************************)
(* Without a new generation an assignment can only shrink, and within the  *)
(* life of a group object the generation never falls.                      *)
(***************************************************************************)
THEOREM GrantsNeedGeneration == Spec => NoGrantWithoutGeneration
<1> DEFINE Grant == registered /\ registered' =>
                        /\ generation' >= generation
                        /\ generation' = generation =>
                            \A m \in Member :
                                assignments'[m] \subseteq assignments[m]
<1>1. TypeOK /\ [Next]_vars => [Grant]_vars
  <2> SUFFICES ASSUME TypeOK, [Next]_vars, registered, registered'
               PROVE  /\ generation' >= generation
                      /\ generation' = generation =>
                            \A m \in Member :
                                assignments'[m] \subseteq assignments[m]
    BY Zenon
  <2> DEFINE Goal == /\ generation' >= generation
                     /\ generation' = generation =>
                            \A m \in Member :
                                assignments'[m] \subseteq assignments[m]
  <2>1. generation \in Nat
    BY Zenon DEF TypeOK
  <2>2. ASSUME UNCHANGED <<generation, assignments>>
        PROVE  Goal
    BY <2>1, <2>2
  <2>3. ASSUME NEW gone, assignments' = Without(gone), generation' = generation
        PROVE  Goal
    BY <2>1, <2>3 DEF Without
  <2>4. ASSUME NEW id \in Member, NEW wanted \in SUBSET Topic, Join(id, wanted)
        PROVE  Goal
    <3>1. CASE JoinRebalance(id, wanted)
      BY <2>1, <3>1 DEF JoinRebalance, RebalanceLocked
    <3>2. CASE JoinSkip(id, wanted)
      BY <2>2, <3>2, Zenon DEF JoinSkip
    <3>3. CASE JoinFail(id, wanted)
      BY <2>3, <3>3, Zenon DEF JoinFail
    <3> QED
      BY <2>4, <3>1, <3>2, <3>3, Zenon DEF Join
  <2>5. ASSUME NEW id \in Member, Heartbeat(id) PROVE Goal
    BY <2>3, <2>5, Zenon DEF Heartbeat, HeartbeatLocked
  <2>6. ASSUME NEW c \in Call, NEW id \in Member,
               NEW gen \in 0 .. MaxGeneration, HeartbeatPark(c, id, gen)
        PROVE  Goal
    BY <2>3, <2>6, Zenon DEF HeartbeatPark, HeartbeatLocked
  <2>7. ASSUME NEW c \in Call, HeartbeatWake(c) \/ HeartbeatExpire(c)
        PROVE  Goal
    BY <2>2, <2>7, Zenon DEF HeartbeatWake, HeartbeatExpire, groupVars
  <2>8. ASSUME NEW id \in Member, Leave(id) PROVE Goal
    BY <2>3, <2>8, Zenon DEF Leave, DropGroup
  <2>9. CASE Delete
    BY <2>9, Zenon DEF Delete, DropGroup
  <2>10. CASE DeleteLists \/ DeleteOffsets \/ Tick \/ UNCHANGED vars
    BY <2>2, <2>10, Zenon DEF DeleteLists, DeleteOffsets, Tick, vars, groupVars
  <2>11. ASSUME NEW p \in Partition, NEW offset \in Offset, Commit(p, offset)
         PROVE  Goal
    BY <2>2, <2>11, Zenon DEF Commit, groupVars
  <2>12. ASSUME NEW t \in Topic, NEW n \in 1 .. MaxPartitions,
                CreateTopic(t, n)
         PROVE  Goal
    BY <2>2, <2>12, Zenon DEF CreateTopic, groupVars
  <2>13. ASSUME NEW t \in Topic, DeleteTopic(t) PROVE Goal
    BY <2>2, <2>13, Zenon DEF DeleteTopic, groupVars
  <2> QED
    BY <2>4, <2>5, <2>6, <2>7, <2>8, <2>9, <2>10, <2>11, <2>12, <2>13, Zenon DEF Next
<1> QED
  BY <1>1, TypeCorrect, PTL DEF Spec, NoGrantWithoutGeneration

-----------------------------------------------------------------------------
(***************************************************************************)
(* A ticket is what a JoinGroup answer grants: a share of the partitions   *)
(* under a generation of a group object.  A consumer holds the one it      *)
(* works under and perhaps the one that is on its way to it.               *)
(***************************************************************************)
Ticket(r) == [gen |-> r.gen, epoch |-> r.epoch, assigned |-> r.assigned]

Tickets(m) == {session[m], Ticket(reply[m])}

AnyTicket == [gen : Nat, epoch : Nat, assigned : SUBSET Partition]

SameRound(t, u) == t.epoch = u.epoch /\ t.gen = u.gen

(***************************************************************************)
(* The ticket is of the group object in the map and of its generation.     *)
(***************************************************************************)
Current(t) == registered /\ t.epoch = epoch /\ t.gen = generation

(***************************************************************************)
(* No ticket is from the future, so a rebalance or a new group object      *)
(* starts a round of which nobody holds a ticket yet.                      *)
(***************************************************************************)
TicketsAreIssued ==
    \A m \in Member : \A t \in Tickets(m) :
        /\ t.epoch <= epoch
        /\ registered /\ t.epoch = epoch => t.gen <= generation

(***************************************************************************)
(* What a current ticket grants, nobody else has down in the coordinator's *)
(* table, and unless the group is dirty the table has its holder down for  *)
(* just that.                                                              *)
(***************************************************************************)
TicketsMatchTable ==
    \A m \in Member : \A t \in Tickets(m) : Current(t) =>
        /\ \A other \in Member \ {m} : t.assigned \intersect assignments[other] = {}
        /\ ~dirty => t.assigned = assignments[m]

(***************************************************************************)
(* Two tickets of one round grant different partitions.                    *)
(***************************************************************************)
TicketsAreDisjoint ==
    \A m1, m2 \in Member : \A t1 \in Tickets(m1), t2 \in Tickets(m2) :
        m1 # m2 /\ SameRound(t1, t2) => t1.assigned \intersect t2.assigned = {}

(***************************************************************************)
(* Group objects are numbered from 1, and the bound on rebalances holds.   *)
(***************************************************************************)
RoundsAreCounted ==
    /\ registered => epoch > 0
    /\ generation <= MaxGeneration

TicketsInv ==
    /\ TypeOK /\ Ownership
    /\ ClientTypeOK
    /\ RoundsAreCounted
    /\ TicketsAreIssued
    /\ TicketsMatchTable
    /\ TicketsAreDisjoint

-----------------------------------------------------------------------------
(***************************************************************************)
(* What any step of the coordinator does to the rounds.  A group object    *)
(* stays the same only while it is in the map; then its generation does    *)
(* not fall, and within a generation shares only shrink, and only with the *)
(* group marked dirty.                                                     *)
(***************************************************************************)
RoundStep ==
    /\ epoch <= epoch'
    /\ registered' /\ epoch' = epoch =>
        /\ registered
        /\ generation <= generation'
        /\ generation' = generation =>
            /\ \A m \in Member : assignments'[m] \subseteq assignments[m]
            /\ ~dirty' => \A m \in Member : assignments'[m] = assignments[m]
            /\ ~dirty' => ~dirty

(***************************************************************************)
(* Every handler of the coordinator obeys it.                              *)
(***************************************************************************)
LEMMA CoordinatorRounds ==
    ASSUME TypeOK, RoundsAreCounted, [Next]_vars
    PROVE  RoundStep /\ RoundsAreCounted'
<1> DEFINE Goal == RoundStep /\ RoundsAreCounted'
<1>0. /\ epoch \in Nat /\ generation \in Nat /\ dirty \in BOOLEAN
      /\ MaxGeneration \in Nat
      /\ assignments \in [Member -> SUBSET Partition]
      /\ epoch + 1 > epoch
  BY GroupsAssumption DEF TypeOK
<1>1. ASSUME UNCHANGED <<registered, epoch, generation, assignments, dirty>>
      PROVE  Goal
  BY <1>0, <1>1 DEF RoundStep, RoundsAreCounted
<1>2. ASSUME NEW gone, assignments' = Without(gone),
             UNCHANGED <<registered, epoch, generation>>,
             dirty' = (dirty \/ gone # {})
      PROVE  Goal
  <2>1. \A m \in Member : assignments'[m] = IF m \in gone THEN {}
                                            ELSE assignments[m]
    BY <1>2, Zenon DEF Without
  <2>2. ~dirty' => gone = {} /\ ~dirty
    BY <1>2, Zenon
  <2> QED
    BY <1>0, <1>2, <2>1, <2>2 DEF RoundStep, RoundsAreCounted
<1>3. ASSUME DropGroup PROVE Goal
  BY <1>0, <1>3 DEF DropGroup, RoundStep, RoundsAreCounted
<1>4. ASSUME NEW id \in Member, NEW wanted \in SUBSET Topic, Join(id, wanted)
      PROVE  Goal
  <2>1. /\ registered' = TRUE
        /\ epoch' = IF registered THEN epoch ELSE epoch + 1
    BY <1>4, Zenon DEF Join, JoinRebalance, JoinSkip, JoinFail, JoinEnter
  <2>2. CASE ~registered
    <3>1. epoch' = epoch + 1 /\ epoch' # epoch /\ epoch' > 0
      BY <1>0, <2>1, <2>2
    <3>2. generation' <= MaxGeneration
      BY <1>0, <1>4 DEF Join, JoinRebalance, JoinSkip, JoinFail,
                        RebalanceLocked, RoundsAreCounted
    <3> QED
      BY <1>0, <3>1, <3>2 DEF RoundStep, RoundsAreCounted
  <2>3. CASE registered
    <3>0. UNCHANGED <<registered, epoch>> /\ epoch > 0
      BY <2>1, <2>3, Zenon DEF TypeOK, RoundsAreCounted
    <3>1. CASE JoinRebalance(id, wanted)
      <4>1. generation' = generation + 1 /\ generation < MaxGeneration
        BY <3>1, Zenon DEF JoinRebalance, RebalanceLocked
      <4> QED
        BY <1>0, <2>3, <3>0, <4>1 DEF RoundStep, RoundsAreCounted
    <3>2. CASE JoinSkip(id, wanted)
      BY <1>1, <3>0, <3>2, Zenon DEF JoinSkip
    <3>3. CASE JoinFail(id, wanted)
      BY <1>2, <3>0, <3>3, Zenon DEF JoinFail
    <3> QED
      BY <1>4, <3>1, <3>2, <3>3, Zenon DEF Join
  <2> QED
    BY <2>2, <2>3, Zenon
<1>5. ASSUME NEW id \in Member, Heartbeat(id) PROVE Goal
  BY <1>2, <1>5, Zenon DEF Heartbeat, HeartbeatLocked
<1>6. ASSUME NEW c \in Call, NEW id \in Member,
             NEW gen \in 0 .. MaxGeneration, HeartbeatPark(c, id, gen)
      PROVE  Goal
  BY <1>2, <1>6, Zenon DEF HeartbeatPark, HeartbeatLocked
<1>7. ASSUME NEW c \in Call, HeartbeatWake(c) \/ HeartbeatExpire(c)
      PROVE  Goal
  BY <1>1, <1>7, Zenon DEF HeartbeatWake, HeartbeatExpire, groupVars
<1>8. ASSUME NEW id \in Member, Leave(id) PROVE Goal
  <2>1. CASE members = {id}
    BY <1>3, <1>8, <2>1, Zenon DEF Leave
  <2>2. CASE members # {id}
    <3>1. /\ assignments' = Without({id}) /\ dirty' = TRUE
          /\ UNCHANGED <<registered, epoch, generation>>
      BY <1>8, <2>2, Zenon DEF Leave
    <3> QED
      BY <1>2, <3>1, Zenon
  <2> QED
    BY <2>1, <2>2, Zenon
<1>9. CASE Delete
  BY <1>3, <1>9, Zenon DEF Delete
<1>10. CASE DeleteLists \/ DeleteOffsets \/ Tick \/ UNCHANGED vars
  BY <1>1, <1>10, Zenon DEF DeleteLists, DeleteOffsets, Tick, vars, groupVars
<1>11. ASSUME NEW p \in Partition, NEW offset \in Offset, Commit(p, offset)
       PROVE  Goal
  BY <1>1, <1>11, Zenon DEF Commit, groupVars
<1>12. ASSUME NEW t \in Topic, NEW n \in 1 .. MaxPartitions, CreateTopic(t, n)
       PROVE  Goal
  BY <1>1, <1>12, Zenon DEF CreateTopic, groupVars
<1>13. ASSUME NEW t \in Topic, DeleteTopic(t) PROVE Goal
  BY <1>1, <1>13, Zenon DEF DeleteTopic, groupVars
<1> QED
  BY <1>4, <1>5, <1>6, <1>7, <1>8, <1>9, <1>10, <1>11, <1>12, <1>13, Zenon DEF Next

-----------------------------------------------------------------------------
(***************************************************************************)
(* Every step of the composition is a step of the coordinator or leaves it *)
(* alone.                                                                  *)
(***************************************************************************)
LEMMA CompositionTakesGroupSteps ==
    ASSUME TypeOK, RoundsAreCounted, [GroupNext]_allVars
    PROVE  [Next]_vars
<1>0. Call = Member /\ Topic \in SUBSET Topic
  BY ConsumerGroupAssumption, Zenon
<1>1. ASSUME NEW m \in Member, CallJoin(m) PROVE Next
  BY <1>0, <1>1, Zenon DEF CallJoin, Join, Next
<1>2. CASE Membership
  <2>1. ASSUME NEW m \in Member, Subscribe(m) PROVE Next
    BY <1>1, <2>1, Zenon DEF Subscribe
  <2>2. ASSUME NEW m \in Member, Close(m) PROVE [Next]_vars
    BY <1>0, <2>2, Zenon DEF Close, Next
  <2>3. ASSUME NEW m \in Member, Crash(m) PROVE [Next]_vars
    BY <2>3, Zenon DEF Crash
  <2> QED
    BY <1>2, <2>1, <2>2, <2>3, Zenon DEF Membership
<1>3. CASE Operator
  BY <1>3, Zenon DEF Operator, Next
<1>4. ASSUME NEW m \in Member, ClientStep(m) PROVE [Next]_vars
  <2>1. CASE Rejoin(m)
    BY <1>1, <2>1, Zenon DEF Rejoin
  <2>2. CASE JoinAnswered(m) \/ JoinErrored(m)
    BY <2>2, Zenon DEF JoinAnswered, JoinErrored
  <2>3. CASE BeatStale(m)
    BY <2>3, Zenon DEF BeatStale, Next
  <2>4. CASE BeatParks(m)
    <3>1. HeartbeatPark(m, m, session[m].gen)
      BY <2>4, Zenon DEF BeatParks
    <3>2. session[m].gen \in 0 .. MaxGeneration
      BY <3>1, GroupsAssumption
         DEF HeartbeatPark, RebalanceNeeded, TypeOK, RoundsAreCounted
    <3> QED
      BY <1>0, <3>1, <3>2, Zenon DEF Next
  <2>5. CASE BeatWoken(m) \/ BeatTimesOut(m) \/ ConnectionDropped(m)
    BY <1>0, <2>5, Zenon DEF BeatWoken, BeatTimesOut, ConnectionDropped, Next
  <2>6. CASE LeaveGroup(m)
    BY <2>6, Zenon DEF LeaveGroup, Next
  <2> QED
    BY <1>4, <2>1, <2>2, <2>3, <2>4, <2>5, <2>6, Zenon DEF ClientStep
<1>5. ASSUME NEW m \in Member, NEW p \in Partition, NEW offset \in Offset,
             CommitPosition(m, p, offset)
      PROVE  Next
  BY <1>5, Zenon DEF CommitPosition, Next
<1>6. CASE \/ (DeleteLists \/ DeleteOffsets) /\ UNCHANGED clientVars
           \/ Tick /\ UNCHANGED clientVars
  BY <1>6, Zenon DEF Next
<1>7. CASE UNCHANGED allVars
  BY <1>7, Zenon DEF allVars
<1> QED
  BY <1>2, <1>3, <1>4, <1>5, <1>6, <1>7, Zenon DEF GroupNext

-----------------------------------------------------------------------------
(***************************************************************************)
(* What a step does to the consumers' side: types are kept, and a ticket   *)
(* anybody holds afterwards is one they held before, none, or the one the  *)
(* coordinator's table has for them after the step.                        *)
(***************************************************************************)
Issued(m) == [gen |-> generation', epoch |-> epoch', assigned |-> assignments'[m]]

TicketStep ==
    \A m \in Member : \A t \in {session'[m], Ticket(reply'[m])} :
        t \in Tickets(m) \/ t = NoSession \/ (registered' /\ t = Issued(m))

(***************************************************************************)
(* The empty session is what the empty answer would grant.                 *)
(***************************************************************************)
LEMMA NoReplyGrantsNothing == Ticket(NoReply) = NoSession
  BY Zenon DEF Ticket, NoReply, NoSession

(***************************************************************************)
(* A step that changes at most one consumer's tickets.                     *)
(***************************************************************************)
LEMMA OneHolderChanges ==
    ASSUME ClientTypeOK, NEW m \in Member,
           NEW s, s \in Tickets(m) \union {NoSession},
           NEW r, \/ Ticket(r) \in Tickets(m) \union {NoSession}
                  \/ registered' /\ Ticket(r) = Issued(m),
           session' = [session EXCEPT ![m] = s] \/ session' = session,
           reply' = [reply EXCEPT ![m] = r] \/ reply' = reply
    PROVE  TicketStep
<1>1. /\ session \in [Member -> AnyTicket]
      /\ reply = [x \in Member |-> reply[x]]
  BY Zenon DEF ClientTypeOK, AnyTicket
<1>2. ASSUME NEW x \in Member, NEW t \in {session'[x], Ticket(reply'[x])}
      PROVE  t \in Tickets(x) \/ t = NoSession \/ (registered' /\ t = Issued(x))
  <2>1. CASE t = session'[x]
    BY <1>1, <2>1, Zenon DEF Tickets
  <2>2. CASE t = Ticket(reply'[x])
    <3>1. reply'[x] = reply[x] \/ (x = m /\ reply'[x] = r)
      BY <1>1, Zenon
    <3> QED
      BY <2>2, <3>1, Zenon DEF Tickets
  <2> QED
    BY <1>2, <2>1, <2>2, Zenon
<1> QED
  BY <1>2, Zenon DEF TicketStep

(***************************************************************************)
(* Every step of a consumer obeys the rule: Subscribe and rejoin are the   *)
(* only ones that are issued a ticket, and the arrival of the answer moves *)
(* it from the wire to the session.                                        *)
(***************************************************************************)
LEMMA ConsumerSteps ==
    ASSUME TypeOK, TypeOK', ClientTypeOK, [GroupNext]_allVars
    PROVE  ClientTypeOK' /\ TicketStep
<1> DEFINE AnyReply == [ok : BOOLEAN, gen : Nat, epoch : Nat,
                        assigned : SUBSET Partition]
           Goal == ClientTypeOK' /\ TicketStep
<1>0. /\ phase \in [Member -> Phase] /\ session \in [Member -> AnyTicket]
      /\ reply \in [Member -> AnyReply] /\ churn \in 0 .. MaxChurn
      /\ NoSession \in AnyTicket /\ NoReply \in AnyReply
  BY Zenon DEF ClientTypeOK, AnyTicket, NoSession, NoReply
<1>a. \A m \in Member : /\ session[m] \in Tickets(m)
                        /\ Ticket(reply[m]) \in Tickets(m)
  BY Zenon DEF Tickets
<1>1. ASSUME UNCHANGED <<session, reply>> PROVE TicketStep
  BY <1>1, Zenon DEF TicketStep, Tickets
<1>2. ASSUME NEW m \in Member,
             session' = [session EXCEPT ![m] = NoSession] \/ session' = session,
             reply' = [reply EXCEPT ![m] = NoReply]
      PROVE  TicketStep
  <2>1. NoSession \in Tickets(m) \union {NoSession}
    BY Zenon
  <2>2. Ticket(NoReply) \in Tickets(m) \union {NoSession}
    BY NoReplyGrantsNothing, Zenon
  <2> QED
    BY <1>2, <2>1, <2>2, OneHolderChanges, Zenon
<1>3. ASSUME NEW m \in Member, phase' = [phase EXCEPT ![m] = "out"]
             \/ \E to \in Phase : phase' = [phase EXCEPT ![m] = to]
      PROVE  phase' \in [Member -> Phase]
  BY <1>0, <1>3, Zenon DEF Phase
<1>4. ASSUME Churn \/ UNCHANGED churn PROVE churn' \in 0 .. MaxChurn
  BY <1>0, <1>4, ConsumerGroupAssumption DEF Churn
<1>5. ASSUME NEW m \in Member, CallJoin(m)
      PROVE  /\ session' = session /\ reply' \in [Member -> AnyReply]
             /\ TicketStep
  <2> DEFINE grant == [ok |-> TRUE, gen |-> generation', epoch |-> epoch',
                       assigned |-> assignments'[m]]
  <2>1. session' = session
    BY <1>5, Zenon DEF CallJoin
  <2>2. CASE (JoinRebalance(m, Topic) \/ JoinSkip(m, Topic))
                /\ reply' = [reply EXCEPT ![m] = grant]
    <3>1. registered'
      BY <2>2, Zenon DEF JoinRebalance, JoinSkip, JoinEnter
    <3>2. grant \in AnyReply
      BY Zenon DEF TypeOK
    <3>3. Ticket(grant) = Issued(m)
      BY Zenon DEF Ticket, Issued
    <3>4. TicketStep
      BY <1>a, <2>1, <2>2, <3>1, <3>3, OneHolderChanges, Zenon
    <3> QED
      BY <1>0, <2>1, <2>2, <3>2, <3>4, Zenon
  <2>3. CASE JoinFail(m, Topic) /\ reply' = [reply EXCEPT ![m] = NoReply]
    BY <1>0, <1>2, <2>1, <2>3, Zenon
  <2> QED
    BY <1>5, <2>2, <2>3, Zenon DEF CallJoin
<1>6. CASE Membership
  <2>1. ASSUME NEW m \in Member, Subscribe(m) PROVE Goal
    <3>1. phase' \in [Member -> Phase]
      BY <1>3, <2>1, Zenon DEF Subscribe, Move, Phase
    <3> QED
      BY <1>0, <1>4, <1>5, <2>1, <3>1, Zenon DEF Subscribe, ClientTypeOK, AnyTicket
  <2>2. ASSUME NEW m \in Member, Close(m) \/ Crash(m) PROVE Goal
    <3>1. /\ session' = [session EXCEPT ![m] = NoSession]
          /\ reply' = [reply EXCEPT ![m] = NoReply]
          /\ Churn
          /\ \E to \in Phase : phase' = [phase EXCEPT ![m] = to]
      BY <2>2, Zenon DEF Close, Crash, Phase
    <3>2. phase' \in [Member -> Phase]
      BY <1>3, <3>1, Zenon
    <3> QED
      BY <1>0, <1>2, <1>4, <3>1, <3>2, Zenon DEF ClientTypeOK, AnyTicket
  <2> QED
    BY <1>6, <2>1, <2>2, Zenon DEF Membership
<1>7. CASE Operator
  BY <1>0, <1>1, <1>4, <1>7, Zenon DEF Operator, ClientTypeOK
<1>8. ASSUME NEW m \in Member, ClientStep(m) PROVE Goal
  <2>1. phase' \in [Member -> Phase]
    <3>1. phase' = phase \/ \E to \in Phase : phase' = [phase EXCEPT ![m] = to]
      BY <1>8, Zenon DEF ClientStep, Rejoin, JoinAnswered, JoinErrored, BeatStale,
         BeatParks, BeatWoken, BeatTimesOut, LeaveGroup, ConnectionDropped,
         Move, Phase, clientVars
    <3> QED
      BY <1>0, <1>3, <3>1, Zenon
  <2>2. CASE Rejoin(m)
    BY <1>0, <1>4, <1>5, <2>1, <2>2, Zenon DEF Rejoin, ClientTypeOK, AnyTicket
  <2>3. CASE JoinAnswered(m)
    <3>1. /\ session' = [session EXCEPT ![m] = Ticket(reply[m])]
          /\ reply' = [reply EXCEPT ![m] = NoReply]
          /\ UNCHANGED churn
      BY <2>3, Zenon DEF JoinAnswered, Ticket
    <3>2. Ticket(reply[m]) \in AnyTicket
      BY <1>0, Zenon DEF Ticket, AnyTicket
    <3>3. Ticket(NoReply) \in Tickets(m) \union {NoSession}
      BY NoReplyGrantsNothing, Zenon
    <3>4. TicketStep
      BY <1>a, <3>1, <3>3, OneHolderChanges, Zenon
    <3> QED
      BY <1>0, <2>1, <3>1, <3>2, <3>4, Zenon DEF ClientTypeOK, AnyTicket
  <2>4. CASE JoinErrored(m)
    <3>1. /\ session' = session
          /\ reply' = [reply EXCEPT ![m] = NoReply]
          /\ Churn \/ UNCHANGED churn
      BY <2>4, Zenon DEF JoinErrored
    <3> QED
      BY <1>0, <1>2, <1>4, <2>1, <3>1, Zenon DEF ClientTypeOK, AnyTicket
  <2>5. CASE \/ BeatStale(m) \/ BeatParks(m) \/ BeatWoken(m)
             \/ BeatTimesOut(m) \/ LeaveGroup(m) \/ ConnectionDropped(m)
    <3>1. UNCHANGED <<session, reply, churn>>
      BY <2>5, Zenon DEF BeatStale, BeatParks, BeatWoken, BeatTimesOut, LeaveGroup,
         ConnectionDropped, clientVars
    <3> QED
      BY <1>0, <1>1, <2>1, <3>1, Zenon DEF ClientTypeOK, AnyTicket
  <2> QED
    BY <1>8, <2>2, <2>3, <2>4, <2>5, Zenon DEF ClientStep
<1>9. ASSUME UNCHANGED clientVars PROVE Goal
  BY <1>0, <1>1, <1>9, Zenon DEF clientVars, ClientTypeOK, AnyTicket
<1>10. CASE UNCHANGED allVars
  BY <1>9, <1>10, Zenon DEF allVars
<1> QED
  BY <1>6, <1>7, <1>8, <1>9, <1>10, Zenon DEF GroupNext, CommitPosition

-----------------------------------------------------------------------------
(***************************************************************************)
(* The rules for rounds and for tickets keep the invariant: a new ticket   *)
(* belongs to the newest round, whose earlier tickets were checked against *)
(* a table that has only shrunk since.                                     *)
(***************************************************************************)
LEMMA TicketsStep ==
    ASSUME TicketsInv, TypeOK', Ownership', ClientTypeOK', RoundsAreCounted',
           RoundStep, TicketStep
    PROVE  TicketsAreIssued' /\ TicketsMatchTable' /\ TicketsAreDisjoint'
<1> DEFINE Held(m) == {session'[m], Ticket(reply'[m])}
<1>0. /\ epoch \in Nat /\ epoch' \in Nat
      /\ generation \in Nat /\ generation' \in Nat
      /\ \A m \in Member : Issued(m) \in AnyTicket
  BY Zenon DEF TicketsInv, TypeOK, AnyTicket, Issued
<1>a. NoSession \in AnyTicket /\ NoSession.epoch = 0 /\ NoSession.gen = 0
        /\ NoSession.assigned = {}
  BY Zenon DEF NoSession, AnyTicket
<1>b. \A m \in Member : \A t \in Tickets(m) : t \in AnyTicket
  BY DEF TicketsInv, ClientTypeOK, Tickets, Ticket, AnyTicket
<1>c. \A m \in Member : /\ Issued(m).epoch = epoch'
                        /\ Issued(m).gen = generation'
                        /\ Issued(m).assigned = assignments'[m]
  BY Zenon DEF Issued
<1>1. ASSUME NEW m \in Member, NEW t \in Tickets(m),
             registered', t.epoch = epoch'
      PROVE  /\ epoch' = epoch /\ registered
             /\ t.gen <= generation /\ generation <= generation'
  <2>1. t.epoch \in Nat /\ t.epoch <= epoch
    BY <1>b, Zenon DEF TicketsInv, TicketsAreIssued, AnyTicket
  <2>2. epoch' = epoch
    BY <1>0, <1>1, <2>1 DEF RoundStep
  <2> QED
    BY <1>1, <2>2, Zenon DEF RoundStep, TicketsInv, TicketsAreIssued
<1>2. ASSUME NEW m \in Member, NEW t \in Tickets(m),
             registered', t.epoch = epoch', t.gen = generation'
      PROVE  Current(t) /\ generation' = generation
  <2>1. t.gen \in Nat
    BY <1>b, Zenon DEF AnyTicket
  <2> QED
    BY <1>0, <1>1, <1>2, <2>1 DEF Current
<1>3. TicketsAreIssued'
  <2> SUFFICES ASSUME NEW m \in Member, NEW t \in Held(m)
               PROVE  /\ t.epoch <= epoch'
                      /\ registered' /\ t.epoch = epoch' => t.gen <= generation'
    BY Zenon DEF TicketsAreIssued, Tickets, Ticket
  <2>1. CASE t \in Tickets(m)
    <3>1. t.epoch \in Nat /\ t.gen \in Nat /\ t.epoch <= epoch
      BY <1>b, <2>1, Zenon DEF TicketsInv, TicketsAreIssued, AnyTicket
    <3>2. t.epoch <= epoch'
      BY <1>0, <3>1 DEF RoundStep
    <3> QED
      BY <1>0, <1>1, <2>1, <3>1, <3>2
  <2>2. CASE t = NoSession
    BY <1>0, <1>a, <2>2
  <2>3. CASE t = Issued(m)
    BY <1>0, <1>c, <2>3
  <2> QED
    BY <2>1, <2>2, <2>3, Zenon DEF TicketStep
<1>4. TicketsMatchTable'
  <2> SUFFICES ASSUME NEW m \in Member, NEW t \in Held(m),
                      registered', t.epoch = epoch', t.gen = generation'
               PROVE  /\ \A other \in Member \ {m} :
                            t.assigned \intersect assignments'[other] = {}
                      /\ ~dirty' => t.assigned = assignments'[m]
    BY Zenon DEF TicketsMatchTable, Tickets, Ticket, Current
  <2>1. CASE t \in Tickets(m)
    <3>1. Current(t) /\ generation' = generation /\ epoch' = epoch
      BY <1>1, <1>2, <2>1, Zenon
    <3>2. /\ \A x \in Member : assignments'[x] \subseteq assignments[x]
          /\ ~dirty' => ~dirty /\ assignments'[m] = assignments[m]
      BY <3>1, Zenon DEF RoundStep
    <3>3. /\ \A other \in Member \ {m} :
                 t.assigned \intersect assignments[other] = {}
          /\ ~dirty => t.assigned = assignments[m]
      BY <2>1, <3>1, Zenon DEF TicketsInv, TicketsMatchTable
    <3> QED
      BY <3>2, <3>3, Zenon
  <2>2. CASE t = NoSession
    BY <1>a, <2>2 DEF RoundsAreCounted
  <2>3. CASE t = Issued(m)
    BY <1>c, <2>3, Zenon DEF Ownership, ExclusiveOwnership
  <2> QED
    BY <2>1, <2>2, <2>3, Zenon DEF TicketStep
<1>5. TicketsAreDisjoint'
  <2>1. ASSUME NEW m \in Member, NEW other \in Member, m # other,
               NEW t \in Tickets(other),
               registered', t.epoch = epoch', t.gen = generation'
        PROVE  t.assigned \intersect assignments'[m] = {}
    <3>1. Current(t) /\ generation' = generation /\ epoch' = epoch
      BY <1>1, <1>2, <2>1, Zenon
    <3>2. assignments'[m] \subseteq assignments[m]
      BY <2>1, <3>1, Zenon DEF RoundStep
    <3>3. t.assigned \intersect assignments[m] = {}
      BY <2>1, <3>1, Zenon DEF TicketsInv, TicketsMatchTable
    <3> QED
      BY <3>2, <3>3, Zenon
  <2> SUFFICES ASSUME NEW m1 \in Member, NEW m2 \in Member,
                      NEW t1 \in Held(m1), NEW t2 \in Held(m2),
                      m1 # m2, SameRound(t1, t2)
               PROVE  t1.assigned \intersect t2.assigned = {}
    BY DEF TicketsAreDisjoint, Tickets, Ticket, SameRound
  <2>2. CASE t1 = NoSession \/ t2 = NoSession
    BY <1>a, <2>2, Zenon
  <2>3. CASE t1 \in Tickets(m1) /\ t2 \in Tickets(m2)
    BY <2>3, Zenon DEF TicketsInv, TicketsAreDisjoint
  <2>4. CASE t1 \in Tickets(m1) /\ registered' /\ t2 = Issued(m2)
    BY <1>c, <2>1, <2>4, Zenon DEF SameRound
  <2>5. CASE t2 \in Tickets(m2) /\ registered' /\ t1 = Issued(m1)
    BY <1>c, <2>1, <2>5, Zenon DEF SameRound
  <2>6. CASE t1 = Issued(m1) /\ t2 = Issued(m2)
    BY <1>c, <2>6, Zenon DEF Ownership, ExclusiveOwnership
  <2> QED
    BY <2>2, <2>3, <2>4, <2>5, <2>6, Zenon DEF TicketStep
<1> QED
  BY <1>3, <1>4, <1>5, Zenon

-----------------------------------------------------------------------------
(***************************************************************************)
(* Before anything has run nobody holds a ticket.                          *)
(***************************************************************************)
LEMMA TicketsInit == GroupInit => TicketsInv
<1> SUFFICES ASSUME GroupInit PROVE TicketsInv
  BY Zenon
<1>1. TypeOK /\ Ownership
  BY GroupsInvInit, Zenon DEF GroupInit, GroupsInv, Ownership
<1>2. ClientTypeOK /\ RoundsAreCounted
  BY GroupsAssumption, ConsumerGroupAssumption
     DEF GroupInit, Init, ClientTypeOK, RoundsAreCounted, NoSession, NoReply, Phase
<1>3. \A m \in Member : \A t \in Tickets(m) : t = NoSession
  BY NoReplyGrantsNothing, Zenon DEF GroupInit, Tickets
<1>4. /\ NoSession.epoch = 0 /\ NoSession.gen = 0 /\ NoSession.assigned = {}
      /\ ~registered /\ epoch = 0
  BY Zenon DEF NoSession, GroupInit, Init
<1>5. TicketsAreIssued
  BY <1>3, <1>4 DEF TicketsAreIssued
<1>6. TicketsMatchTable
  BY <1>4, Zenon DEF TicketsMatchTable, Current
<1>7. TicketsAreDisjoint
  BY <1>3, <1>4, Zenon DEF TicketsAreDisjoint
<1> QED
  BY <1>1, <1>2, <1>5, <1>6, <1>7, Zenon DEF TicketsInv

(***************************************************************************)
(* Every step of the composition keeps the invariant.                      *)
(***************************************************************************)
LEMMA TicketsNext == TicketsInv /\ [GroupNext]_allVars => TicketsInv'
<1> SUFFICES ASSUME TicketsInv, [GroupNext]_allVars PROVE TicketsInv'
  BY Zenon
<1>1. [Next]_vars
  BY CompositionTakesGroupSteps, Zenon DEF TicketsInv
<1>2. TypeOK' /\ Ownership'
  BY <1>1, TypeStep, OwnershipStep, Zenon DEF TicketsInv
<1>3. RoundStep /\ RoundsAreCounted'
  BY <1>1, CoordinatorRounds, Zenon DEF TicketsInv
<1>4. ClientTypeOK' /\ TicketStep
  BY <1>2, ConsumerSteps, Zenon DEF TicketsInv
<1> QED
  BY <1>2, <1>3, <1>4, TicketsStep, Zenon DEF TicketsInv

(***************************************************************************)
(* The consumers never make the coordinator do what it does not do by      *)
(* itself: every behaviour of the composition is one of the coordinator,   *)
(* so all its theorems hold of a group with live consumers.                *)
(***************************************************************************)
THEOREM CompositionRefinesGroups == GroupSpec => Spec
<1>1. GroupInit => Init
  BY Zenon DEF GroupInit
<1>2. TicketsInv /\ [GroupNext]_allVars => [Next]_vars
  BY CompositionTakesGroupSteps, Zenon DEF TicketsInv
<1> QED
  BY <1>1, <1>2, TicketsInit, TicketsNext, PTL DEF GroupSpec, Spec

(***************************************************************************)
(* Two consumers that work under one generation of one group object never  *)
(* fetch the same partition, however late their answers arrive.            *)
(***************************************************************************)
THEOREM SharesOfARoundAreDisjoint == GroupSpec => []SameGenerationDisjoint
<1>1. TicketsInv => SameGenerationDisjoint
  BY Zenon DEF TicketsInv, TicketsAreDisjoint, SameGenerationDisjoint, SameRound, Tickets
<1> QED
  BY <1>1, TicketsInit, TicketsNext, PTL DEF GroupSpec

(***************************************************************************)
(* A heartbeat never confirms a consumer in an assignment it has lost: one *)
(* that is told "no rebalance" by the group object it joined fetches what  *)
(* the coordinator has down for it.                                        *)
(***************************************************************************)
THEOREM QuietMembersAreCurrent == GroupSpec => []QuietMemberIsCurrent
<1>1. TicketsInv => QuietMemberIsCurrent
  BY Zenon DEF TicketsInv, TicketsMatchTable, QuietMemberIsCurrent, RebalanceNeeded,
         Current, Tickets
<1> QED
  BY <1>1, TicketsInit, TicketsNext, PTL DEF GroupSpec

=============================================================================
