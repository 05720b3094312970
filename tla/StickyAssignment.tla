-------------------------- MODULE StickyAssignment --------------------------
(***************************************************************************)
(* The sticky strategy (assignSticky, broker/internal/groups/assign.go).   *)
(* Unlike the other strategies it starts from the division before, so it   *)
(* is run here through a life of a group: members join, leave or are       *)
(* evicted, topics are deleted and created again with another number of    *)
(* partitions.  Groups models the rest of the coordinator.  The slices are *)
(* sequences, for a member that has too many keeps the first of them.      *)
(***************************************************************************)
EXTENDS Assignment, SequencesExt

CONSTANTS
    Member,            \* member IDs, ordered as the code's strings are
    Topics,            \* the topics, in their lexical order
    MaxPartitions,     \* bound: the largest partition count of a topic
    MaxRebalance,      \* bound: rebalances of the group
    MaxChange          \* bound: topics created and deleted

VARIABLES
    members, dirty,    \* group.members and group.dirty
    topics,            \* group.topics, as a set
    count,             \* the partitions of each topic; 0: it does not exist
    assignments,       \* group.assignments; no entry: the empty slice
    generation,        \* rebalances so far
    changes            \* changes of the topics so far

vars == <<members, dirty, topics, count, assignments, generation, changes>>

Nothing == [m \in Member |-> <<>>]

Init ==
    /\ members = {} /\ dirty = FALSE /\ topics = {}
    /\ count \in [Range(Topics) -> 0 .. MaxPartitions]
    /\ assignments = Nothing
    /\ generation = 0 /\ changes = 0

-----------------------------------------------------------------------------
(***************************************************************************)
(* Every partition of the subscribed topics, in the order of the topics.   *)
(***************************************************************************)
allPartitions(subscribed) ==
    LET Of(t) == [i \in 1 .. count[t] |-> <<t, i - 1>>]
        sorted == SelectSeq(Topics, LAMBDA t : t \in subscribed)
    IN FlattenSeq([k \in DOMAIN sorted |-> Of(sorted[k])])

(***************************************************************************)
(* How many a member is to have: as many as under the range strategy.      *)
(***************************************************************************)
target(ids, total, m) == RangeCount(Cardinality(ids), total, Rank(ids, m))

taken(out, p) == \E m \in Member : p \in Range(out[m])

(***************************************************************************)
(* Step 2: m keeps p, one of those it had.                                 *)
(* Mutation: it keeps all that still exist.                                *)
(***************************************************************************)
RetainAll(out, ids, all, m, p) ==
    IF p \notin Range(all) \/ taken(out, p) THEN out
    ELSE [out EXCEPT ![m] = Append(@, p)]

Retain(out, ids, all, m, p) ==
    IF \/ Len(out[m]) >= target(ids, Len(all), m)
       \/ p \notin Range(all) \/ taken(out, p)
    THEN out
    ELSE [out EXCEPT ![m] = Append(@, p)]

(***************************************************************************)
(* Step 4: p goes to the first member that has not enough.                 *)
(***************************************************************************)
Distribute(out, ids, all, p) ==
    LET below == {m \in ids : Len(out[m]) < target(ids, Len(all), m)} IN
    IF below = {} THEN out ELSE [out EXCEPT ![Min(below)] = Append(@, p)]

assignSticky(ids, all, prior) ==
    LET had == FlattenSeq([k \in DOMAIN SetToSortSeq(ids, <) |->
                   LET m == SetToSortSeq(ids, <)[k]
                   IN [i \in DOMAIN prior[m] |-> <<m, prior[m][i]>>]])
        kept == FoldLeft(LAMBDA out, x : Retain(out, ids, all, x[1], x[2]), Nothing, had)
        free == SelectSeq(all, LAMBDA p : ~taken(kept, p))
    IN FoldLeft(LAMBDA out, p : Distribute(out, ids, all, p), kept, free)

-----------------------------------------------------------------------------
(***************************************************************************)
(* Join: the member and its topic are recorded, members that went silent   *)
(* are evicted, and the group is divided again unless nothing has changed. *)
(* If a topic is missing the call fails with the division as it was.       *)
(***************************************************************************)
Join(m, t, gone) ==
    LET skip == m \in members /\ t \in topics /\ ~dirty /\ gone = {}
        missing == \E s \in topics \union {t} : count[s] = 0
        remain == [n \in Member |-> IF n \in gone THEN <<>> ELSE assignments[n]]
    IN
    /\ members' = (members \ gone) \union {m}
    /\ topics' = topics \union {t}
    /\ IF skip \/ missing
       THEN /\ assignments' = remain
            /\ dirty' = (dirty \/ gone # {})
            /\ UNCHANGED generation
       ELSE /\ generation < MaxRebalance
            /\ assignments' = assignSticky(members', allPartitions(topics'), remain)
            /\ generation' = generation + 1
            /\ dirty' = FALSE
    /\ UNCHANGED <<count, changes>>

(***************************************************************************)
(* Leave, and the eviction of a silent member in another's heartbeat.  The *)
(* group goes with the last member that leaves.  Delete amounts to         *)
(* everybody leaving.                                                      *)
(***************************************************************************)
Leave(m) ==
    /\ m \in members
    /\ members' = members \ {m}
    /\ assignments' = [assignments EXCEPT ![m] = <<>>]
    /\ dirty' = (members' # {})
    /\ topics' = IF members' = {} THEN {} ELSE topics
    /\ UNCHANGED <<count, generation, changes>>

ChangeTopic(t) ==
    /\ changes < MaxChange
    /\ changes' = changes + 1
    /\ \E n \in 0 .. MaxPartitions :
           (n = 0 <=> count[t] # 0) /\ count' = [count EXCEPT ![t] = n]
    /\ UNCHANGED <<members, dirty, topics, assignments, generation>>

Next ==
    \/ \E m \in Member : Leave(m)
    \/ \E m \in Member, t \in Range(Topics) : \E gone \in SUBSET (members \ {m}) :
           Join(m, t, gone)
    \/ \E t \in Range(Topics) : ChangeTopic(t)

Spec == Init /\ [][Next]_vars

-----------------------------------------------------------------------------
SumLength(ids) == LET Length(m) == Len(assignments'[m]) IN MapThenSumSet(Length, ids)

Had(m) == Range(assignments[m]) \intersect Range(allPartitions(topics'))

(***************************************************************************)
(* Each rebalance gives every partition to exactly one member, no two      *)
(* members differ by more than one partition, and no member that stays     *)
(* both loses a partition that still exists and gains one ("displacing     *)
(* only what's needed to keep per-member counts balanced", manager.go:     *)
(* 62-63), however the group came to the division before.                  *)
(***************************************************************************)
StickyDivides ==
    [][generation' # generation =>
        /\ \A p \in Range(allPartitions(topics')) :
               Cardinality({m \in members' : p \in Range(assignments'[m])}) = 1
        /\ SumLength(members') = Len(allPartitions(topics'))
        /\ \A m, n \in members' : Len(assignments'[m]) <= Len(assignments'[n]) + 1
        /\ \A m \in members' :
               \/ Had(m) \subseteq Range(assignments'[m])
               \/ Range(assignments'[m]) \subseteq Had(m)]_vars

(***************************************************************************)
(* "New members and departures cause minimal churn" (assign.go:152): no    *)
(* other choice of the members with one partition more keeps more of them  *)
(* where they are.  Refuted: the spare partitions go to the first members  *)
(* in lexical order.                                                       *)
(***************************************************************************)
MinimalChurn ==
    [][generation' # generation =>
        LET n == Cardinality(members')
            base == Len(allPartitions(topics')) \div n
            extras == Len(allPartitions(topics')) % n
            more == {m \in members' : Cardinality(Had(m)) > base}
            Kept(m) == Cardinality(Had(m) \intersect Range(assignments'[m]))
            Least(m) == Min({base, Cardinality(Had(m))})
        IN MapThenSumSet(Kept, members')
           >= MapThenSumSet(Least, members') + Min({extras, Cardinality(more)})]_vars

=============================================================================
