----------------------------- MODULE Assignment -----------------------------
(***************************************************************************)
(* Partition assignment of a consumer group (broker/internal/groups/       *)
(* assign.go): the range and the round-robin strategy.  A member ID is an  *)
(* integer, so that the lexical order in which the code sorts the IDs is   *)
(* the order of the integers; a partition is a pair <<topic, index>>.      *)
(* A slice of partitions is modelled by the set of its elements: neither   *)
(* strategy looks at the order inside a slice.                             *)
(***************************************************************************)
EXTENDS Integers, FiniteSets

(***************************************************************************)
(* The partitions of the given topics, count[t] many for topic t.          *)
(***************************************************************************)
AllPartitions(topics, count) ==
    UNION { {<<t, i>> : i \in 0 .. count[t] - 1} : t \in topics }

(***************************************************************************)
(* The position of member m in the sorted list of member IDs, from 0.      *)
(***************************************************************************)
Rank(members, m) == Cardinality({x \in members : x < m})

(***************************************************************************)
(* Mutation: one member too many gets an extra partition.                  *)
(***************************************************************************)
RangeCountOneExtraTooMany(n, k, r) ==
    (k \div n) + (IF r <= k % n THEN 1 ELSE 0)

(***************************************************************************)
(* rangeAssign gives the member of rank r `base' partitions, and one more  *)
(* to the first `extra' members.  RangeStart is the value of the code's    *)
(* cursor when its loop reaches rank r: the sum of the counts before it.   *)
(***************************************************************************)
RangeCount(n, k, r) == (k \div n) + (IF r < k % n THEN 1 ELSE 0)

RangeStart(n, k, r) == r * (k \div n) + (IF r < k % n THEN r ELSE k % n)

RangeSlice(n, k, r) ==
    RangeStart(n, k, r) .. RangeStart(n, k, r) + RangeCount(n, k, r) - 1

RangeOwns(members, k, m, i) ==
    i \in RangeSlice(Cardinality(members), k, Rank(members, m))

(***************************************************************************)
(* roundRobinAssign gives partition i to sorted[i % n].                    *)
(***************************************************************************)
RoundRobinOwns(members, k, m, i) ==
    Rank(members, m) = i % Cardinality(members)

(***************************************************************************)
(* The full assignment over all subscribed topics.  A member without an    *)
(* entry in the code's map reads as the empty slice, so the function is    *)
(* total on `ids'.                                                         *)
(***************************************************************************)
Assign(strategy, ids, members, topics, count) ==
    [m \in ids |->
        { p \in AllPartitions(topics, count) :
            /\ m \in members
            /\ IF strategy = "roundrobin"
               THEN RoundRobinOwns(members, count[p[1]], m, p[2])
               ELSE RangeOwns(members, count[p[1]], m, p[2]) }]

=============================================================================
