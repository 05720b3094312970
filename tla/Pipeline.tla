------------------------------ MODULE Pipeline ------------------------------
(***************************************************************************)
(* The tasks of one pipeline of a streams topology (streams/topology.go):  *)
(* run takes records of the partitions a task owns and passes each through *)
(* the operators.  Between two operators the records sit in a slice, and   *)
(* the slice of the results starts as out[:0]: it shares the array of the  *)
(* slice that is being read until an append exceeds the capacity.          *)
(*                                                                         *)
(* Operators are functions of one record and of state shared by the tasks: *)
(* an atomic counter (Sample, Skip, Take), a set (Distinct) or a substore  *)
(* (Count and the other aggregations, which read and write it in two       *)
(* steps).  A record is a sequence of tags, the first one its number; an   *)
(* operator that makes two records out of one appends 1 and 2.             *)
(***************************************************************************)
EXTENDS Integers, SequencesExt

CONSTANTS
    Task,
    Owners,       \* the tasks that process a partition; one each, unless a
                  \* task that lost it is still busy with its last batch
    Pipelines,    \* chains of operators to consider
    Limit,        \* the argument of Sample, Skip and Take
    MaxRecord     \* bound: records per partition

VARIABLES
    ops,          \* the chain
    next,         \* next record of each partition
    task,         \* what each task is doing
    seen,         \* shared state of each operator: calls so far
    passed,       \* shared state of each operator: records let through
    store,        \* the substore of each partition: a count
    sink,         \* what was written to the sink, per source record
    dlq           \* records routed to the dead-letter topic

vars == <<ops, next, task, seen, passed, store, sink, dlq>>

Partition == DOMAIN Owners
Rec(p, n) == <<[part |-> p, num |-> n]>>
Counting == {"count", "reduce", "sum", "aggregate"}

(***************************************************************************)
(* A task: the record it works on (<<>>: none), the operator (0: sending), *)
(* the array that out ranges over with its capacity, the position read     *)
(* next, the results so far, whether they share that array, and the value  *)
(* an aggregation has read (-1: none).                                     *)
(***************************************************************************)
Idle == [rec |-> <<>>, op |-> 0, arr |-> <<>>, cap |-> 0, i |-> 0,
         res |-> <<>>, shared |-> FALSE, got |-> -1, dead |-> FALSE]

Init ==
    /\ ops \in Pipelines
    /\ next = [p \in Partition |-> 1]
    /\ task = [t \in Task |-> Idle]
    /\ seen = [k \in DOMAIN ops |-> 0]
    /\ passed = [k \in DOMAIN ops |-> {}]
    /\ store = [p \in Partition |-> 0]
    /\ sink = [p \in Partition |-> [n \in 1 .. MaxRecord |-> <<>>]]
    /\ dlq = {}

(***************************************************************************)
(* A task that owns p takes its next record: out is a slice of length and  *)
(* capacity 1.                                                             *)
(***************************************************************************)
TakeRecord(t, p) ==
    LET r == Rec(p, next[p]) IN
    /\ t \in Owners[p]
    /\ ~task[t].dead /\ task[t].rec = <<>>
    /\ next[p] <= MaxRecord
    /\ next' = [next EXCEPT ![p] = @ + 1]
    /\ task' = [task EXCEPT ![t] = [Idle EXCEPT !.rec = r, !.op = 1,
                   !.arr = <<r>>, !.cap = 1, !.i = 1, !.shared = TRUE]]
    /\ UNCHANGED <<ops, seen, passed, store, sink, dlq>>

-----------------------------------------------------------------------------
(***************************************************************************)
(* The operators without state.  "even" stands for Filter, FilterNot and a *)
(* branch of Branch, "keep" for Map, SelectKey, MapValues, MapKeyValue,    *)
(* Peek and JoinTable, "double" for FlatMap.                               *)
(***************************************************************************)
Even(r) == Len(r) > 1 /\ Last(r) = 2

Result(o, r) ==
    CASE o = "even"   -> IF Even(r) THEN <<r>> ELSE <<>>
      [] o = "double" -> <<Append(r, 1), Append(r, 2)>>
      [] o = "panic"  -> IF Even(r) THEN <<>> ELSE <<r>>
      [] OTHER        -> <<r>>

(***************************************************************************)
(* The operators that let a record through or drop it, by shared state.    *)
(* Distinct's key is the record's number: the same in every partition.     *)
(***************************************************************************)
Passes(o, k, r) ==
    CASE o = "sample"   -> seen[k] % Limit = 0
      [] o = "skip"     -> seen[k] + 1 > Limit
      [] o = "take"     -> seen[k] + 1 <= Limit
      [] o = "distinct" -> \A s \in passed[k] : s[1].num # r[1].num
      [] OTHER          -> TRUE

(***************************************************************************)
(* next = append(next, results...): in place while the capacity suffices,  *)
(* else in a new array of at least twice the capacity.                     *)
(***************************************************************************)
Appended(w, results) ==
    LET res == w.res \o results
        fits == w.shared /\ Len(res) <= w.cap
        arr == IF ~fits THEN w.arr
               ELSE [j \in 1 .. (IF Len(res) > Len(w.arr) THEN Len(res)
                                 ELSE Len(w.arr)) |->
                        IF j <= Len(res) THEN res[j] ELSE w.arr[j]]
    IN [w EXCEPT !.res = res, !.shared = fits, !.arr = SubSeq(arr, 1, Len(w.arr)),
                 !.i = @ + 1, !.got = -1]

Grown(w) == IF w.shared THEN w.cap
            ELSE IF Len(w.res) > 2 * w.cap THEN Len(w.res) ELSE 2 * w.cap

(***************************************************************************)
(* Mutation: the results are not started anew for the next operator.       *)
(***************************************************************************)
AdvancedKeeps(w) ==
    IF w.i <= Len(w.arr) THEN w
    ELSE [w EXCEPT !.arr = w.res, !.cap = Grown(w), !.i = 1,
              !.op = IF w.op = Len(ops) \/ w.res = <<>> THEN 0 ELSE @ + 1]

(***************************************************************************)
(* When every record of out has been read, out = next; with no record left *)
(* the chain is broken off.                                                *)
(***************************************************************************)
Advanced(w) ==
    IF w.i <= Len(w.arr) THEN w
    ELSE [w EXCEPT !.arr = w.res, !.cap = Grown(w), !.i = 1, !.res = <<>>,
              !.shared = TRUE,
              !.op = IF w.op = Len(ops) \/ w.res = <<>> THEN 0 ELSE @ + 1]

Busy(t) == task[t].rec # <<>> /\ task[t].op > 0

(***************************************************************************)
(* runOp on one record.  An operator that panics is recovered: the record  *)
(* goes to the dead-letter topic and yields nothing.                       *)
(***************************************************************************)
runOp(t) ==
    LET w == task[t]
        o == ops[w.op]
        in == w.arr[w.i]
        through == Passes(o, w.op, in)
    IN
    /\ Busy(t) /\ o \notin Counting
    /\ seen' = [seen EXCEPT ![w.op] = @ + 1]
    /\ passed' = IF through THEN [passed EXCEPT ![w.op] = @ \union {in}] ELSE passed
    /\ task' = [task EXCEPT ![t] = Advanced(Appended(w,
                    IF through THEN Result(o, in) ELSE <<>>))]
    /\ dlq' = IF o = "panic" /\ Even(in) THEN dlq \union {in} ELSE dlq
    /\ UNCHANGED <<ops, next, store, sink>>

(***************************************************************************)
(* Mutation: every partition uses one substore.                            *)
(***************************************************************************)
OneSubstore(r) == CHOOSE p \in Partition : TRUE

For(r) == r[1].part

(***************************************************************************)
(* Count and the other aggregations: Get, then Put of the new value.       *)
(***************************************************************************)
StoreGet(t) ==
    LET w == task[t] IN
    /\ Busy(t) /\ ops[w.op] \in Counting /\ w.got = -1
    /\ task' = [task EXCEPT ![t].got = store[For(w.arr[w.i])]]
    /\ UNCHANGED <<ops, next, seen, passed, store, sink, dlq>>

StorePut(t) ==
    LET w == task[t]
        in == w.arr[w.i]
    IN
    /\ Busy(t) /\ ops[w.op] \in Counting /\ w.got # -1
    /\ store' = [store EXCEPT ![For(in)] = w.got + 1]
    /\ seen' = [seen EXCEPT ![w.op] = @ + 1]
    /\ passed' = [passed EXCEPT ![w.op] = @ \union {in}]
    /\ task' = [task EXCEPT ![t] = Advanced(Appended(w, <<in>>))]
    /\ UNCHANGED <<ops, next, sink, dlq>>

Finish(t) ==
    LET w == task[t] IN
    /\ w.rec # <<>> /\ w.op = 0
    /\ task' = [task EXCEPT ![t] = Idle]

(***************************************************************************)
(* The results are produced to the sink, in order.                         *)
(***************************************************************************)
Send(t) ==
    LET r == task[t].rec[1] IN
    /\ Finish(t)
    /\ sink' = [sink EXCEPT ![r.part][r.num] = task[t].arr]
    /\ UNCHANGED <<ops, next, seen, passed, store, dlq>>

(***************************************************************************)
(* A produce fails: recordErr, and the task's goroutine ends.              *)
(***************************************************************************)
SendFails(t) ==
    LET w == task[t] IN
    /\ w.rec # <<>> /\ w.op = 0 /\ w.arr # <<>>
    /\ \E n \in 0 .. Len(w.arr) - 1 :
          sink' = [sink EXCEPT ![w.rec[1].part][w.rec[1].num] =
                                   SubSeq(w.arr, 1, n)]
    /\ task' = [task EXCEPT ![t] = [Idle EXCEPT !.dead = TRUE]]
    /\ UNCHANGED <<ops, next, seen, passed, store, dlq>>

Next ==
    \E t \in Task :
        \/ \E p \in Partition : TakeRecord(t, p)
        \/ runOp(t)
        \/ StoreGet(t)
        \/ StorePut(t)
        \/ Send(t)
        \/ SendFails(t)

Spec == Init /\ [][Next]_vars

-----------------------------------------------------------------------------
Composed(chain, r) ==
    FoldLeft(LAMBDA records, o :
                 FlattenSeq([i \in DOMAIN records |-> Result(o, records[i])]),
             <<r>>, chain)

Expanding(chain) == {k \in DOMAIN chain : chain[k] = "double"}
Stateless(chain) ==
    \A k \in DOMAIN chain : chain[k] \in {"even", "keep", "double", "panic"}

WhatIsSent(t) == Composed(ops, task[t].rec)

(***************************************************************************)
(* What a task is about to send is the composition of the operators, in    *)
(* order, although the slices of two operators share an array, when one    *)
(* operator at most makes several records out of one.                      *)
(***************************************************************************)
ChainIsComposition ==
    Stateless(ops) /\ (\A k, l \in Expanding(ops) : k = l) =>
        \A t \in Task : task[t].rec # <<>> /\ task[t].op = 0 =>
            task[t].arr = WhatIsSent(t)

(***************************************************************************)
(* "FlatMap transforms each record into zero or more records"              *)
(* (topology.go:478): the same for any chain.                              *)
(***************************************************************************)
AnyChainIsComposition ==
    Stateless(ops) =>
        \A t \in Task : task[t].rec # <<>> /\ task[t].op = 0 =>
            task[t].arr = WhatIsSent(t)

(***************************************************************************)
(* "Stateful operators use partition to scope their state-store accesses   *)
(* [...] which keeps tasks operating on disjoint partitions race-free"     *)
(* (topology.go:196-198): with one owner each, no update of an aggregation *)
(* is lost, and a counting operator's total is the sum of the substores.   *)
(***************************************************************************)
NoLostUpdate ==
    \A k \in DOMAIN ops : ops[k] \in Counting =>
        \A p \in Partition :
            store[p] = Cardinality({r \in passed[k] : r[1].part = p})

(***************************************************************************)
(* "Shared atomic counter across multi-task pipelines": Take, Skip and     *)
(* Sample count over all tasks, and Distinct drops what any task has seen. *)
(***************************************************************************)
LimitsAreGlobal ==
    \A k \in DOMAIN ops :
        LET n == Cardinality(passed[k]) IN
        CASE ops[k] = "take" -> n = (IF seen[k] < Limit THEN seen[k] ELSE Limit)
          [] ops[k] = "skip" -> n = (IF seen[k] < Limit THEN 0 ELSE seen[k] - Limit)
          [] ops[k] = "sample" -> n = (seen[k] + Limit - 1) \div Limit
          [] ops[k] = "distinct" ->
                \A r, s \in passed[k] : r[1].num = s[1].num => r[1] = s[1]
          [] OTHER -> TRUE

=============================================================================
