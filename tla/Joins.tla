-------------------------------- MODULE Joins --------------------------------
(***************************************************************************)
(* A windowed stream-stream join (streams/join.go): one goroutine per side *)
(* reads its source, advances the topology's watermark and calls onRecord  *)
(* under the join's lock; the punctuator of an outer join flushes records  *)
(* that found no counterpart.  Other pipelines move the watermark too.     *)
(***************************************************************************)
EXTENDS Integers, SequencesExt

CONSTANTS
    Key,
    Kinds,         \* of "inner", "left", "outer"
    Source,        \* source partitions of each side
    Window, AllowedLateness,
    MaxTime,       \* bound: event times are in 0 .. MaxTime
    MaxRecord      \* bound: records per side

Side == {"left", "right"}
Other(side) == IF side = "left" THEN "right" ELSE "left"

VARIABLES
    kind, watermark,
    buf,           \* leftBuf, rightBuf
    pending,       \* pendingLeft, pendingRight
    doing,         \* each side's record on its way to onRecord
    next,          \* next offset of each side's source partitions
    tick,          \* the watermark the punctuator has read; -1: none
    pairs,         \* emitted pairs, in order
    alone,         \* emitted no-match records, in order
    arrived,       \* history: records passed to onRecord
    onTime         \* history: those not later than AllowedLateness

vars == <<kind, watermark, buf, pending, doing, next, tick, pairs, alone,
          arrived, onTime>>

None == -1
Higher(a, b) == IF a < b THEN b ELSE a
Nothing == [busy |-> FALSE]

Init ==
    /\ kind \in Kinds
    /\ watermark = 0
    /\ buf = [side \in Side |-> {}]
    /\ pending = [side \in Side |-> {}]
    /\ doing = [side \in Side |-> Nothing]
    /\ next = [side \in Side |-> [s \in Source |-> 0]]
    /\ tick = None
    /\ pairs = <<>>
    /\ alone = <<>>
    /\ arrived = {}
    /\ onTime = {}

(***************************************************************************)
(* runJoinSide: eventTime and advanceWatermark, whose result is what       *)
(* onRecord will use.                                                      *)
(***************************************************************************)
Arrive(side, s, k, t) ==
    /\ ~doing[side].busy
    /\ next[side][s] < MaxRecord
    /\ watermark' = Higher(watermark, t)
    /\ next' = [next EXCEPT ![side][s] = @ + 1]
    /\ doing' = [doing EXCEPT ![side] =
          [busy |-> TRUE, wm |-> watermark',
           rec |-> [side |-> side, source |-> s, offset |-> next[side][s],
                    key |-> k, time |-> t]]]
    /\ UNCHANGED <<kind, buf, pending, tick, pairs, alone, arrived, onTime>>

Within(r, m) == r.time - m.time <= Window /\ m.time - r.time <= Window

Pair(side, r, m) == IF side = "left" THEN [left |-> r, right |-> m]
                    ELSE [left |-> m, right |-> r]

(***************************************************************************)
(* removePending finds a record by event time and offset, whatever its     *)
(* key and partition: one of those that have both, for each match.         *)
(***************************************************************************)
Same(p, m) == p.time = m.time /\ p.offset = m.offset

RemovedPending(waiting, matched) ==
    {w \in SUBSET waiting :
        /\ \A p \in waiting \ w : \E m \in matched : Same(p, m)
        /\ \A m \in matched :
              LET alike == {p \in waiting : Same(p, m)}
                  found == {n \in matched : Same(n, m)}
              IN Cardinality(alike \ w) =
                    (IF Cardinality(alike) < Cardinality(found)
                     THEN Cardinality(alike) ELSE Cardinality(found))}

(***************************************************************************)
(* flushPendingLocked: what is emitted as a no-match.                      *)
(***************************************************************************)
Flushed(waiting, wm) == {p \in waiting : p.time <= wm - Window}

(***************************************************************************)
(* Mutation: the horizon does not leave room for late records.             *)
(***************************************************************************)
KeptTight(records, wm) == {e \in records : e.time > wm - Window}

Kept(records, wm) == {e \in records : e.time >= wm - Window - AllowedLateness}

(***************************************************************************)
(* Whether a record without a match waits for one.                         *)
(***************************************************************************)
Waits(side) == kind = "outer" \/ (kind = "left" /\ side = "left")

onRecord(side) ==
    LET r == doing[side].rec
        wm == doing[side].wm
        matches == {m \in buf[Other(side)] : m.key = r.key /\ Within(r, m)}
        buffered == [buf EXCEPT ![side] = @ \union {r}]
    IN
    /\ doing[side].busy
    /\ doing' = [doing EXCEPT ![side] = Nothing]
    /\ pairs' = pairs \o SetToSeq({Pair(side, r, m) : m \in matches})
    /\ \E left \in RemovedPending(pending[Other(side)], matches) :
          LET waiting == [pending EXCEPT
                  ![Other(side)] = left,
                  ![side] = IF matches = {} /\ Waits(side) THEN @ \union {r}
                            ELSE @]
          IN
          /\ pending' = [s \in Side |-> waiting[s] \ Flushed(waiting[s], wm)]
          /\ alone' = alone \o SetToSeq(UNION {Flushed(waiting[s], wm) : s \in Side})
    /\ buf' = [s \in Side |-> Kept(buffered[s], wm)]
    /\ arrived' = arrived \union {r}
    /\ onTime' = IF r.time >= watermark - AllowedLateness
                 THEN onTime \union {r} ELSE onTime
    /\ UNCHANGED <<kind, watermark, next, tick>>

(***************************************************************************)
(* runJoinPunctuator reads the watermark, then flushes under the lock.     *)
(***************************************************************************)
TickRead ==
    /\ kind # "inner" /\ tick = None
    /\ tick' = watermark
    /\ UNCHANGED <<kind, watermark, buf, pending, doing, next, pairs, alone,
                   arrived, onTime>>

TickFlush ==
    /\ tick # None
    /\ tick' = None
    /\ alone' = alone \o SetToSeq(UNION {Flushed(pending[s], tick) : s \in Side})
    /\ pending' = [s \in Side |-> pending[s] \ Flushed(pending[s], tick)]
    /\ UNCHANGED <<kind, watermark, buf, doing, next, pairs, arrived, onTime>>

OtherTime(t) ==
    /\ t > watermark
    /\ watermark' = t
    /\ UNCHANGED <<kind, buf, pending, doing, next, tick, pairs, alone, arrived,
                   onTime>>

Next ==
    \/ \E side \in Side, s \in Source, k \in Key, t \in 0 .. MaxTime :
          Arrive(side, s, k, t)
    \/ \E side \in Side : onRecord(side)
    \/ TickRead
    \/ TickFlush
    \/ \E t \in 0 .. MaxTime : OtherTime(t)

Spec == Init /\ [][Next]_vars

-----------------------------------------------------------------------------
Of(side) == {r \in arrived : r.side = side}
Matching(l, r) == l.key = r.key /\ Within(l, r)

(***************************************************************************)
(* "invoked once per matching pair within the configured window"           *)
(* (join.go:15-16): no pair is emitted twice, only matching records are    *)
(* paired, and two matching records are paired whichever comes second, if  *)
(* neither was further behind the watermark than the allowed lateness.     *)
(***************************************************************************)
PairsExactlyOnce ==
    /\ IsInjective(pairs)
    /\ \A q \in ToSet(pairs) : Matching(q.left, q.right)
    /\ \A l \in Of("left") \intersect onTime :
           \A r \in Of("right") \intersect onTime :
               Matching(l, r) => [left |-> l, right |-> r] \in ToSet(pairs)

Paired(r) == \E q \in ToSet(pairs) : r \in {q.left, q.right}

(***************************************************************************)
(* An outer join forgets no record: a record that must be emitted either   *)
(* waits, or was paired, or was emitted without a match, and that at most  *)
(* once.  Offsets identify the records of a side: one source partition.    *)
(***************************************************************************)
OuterJoinForgetsNothing ==
    /\ IsInjective(alone)
    /\ Cardinality(Source) = 1 =>
          \A r \in arrived : Waits(r.side) =>
              r \in pending[r.side] \/ Paired(r) \/ r \in ToSet(alone)

(***************************************************************************)
(* "the natural identity of a single record arrival" (join.go:430-431):    *)
(* the same with any number of source partitions.                          *)
(***************************************************************************)
OffsetIdentifies ==
    \A r \in arrived : Waits(r.side) =>
        r \in pending[r.side] \/ Paired(r) \/ r \in ToSet(alone)

(***************************************************************************)
(* "With deferral [...] only the matched pair fires" (join.go:343-345):    *)
(* a record emitted without a match is in no pair, if every record was on  *)
(* time.                                                                   *)
(***************************************************************************)
NoMatchIsFinal ==
    arrived = onTime => \A r \in ToSet(alone) : ~Paired(r)

=============================================================================
