------------------------------- MODULE Windows -------------------------------
(***************************************************************************)
(* The windowed counts of streams/window.go over one substore: a task runs *)
(* the operator on each record, the punctuator goroutine closes windows on *)
(* a tick, and other pipelines and the idle timer move the watermark of    *)
(* the topology.  The store's Get, Put, Range and Delete are atomic; the   *)
(* operator and the punctuator are not.                                    *)
(*                                                                         *)
(* A tumbling window is a hopping window whose advance is its size.  A     *)
(* session is kept under its key alone.                                    *)
(***************************************************************************)
EXTENDS Integers, FiniteSetsExt, SequencesExt

CONSTANTS
    Key,
    Kinds,        \* the operators to consider: "window", "session"
    Size,         \* the size of a window, the gap of a session
    Advance,      \* the advance of a hopping window
    MaxTime,      \* bound: event times and the clock are in 0 .. MaxTime
    Punctuations, \* whether the topology has a punctuation interval
    MaxRecord     \* bound: records

VARIABLES
    kind, punctuating, watermark,
    state,        \* the substore: window or session -> its contents
    op,           \* the task's operator call
    tick,         \* the punctuator's call
    emitted,      \* windows and sessions emitted, in order
    counted,      \* history: the records, with what they were counted in
    late,         \* history: a record came after its window had closed
    overlap       \* history: operator and punctuator ran at the same time

config == <<kind, punctuating>>
vars == <<config, watermark, state, op, tick, emitted, counted, late, overlap>>

(***************************************************************************)
(* One call: the step it is at, its record, the windows still to count,    *)
(* the value read, the entries found closed.                               *)
(***************************************************************************)
Call(pc, key, time, todo) ==
    [pc |-> pc, key |-> key, time |-> time, todo |-> todo, got |-> -1,
     wm |-> 0, closed |-> {}]

NoCall == Call("idle", CHOOSE k \in Key : TRUE, 0, <<>>)

Init ==
    /\ kind \in Kinds
    /\ punctuating \in Punctuations
    /\ watermark = 0
    /\ state = {}
    /\ op = NoCall
    /\ tick = NoCall
    /\ emitted = <<>>
    /\ counted = <<>>
    /\ late = FALSE
    /\ overlap = FALSE

Entry(k, s, e, n) == [key |-> k, start |-> s, end |-> e, count |-> n]
Find(k, s) == {x \in state : x.key = k /\ x.start = s}
Sessions(k) == {x \in state : x.key = k}

Higher(a, b) == IF a < b THEN b ELSE a
advanceWatermark(ts) == watermark' = Higher(watermark, ts)

(***************************************************************************)
(* The window starts that cover time t, the latest first:                  *)
(*   for ws := lastStart; ws > t-size && ws >= 0; ws -= advance            *)
(***************************************************************************)
lastStart(t) == (t \div Advance) * Advance
Covering(t) ==
    LET n == Cardinality({i \in 0 .. t :
                 lastStart(t) - i * Advance > t - Size
                     /\ lastStart(t) - i * Advance >= 0})
    IN [i \in 1 .. n |-> lastStart(t) - (i - 1) * Advance]

-----------------------------------------------------------------------------
(***************************************************************************)
(* run calls advanceWatermark and then the operator.                       *)
(***************************************************************************)
Arrive(k, t) ==
    /\ op.pc = "idle"
    /\ Len(counted) < MaxRecord
    /\ advanceWatermark(t)
    /\ op' = Call("count", k, t, IF kind = "window" THEN Covering(t) ELSE <<0>>)
    /\ counted' = Append(counted, [key |-> k, time |-> t])
    /\ late' = (late \/ \E ws \in ToSet(Covering(t)) :
                            ws + Size <= watermark)
    /\ overlap' = (overlap \/ tick.pc # "idle")
    /\ UNCHANGED <<config, state, tick, emitted>>

(***************************************************************************)
(* The operator reads the next window's count, then writes it.             *)
(***************************************************************************)
GetCount ==
    /\ kind = "window" /\ op.pc = "count" /\ op.todo # <<>> /\ op.got = -1
    /\ op' = [op EXCEPT !.got = SumSet({x.count : x \in Find(op.key, Head(op.todo))})]
    /\ UNCHANGED <<config, watermark, state, tick, emitted, counted, late, overlap>>

PutCount ==
    LET ws == Head(op.todo) IN
    /\ kind = "window" /\ op.pc = "count" /\ op.got # -1
    /\ state' = (state \ Find(op.key, ws))
                    \union {Entry(op.key, ws, ws + Size, op.got + 1)}
    /\ op' = [op EXCEPT !.todo = Tail(@), !.got = -1]
    /\ UNCHANGED <<config, watermark, tick, emitted, counted, late, overlap>>

IsClosed(x, currentStart, wm) ==
    IF kind = "window" THEN x.end <= wm /\ x.start # currentStart
    ELSE x.end + Size <= wm

(***************************************************************************)
(* Mutation: a closed window stays in the store.                           *)
(***************************************************************************)
NotDeleted(x) == {}

Deleted(x) == Find(x.key, x.start)

(***************************************************************************)
(* closeOnePartition: Range over a snapshot, then a Delete for each closed *)
(* window, whose count was read by Range.                                  *)
(***************************************************************************)
OpSweep ==
    /\ kind = "window" /\ op.pc = "count" /\ op.todo = <<>>
    /\ op' = [op EXCEPT !.pc = "close", !.closed =
                 {x \in state : IsClosed(x, lastStart(op.time), watermark)}]
    /\ UNCHANGED <<config, watermark, state, tick, emitted, counted, late, overlap>>

OpClose ==
    /\ op.pc = "close"
    /\ IF op.closed = {}
       THEN /\ op' = NoCall
            /\ UNCHANGED <<state, emitted>>
       ELSE \E x \in op.closed :
            /\ op' = [op EXCEPT !.closed = @ \ {x}]
            /\ state' = state \ Deleted(x)
            /\ emitted' = Append(emitted, x)
    /\ UNCHANGED <<config, watermark, tick, counted, late, overlap>>

-----------------------------------------------------------------------------
(***************************************************************************)
(* SessionCount: Get, then a Put that opens, extends or replaces the       *)
(* session; one that the gap has closed is emitted.                        *)
(***************************************************************************)
GetSession ==
    /\ kind = "session" /\ op.pc = "count"
    /\ op' = [op EXCEPT !.pc = "put", !.closed = Sessions(op.key)]
    /\ UNCHANGED <<config, watermark, state, tick, emitted, counted, late, overlap>>

PutSession ==
    LET fresh == Entry(op.key, op.time, op.time, 1)
        x == CHOOSE y \in op.closed : TRUE
        over == op.closed # {} /\ op.time > x.end + Size
        now == IF op.closed = {} \/ over THEN fresh
               ELSE [x EXCEPT !.end = Higher(x.end, op.time), !.count = @ + 1]
    IN
    /\ op.pc = "put"
    /\ state' = (state \ Sessions(op.key)) \union {now}
    /\ emitted' = IF over THEN Append(emitted, x) ELSE emitted
    /\ op' = NoCall
    /\ UNCHANGED <<config, watermark, tick, counted, late, overlap>>

-----------------------------------------------------------------------------
(***************************************************************************)
(* The punctuator: advance the watermark to the clock, sweep, delete.  It  *)
(* sweeps with currentStart -1.                                            *)
(***************************************************************************)
Punctuate(now) ==
    /\ punctuating
    /\ tick.pc = "idle"
    /\ advanceWatermark(now)
    /\ tick' = [NoCall EXCEPT !.pc = "sweep", !.wm = Higher(watermark, now)]
    /\ overlap' = (overlap \/ op.pc # "idle")
    /\ UNCHANGED <<config, state, op, emitted, counted, late>>

TickSweep ==
    /\ tick.pc = "sweep"
    /\ tick' = [tick EXCEPT !.pc = "close",
                    !.closed = {x \in state : IsClosed(x, -1, tick.wm)}]
    /\ UNCHANGED <<config, watermark, state, op, emitted, counted, late, overlap>>

TickClose ==
    /\ tick.pc = "close"
    /\ IF tick.closed = {}
       THEN /\ tick' = NoCall
            /\ UNCHANGED <<state, emitted>>
       ELSE \E x \in tick.closed :
            /\ tick' = [tick EXCEPT !.closed = @ \ {x}]
            /\ state' = state \ (IF kind = "window" THEN Deleted(x)
                                 ELSE Sessions(x.key))
            /\ emitted' = Append(emitted, x)
    /\ UNCHANGED <<config, watermark, op, counted, late, overlap>>

(***************************************************************************)
(* Another pipeline's record, or runIdleWatermark, moves the watermark.    *)
(***************************************************************************)
OtherTime(t) ==
    /\ t > watermark
    /\ advanceWatermark(t)
    /\ UNCHANGED <<config, state, op, tick, emitted, counted, late, overlap>>

Next ==
    \/ \E k \in Key, t \in 0 .. MaxTime : Arrive(k, t)
    \/ GetCount
    \/ PutCount
    \/ OpSweep
    \/ OpClose
    \/ GetSession
    \/ PutSession
    \/ TickSweep
    \/ TickClose
    \/ \E t \in 0 .. MaxTime : Punctuate(t) \/ OtherTime(t)

Spec == Init /\ [][Next]_vars

-----------------------------------------------------------------------------
Total(entries) == FoldSet(LAMBDA x, n : n + x.count, 0, entries)
EmittedTotal == FoldLeft(LAMBDA n, x : n + x.count, 0, emitted)
Expected == FoldLeft(LAMBDA n, r :
                n + (IF kind = "window" THEN Len(Covering(r.time)) ELSE 1),
                0, counted)

(***************************************************************************)
(* No count is lost or made up: between two records the counts emitted and *)
(* the counts of the open windows and sessions add up to the number of     *)
(* (record, window) pairs that arrived, however late the records are and   *)
(* however the watermark jumps, unless a tick of the punctuator overlaps   *)
(* the operator.                                                           *)
(***************************************************************************)
CountsAreConserved ==
    ~overlap /\ op.pc = "idle" /\ tick.pc = "idle" =>
        EmittedTotal + Total(state) = Expected

(***************************************************************************)
(* "Punctuator emits closed windows on a tick" (window.go:85): the same    *)
(* although the operator may be running.                                   *)
(***************************************************************************)
PunctuatorConserves ==
    op.pc = "idle" /\ tick.pc = "idle" => EmittedTotal + Total(state) = Expected

(***************************************************************************)
(* "emits one count record per (key, window) pair when the window closes"  *)
(* (window.go:19-21): never two for one window, unless a record came after *)
(* its window had closed; and the count is that of its records.            *)
(***************************************************************************)
OneRecordPerWindow ==
    kind = "window" /\ ~late /\ ~overlap =>
        \A i \in DOMAIN emitted :
            /\ \A j \in DOMAIN emitted : emitted[j].key = emitted[i].key
                  /\ emitted[j].start = emitted[i].start => i = j
            /\ emitted[i].count = Len(SelectSeq(counted, LAMBDA r :
                   /\ r.key = emitted[i].key
                   /\ emitted[i].start <= r.time /\ r.time < emitted[i].end))

(***************************************************************************)
(* "A session [...] extends while subsequent records for that key arrive   *)
(* within gap, and closes when no record arrives within gap"               *)
(* (window.go:204-207): every record of a session lies in its boundaries.  *)
(***************************************************************************)
SessionsCoverTheirRecords ==
    kind = "session" /\ op.pc = "idle" /\ ~overlap =>
        \A r \in ToSet(counted) :
            \E x \in state \union ToSet(emitted) :
                x.key = r.key /\ x.start <= r.time /\ r.time <= x.end

=============================================================================
