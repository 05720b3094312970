---------------------------- MODULE SegmentFile -----------------------------
(***************************************************************************)
(* The active segment's .log file below PartitionLog (segment.go): one     *)
(* file descriptor that appends and reads share, the bufio.Writer in front *)
(* of it, and reads that run concurrently under PartitionLog's read lock.  *)
(* Positions count frames; a frame is identified by its record's offset.   *)
(* The base offset is 0.  A buffered reader fetches whole frames.          *)
(***************************************************************************)
EXTENDS Integers, SequencesExt

CONSTANTS
    Reader,       \* goroutines that may be inside readFrom
    ReadAhead,    \* frames a bufio.Reader fetches at once; the index interval
    MaxOffset,    \* bound: records appended
    MaxOpen       \* bound: times the segment is reopened

VARIABLES
    file,         \* the contents of the file
    pos,          \* the descriptor's file offset
    appendMode,   \* the descriptor was opened with O_APPEND
    buf,          \* frames in logBuf
    highWater,    \* segment.highWater
    reading,      \* the local state of each reader
    opens         \* reopens so far

vars == <<file, pos, appendMode, buf, highWater, reading, opens>>

ReadState == [pc : {"idle", "flushing", "seek", "fill", "done"},
              from : Nat, max : Nat, out : Seq(Nat)]

Idle == [pc |-> "idle", from |-> 0, max |-> 0, out |-> <<>>]

FirstN(s, n) == SubSeq(s, 1, IF n < Len(s) THEN n ELSE Len(s))

(***************************************************************************)
(* createSegment: O_RDWR|O_CREATE|O_APPEND.                                *)
(***************************************************************************)
Init ==
    /\ file = <<>>
    /\ pos = 0
    /\ appendMode = TRUE
    /\ buf = <<>>
    /\ highWater = 0
    /\ reading = [r \in Reader |-> Idle]
    /\ opens = 0

(***************************************************************************)
(* write(2): at the end with O_APPEND, at the file offset without it.      *)
(***************************************************************************)
WriteOut(frames) ==
    LET at == IF appendMode THEN Len(file) ELSE pos IN
    /\ file' = FirstN(file, at) \o frames
                   \o SubSeq(file, at + Len(frames) + 1, Len(file))
    /\ pos' = at + Len(frames)

(***************************************************************************)
(* segment.append, under PartitionLog's write lock.  The buffered writer   *)
(* keeps the frame or, when it overflows, writes out what it holds.        *)
(***************************************************************************)
NoReader == \A r \in Reader : reading[r].pc = "idle"

AppendRecord ==
    /\ NoReader
    /\ highWater < MaxOffset
    /\ highWater' = highWater + 1
    /\ \/ buf' = Append(buf, highWater) /\ UNCHANGED <<file, pos>>
       \/ buf' = <<>> /\ WriteOut(Append(buf, highWater))
    /\ UNCHANGED <<appendMode, reading, opens>>

(***************************************************************************)
(* Sync: flush and fsync, under the write lock.                            *)
(***************************************************************************)
Sync ==
    /\ NoReader
    /\ buf # <<>>
    /\ WriteOut(buf)
    /\ buf' = <<>>
    /\ UNCHANGED <<appendMode, highWater, reading, opens>>

(***************************************************************************)
(* readFrom begins with flushIfActive.  bufio.Writer.Flush writes first    *)
(* and marks its buffer empty afterwards.                                  *)
(***************************************************************************)
ReadBegin(r, from, max) ==
    /\ reading[r].pc = "idle"
    /\ from < highWater
    /\ reading' = [reading EXCEPT ![r] =
            [pc |-> IF buf = <<>> THEN "seek" ELSE "flushing",
             from |-> from, max |-> max, out |-> <<>>]]
    /\ IF buf = <<>> THEN UNCHANGED <<file, pos>> ELSE WriteOut(buf)
    /\ UNCHANGED <<appendMode, buf, highWater, opens>>

(***************************************************************************)
(* Mutation: the flush leaves the buffer full.                             *)
(***************************************************************************)
ReadFlushedKeepsBuffer(r) ==
    /\ reading[r].pc = "flushing"
    /\ reading' = [reading EXCEPT ![r].pc = "seek"]
    /\ UNCHANGED <<file, pos, appendMode, buf, highWater, opens>>

ReadFlushed(r) ==
    /\ reading[r].pc = "flushing"
    /\ buf' = <<>>
    /\ reading' = [reading EXCEPT ![r].pc = "seek"]
    /\ UNCHANGED <<file, pos, appendMode, highWater, opens>>

(***************************************************************************)
(* Mutation: the index answers with the entry after the wanted offset.     *)
(***************************************************************************)
LookupNextEntry(offset) == ((offset \div ReadAhead) + 1) * ReadAhead

(***************************************************************************)
(* index.lookup: the last indexed position at or before the offset.        *)
(***************************************************************************)
Lookup(offset) == (offset \div ReadAhead) * ReadAhead

ReadSeek(r) ==
    /\ reading[r].pc = "seek"
    /\ pos' = Lookup(reading[r].from)
    /\ reading' = [reading EXCEPT ![r].pc = "fill"]
    /\ UNCHANGED <<file, appendMode, buf, highWater, opens>>

(***************************************************************************)
(* One fetch of the bufio.Reader and the frames decoded from it; the loop  *)
(* ends at end of file or when enough records have been collected.         *)
(***************************************************************************)
ReadFill(r) ==
    LET chunk == FirstN(SubSeq(file, pos + 1, Len(file)), ReadAhead)
        found == SelectSeq(chunk, LAMBDA o : o >= reading[r].from)
        out == FirstN(reading[r].out \o found, reading[r].max)
    IN
    /\ reading[r].pc = "fill"
    /\ pos' = pos + Len(chunk)
    /\ reading' = [reading EXCEPT
            ![r].out = out,
            ![r].pc = IF chunk = <<>> \/ Len(out) = reading[r].max
                      THEN "done" ELSE "fill"]
    /\ UNCHANGED <<file, appendMode, buf, highWater, opens>>

ReadEnd(r) ==
    /\ reading[r].pc = "done"
    /\ reading' = [reading EXCEPT ![r] = Idle]
    /\ UNCHANGED <<file, pos, appendMode, buf, highWater, opens>>

(***************************************************************************)
(* A clean shutdown (seal flushes) and openSegment(forAppend): O_RDWR      *)
(* without O_APPEND; recover reads to the end of the file.                 *)
(***************************************************************************)
Reopen ==
    /\ NoReader
    /\ opens < MaxOpen
    /\ opens' = opens + 1
    /\ IF buf = <<>> THEN file' = file ELSE WriteOut(buf)
    /\ buf' = <<>>
    /\ pos' = Len(file')
    /\ highWater' = IF file' = <<>> THEN 0 ELSE Last(file') + 1
    /\ appendMode' = FALSE
    /\ UNCHANGED reading

Next ==
    \/ AppendRecord
    \/ Sync
    \/ \E r \in Reader, from \in 0 .. MaxOffset, max \in 1 .. ReadAhead + 1 :
            ReadBegin(r, from, max)
    \/ \E r \in Reader : ReadFlushed(r)
    \/ \E r \in Reader : ReadSeek(r)
    \/ \E r \in Reader : ReadFill(r)
    \/ \E r \in Reader : ReadEnd(r)

Spec == Init /\ [][Next]_vars

(***************************************************************************)
(* The same across clean restarts of the broker.                           *)
(***************************************************************************)
RestartSpec == Init /\ [][Next \/ Reopen]_vars

-----------------------------------------------------------------------------
(***************************************************************************)
(* The descriptor, the buffer and the readers.                             *)
(***************************************************************************)
TypeOK ==
    /\ file \in Seq(Nat) /\ buf \in Seq(Nat)
    /\ pos \in Nat /\ highWater \in Nat
    /\ appendMode \in BOOLEAN
    /\ reading \in [Reader -> ReadState]
    /\ opens \in 0 .. MaxOpen

UpTo(n) == [i \in 1 .. n |-> i - 1]

(***************************************************************************)
(* The file followed by the buffer is the log: whatever reads, flushes and *)
(* overflows happen in between, no append lands on an earlier record and   *)
(* none is written twice.                                                  *)
(***************************************************************************)
FileHoldsLog ==
    (\A r \in Reader : reading[r].pc # "flushing") =>
        file \o buf = UpTo(highWater)

(***************************************************************************)
(* A finished read holds the consecutive records from the wanted offset on,*)
(* as many as were asked for and are there, buffered appends included.     *)
(***************************************************************************)
ReadsAreExact ==
    \A r \in Reader : reading[r].pc = "done" =>
        reading[r].out =
            FirstN(SubSeq(UpTo(highWater), reading[r].from + 1, highWater),
                   reading[r].max)

=============================================================================
