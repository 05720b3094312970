---------------------------- MODULE PartitionLog ----------------------------
(***************************************************************************)
(* The on-disk log of one partition (broker/internal/log: partition.go,    *)
(* segment.go, compact.go): appends with rollover, reads across segments,  *)
(* retention, compaction, and reopening after a clean shutdown, a killed   *)
(* process or a power loss.  Compact holds the partition's write lock, so  *)
(* nothing interleaves with its passes, but a crash may fall between any   *)
(* two of them: each pass is a step of its own.                            *)
(*                                                                         *)
(* All frames have the same size, so a segment's cap counts records.  The  *)
(* sparse index only tells a read where to start scanning and is rebuilt   *)
(* on open; it has no state here.  An empty value reads back as nil, so a  *)
(* record is either live or a tombstone.  File names are durable once the  *)
(* call that makes them returns.  Failing system calls are not modelled.   *)
(***************************************************************************)
EXTENDS Integers, SequencesExt

CONSTANTS
    Key,              \* record keys
    NoKey,            \* the empty key
    SegmentRecords,   \* maxBytes, in records
    MaxOffset,        \* bound: records ever in the log
    MaxCrash          \* bound: shutdowns and crashes

ASSUME PartitionLogAssumption ==
    /\ NoKey \notin Key
    /\ SegmentRecords \in Nat \ {0}
    /\ MaxOffset \in Nat
    /\ MaxCrash \in Nat

VARIABLES
    segs,         \* the .log files, by base offset; the last one is active
    flushed,      \* records below this offset have left the bufio.Writer
    synced,       \* records below this offset have been fsynced
    placeholder,  \* the .compacting file: a sequence of at most one segment
    torn,         \* the placeholder ends in a partial frame
    stage,        \* what the process is doing with the partition
    doomed,       \* sealed segments Compact has yet to remove
    crashes,      \* shutdowns and crashes so far
    midway,       \* history: a crash fell outside RecoverableWindow
    hist,         \* history: every record appended and not lost in a crash
    low,          \* history: retention has dropped the offsets below this
    acked         \* history: the high water at the last Sync

fileVars == <<segs, placeholder, torn>>
crashVars == <<crashes, midway>>
ghosts == <<hist, low, acked>>
vars == <<fileVars, flushed, synced, stage, doomed, crashVars, ghosts>>

Record == [offset : Nat, key : Key \union {NoKey}, live : BOOLEAN]
Segment == [base : Nat, recs : Seq(Record)]

-----------------------------------------------------------------------------
(***************************************************************************)
(* segment.highWater, as append and recover maintain it.                   *)
(***************************************************************************)
SegmentHighWater(s) ==
    IF s.recs = <<>> THEN s.base ELSE Last(s.recs).offset + 1

HighWater == SegmentHighWater(Last(segs))

FirstN(s, n) == SubSeq(s, 1, IF n < Len(s) THEN n ELSE Len(s))

FromOffset(recs, from) ==
    SelectSeq(recs, LAMBDA r : r.offset >= from)

(***************************************************************************)
(* segment.readFrom.                                                       *)
(***************************************************************************)
ReadFrom(s, from, max) ==
    IF from >= SegmentHighWater(s) THEN <<>>
    ELSE FirstN(FromOffset(s.recs, from), max)

(***************************************************************************)
(* Mutation: the search stops at the first segment past the offset.        *)
(***************************************************************************)
StartSegmentOneTooFar(from) ==
    LET later == {i \in DOMAIN segs : segs[i].base > from}
    IN  IF later = {} THEN Len(segs)
        ELSE CHOOSE i \in later : \A j \in later : i <= j

(***************************************************************************)
(* PartitionLog.Read starts at the last segment whose base is not past the *)
(* wanted offset and goes on from the record after the last one it got.    *)
(***************************************************************************)
StartSegment(from) ==
    LET starts == {1} \union {i \in DOMAIN segs : segs[i].base <= from}
    IN  CHOOSE i \in starts : \A j \in starts : j <= i

Read(from, max) ==
    LET Step(acc, s) ==
            LET got == ReadFrom(s, acc.from, max - Len(acc.out)) IN
            IF got = <<>> THEN acc
            ELSE [out |-> acc.out \o got, from |-> Last(got).offset + 1]
    IN  FoldLeft(Step, [out |-> <<>>, from |-> from],
                 SubSeq(segs, StartSegment(from), Len(segs))).out

(***************************************************************************)
(* All the records in the files, in the order of streamSealedRecords.      *)
(***************************************************************************)
Stream(segments) ==
    FoldLeft(LAMBDA acc, s : acc \o s.recs, <<>>, segments)

-----------------------------------------------------------------------------
(***************************************************************************)
(* OpenPartition of a directory without segments.                          *)
(***************************************************************************)
Init ==
    /\ segs = <<[base |-> 0, recs |-> <<>>]>>
    /\ flushed = 0
    /\ synced = 0
    /\ placeholder = <<>>
    /\ torn = FALSE
    /\ stage = "open"
    /\ doomed = 0
    /\ crashes = 0
    /\ midway = FALSE
    /\ hist = <<>>
    /\ low = 0
    /\ acked = 0

(***************************************************************************)
(* FileStore.Append and PartitionLog.Append: the offset is the high water, *)
(* the frame goes to the buffered writer, and a full segment is sealed     *)
(* (flush, fsync) and followed by a new one.                               *)
(***************************************************************************)
AppendRecord(key, live) ==
    LET rec == [offset |-> HighWater, key |-> key, live |-> live]
        active == [Last(segs) EXCEPT !.recs = Append(@, rec)]
        rolls == Len(active.recs) >= SegmentRecords
    IN
    /\ stage = "open"
    /\ HighWater < MaxOffset
    /\ segs' = IF rolls
               THEN Front(segs) \o <<active, [base |-> rec.offset + 1,
                                              recs |-> <<>>]>>
               ELSE Append(Front(segs), active)
    /\ flushed' = IF rolls THEN rec.offset + 1 ELSE flushed
    /\ synced' = IF rolls THEN rec.offset + 1 ELSE synced
    /\ hist' = Append(hist, rec)
    /\ UNCHANGED <<placeholder, torn, stage, doomed, crashVars, low, acked>>

(***************************************************************************)
(* A read that reaches the active segment flushes its buffer first.        *)
(***************************************************************************)
ReadFlushes ==
    /\ stage = "open"
    /\ flushed < HighWater
    /\ flushed' = HighWater
    /\ UNCHANGED <<fileVars, synced, stage, doomed, crashVars, ghosts>>

(***************************************************************************)
(* Mutation: Sync flushes and does not fsync.                              *)
(***************************************************************************)
SyncOnlyFlushes ==
    /\ stage = "open"
    /\ acked < HighWater
    /\ flushed' = HighWater
    /\ acked' = HighWater
    /\ UNCHANGED <<fileVars, synced, stage, doomed, crashVars, hist, low>>

Sync ==
    /\ stage = "open"
    /\ acked < HighWater
    /\ flushed' = HighWater
    /\ synced' = HighWater
    /\ acked' = HighWater
    /\ UNCHANGED <<fileVars, stage, doomed, crashVars, hist, low>>

(***************************************************************************)
(* EnforceTimeRetention and EnforceSizeRetention drop the n oldest sealed  *)
(* segments, for the n their cutoff gives.                                 *)
(***************************************************************************)
EnforceRetention(n) ==
    /\ stage = "open"
    /\ n < Len(segs)
    /\ segs' = SubSeq(segs, n + 1, Len(segs))
    /\ low' = Max({low} \union {SegmentHighWater(segs[i]) : i \in 1 .. n})
    /\ UNCHANGED <<placeholder, torn, flushed, synced, stage, doomed, crashVars,
                   hist, acked>>

-----------------------------------------------------------------------------
Sealed == Front(segs)

(***************************************************************************)
(* Pass 1: a record is the latest of its key if no later record has the    *)
(* key, and a tombstone takes its key out of the map.                      *)
(***************************************************************************)
IsLatest(recs, i) ==
    /\ recs[i].key # NoKey
    /\ recs[i].live
    /\ \A j \in DOMAIN recs : recs[j].key = recs[i].key => j <= i

Latest(recs) == {recs[i] : i \in {j \in DOMAIN recs : IsLatest(recs, j)}}

(***************************************************************************)
(* Pass 2: the records that match the map, in the order of the stream.     *)
(***************************************************************************)
Compacted(recs) ==
    SelectSeq(recs, LAMBDA r : \E k \in Latest(recs) :
                                   k.key = r.key /\ k.offset = r.offset)

NewBase(recs) ==
    CHOOSE b \in {r.offset : r \in Latest(recs)} :
        \A r \in Latest(recs) : b <= r.offset

(***************************************************************************)
(* Compact, up to the creation of the placeholder file.  With nothing to   *)
(* keep it drops the sealed segments and makes no placeholder.             *)
(***************************************************************************)
CompactBegin ==
    /\ stage = "open"
    /\ Len(segs) > 1
    /\ doomed' = Len(segs) - 1
    /\ IF Latest(Stream(Sealed)) = {}
       THEN stage' = "dropping" /\ UNCHANGED placeholder
       ELSE /\ stage' = "writing"
            /\ placeholder' = <<[base |-> NewBase(Stream(Sealed)),
                                 recs |-> <<>>]>>
    /\ UNCHANGED <<segs, torn, flushed, synced, crashVars, ghosts>>

(***************************************************************************)
(* The placeholder is complete, sealed and durable.                        *)
(***************************************************************************)
CompactSeal ==
    /\ stage = "writing"
    /\ stage' = "deleting"
    /\ placeholder' = <<[placeholder[1] EXCEPT
                            !.recs = Compacted(Stream(Sealed))]>>
    /\ UNCHANGED <<segs, torn, flushed, synced, doomed, crashVars, ghosts>>

(***************************************************************************)
(* Mutation: the newest sealed segment is removed first.                   *)
(***************************************************************************)
CompactRemoveNewest ==
    /\ stage \in {"deleting", "dropping"}
    /\ doomed > 0
    /\ segs' = SubSeq(segs, 1, doomed - 1) \o SubSeq(segs, doomed + 1, Len(segs))
    /\ doomed' = doomed - 1
    /\ UNCHANGED <<placeholder, torn, flushed, synced, stage, crashVars, ghosts>>

(***************************************************************************)
(* The old sealed segments go one by one, the oldest first.                *)
(***************************************************************************)
CompactRemove ==
    /\ stage \in {"deleting", "dropping"}
    /\ doomed > 0
    /\ segs' = Tail(segs)
    /\ doomed' = doomed - 1
    /\ UNCHANGED <<placeholder, torn, flushed, synced, stage, crashVars, ghosts>>

(***************************************************************************)
(* finalize renames the placeholder; the partition is usable again.        *)
(***************************************************************************)
CompactFinish ==
    /\ stage \in {"deleting", "dropping"}
    /\ doomed = 0
    /\ segs' = placeholder \o segs
    /\ placeholder' = <<>>
    /\ stage' = "open"
    /\ UNCHANGED <<torn, flushed, synced, doomed, crashVars, ghosts>>

-----------------------------------------------------------------------------
(***************************************************************************)
(* Close: the active segment is sealed, every file closed.                 *)
(***************************************************************************)
Close ==
    /\ stage = "open"
    /\ crashes < MaxCrash
    /\ crashes' = crashes + 1
    /\ stage' = "down"
    /\ flushed' = HighWater
    /\ synced' = HighWater
    /\ UNCHANGED <<fileVars, doomed, midway, ghosts>>

(***************************************************************************)
(* The placeholder has the base of a segment that is still there.          *)
(***************************************************************************)
FinalNameTaken ==
    \E i \in DOMAIN segs, j \in DOMAIN placeholder :
        segs[i].base = placeholder[j].base

(***************************************************************************)
(* The crashes inside Compact that the comment on recoverCompactingSegments*)
(* describes: before the first old segment is removed, when the placeholder*)
(* has the base of one of them, and after the last one is.                 *)
(***************************************************************************)
RecoverableWindow ==
    \/ placeholder = <<>>
    \/ stage = "deleting" /\ doomed = 0
    \/ doomed = Len(segs) - 1 /\ FinalNameTaken

(***************************************************************************)
(* The process stops: the records from offset n on have not reached the    *)
(* file (a frame cut in two counts as not there, recover truncates it).    *)
(* A placeholder that is being written holds any part of its contents.     *)
(***************************************************************************)
Stop(n) ==
    /\ stage \notin {"down", "broken"}
    /\ crashes < MaxCrash
    /\ crashes' = crashes + 1
    /\ midway' = (midway \/ ~RecoverableWindow)
    /\ stage' = "down"
    /\ doomed' = 0
    /\ segs' = [i \in DOMAIN segs |->
                    [segs[i] EXCEPT !.recs = SelectSeq(@, LAMBDA r : r.offset < n)]]
    /\ hist' = FirstN(hist, n)
    /\ flushed' = n
    /\ synced' = synced
    /\ IF stage = "writing"
       THEN LET full == Compacted(Stream(Sealed)) IN
            \E m \in 0 .. Len(full) :
                /\ placeholder' = <<[placeholder[1] EXCEPT
                                        !.recs = SubSeq(full, 1, m)]>>
                /\ torn' \in IF m < Len(full) THEN BOOLEAN ELSE {FALSE}
       ELSE UNCHANGED <<placeholder, torn>>
    /\ UNCHANGED <<low, acked>>

(***************************************************************************)
(* The process is killed: the page cache survives, the bufio.Writer does   *)
(* not (it may have overflowed into the file before).                      *)
(***************************************************************************)
Kill == \E n \in flushed .. HighWater : Stop(n)

(***************************************************************************)
(* Power loss: only what was fsynced is sure to be there.                  *)
(***************************************************************************)
PowerLoss == \E n \in synced .. HighWater : Stop(n)

(***************************************************************************)
(* Mutation: recovery always throws the placeholder away.                  *)
(***************************************************************************)
RecoveredDiscarding == segs

(***************************************************************************)
(* recoverCompactingSegments and discoverSegments: a placeholder whose     *)
(* final name is taken is deleted, any other is renamed and sorted in.     *)
(***************************************************************************)
Recovered ==
    IF placeholder = <<>> \/ FinalNameTaken
    THEN segs
    ELSE LET Before(s) == s.base < placeholder[1].base
             After(s) == s.base > placeholder[1].base
         IN  SelectSeq(segs, Before) \o placeholder \o SelectSeq(segs, After)

(***************************************************************************)
(* OpenPartition.  Every segment but the last is opened read-only, so a    *)
(* torn tail in it cannot be truncated and the open fails.                 *)
(***************************************************************************)
Open ==
    /\ stage = "down"
    /\ segs' = Recovered
    /\ stage' = IF torn /\ segs' # segs THEN "broken" ELSE "open"
    /\ placeholder' = <<>>
    /\ torn' = FALSE
    /\ UNCHANGED <<flushed, synced, doomed, crashVars, ghosts>>

Next ==
    \/ \E key \in Key, live \in BOOLEAN : AppendRecord(key, live)
    \/ AppendRecord(NoKey, TRUE)
    \/ ReadFlushes
    \/ Sync
    \/ \E n \in 1 .. MaxOffset : EnforceRetention(n)
    \/ CompactBegin
    \/ CompactSeal
    \/ CompactRemove
    \/ CompactFinish
    \/ Close
    \/ Kill
    \/ PowerLoss
    \/ Open

Spec == Init /\ [][Next]_vars

-----------------------------------------------------------------------------
(***************************************************************************)
(* The fields of PartitionLog and the contents of its directory.           *)
(***************************************************************************)
TypeOK ==
    /\ segs \in Seq(Segment) /\ segs # <<>>
    /\ placeholder \in Seq(Segment) /\ Len(placeholder) <= 1
    /\ torn \in BOOLEAN
    /\ flushed \in Nat /\ synced \in Nat
    /\ stage \in {"open", "writing", "deleting", "dropping", "down", "broken"}
    /\ doomed \in 0 .. Len(segs)
    /\ crashes \in 0 .. MaxCrash /\ midway \in BOOLEAN
    /\ hist \in Seq(Record)
    /\ low \in Nat /\ acked \in Nat

(***************************************************************************)
(* Reading from any offset, in batches of any size, gives the records that *)
(* are in the files from that offset on, in increasing offset order and    *)
(* without repetition: Read's choice of the first segment, its hand-over   *)
(* between segments and the gaps compaction leaves never hide a record or  *)
(* deliver one twice.  A crash inside Compact is covered if it falls in    *)
(* RecoverableWindow.                                                      *)
(***************************************************************************)
ReadFromAnywhere ==
    stage = "open" /\ ~midway =>
        LET all == Stream(segs) IN
        /\ \A i, j \in DOMAIN all : i < j => all[i].offset < all[j].offset
        /\ \A from \in 0 .. HighWater, max \in 1 .. SegmentRecords + 1 :
                Read(from, max) = FirstN(FromOffset(all, from), max)

(***************************************************************************)
(* The last record of a key in a sequence, as a set with at most one       *)
(* element: empty if the key is absent or deleted.                         *)
(***************************************************************************)
ValueOf(key, recs) ==
    LET with == {i \in DOMAIN recs : recs[i].key = key}
        last == {i \in with : \A j \in with : j <= i}
    IN  {recs[i] : i \in {j \in last : recs[j].live}}

FullScan == Read(0, Len(Stream(segs)) + 1)

(***************************************************************************)
(* A reader of the whole log sees for every key the value it would see in  *)
(* a log that was never compacted: compaction, retention, restarts and the *)
(* crashes of RecoverableWindow neither lose the current value of a key    *)
(* nor bring a deleted or replaced one back.                               *)
(***************************************************************************)
CompactionKeepsValues ==
    stage = "open" /\ ~midway =>
        \A key \in Key :
            ValueOf(key, FullScan) = ValueOf(key, FromOffset(hist, low))

(***************************************************************************)
(* The high water never falls below a Sync that has returned, whatever     *)
(* crashes: an offset acknowledged as durable is not assigned again.       *)
(***************************************************************************)
SyncedOffsetsStay == stage = "open" => acked <= HighWater /\ acked <= Len(hist)

(***************************************************************************)
(* A crash at any point of Compact loses no current value: whoever reads   *)
(* the whole log still finds the last live record of every key.            *)
(***************************************************************************)
CurrentValuesSurvive ==
    stage = "open" =>
        \A key \in Key :
            ValueOf(key, FromOffset(hist, low)) \subseteq
                ValueOf(key, FullScan)

-----------------------------------------------------------------------------
(***************************************************************************)
(* Claims of the documentation that the code does not keep; the README says*)
(* under which constants TLC finds each of them violated.                  *)
(***************************************************************************)

(***************************************************************************)
(* What the comments in compact.go say: a tombstone removes the key        *)
(* entirely, and a placeholder without a canonical file is the only copy   *)
(* of its data, the old segments being gone.  Stated as: a key whose last  *)
(* record is a tombstone has no value for a reader, also after a crash.    *)
(***************************************************************************)
DeletedKeysStayDeleted ==
    stage = "open" =>
        \A key \in Key :
            ValueOf(key, hist) = {} => ValueOf(key, FullScan) = {}

(***************************************************************************)
(* What docs/stage-2.md and the comment on openSegment say of a torn frame:*)
(* recovery truncates it, so the partition opens after any crash.          *)
(***************************************************************************)
AlwaysReopens == stage # "broken"

(***************************************************************************)
(* What docs/stage-2.md says of acks=local: an Append that has returned is *)
(* in the page cache, so that killing the process loses no record.         *)
(***************************************************************************)
AppendsSurviveKill == [][Kill /\ stage = "open" => hist' = hist]_vars

=============================================================================
