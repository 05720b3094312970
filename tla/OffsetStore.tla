---------------------------- MODULE OffsetStore -----------------------------
(***************************************************************************)
(* The committed offsets of consumer groups (groups/offsets.go and         *)
(* topic_offsets.go): the memory store, the JSON file and the internal     *)
(* topic over FileStore.  Manager.Commit and Manager.Delete call a store   *)
(* without the manager's lock, so calls run concurrently; each step below  *)
(* is what one lock, one file operation or one storage call covers.        *)
(***************************************************************************)
EXTENDS Integers, SequencesExt

CONSTANTS
    Kinds,        \* the stores to consider
    Slot,         \* (group, topic, partition) triples
    GroupOf,      \* the group of each slot
    Caller,       \* goroutines that commit and delete
    Offsets,      \* bound: the offsets committed for each slot
    ReplayBatch,  \* records per Read of replay (256 in the code)
    MaxTopic,     \* bound: the offsets of the topic
    MaxOpen       \* bound: times the store is opened again

VARIABLES
    kind,         \* which store this is
    entries,      \* the map in memory; NoOffset where there is no entry
    call,         \* what each caller is doing
    topic,        \* the records of __holocron_offsets
    endOffset,    \* the topic's high water
    disk,         \* the JSON file and its temporary file
    cursor,       \* replay's cursor, -1 when the store is open
    opened,       \* times the store has been opened again
    raced,        \* history: two appends were given one offset
    unsettled     \* history: slots with overlapping or failed calls

vars == <<kind, entries, call, topic, endOffset, disk, cursor, opened,
          raced, unsettled>>

NoOffset == -1

Nothing == [k \in Slot |-> NoOffset]

(***************************************************************************)
(* What a file can hold: a snapshot, nothing at all, a mixture of two      *)
(* snapshots that does not parse; or there is no file.                     *)
(***************************************************************************)
File(state, map) == [state |-> state, map |-> map]

Absent == File("absent", Nothing)
Empty == File("empty", Nothing)
Garbled == File("garbled", Nothing)

Idle == [pc |-> "idle", writes |-> <<>>, done |-> 0, offset |-> 0,
         snapshot |-> Nothing, target |-> "gone"]

Init ==
    /\ kind \in Kinds
    /\ entries = Nothing
    /\ call = [c \in Caller |-> Idle]
    /\ topic = <<>>
    /\ endOffset = 0
    /\ disk = [file |-> Absent, tmp |-> Absent]
    /\ cursor = -1
    /\ opened = 0
    /\ raced = FALSE
    /\ unsettled = {}

topicVars == <<topic, endOffset, raced>>
openVars == <<kind, cursor, opened>>

SlotsOf(writes) == {w.slot : w \in Range(writes)}

(***************************************************************************)
(* The map after the writes of one call (m.entries[...] = offset, and      *)
(* deleteGroupEntries).                                                    *)
(***************************************************************************)
Applied(map, writes) ==
    [k \in Slot |-> IF k \in SlotsOf(writes)
                    THEN (CHOOSE w \in Range(writes) : w.slot = k).val
                    ELSE map[k]]

Inflight == {c \in Caller : call[c].pc # "idle"}

(***************************************************************************)
(* A call that begins while another one is in flight: the slots they share *)
(* or, with the JSON file, which both rewrite whole, all slots.            *)
(***************************************************************************)
Overlap(writes) ==
    CASE kind = "topic" -> SlotsOf(writes) \intersect
                               UNION {SlotsOf(call[c].writes) : c \in Inflight}
      [] kind = "json" -> IF Inflight = {} THEN {} ELSE Slot
      [] OTHER -> {}

(***************************************************************************)
(* The first step of Commit and DeleteGroup.  The memory and JSON stores   *)
(* change the map under their lock; the JSON store takes its snapshot      *)
(* there.  The topic store has only collected the records to append.       *)
(***************************************************************************)
Begin(c, writes) ==
    /\ cursor = -1
    /\ call[c].pc = "idle"
    /\ entries' = IF kind = "topic" THEN entries ELSE Applied(entries, writes)
    /\ call' = CASE kind = "memory" -> call
                 [] kind = "json" -> [call EXCEPT ![c] =
                        [Idle EXCEPT !.pc = "open", !.snapshot = entries']]
                 [] OTHER -> [call EXCEPT ![c] =
                        [Idle EXCEPT !.pc = IF writes = <<>> THEN "apply"
                                                             ELSE "stamp",
                                     !.writes = writes]]
    /\ unsettled' = unsettled \union Overlap(writes)
    /\ UNCHANGED <<topicVars, disk, openVars>>

Commit(c, k, v) == Begin(c, <<[slot |-> k, val |-> v]>>)

(***************************************************************************)
(* DeleteGroup: the group's entries, in the order the map iteration has.   *)
(***************************************************************************)
DeleteGroup(c, g) ==
    LET slots == {k \in Slot : GroupOf[k] = g /\ entries[k] # NoOffset} IN
    \E order \in SetToSeqs(slots) :
        Begin(c, [i \in 1 .. Len(order) |->
                     [slot |-> order[i], val |-> NoOffset]])

-----------------------------------------------------------------------------
(***************************************************************************)
(* FileStore.Append in its two locked steps: the offset is read from       *)
(* HighWater, then the record is appended with it.                         *)
(***************************************************************************)
StampOffset(c) ==
    /\ call[c].pc = "stamp"
    /\ endOffset < MaxTopic /\ Len(topic) < MaxTopic
    /\ call' = [call EXCEPT ![c].pc = "append", ![c].offset = endOffset]
    /\ UNCHANGED <<entries, topicVars, disk, openVars, unsettled>>

AppendStamped(c) ==
    LET w == call[c].writes[call[c].done + 1] IN
    /\ call[c].pc = "append"
    /\ topic' = Append(topic, [offset |-> call[c].offset, slot |-> w.slot,
                               val |-> w.val])
    /\ endOffset' = call[c].offset + 1
    /\ raced' = (raced \/ call[c].offset # endOffset)
    /\ call' = [call EXCEPT ![c].done = @ + 1,
                            ![c].pc = IF call[c].done + 1 = Len(call[c].writes)
                                      THEN "apply" ELSE "stamp"]
    /\ UNCHANGED <<entries, disk, openVars, unsettled>>

(***************************************************************************)
(* Mutation: a failed append is taken for a successful one.                *)
(***************************************************************************)
AppendFailureIgnored(c) ==
    /\ call[c].pc = "append"
    /\ call' = [call EXCEPT ![c].pc = "apply"]
    /\ UNCHANGED <<entries, topicVars, disk, openVars, unsettled>>

(***************************************************************************)
(* Append returns an error: the call ends, the map stays, and tombstones   *)
(* written before this one stay in the topic.                              *)
(***************************************************************************)
AppendFails(c) ==
    /\ call[c].pc = "append"
    /\ call' = [call EXCEPT ![c] = Idle]
    /\ unsettled' = unsettled \union
                        SlotsOf(SubSeq(call[c].writes, 1, call[c].done))
    /\ UNCHANGED <<entries, topicVars, disk, openVars>>

(***************************************************************************)
(* The map follows the topic, under the store's lock.                      *)
(***************************************************************************)
ApplyWrites(c) ==
    /\ call[c].pc = "apply"
    /\ entries' = Applied(entries, call[c].writes)
    /\ call' = [call EXCEPT ![c] = Idle]
    /\ UNCHANGED <<topicVars, disk, openVars, unsettled>>

-----------------------------------------------------------------------------
(***************************************************************************)
(* persist, without the lock: os.WriteFile opens and truncates the one     *)
(* temporary file, writes the snapshot, and os.Rename moves it.  A writer  *)
(* whose file was renamed under it writes into the live file.              *)
(***************************************************************************)
OpenTemp(c) ==
    /\ call[c].pc = "open"
    /\ disk' = [disk EXCEPT !.tmp = Empty]
    /\ call' = [call EXCEPT ![c].pc = "write", ![c].target = "tmp"]
    /\ UNCHANGED <<entries, topicVars, openVars, unsettled>>

WriteTemp(c) ==
    LET target == call[c].target IN
    /\ call[c].pc = "write"
    /\ \/ target = "gone" /\ UNCHANGED disk
       \/ target # "gone" /\ disk' = [disk EXCEPT ![target] = File("ok", call[c].snapshot)]
       \/ /\ target # "gone" /\ disk[target] # Empty
          /\ disk' = [disk EXCEPT ![target] = Garbled]
    /\ call' = [call EXCEPT ![c].pc = "rename"]
    /\ UNCHANGED <<entries, topicVars, openVars, unsettled>>

Retarget(t) == CASE t = "tmp" -> "file" [] OTHER -> "gone"

RenameTemp(c) ==
    /\ call[c].pc = "rename"
    /\ disk' = IF disk.tmp = Absent THEN disk
               ELSE [file |-> disk.tmp, tmp |-> Absent]
    /\ call' = [d \in Caller |->
                   IF d = c THEN Idle
                   ELSE IF disk.tmp = Absent THEN call[d]
                   ELSE [call[d] EXCEPT !.target = Retarget(@)]]
    /\ UNCHANGED <<entries, topicVars, openVars, unsettled>>

(***************************************************************************)
(* A file operation fails: the error is returned, the map keeps the write. *)
(***************************************************************************)
PersistFails(c) ==
    /\ call[c].pc \in {"open", "write", "rename"}
    /\ call' = [call EXCEPT ![c] = Idle]
    /\ unsettled' = Slot
    /\ UNCHANGED <<entries, topicVars, disk, openVars>>

-----------------------------------------------------------------------------
(***************************************************************************)
(* The process ends and the store is opened again: load reads the JSON     *)
(* file, OpenTopicOffsetStore starts replay.  Calls in flight are cut off. *)
(* A file that does not parse keeps the broker from starting.              *)
(***************************************************************************)
Reopen ==
    /\ kind # "memory"
    /\ opened < MaxOpen
    /\ disk.file # Garbled
    /\ opened' = opened + 1
    /\ call' = [c \in Caller |-> Idle]
    /\ entries' = IF kind = "json" THEN disk.file.map ELSE Nothing
    /\ cursor' = IF kind = "topic" THEN 0 ELSE -1
    /\ unsettled' = {}
    /\ UNCHANGED <<kind, topicVars, disk>>

(***************************************************************************)
(* One round of replay: at most ReplayBatch records from the cursor on, a  *)
(* nil value deletes; the cursor moves behind the last of them.            *)
(***************************************************************************)
Replay ==
    LET found == SelectSeq(topic, LAMBDA r : r.offset >= cursor)
        batch == SubSeq(found, 1, IF Len(found) < ReplayBatch
                                  THEN Len(found) ELSE ReplayBatch)
        latest(k) == SelectLastInSeq(batch, LAMBDA r : r.slot = k)
    IN
    /\ cursor >= 0
    /\ entries' = [k \in Slot |-> IF latest(k) = 0 THEN entries[k]
                                  ELSE batch[latest(k)].val]
    /\ cursor' = IF batch = <<>> THEN -1 ELSE Last(batch).offset + 1
    /\ UNCHANGED <<kind, call, topicVars, disk, opened, unsettled>>

(***************************************************************************)
(* Mutation: compaction forgets tombstones before it looks for the latest  *)
(* record of a key.                                                        *)
(***************************************************************************)
CompactSkipsTombstones(sealed) ==
    LET latest(k) == SelectLastInSeq(sealed,
                         LAMBDA r : r.slot = k /\ r.val # NoOffset)
    IN  SelectSeq(sealed, LAMBDA r :
            /\ r.val # NoOffset
            /\ sealed[latest(r.slot)].offset = r.offset)

(***************************************************************************)
(* PartitionLog.Compact over the sealed segments of the topic: the latest  *)
(* record of a key stays, and a tombstone removes its key.                 *)
(***************************************************************************)
Compacted(sealed) ==
    LET latest(k) == SelectLastInSeq(sealed, LAMBDA r : r.slot = k)
    IN  SelectSeq(sealed, LAMBDA r :
            /\ r.val # NoOffset
            /\ sealed[latest(r.slot)].val # NoOffset
            /\ sealed[latest(r.slot)].offset = r.offset)

(***************************************************************************)
(* FileStore.Compact on the sweeper's tick; the active segment, which has  *)
(* at least the last record, is left alone.                                *)
(***************************************************************************)
Compact ==
    /\ kind = "topic"
    /\ \E n \in 1 .. Len(topic) - 1 :
          topic' = Compacted(SubSeq(topic, 1, n))
                       \o SubSeq(topic, n + 1, Len(topic))
    /\ topic' # topic
    /\ UNCHANGED <<entries, call, endOffset, disk, openVars, raced, unsettled>>

(***************************************************************************)
(* FileStore.EnforceRetention and EnforceSizeRetention treat the internal  *)
(* topic like every other partition: the oldest sealed segments go.        *)
(***************************************************************************)
Retain ==
    /\ kind = "topic"
    /\ \E n \in 1 .. Len(topic) - 1 :
          topic' = SubSeq(topic, n + 1, Len(topic))
    /\ UNCHANGED <<entries, call, endOffset, disk, openVars, raced, unsettled>>

Next ==
    \/ \E c \in Caller, k \in Slot : \E v \in Offsets[k] : Commit(c, k, v)
    \/ \E c \in Caller, g \in Range(GroupOf) : DeleteGroup(c, g)
    \/ \E c \in Caller : StampOffset(c)
    \/ \E c \in Caller : AppendStamped(c)
    \/ \E c \in Caller : AppendFails(c)
    \/ \E c \in Caller : ApplyWrites(c)
    \/ \E c \in Caller : OpenTemp(c)
    \/ \E c \in Caller : WriteTemp(c)
    \/ \E c \in Caller : RenameTemp(c)
    \/ \E c \in Caller : PersistFails(c)
    \/ Reopen
    \/ Replay
    \/ Compact

Spec == Init /\ [][Next]_vars

(***************************************************************************)
(* The same with retention configured.                                     *)
(***************************************************************************)
RetentionSpec == Init /\ [][Next \/ Retain]_vars

-----------------------------------------------------------------------------
(***************************************************************************)
(* The offsets a reader of the whole topic finds.                          *)
(***************************************************************************)
Durable ==
    [k \in Slot |->
        CASE kind = "topic" ->
                LET i == SelectLastInSeq(topic, LAMBDA r : r.slot = k)
                IN  IF i = 0 THEN NoOffset ELSE topic[i].val
          [] kind = "json" -> disk.file.map[k]
          [] OTHER -> entries[k]]

(***************************************************************************)
(* What Lookup answers agrees with what a restart would find, for every    *)
(* slot none of whose calls overlapped or failed half way and that no call *)
(* is at work on: whatever compaction, restarts and calls on other slots   *)
(* did.  Appends that were given the same offset are excluded, because     *)
(* replay may step over the second of them.                                *)
(***************************************************************************)
SettledSlotsAgree ==
    cursor = -1 /\ ~raced =>
        \A k \in Slot \ unsettled :
            (\A c \in Inflight : kind = "topic" /\ k \notin SlotsOf(call[c].writes))
                => entries[k] = Durable[k]

(***************************************************************************)
(* What a call of the topic store has still to append.                     *)
(***************************************************************************)
Unwritten(c) ==
    LET rest == SubSeq(call[c].writes, call[c].done + 1, Len(call[c].writes))
    IN  [k \in SlotsOf(rest) |-> (CHOOSE w \in Range(rest) : w.slot = k).val]

(***************************************************************************)
(* The topic store implements OffsetMap: what the topic holds changes only *)
(* by what a call is about to write, in any interleaving of calls,         *)
(* failures, compactions and restarts.  The JSON store does not (a stale   *)
(* snapshot takes back commits), and the memory store is the map itself:   *)
(* both are left out of the mapping.                                       *)
(***************************************************************************)
Map == INSTANCE OffsetMap WITH
           committed <- IF kind = "topic" THEN Durable ELSE Nothing,
           pending <- [c \in Caller |-> Unwritten(c)]

ImplementsOffsetMap == Map!Spec

(***************************************************************************)
(* "The store replays from offset 0 before returning so subsequent Lookup  *)
(* calls reflect the durable state" (topic_offsets.go:44-46): not with two *)
(* callers, because FileStore.Append may give two records one offset.      *)
(***************************************************************************)
ReplayIsDurable == cursor = -1 /\ Inflight = {} => entries = Durable

=============================================================================
