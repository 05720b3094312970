------------------------------- MODULE Topics -------------------------------
(***************************************************************************)
(* Topics of one broker: the registry and its file                         *)
(* (broker/internal/topic/topic.go), the stores that keep the records      *)
(* (broker/internal/storage/file.go and memory.go) and the broker's calls  *)
(* on both (broker.go CreateTopic, DeleteTopic, Publish), which do not     *)
(* exclude each other.                                                     *)
(*                                                                         *)
(* A topic has one partition.  Its store state is a handle: the            *)
(* PartitionLog with its open files, or the memPartition.  Records are     *)
(* known by the creation of the topic they were published to.              *)
(***************************************************************************)
EXTENDS Integers, Sequences

CONSTANTS
    Topic, TopicCaller,
    Kinds,                              \* of {"file", "memory"}
    MaxCreate, MaxRecord, MaxHandle, MaxCrash     \* bounds

ASSUME TopicsAssumption == Kinds \subseteq {"file", "memory"} /\ MaxRecord \in Nat

VARIABLES
    kind,
    registry, file,     \* topics and topics.json: the creation; 0: no topic
    created,            \* creations so far
    logs,               \* the store's map: handle of each topic; 0: no entry
    handle,             \* all handles: [recs, linked, closed]
    disk,               \* records in the topic's directory
    acked,              \* records of each topic acknowledged: <<creation, offset>>
    committed,          \* a group's committed offset
    topicCall,          \* the call each caller is in
    crashes,
    raced,              \* history: a DeleteTopic overlapped another call on
                        \* the store, or did not come to its end
    unsaved             \* history: saving topics.json failed

store == <<logs, handle, disk>>
topicVars == <<kind, registry, file, created, store, acked, committed, topicCall,
               crashes, raced, unsaved>>

NoCall == [pc |-> "idle", topic |-> "", creation |-> 0, handle |-> 0]

TopicsInit ==
    /\ kind \in Kinds
    /\ registry = [t \in Topic |-> 0]
    /\ file = registry
    /\ created = 0
    /\ logs = [t \in Topic |-> 0]
    /\ handle = <<>>
    /\ disk = [t \in Topic |-> <<>>]
    /\ acked = [t \in Topic |-> {}]
    /\ committed = [t \in Topic |-> 0]
    /\ topicCall = [c \in TopicCaller |-> NoCall]
    /\ crashes = 0
    /\ raced = FALSE /\ unsaved = FALSE

Busy(t) == \E c \in TopicCaller : topicCall[c].pc # "idle" /\ topicCall[c].topic = t
Publishing(t) ==
    \E c \in TopicCaller : topicCall[c].pc \in {"open", "append"} /\ topicCall[c].topic = t

-----------------------------------------------------------------------------
(***************************************************************************)
(* The persist hook: SaveFile replaces the file, or fails and leaves it;   *)
(* the registry keeps the change either way.                               *)
(***************************************************************************)
Persist(ok) ==
    /\ file' = IF ok THEN registry' ELSE file
    /\ unsaved' = (unsaved \/ ~ok)

CreateTopic(t, ok) ==
    /\ registry[t] = 0 /\ created < MaxCreate
    /\ created' = created + 1
    /\ registry' = [registry EXCEPT ![t] = created']
    /\ Persist(ok)
    /\ UNCHANGED <<kind, store, acked, committed, topicCall, crashes, raced>>

(***************************************************************************)
(* Broker.DeleteTopic: registry.Delete, which ends the call when it fails  *)
(* to save; then the store's DeleteTopic, for files in two steps.          *)
(***************************************************************************)
DeleteTopic(c, t, ok) ==
    /\ topicCall[c] = NoCall
    /\ registry[t] # 0
    /\ registry' = [registry EXCEPT ![t] = 0]
    /\ Persist(ok)
    /\ topicCall' = IF ~ok THEN topicCall
                    ELSE [topicCall EXCEPT ![c] = [NoCall EXCEPT !.pc = "forget", !.topic = t]]
    /\ raced' = (raced \/ Busy(t) \/ ~ok)
    /\ UNCHANGED <<kind, created, store, acked, committed, crashes>>

(***************************************************************************)
(* Mutation: the directory is removed and the open log stays.              *)
(***************************************************************************)
KeepLog(c) ==
    LET t == topicCall[c].topic IN
    /\ topicCall[c].pc = "forget"
    /\ topicCall' = [topicCall EXCEPT ![c].pc = "remove"]
    /\ UNCHANGED <<kind, registry, file, created, store, acked, committed, crashes,
                   raced, unsaved>>

(***************************************************************************)
(* FileStore.DeleteTopic closes the log and drops it from the map;         *)
(* MemoryStore.DeleteTopic drops the partition and is done.                *)
(***************************************************************************)
ForgetLog(c) ==
    LET t == topicCall[c].topic IN
    /\ topicCall[c].pc = "forget"
    /\ logs' = [logs EXCEPT ![t] = 0]
    /\ handle' = [h \in DOMAIN handle |->
                     IF h = logs[t] /\ kind = "file"
                     THEN [handle[h] EXCEPT !.closed = TRUE] ELSE handle[h]]
    /\ topicCall' = [topicCall EXCEPT ![c] =
                         IF kind = "file" THEN [@ EXCEPT !.pc = "remove"] ELSE NoCall]
    /\ UNCHANGED <<kind, registry, file, created, disk, acked, committed, crashes,
                   raced, unsaved>>

(***************************************************************************)
(* os.RemoveAll: a log opened meanwhile keeps its files, without names.    *)
(***************************************************************************)
RemoveAll(c) ==
    LET t == topicCall[c].topic IN
    /\ topicCall[c].pc = "remove"
    /\ disk' = [disk EXCEPT ![t] = <<>>]
    /\ handle' = [h \in DOMAIN handle |->
                     IF h = logs[t] THEN [handle[h] EXCEPT !.linked = FALSE]
                     ELSE handle[h]]
    /\ topicCall' = [topicCall EXCEPT ![c] = NoCall]
    /\ UNCHANGED <<kind, registry, file, created, logs, acked, committed, crashes,
                   raced, unsaved>>

-----------------------------------------------------------------------------
(***************************************************************************)
(* Publish: validate asks the registry; the partition's lock admits one    *)
(* publisher at a time.                                                    *)
(***************************************************************************)
Publish(c, t) ==
    /\ topicCall[c] = NoCall
    /\ registry[t] # 0
    /\ ~Publishing(t)
    /\ topicCall' = [topicCall EXCEPT ![c] = [NoCall EXCEPT !.pc = "open", !.topic = t,
                                                          !.creation = registry[t]]]
    /\ raced' = (raced \/ Busy(t))
    /\ UNCHANGED <<kind, registry, file, created, store, acked, committed, crashes,
                   unsaved>>

(***************************************************************************)
(* openLog, or getOrCreate: the handle in the map, or a new one with what  *)
(* the directory holds.                                                    *)
(***************************************************************************)
openLog(c) ==
    LET t == topicCall[c].topic IN
    /\ topicCall[c].pc = "open"
    /\ \/ /\ logs[t] # 0
          /\ UNCHANGED <<logs, handle>>
       \/ /\ logs[t] = 0 /\ Len(handle) < MaxHandle
          /\ handle' = Append(handle, [recs |-> disk[t], linked |-> kind = "file",
                                       closed |-> FALSE])
          /\ logs' = [logs EXCEPT ![t] = Len(handle')]
    /\ topicCall' = [topicCall EXCEPT ![c].pc = "append", ![c].handle = logs'[t]]
    /\ UNCHANGED <<kind, registry, file, created, disk, acked, committed, crashes,
                   raced, unsaved>>

(***************************************************************************)
(* The append by the handle; a closed log refuses it.                      *)
(***************************************************************************)
AppendRecord(c) ==
    LET w == topicCall[c]
        h == handle[w.handle]
        recs == Append(h.recs, w.creation)
    IN
    /\ w.pc = "append"
    /\ topicCall' = [topicCall EXCEPT ![c] = NoCall]
    /\ \/ h.closed /\ UNCHANGED <<handle, disk, acked>>
       \/ /\ ~h.closed /\ Len(h.recs) < MaxRecord
          /\ handle' = [handle EXCEPT ![w.handle].recs = recs]
          /\ disk' = IF h.linked THEN [disk EXCEPT ![w.topic] = recs] ELSE disk
          /\ acked' = [acked EXCEPT ![w.topic] = @ \union {<<w.creation, Len(recs)>>}]
    /\ UNCHANGED <<kind, registry, file, created, logs, committed, crashes, raced,
                   unsaved>>

(***************************************************************************)
(* A consumer group commits the high-water it has read up to.              *)
(***************************************************************************)
Commit(t) ==
    /\ registry[t] # 0 /\ logs[t] # 0
    /\ committed' = [committed EXCEPT ![t] = Len(handle[logs[t]].recs)]
    /\ UNCHANGED <<kind, registry, file, created, store, acked, topicCall, crashes, raced,
                   unsaved>>

(***************************************************************************)
(* The process ends and NewDisk opens its directory: LoadFile, no logs.    *)
(***************************************************************************)
Reopen ==
    /\ kind = "file" /\ crashes < MaxCrash
    /\ crashes' = crashes + 1
    /\ registry' = file
    /\ logs' = [t \in Topic |-> 0]
    /\ handle' = <<>>
    /\ topicCall' = [c \in TopicCaller |-> NoCall]
    /\ raced' = (raced \/ \E c \in TopicCaller : topicCall[c].pc \in {"forget", "remove"})
    /\ UNCHANGED <<kind, file, created, disk, acked, committed, unsaved>>

TopicsNext ==
    \/ \E t \in Topic, ok \in BOOLEAN :
          CreateTopic(t, ok) \/ \E c \in TopicCaller : DeleteTopic(c, t, ok)
    \/ \E c \in TopicCaller :
          ForgetLog(c) \/ RemoveAll(c) \/ openLog(c) \/ AppendRecord(c)
    \/ \E c \in TopicCaller, t \in Topic : Publish(c, t)
    \/ \E t \in Topic : Commit(t)
    \/ Reopen

TopicsSpec == TopicsInit /\ [][TopicsNext]_topicVars

-----------------------------------------------------------------------------
(***************************************************************************)
(* The records a reader of the topic gets.                                 *)
(***************************************************************************)
Readable(t) == IF logs[t] # 0 THEN handle[logs[t]].recs ELSE disk[t]

(***************************************************************************)
(* "the in-memory state always clears so a subsequent Append against a     *)
(* re-created topic of the same name starts from a clean partition log"    *)
(* (file.go:152-154): as long as no DeleteTopic overlaps another call or   *)
(* ends half way, a topic has the records acknowledged since its creation, *)
(* each at its offset, and no others, after restarts too.                  *)
(***************************************************************************)
TopicHasItsRecords ==
    ~raced /\ ~unsaved =>
        \A t \in Topic : registry[t] # 0 /\ ~Busy(t) =>
            /\ \A i \in DOMAIN Readable(t) : Readable(t)[i] = registry[t]
            /\ DOMAIN Readable(t) = {o \in 1 .. MaxRecord : <<registry[t], o>> \in acked[t]}

(***************************************************************************)
(* "A subsequent CreateTopic of the same name starts at offset 0 with no   *)
(* historical data" (broker.go:338-339), whatever overlaps.                *)
(***************************************************************************)
NoHistoricalData ==
    \A t \in Topic : registry[t] # 0 /\ ~Busy(t) =>
        \A i \in DOMAIN Readable(t) : Readable(t)[i] = registry[t]

(***************************************************************************)
(* A topic the registry accepted is there after a restart.                 *)
(***************************************************************************)
RegistryIsSaved == (\A c \in TopicCaller : topicCall[c] = NoCall) => registry = file

(***************************************************************************)
(* A group's committed offset lies within the topic it was committed for.  *)
(***************************************************************************)
CommittedWithinLog ==
    ~raced /\ ~unsaved =>
        \A t \in Topic : registry[t] # 0 /\ ~Busy(t) =>
            committed[t] <= Len(Readable(t))

=============================================================================
