------------------------------ MODULE Cluster -------------------------------
(***************************************************************************)
(* Brokers that replicate produces and topic changes through Raft          *)
(* (broker/internal/cluster, and publishClustered and the topic calls of   *)
(* broker/internal/broker).  Raft itself is the library hashicorp/raft:    *)
(* here it is the sequence of committed entries, in the order every node   *)
(* applies them, and the index each node has applied.  That index is not   *)
(* durable: a node that restarts applies the entries after its newest      *)
(* snapshot again.  Its store and topics.json are durable.                 *)
(*                                                                         *)
(* A record is known by the index of the entry that proposed it.           *)
(***************************************************************************)
EXTENDS Integers, SequencesExt

CONSTANTS
    Node, Topic,
    Retention,                       \* settings a topic may have; 0: no topic
    MaxEntry, MaxRestart, MaxSnapshot, MaxDirect, MaxSync \* bounds

VARIABLES
    entries,        \* the committed Raft log
    applied,        \* index of the last entry each node has applied
    topics,         \* each node's registry
    file,           \* each node's topics.json
    data,           \* each node's records of each topic
    snap,           \* each node's newest snapshot
    sync,           \* a SyncPartitionFromPeer in progress at each node
    restarts, snapshots, directs, syncs,
    catchup         \* history: nodes that restored another node's snapshot
                    \* or copied records from a peer

counters == <<restarts, snapshots, directs, syncs>>
nodes == <<applied, topics, file, data, snap, sync>>
vars == <<entries, nodes, counters, catchup>>

NoSnapshot == [index |-> 0, topics |-> [t \in Topic |-> 0]]
NoSync == [target |-> 0]

Init ==
    /\ entries = <<>>
    /\ applied = [n \in Node |-> 0]
    /\ topics = [n \in Node |-> [t \in Topic |-> 0]]
    /\ file = topics
    /\ data = [n \in Node |-> [t \in Topic |-> <<>>]]
    /\ snap = [n \in Node |-> NoSnapshot]
    /\ sync = [n \in Node |-> NoSync]
    /\ restarts = 0 /\ snapshots = 0 /\ directs = 0 /\ syncs = 0
    /\ catchup = {}

-----------------------------------------------------------------------------
(***************************************************************************)
(* Cluster.Apply of a command by the leader; other nodes answer            *)
(* ErrNotLeader.  The entry is committed whether or not the leader's       *)
(* client still waits for it.                                              *)
(***************************************************************************)
Propose(cmd) ==
    /\ Len(entries) < MaxEntry
    /\ entries' = Append(entries, cmd)
    /\ UNCHANGED <<nodes, counters, catchup>>

Command(kind, t, r) == [kind |-> kind, topic |-> t, retention |-> r]

(***************************************************************************)
(* The leader, whichever node is that now, checks the topic in its own     *)
(* registry before it proposes an append, with OffsetUnstamped.            *)
(***************************************************************************)
publishClustered(l, t) == topics[l][t] # 0 /\ Propose(Command("append", t, 0))
CreateTopic(t, r) == Propose(Command("create", t, r))
UpdateTopicConfig(t, r) == Propose(Command("update", t, r))
DeleteTopic(t) == Propose(Command("delete", t, 0))

-----------------------------------------------------------------------------
(***************************************************************************)
(* The FSM.  Each apply gives the registry and the records of the topic    *)
(* after it.  registry.Create fails on a topic that exists, UpdateConfig   *)
(* on one that does not; the errors change nothing and save no file.       *)
(***************************************************************************)
applyCreateTopic(had, r) == IF had = 0 THEN r ELSE had

applyUpdateTopicConfig(had, r) == IF had = 0 THEN 0 ELSE r

(***************************************************************************)
(* applyDeleteTopic drops the records whatever registry.Delete answers.    *)
(***************************************************************************)
applyDeleteTopic(had, recs) == <<>>

(***************************************************************************)
(* applyAppend of an unstamped command: the store gives it the next        *)
(* offset.                                                                 *)
(***************************************************************************)
applyAppend(recs, i) == Append(recs, i)

ApplyEntry(n) ==
    LET i == applied[n] + 1
        e == entries[i]
        had == topics[n][e.topic]
        recs == data[n][e.topic]
        reg == CASE e.kind = "create" -> applyCreateTopic(had, e.retention)
                 [] e.kind = "update" -> applyUpdateTopicConfig(had, e.retention)
                 [] e.kind = "delete" -> 0
                 [] OTHER -> had
        rest == CASE e.kind = "append" -> applyAppend(recs, i)
                  [] e.kind = "delete" -> applyDeleteTopic(had, recs)
                  [] OTHER -> recs
    IN
    /\ i <= Len(entries)
    /\ applied' = [applied EXCEPT ![n] = i]
    /\ topics' = [topics EXCEPT ![n][e.topic] = reg]
    /\ file' = IF e.kind # "append" /\ (e.kind = "create") = (had = 0)
               THEN [file EXCEPT ![n] = topics'[n]] ELSE file
    /\ data' = [data EXCEPT ![n][e.topic] = rest]
    /\ UNCHANGED <<entries, snap, sync, counters, catchup>>

(***************************************************************************)
(* FSM.Snapshot has the registry and no records.                           *)
(***************************************************************************)
Snapshot(n) ==
    /\ snapshots < MaxSnapshot
    /\ snapshots' = snapshots + 1
    /\ snap' = [snap EXCEPT ![n] = [index |-> applied[n], topics |-> topics[n]]]
    /\ UNCHANGED <<entries, applied, topics, file, data, sync,
                   restarts, directs, syncs, catchup>>

(***************************************************************************)
(* Mutation: Hydrate adds to the topics the registry has.                  *)
(***************************************************************************)
RestoreAdds(had, s) == [t \in Topic |-> IF s.topics[t] = 0 THEN had[t]
                                        ELSE s.topics[t]]

(***************************************************************************)
(* Restore: Hydrate replaces the registry, and writes no file.             *)
(***************************************************************************)
Restore(had, s) == s.topics

(***************************************************************************)
(* A node that lags behind what m's log still has gets m's snapshot.       *)
(***************************************************************************)
InstallSnapshot(n, m) ==
    /\ snap[m].index > applied[n]
    /\ applied' = [applied EXCEPT ![n] = snap[m].index]
    /\ topics' = [topics EXCEPT ![n] = Restore(topics[n], snap[m])]
    /\ snap' = [snap EXCEPT ![n] = snap[m]]
    /\ catchup' = catchup \union {n}
    /\ UNCHANGED <<entries, file, data, sync, counters>>

(***************************************************************************)
(* The process ends and NewDisk opens the directory again: LoadFile, then  *)
(* the newest snapshot if there is one.                                    *)
(***************************************************************************)
Restart(n) ==
    /\ restarts < MaxRestart
    /\ restarts' = restarts + 1
    /\ applied' = [applied EXCEPT ![n] = snap[n].index]
    /\ topics' = [topics EXCEPT ![n] = IF snap[n].index = 0 THEN file[n]
                                       ELSE Restore(file[n], snap[n])]
    /\ sync' = [sync EXCEPT ![n] = NoSync]
    /\ UNCHANGED <<entries, file, data, snap, snapshots, directs, syncs,
                   catchup>>

-----------------------------------------------------------------------------
(***************************************************************************)
(* embed.Broker.CreateTopic registers the topic at this node alone.        *)
(***************************************************************************)
CreateTopicDirectly(n, t, r) ==
    /\ directs < MaxDirect
    /\ directs' = directs + 1
    /\ topics[n][t] = 0
    /\ topics' = [topics EXCEPT ![n][t] = r]
    /\ file' = [file EXCEPT ![n] = topics'[n]]
    /\ UNCHANGED <<entries, applied, data, snap, sync, restarts, snapshots,
                   syncs, catchup>>

(***************************************************************************)
(* SyncPartitionFromPeer: the peer's high-water is the target, the local   *)
(* one the first offset read; records are appended one at a time.          *)
(***************************************************************************)
SyncPartitionFromPeer(n, m, t) ==
    /\ n # m /\ syncs < MaxSync /\ sync[n] = NoSync
    /\ topics[n][t] # 0
    /\ Len(data[n][t]) < Len(data[m][t])
    /\ syncs' = syncs + 1
    /\ sync' = [sync EXCEPT ![n] = [from |-> m, topic |-> t,
                                    cursor |-> Len(data[n][t]),
                                    target |-> Len(data[m][t])]]
    /\ catchup' = catchup \union {n}
    /\ UNCHANGED <<entries, applied, topics, file, data, snap,
                   restarts, snapshots, directs>>

SyncAppend(n) ==
    LET s == sync[n] IN
    /\ s # NoSync
    /\ s.cursor < Len(data[s.from][s.topic])
    /\ data' = [data EXCEPT ![n][s.topic] =
                   Append(@, data[s.from][s.topic][s.cursor + 1])]
    /\ sync' = [sync EXCEPT ![n] = IF Len(data'[n][s.topic]) >= s.target THEN NoSync
                                   ELSE [s EXCEPT !.cursor = @ + 1]]
    /\ UNCHANGED <<entries, applied, topics, file, snap, counters, catchup>>

Next ==
    \/ \E n \in Node :
          \/ ApplyEntry(n) \/ Snapshot(n) \/ Restart(n) \/ SyncAppend(n)
          \/ \E m \in Node : InstallSnapshot(n, m)
          \/ \E m \in Node, t \in Topic : SyncPartitionFromPeer(n, m, t)
          \/ \E t \in Topic, r \in Retention : CreateTopicDirectly(n, t, r)
    \/ \E n \in Node, t \in Topic : publishClustered(n, t)
    \/ \E t \in Topic : DeleteTopic(t)
    \/ \E t \in Topic, r \in Retention : CreateTopic(t, r) \/ UpdateTopicConfig(t, r)

Spec == Init /\ [][Next]_vars

-----------------------------------------------------------------------------
CaughtUp == {n \in Node : applied[n] = Len(entries)}

(***************************************************************************)
(* "Replicated through Raft so every node converges on the same topic set" *)
(* (command.go:42-43): nodes that have applied the whole log have the same *)
(* topics, after any restarts, replays and snapshots.                      *)
(***************************************************************************)
TopicsConverge ==
    directs = 0 => \A n, m \in CaughtUp, t \in Topic :
                       topics[n][t] = 0 <=> topics[m][t] = 0

(***************************************************************************)
(* "A subsequent CreateTopic of the same name starts at offset 0 with no   *)
(* historical data" (broker.go:338-339): a node that follows the Raft log  *)
(* alone has no record older than a deletion it has applied.               *)
(***************************************************************************)
DeletedIsGone ==
    \A n \in Node \ catchup, t \in Topic, d \in DOMAIN entries :
        d <= applied[n] /\ entries[d] = Command("delete", t, 0)
            => \A i \in DOMAIN data[n][t] : data[n][t][i] > d

(***************************************************************************)
(* "every node's local store has the same records" (docs/stage-5.md:160),  *)
(* for the nodes that have applied the whole log.                          *)
(***************************************************************************)
ReplicasAgree == \A n, m \in CaughtUp : data[n] = data[m]

(***************************************************************************)
(* "Replicated through Raft so every cluster node converges"               *)
(* (broker.go:310-311), of the settings of a topic.                        *)
(***************************************************************************)
SettingsConverge ==
    directs = 0 => \A n, m \in CaughtUp : topics[n] = topics[m]

(***************************************************************************)
(* The first two for the calls they leave out: topics created through      *)
(* embed.Broker ("Produces and topic creation route through Raft Apply",   *)
(* embed.go:148-149) and nodes that caught up from a snapshot or a peer.   *)
(***************************************************************************)
AnyTopicsConverge ==
    \A n, m \in CaughtUp, t \in Topic : topics[n][t] = 0 <=> topics[m][t] = 0

NowhereDeletedRecords ==
    \A n \in Node, t \in Topic, d \in DOMAIN entries :
        d <= applied[n] /\ entries[d] = Command("delete", t, 0)
            => \A i \in DOMAIN data[n][t] : data[n][t][i] > d

=============================================================================
