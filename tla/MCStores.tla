------------------------------ MODULE MCStores ------------------------------
(***************************************************************************)
(* What a node keeps: the broker's producer checkpoints (Broker), the      *)
(* group offsets, the topic registry with the store's logs, and the        *)
(* replicated state machine.  They share no variable here: each behaviour  *)
(* runs the one that focus names, and the others stay in one initial state,*)
(* where their properties hold.  The broker and the topics are extended;   *)
(* the others are instances.                                               *)
(***************************************************************************)
EXTENDS Broker, Topics, TLC

CONSTANT Node

VARIABLES
    focus,
    offsetKind, entries, offsetCall, topic, endOffset, offsetDisk, cursor,
    opened, offsetRaced, unsettled,
    raftLog, applied, topics, nodeFile, data, snap, sync, nodeRestarts,
    snapshots, directs, syncs, catchup

Committed == INSTANCE OffsetStore WITH
    Kinds <- {"memory", "topic", "json"}, Slot <- {1, 2},
    GroupOf <- <<"g", "g">>, Offsets <- <<{0, 1}, {0}>>, ReplayBatch <- 2,
    MaxTopic <- 2, MaxOpen <- 1,
    kind <- offsetKind, call <- offsetCall, disk <- offsetDisk,
    raced <- offsetRaced

(***************************************************************************)
(* The topic store again, with commits for one slot only but a topic long  *)
(* enough for a commit and its tombstone to be compacted away.             *)
(***************************************************************************)
OneSlot == INSTANCE OffsetStore WITH
    Kinds <- {"topic"}, Slot <- {1, 2},
    GroupOf <- <<"g", "g">>, Offsets <- <<{0, 1}, {}>>, ReplayBatch <- 2,
    MaxTopic <- 3, MaxOpen <- 1,
    kind <- offsetKind, call <- offsetCall, disk <- offsetDisk,
    raced <- offsetRaced

Replicas == INSTANCE Cluster WITH
    Retention <- {1}, MaxEntry <- 3, MaxRestart <- 1,
    MaxSnapshot <- 1, MaxDirect <- 1, MaxSync <- 1,
    entries <- raftLog, file <- nodeFile, restarts <- nodeRestarts

offsetState == <<offsetKind, entries, offsetCall, topic, endOffset, offsetDisk,
                 cursor, opened, offsetRaced, unsettled>>
replicaState == <<raftLog, applied, topics, nodeFile, data, snap, sync,
                  nodeRestarts, snapshots, directs, syncs, catchup>>

MCInit ==
    /\ focus \in {"broker", "offsets", "oneSlot", "topics", "replicas"}
    /\ Init
    /\ Committed!Init
    /\ focus # "offsets" => offsetKind = IF focus = "oneSlot" THEN "topic" ELSE "memory"
    /\ TopicsInit
    /\ focus # "topics" => kind = "memory"
    /\ Replicas!Init

MCNext ==
    \/ /\ focus = "broker" /\ Next
       /\ UNCHANGED <<focus, offsetState, topicVars, replicaState>>
    \/ /\ focus = "offsets" /\ Committed!Next
       /\ UNCHANGED <<focus, vars, topicVars, replicaState>>
    \/ /\ focus = "oneSlot" /\ OneSlot!Next
       /\ UNCHANGED <<focus, vars, topicVars, replicaState>>
    \/ /\ focus = "topics" /\ TopicsNext
       /\ UNCHANGED <<focus, vars, offsetState, replicaState>>
    \/ /\ focus = "replicas" /\ Replicas!Next
       /\ UNCHANGED <<focus, vars, offsetState, topicVars>>

MCSpec == MCInit /\ [][MCNext]_<<focus, vars, offsetState, topicVars, replicaState>>

(***************************************************************************)
(* Only the component that runs tells two states apart.                    *)
(***************************************************************************)
MCView ==
    CASE focus = "broker" -> <<focus, vars>>
      [] focus \in {"offsets", "oneSlot"} -> <<focus, offsetState>>
      [] focus = "topics" -> <<focus, topicVars>>
      [] focus = "replicas" -> <<focus, replicaState>>

(***************************************************************************)
(* Callers of the broker and of the stores are interchangeable, and so are *)
(* the nodes of the cluster.                                               *)
(***************************************************************************)
MCSymmetry == Permutations(Caller) \union Permutations(Node)

-----------------------------------------------------------------------------
(***************************************************************************)
(* See OffsetStore: an offset no call is working on is the same in memory  *)
(* and in the store.                                                       *)
(***************************************************************************)
SettledSlotsAgree ==
    focus \in {"offsets", "oneSlot"} => Committed!SettledSlotsAgree

(***************************************************************************)
(* See OffsetStore: the topic store implements OffsetMap.                  *)
(***************************************************************************)
ImplementsOffsetMap == Committed!ImplementsOffsetMap

(***************************************************************************)
(* See Cluster: nodes that have applied the same commands have the same    *)
(* topics, and a deleted topic leaves no records.                          *)
(***************************************************************************)
ReplicasConverge ==
    focus = "replicas" => Replicas!TopicsConverge /\ Replicas!DeletedIsGone

=============================================================================
