------------------------------- MODULE Groups -------------------------------
(***************************************************************************)
(* The consumer-group coordinator (broker/internal/groups/manager.go): one *)
(* entry of Manager.groups, the committed offsets under its name and the   *)
(* long-poll heartbeats parked on it.  Every handler looks one group up by *)
(* name and touches no other, so one group is enough.  The handlers run    *)
(* under Manager.mu and are single steps; HeartbeatWait and Delete release *)
(* the lock half way and are split there.                                  *)
(***************************************************************************)
EXTENDS Assignment

CONSTANTS
    Member,          \* member IDs, ordered as the code's strings are
    Topic,           \* topic names
    Call,            \* the server goroutines that may run a HeartbeatWait
    Strategy,        \* Manager.strategy: "range" or "roundrobin"
    SessionTimeout,  \* Manager.sessionTimeout, in clock ticks
    MaxPartitions,   \* bound: the largest partition count of a topic
    MaxGeneration,   \* bound: rebalances of one group object
    MaxEpoch,        \* bound: group objects created under the name
    Offset           \* the offsets that may be committed

ASSUME GroupsAssumption ==
    /\ Member \subseteq Int /\ IsFiniteSet(Member)
    /\ Strategy \in {"range", "roundrobin"}
    /\ SessionTimeout \in Nat
    /\ MaxPartitions \in Nat
    /\ MaxGeneration \in Nat
    /\ MaxEpoch \in Nat
    /\ Offset \subseteq Nat

NoOffset == -1

VARIABLES
    registered,      \* the name is a key of Manager.groups
    epoch,           \* which group object it maps to: counts the creations
    members,         \* group.members
    age,             \* ticks since member.lastHeartbeat, capped when stale
    topics,          \* group.topics
    assignments,     \* group.assignments
    generation,      \* group.generation
    dirty,           \* group.dirty
    watchers,        \* group.watchers: the calls whose channel is listed
    wait,            \* each HeartbeatWait call: idle, parked or signalled
    partitions,      \* the topic registry: partition count, 0 if not registered
    committed,       \* OffsetStore entries under the group's name
    deleting,        \* where a Delete that has dropped the group is
    basis            \* history: the counts the last rebalance divided up

groupVars == <<registered, epoch, members, age, topics, assignments,
               generation, dirty, watchers, basis>>
storeVars == <<partitions, committed, deleting>>
vars == <<groupVars, wait, storeVars>>

WaitState == [state : {"idle", "parked", "signalled"},
              member : Member \union {0}, gen : Nat, epoch : Nat]

Idle == [state |-> "idle", member |-> 0, gen |-> 0, epoch |-> 0]

Partition == Topic \X (0 .. MaxPartitions - 1)

Stale == SessionTimeout + 1

-----------------------------------------------------------------------------
(***************************************************************************)
(* NewManager: no group, no parked call; the registry holds any topics.    *)
(***************************************************************************)
Init ==
    /\ registered = FALSE
    /\ epoch = 0
    /\ members = {}
    /\ age = [m \in Member |-> 0]
    /\ topics = {}
    /\ assignments = [m \in Member |-> {}]
    /\ generation = 0
    /\ dirty = FALSE
    /\ watchers = {}
    /\ wait = [c \in Call |-> Idle]
    /\ partitions \in [Topic -> 0 .. MaxPartitions]
    /\ committed = [p \in Partition |-> NoOffset]
    /\ deleting = "idle"
    /\ basis = [t \in Topic |-> 0]

(***************************************************************************)
(* evictStaleLocked, called on behalf of the member whose heartbeat has    *)
(* just been refreshed: the other members past the session timeout go.     *)
(***************************************************************************)
Evicted(present, self) == {m \in present \ {self} : age[m] = Stale}

Refreshed(ids) == [m \in Member |-> IF m \in ids THEN 0 ELSE age[m]]

Without(gone) == [m \in Member |-> IF m \in gone THEN {} ELSE assignments[m]]

(***************************************************************************)
(* notifyWatchersLocked: every listed channel gets its one buffered token  *)
(* and the list is cleared.                                                *)
(***************************************************************************)
NotifyWatchers ==
    /\ watchers' = {}
    /\ wait' = [c \in Call |-> IF c \in watchers
                               THEN [wait[c] EXCEPT !.state = "signalled"]
                               ELSE wait[c]]

(***************************************************************************)
(* Mutation: eviction does not wake the parked heartbeats.                 *)
(***************************************************************************)
NotifyNever(condition) == UNCHANGED <<watchers, wait>>

NotifyIf(condition) ==
    IF condition THEN NotifyWatchers ELSE UNCHANGED <<watchers, wait>>

(***************************************************************************)
(* rebalanceLocked succeeds only if every subscribed topic is registered.  *)
(***************************************************************************)
CanRebalance(subscribed) == \A t \in subscribed : partitions[t] > 0

(***************************************************************************)
(* Mutation: a rebalance keeps the generation.                             *)
(***************************************************************************)
RebalanceSameGeneration(present, subscribed) ==
    /\ assignments' = Assign(Strategy, Member, present, subscribed, partitions)
    /\ generation' = generation
    /\ dirty' = FALSE
    /\ basis' = [t \in Topic |-> IF t \in subscribed THEN partitions[t] ELSE 0]
    /\ NotifyWatchers

RebalanceLocked(present, subscribed) ==
    /\ assignments' = Assign(Strategy, Member, present, subscribed, partitions)
    /\ generation' = generation + 1
    /\ dirty' = FALSE
    /\ basis' = [t \in Topic |-> IF t \in subscribed THEN partitions[t] ELSE 0]
    /\ NotifyWatchers

(***************************************************************************)
(* The part of Join before the rebalance: find or create the group object, *)
(* insert or refresh the member, merge the topics, evict stale peers.      *)
(***************************************************************************)
JoinEnter(id, wanted, gone) ==
    /\ registered' = TRUE
    /\ epoch' = IF registered THEN epoch ELSE epoch + 1
    /\ members' = (members \union {id}) \ gone
    /\ age' = Refreshed({id} \union gone)
    /\ topics' = topics \union wanted
    /\ UNCHANGED storeVars

CanJoin(wanted) ==
    /\ wanted # {}
    /\ registered \/ epoch < MaxEpoch

SkipsRebalance(id, wanted, gone) ==
    id \in members /\ wanted \subseteq topics /\ gone = {} /\ ~dirty

(***************************************************************************)
(* Join with a rebalance that succeeds.                                    *)
(***************************************************************************)
JoinRebalance(id, wanted) ==
    LET gone == Evicted(members, id) IN
    /\ CanJoin(wanted)
    /\ ~SkipsRebalance(id, wanted, gone)
    /\ CanRebalance(topics \union wanted)
    /\ generation < MaxGeneration
    /\ JoinEnter(id, wanted, gone)
    /\ RebalanceLocked((members \union {id}) \ gone, topics \union wanted)

(***************************************************************************)
(* Join of a returning member with nothing to change: same assignment,     *)
(* same generation.                                                        *)
(***************************************************************************)
JoinSkip(id, wanted) ==
    LET gone == Evicted(members, id) IN
    /\ CanJoin(wanted)
    /\ SkipsRebalance(id, wanted, gone)
    /\ JoinEnter(id, wanted, gone)
    /\ UNCHANGED <<assignments, generation, dirty, watchers, basis, wait>>

(***************************************************************************)
(* Join whose rebalance fails because a topic is unknown: the error goes   *)
(* back to the caller, the member and the topics stay in the group.        *)
(***************************************************************************)
JoinFail(id, wanted) ==
    LET gone == Evicted(members, id) IN
    /\ CanJoin(wanted)
    /\ ~SkipsRebalance(id, wanted, gone)
    /\ ~CanRebalance(topics \union wanted)
    /\ JoinEnter(id, wanted, gone)
    /\ assignments' = Without(gone)
    /\ dirty' = (dirty \/ gone # {})
    /\ NotifyIf(gone # {})
    /\ UNCHANGED <<generation, basis>>

Join(id, wanted) ==
    JoinRebalance(id, wanted) \/ JoinSkip(id, wanted) \/ JoinFail(id, wanted)

(***************************************************************************)
(* Mutation: a heartbeat that evicts does not mark the group dirty.        *)
(***************************************************************************)
HeartbeatNotDirty(id, gone) ==
    /\ registered
    /\ id \in members
    /\ members' = members \ gone
    /\ age' = Refreshed({id} \union gone)
    /\ assignments' = Without(gone)
    /\ UNCHANGED <<registered, epoch, topics, generation, dirty, basis,
                   storeVars>>

(***************************************************************************)
(* heartbeatLocked for a known member: refresh, evict, and (for the        *)
(* waiting variant) the answer.  An unknown group or member changes        *)
(* nothing and answers ErrUnknownMember.                                   *)
(***************************************************************************)
HeartbeatLocked(id, gone) ==
    /\ registered
    /\ id \in members
    /\ members' = members \ gone
    /\ age' = Refreshed({id} \union gone)
    /\ assignments' = Without(gone)
    /\ dirty' = (dirty \/ gone # {})
    /\ UNCHANGED <<registered, epoch, topics, generation, basis, storeVars>>

(***************************************************************************)
(* Mutation: the heartbeat does not compare generations.                   *)
(***************************************************************************)
RebalanceNeededByDirty(id, gen) ==
    \/ ~registered
    \/ id \notin members
    \/ dirty
    \/ Evicted(members, id) # {}

RebalanceNeeded(id, gen) ==
    \/ ~registered
    \/ id \notin members
    \/ gen # generation
    \/ dirty
    \/ Evicted(members, id) # {}

Heartbeat(id) ==
    LET gone == Evicted(members, id) IN
    /\ HeartbeatLocked(id, gone)
    /\ NotifyIf(gone # {})

(***************************************************************************)
(* HeartbeatWait whose first half answers "no rebalance": it registers its *)
(* channel under the lock and parks.  (When the answer is "rebalance" it   *)
(* returns at once and is a Heartbeat.)                                    *)
(***************************************************************************)
HeartbeatPark(c, id, gen) ==
    /\ wait[c].state = "idle"
    /\ ~RebalanceNeeded(id, gen)
    /\ HeartbeatLocked(id, {})
    /\ watchers' = watchers \union {c}
    /\ wait' = [wait EXCEPT ![c] = [state |-> "parked", member |-> id,
                                    gen |-> gen, epoch |-> epoch]]

(***************************************************************************)
(* The select of HeartbeatWait takes the wake-up: RebalanceNeeded.         *)
(***************************************************************************)
HeartbeatWake(c) ==
    /\ wait[c].state = "signalled"
    /\ wait' = [wait EXCEPT ![c] = Idle]
    /\ UNCHANGED <<groupVars, storeVars>>

(***************************************************************************)
(* The select takes the timer or the cancelled context, which Go may do    *)
(* even when the wake-up is there too; removeWatcher looks the group up by *)
(* name again and drops the channel from whichever object it finds.        *)
(***************************************************************************)
HeartbeatExpire(c) ==
    /\ wait[c].state # "idle"
    /\ wait' = [wait EXCEPT ![c] = Idle]
    /\ watchers' = watchers \ {c}
    /\ UNCHANGED <<registered, epoch, members, age, topics, assignments,
                   generation, dirty, basis, storeVars>>

(***************************************************************************)
(* The group object leaves the map; the next Join makes a fresh one.       *)
(***************************************************************************)
DropGroup ==
    /\ registered' = FALSE
    /\ members' = {}
    /\ topics' = {}
    /\ assignments' = [m \in Member |-> {}]
    /\ generation' = 0
    /\ dirty' = FALSE
    /\ age' = [m \in Member |-> 0]
    /\ basis' = [t \in Topic |-> 0]
    /\ epoch' = epoch

(***************************************************************************)
(* Mutation: a departure does not mark the group dirty.                    *)
(***************************************************************************)
LeaveNotDirty(id) ==
    /\ registered
    /\ id \in members
    /\ NotifyWatchers
    /\ UNCHANGED storeVars
    /\ IF members = {id}
       THEN DropGroup
       ELSE /\ members' = members \ {id}
            /\ assignments' = Without({id})
            /\ age' = Refreshed({id})
            /\ UNCHANGED <<registered, epoch, topics, generation, dirty, basis>>

Leave(id) ==
    /\ registered
    /\ id \in members
    /\ NotifyWatchers
    /\ UNCHANGED storeVars
    /\ IF members = {id}
       THEN DropGroup
       ELSE /\ members' = members \ {id}
            /\ assignments' = Without({id})
            /\ age' = Refreshed({id})
            /\ dirty' = TRUE
            /\ UNCHANGED <<registered, epoch, topics, generation, basis>>

(***************************************************************************)
(* Delete drops the group object (if there is one) without waking its      *)
(* watchers and releases the lock.  Without a group object it then looks   *)
(* for offsets and stops with ErrUnknownGroup if there are none; otherwise *)
(* it clears the offsets.  One Delete at a time is a bound of the model.   *)
(***************************************************************************)
Delete ==
    /\ deleting = "idle"
    /\ deleting' = IF registered THEN "clearing" ELSE "listing"
    /\ watchers' = {}
    /\ DropGroup
    /\ UNCHANGED <<wait, partitions, committed>>

DeleteLists ==
    /\ deleting = "listing"
    /\ deleting' = IF \E p \in Partition : committed[p] # NoOffset
                   THEN "clearing" ELSE "idle"
    /\ UNCHANGED <<groupVars, wait, partitions, committed>>

DeleteOffsets ==
    /\ deleting = "clearing"
    /\ deleting' = "idle"
    /\ committed' = [p \in Partition |-> NoOffset]
    /\ UNCHANGED <<groupVars, wait, partitions>>

(***************************************************************************)
(* Commit goes straight to the offset store: neither the membership nor    *)
(* the generation of the committer is looked at.                           *)
(***************************************************************************)
Commit(p, offset) ==
    /\ committed' = [committed EXCEPT ![p] = offset]
    /\ UNCHANGED <<groupVars, wait, partitions, deleting>>

(***************************************************************************)
(* The topic registry, whose PartitionsFor the coordinator calls.          *)
(***************************************************************************)
CreateTopic(t, n) ==
    /\ partitions[t] = 0
    /\ n > 0
    /\ partitions' = [partitions EXCEPT ![t] = n]
    /\ UNCHANGED <<groupVars, wait, committed, deleting>>

DeleteTopic(t) ==
    /\ partitions[t] > 0
    /\ partitions' = [partitions EXCEPT ![t] = 0]
    /\ UNCHANGED <<groupVars, wait, committed, deleting>>

(***************************************************************************)
(* The wall clock: every member's last heartbeat gets one tick older.      *)
(***************************************************************************)
Tick ==
    /\ \E m \in members : age[m] < Stale
    /\ age' = [m \in Member |-> IF m \in members /\ age[m] < Stale
                                THEN age[m] + 1 ELSE age[m]]
    /\ UNCHANGED <<registered, epoch, members, topics, assignments, generation,
                   dirty, watchers, basis, wait, storeVars>>

Next ==
    \/ \E id \in Member, wanted \in SUBSET Topic : Join(id, wanted)
    \/ \E id \in Member : Heartbeat(id)
    \/ \E c \in Call, id \in Member, gen \in 0 .. MaxGeneration :
            HeartbeatPark(c, id, gen)
    \/ \E c \in Call : HeartbeatWake(c)
    \/ \E c \in Call : HeartbeatExpire(c)
    \/ \E id \in Member : Leave(id)
    \/ Delete
    \/ DeleteLists
    \/ DeleteOffsets
    \/ \E p \in Partition, offset \in Offset : Commit(p, offset)
    \/ \E t \in Topic, n \in 1 .. MaxPartitions : CreateTopic(t, n)
    \/ \E t \in Topic : DeleteTopic(t)
    \/ Tick

Spec == Init /\ [][Next]_vars

-----------------------------------------------------------------------------
(***************************************************************************)
(* The values the coordinator's fields take.                               *)
(***************************************************************************)
TypeOK ==
    /\ registered \in BOOLEAN
    /\ epoch \in Nat
    /\ members \in SUBSET Member
    /\ age \in [Member -> 0 .. Stale]
    /\ topics \in SUBSET Topic
    /\ assignments \in [Member -> SUBSET Partition]
    /\ generation \in Nat
    /\ dirty \in BOOLEAN
    /\ watchers \in SUBSET Call
    /\ wait \in [Call -> WaitState]
    /\ partitions \in [Topic -> 0 .. MaxPartitions]
    /\ committed \in [Partition -> Offset \union {NoOffset}]
    /\ deleting \in {"idle", "listing", "clearing"}
    /\ basis \in [Topic -> 0 .. MaxPartitions]

(***************************************************************************)
(* Only members own partitions, and a group object is in the map exactly   *)
(* as long as it has members: no path of Join, Leave, eviction or Delete   *)
(* leaves an assignment behind or an empty group registered.               *)
(***************************************************************************)
OwnersAreMembers ==
    /\ registered <=> members # {}
    /\ \A m \in Member : assignments[m] # {} => m \in members

(***************************************************************************)
(* Within the coordinator's tables no partition ever has two owners, also  *)
(* between an eviction or a failed rebalance and the next good one.        *)
(***************************************************************************)
ExclusiveOwnership ==
    \A m1, m2 \in Member :
        m1 # m2 => assignments[m1] \intersect assignments[m2] = {}

(***************************************************************************)
(* As long as the group is not marked dirty, the members own together      *)
(* exactly the partitions that the last successful rebalance divided up:   *)
(* whatever takes an owner away (Leave, eviction inside Join or Heartbeat) *)
(* also sets dirty, and a failed Join takes nothing away.                  *)
(***************************************************************************)
FullCoverage ==
    registered /\ ~dirty =>
        UNION {assignments[m] : m \in members} = AllPartitions(Topic, basis)

(***************************************************************************)
(* No lost wake-up: a HeartbeatWait that is parked on the group object and *)
(* has not been signalled belongs to a member that is up to date, so every *)
(* step that makes a rejoin necessary has signalled the calls it concerns. *)
(***************************************************************************)
NoLostWakeup ==
    \A c \in Call :
        /\ wait[c].state = "parked"
        /\ registered
        /\ wait[c].epoch = epoch
        => /\ wait[c].gen = generation
           /\ wait[c].member \in members
           /\ ~dirty

(***************************************************************************)
(* Within the life of one group object the generation never falls, and a   *)
(* partition is handed to a member only under a new generation: an         *)
(* assignment may shrink (eviction, Leave) without one, never grow.        *)
(***************************************************************************)
NoGrantWithoutGeneration ==
    [][registered /\ registered' =>
        /\ generation' >= generation
        /\ generation' = generation =>
            \A m \in Member : assignments'[m] \subseteq assignments[m]]_vars

(***************************************************************************)
(* What the comment on HeartbeatWait says of a peer that joins while the   *)
(* wait is active: the wait is signalled.  A wait parked on a deleted      *)
(* group object is not, when a peer then joins under the same name.        *)
(***************************************************************************)
PeerJoinSignals ==
    \A c \in Call :
        wait[c].state = "parked" /\ registered => wait[c].epoch = epoch

(***************************************************************************)
(* What the comment on Delete says of a rejoin: it finds no historical     *)
(* offsets.  The rejoin may run between Delete's unlock and DeleteGroup.   *)
(***************************************************************************)
FreshAfterDelete ==
    [][deleting # "idle" /\ ~registered /\ registered' =>
        \A p \in Partition : committed[p] = NoOffset]_vars

=============================================================================
