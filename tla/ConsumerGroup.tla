--------------------------- MODULE ConsumerGroup ----------------------------
(***************************************************************************)
(* The coordinator of Groups together with the group consumers of the SDK  *)
(* (sdk/consumer.go): Subscribe, the heartbeat goroutine, rejoin, Commit   *)
(* and Close.  A consumer's step that calls the broker takes the matching  *)
(* step of the coordinator; the answer to JoinGroup travels separately and *)
(* may be lost.  A consumer keeps its member ID, as WithMemberID does; a   *)
(* consumer without one is one that never subscribes twice.                *)
(***************************************************************************)
EXTENDS Groups

CONSTANTS
    MaxChurn         \* bound: Subscribe, Close, crash and Delete events

ASSUME ConsumerGroupAssumption == MaxChurn \in Nat /\ Call = Member

VARIABLES
    phase,           \* where each consumer is in its life
    session,         \* generation and assignment it works under, its pumps
    reply,           \* the JoinGroup answer under way to it
    churn            \* events so far

clientVars == <<phase, session, reply, churn>>
allVars == <<vars, clientVars>>

NoSession == [gen |-> 0, epoch |-> 0, assigned |-> {}]
NoReply == [ok |-> FALSE, gen |-> 0, epoch |-> 0, assigned |-> {}]

(***************************************************************************)
(* out         not subscribed, or the process is gone                      *)
(* subscribing Subscribe has called JoinGroup, no pumps yet                *)
(* beating     the heartbeat goroutine is between two heartbeats           *)
(* parked      a long-poll heartbeat is open                               *)
(* stale       told to rejoin; the old pumps still run                     *)
(* rejoining   rejoin has called JoinGroup; the old pumps still run        *)
(* leaving     Close has cancelled the pumps and not yet left the group    *)
(***************************************************************************)
Phase == {"out", "subscribing", "beating", "parked", "stale", "rejoining",
          "leaving"}

Consuming(m) == phase[m] \in {"beating", "parked", "stale", "rejoining"}

GroupInit ==
    /\ Init
    /\ phase = [m \in Member |-> "out"]
    /\ session = [m \in Member |-> NoSession]
    /\ reply = [m \in Member |-> NoReply]
    /\ churn = 0

Churn == churn < MaxChurn /\ churn' = churn + 1

Move(m, from, to) == phase[m] = from /\ phase' = [phase EXCEPT ![m] = to]

(***************************************************************************)
(* JoinGroup at the broker, and the answer it sends: the generation and    *)
(* the member's assignment as the handler leaves them, or its error.       *)
(***************************************************************************)
CallJoin(m) ==
    /\ \/ /\ JoinRebalance(m, Topic) \/ JoinSkip(m, Topic)
          /\ reply' = [reply EXCEPT ![m] =
                [ok |-> TRUE, gen |-> generation', epoch |-> epoch',
                 assigned |-> assignments'[m]]]
       \/ /\ JoinFail(m, Topic)
          /\ reply' = [reply EXCEPT ![m] = NoReply]
    /\ UNCHANGED session

Subscribe(m) ==
    /\ wait[m] = Idle
    /\ Move(m, "out", "subscribing")
    /\ CallJoin(m)
    /\ Churn

Rejoin(m) ==
    /\ Move(m, "stale", "rejoining")
    /\ CallJoin(m)
    /\ UNCHANGED churn

(***************************************************************************)
(* The answer arrives: the old pumps are cancelled, generation and         *)
(* assignment replaced, new pumps started.                                 *)
(***************************************************************************)
JoinAnswered(m) ==
    /\ reply[m].ok
    /\ Move(m, "subscribing", "beating") \/ Move(m, "rejoining", "beating")
    /\ session' = [session EXCEPT ![m] =
            [gen |-> reply[m].gen, epoch |-> reply[m].epoch,
             assigned |-> reply[m].assigned]]
    /\ reply' = [reply EXCEPT ![m] = NoReply]
    /\ UNCHANGED <<vars, churn>>

(***************************************************************************)
(* JoinGroup returns an error, its own or the connection's: Subscribe      *)
(* fails, a rejoin goes back to the heartbeat loop with nothing changed.   *)
(***************************************************************************)
JoinErrored(m) ==
    /\ Move(m, "subscribing", "out") \/ Move(m, "rejoining", "beating")
    /\ IF reply[m].ok THEN Churn ELSE UNCHANGED churn
    /\ reply' = [reply EXCEPT ![m] = NoReply]
    /\ UNCHANGED <<vars, session>>

(***************************************************************************)
(* One turn of heartbeatLoop: the long-poll is answered at once (also with *)
(* ErrUnknownMember) or parks.                                             *)
(***************************************************************************)
BeatStale(m) ==
    /\ Move(m, "beating", "stale")
    /\ RebalanceNeeded(m, session[m].gen)
    /\ IF registered /\ m \in members THEN Heartbeat(m) ELSE UNCHANGED vars
    /\ UNCHANGED <<session, reply, churn>>

BeatParks(m) ==
    /\ Move(m, "beating", "parked")
    /\ HeartbeatPark(m, m, session[m].gen)
    /\ UNCHANGED <<session, reply, churn>>

BeatWoken(m) ==
    /\ Move(m, "parked", "stale")
    /\ HeartbeatWake(m)
    /\ UNCHANGED <<session, reply, churn>>

BeatTimesOut(m) ==
    /\ Move(m, "parked", "beating")
    /\ HeartbeatExpire(m)
    /\ UNCHANGED <<session, reply, churn>>

(***************************************************************************)
(* Close: cancel the pumps and the heartbeat goroutine, then LeaveGroup.   *)
(***************************************************************************)
Close(m) ==
    /\ Consuming(m)
    /\ phase' = [phase EXCEPT ![m] = "leaving"]
    /\ session' = [session EXCEPT ![m] = NoSession]
    /\ reply' = [reply EXCEPT ![m] = NoReply]
    /\ IF wait[m] # Idle THEN HeartbeatExpire(m) ELSE UNCHANGED vars
    /\ Churn

LeaveGroup(m) ==
    /\ Move(m, "leaving", "out")
    /\ IF registered /\ m \in members THEN Leave(m) ELSE UNCHANGED vars
    /\ UNCHANGED <<session, reply, churn>>

(***************************************************************************)
(* The consumer's process dies, or Close of a WithMemberID consumer, which *)
(* does not leave.  The broker drops an open long-poll when it notices.    *)
(***************************************************************************)
Crash(m) ==
    /\ phase[m] # "out"
    /\ phase' = [phase EXCEPT ![m] = "out"]
    /\ session' = [session EXCEPT ![m] = NoSession]
    /\ reply' = [reply EXCEPT ![m] = NoReply]
    /\ Churn
    /\ UNCHANGED vars

ConnectionDropped(m) ==
    /\ phase[m] = "out"
    /\ HeartbeatExpire(m)
    /\ UNCHANGED clientVars

(***************************************************************************)
(* Commit of a position in a partition the consumer works on.              *)
(***************************************************************************)
CommitPosition(m, p, offset) ==
    /\ Consuming(m)
    /\ p \in session[m].assigned
    /\ committed[p] # offset
    /\ Commit(p, offset)
    /\ UNCHANGED clientVars

(***************************************************************************)
(* Steps of the consumers, the broker and its operators.                   *)
(***************************************************************************)
ClientStep(m) ==
    \/ Rejoin(m)
    \/ JoinAnswered(m)
    \/ JoinErrored(m)
    \/ BeatStale(m)
    \/ BeatParks(m)
    \/ BeatWoken(m)
    \/ BeatTimesOut(m)
    \/ LeaveGroup(m)
    \/ ConnectionDropped(m)

Membership ==
    \/ \E m \in Member : Subscribe(m)
    \/ \E m \in Member : Close(m)
    \/ \E m \in Member : Crash(m)

Operator ==
    /\ Churn
    /\ UNCHANGED <<phase, session, reply>>
    /\ \/ Delete
       \/ \E t \in Topic, n \in 1 .. MaxPartitions : CreateTopic(t, n)

(***************************************************************************)
(* A clock slow enough that a consumer which keeps beating is not evicted: *)
(* the long-poll lasts 1 s, the session timeout is 15 s.                   *)
(***************************************************************************)
TimelyTick ==
    /\ \A m \in members : phase[m] # "out" => age[m] < SessionTimeout
    /\ Tick
    /\ UNCHANGED clientVars

GroupNext ==
    \/ Membership
    \/ Operator
    \/ \E m \in Member : ClientStep(m)
    \/ \E m \in Member, p \in Partition, offset \in Offset :
            CommitPosition(m, p, offset)
    \/ (DeleteLists \/ DeleteOffsets) /\ UNCHANGED clientVars
    \/ Tick /\ UNCHANGED clientVars

GroupSpec == GroupInit /\ [][GroupNext]_allVars

(***************************************************************************)
(* The same system with a timely clock and no operator at work.  Fairness: *)
(* each consumer's goroutines and each broker handler run on (weak         *)
(* fairness, what the Go scheduler gives a runnable goroutine), and time   *)
(* passes.  Nothing is assumed of Subscribe, Close, crashes or lost        *)
(* answers.                                                                *)
(***************************************************************************)
TimelyNext ==
    \/ Membership
    \/ \E m \in Member : ClientStep(m)
    \/ TimelyTick

Fairness ==
    /\ \A m \in Member :
        /\ WF_allVars(Rejoin(m))
        /\ WF_allVars(JoinAnswered(m))
        /\ WF_allVars(JoinErrored(m) /\ ~reply[m].ok)
        /\ WF_allVars(BeatStale(m))
        /\ WF_allVars(BeatParks(m))
        /\ WF_allVars(BeatWoken(m))
        /\ WF_allVars(BeatTimesOut(m))
        /\ WF_allVars(LeaveGroup(m))
        /\ WF_allVars(ConnectionDropped(m))
    /\ WF_allVars(TimelyTick)

TopicsExist == \A t \in Topic : partitions[t] > 0

InitWithTopics == GroupInit /\ TopicsExist

FairSpec == InitWithTopics /\ [][TimelyNext]_allVars /\ Fairness

-----------------------------------------------------------------------------
(***************************************************************************)
(* The consumers' side of the state.                                       *)
(***************************************************************************)
ClientTypeOK ==
    /\ phase \in [Member -> Phase]
    /\ session \in [Member -> [gen : Nat, epoch : Nat,
                               assigned : SUBSET Partition]]
    /\ reply \in [Member -> [ok : BOOLEAN, gen : Nat, epoch : Nat,
                             assigned : SUBSET Partition]]
    /\ churn \in 0 .. MaxChurn

(***************************************************************************)
(* Two consumers that work under the same generation of the same group     *)
(* object never fetch the same partition, however late their answers       *)
(* arrive and however stale that generation is by now.                     *)
(***************************************************************************)
SameGenerationDisjoint ==
    \A m1, m2 \in Member :
        /\ m1 # m2
        /\ Consuming(m1) /\ Consuming(m2)
        /\ session[m1].epoch = session[m2].epoch
        /\ session[m1].gen = session[m2].gen
        => session[m1].assigned \intersect session[m2].assigned = {}

(***************************************************************************)
(* A consumer that the coordinator would answer "no rebalance needed"      *)
(* fetches exactly the partitions the coordinator has down for it: a       *)
(* heartbeat never confirms a consumer in an assignment it has lost.       *)
(***************************************************************************)
QuietMemberIsCurrent ==
    \A m \in Member :
        /\ phase[m] \in {"beating", "parked"}
        /\ session[m].epoch = epoch
        /\ ~RebalanceNeeded(m, session[m].gen)
        => session[m].assigned = assignments[m]

(***************************************************************************)
(* Once Subscribe, Close, crashes and lost answers stop, the group settles *)
(* for good: every consumer works under the current generation and they    *)
(* fetch together every partition, the shares of dead members included.    *)
(***************************************************************************)
Settled ==
    LET live == {m \in Member : phase[m] \in Phase \ {"out", "leaving"}} IN
    /\ \A m \in live : /\ phase[m] \in {"beating", "parked"}
                         /\ ~RebalanceNeeded(m, session[m].gen)
    /\ live # {} => UNION {session[m].assigned : m \in live}
                        = AllPartitions(Topic, partitions)

EventuallySettled == <>[]Settled

(***************************************************************************)
(* What docs/stage-4.md says of generations: a heartbeat whose generation  *)
(* matches comes from a member that is not stale.  A group object created  *)
(* after Delete counts from 0 again, so a member of the old object may     *)
(* match by accident, and is then confirmed in its old assignment.         *)
(***************************************************************************)
MatchingGenerationIsCurrent ==
    \A m \in Member :
        /\ phase[m] \in {"beating", "parked"}
        /\ ~RebalanceNeeded(m, session[m].gen)
        => session[m].assigned = assignments[m]

(***************************************************************************)
(* What docs/stage-4.md says the rejoin in the heartbeat goroutine         *)
(* achieves: no two consumers read the same partition.                     *)
(***************************************************************************)
NoConcurrentReaders ==
    \A m1, m2 \in Member :
        /\ m1 # m2
        /\ Consuming(m1) /\ Consuming(m2)
        => session[m1].assigned \intersect session[m2].assigned = {}

(***************************************************************************)
(* What docs/stage-4.md says of generations: a member left behind by a     *)
(* rebalance cannot act on its stale assignment, so it cannot commit for a *)
(* partition that is another member's now.                                 *)
(***************************************************************************)
StaleMembersAreFenced ==
    [][\A m \in Member, p \in Partition, offset \in Offset :
        CommitPosition(m, p, offset) =>
            \A other \in members \ {m} : p \notin assignments[other]]_allVars

(***************************************************************************)
(* What docs/data-model.md says of a group: each partition is assigned to  *)
(* one of its consumers.  Stated for a group that looks settled to the     *)
(* coordinator and to a consumer that has joined it.                       *)
(***************************************************************************)
JoinedGroupOwnsItsTopics ==
    \A m \in Member :
        /\ phase[m] \in {"beating", "parked"}
        /\ ~RebalanceNeeded(m, session[m].gen)
        /\ TopicsExist
        => UNION {assignments[x] : x \in members}
                = AllPartitions(topics, partitions)

=============================================================================
