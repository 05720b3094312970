----------------------------- MODULE MCLiveness -----------------------------
(***************************************************************************)
(* Liveness of the SDK: the producer with its batcher (Producer, on the    *)
(* broker it EXTENDS) and the consumers of a group (ConsumerGroup).  They  *)
(* share no state, so a behaviour is one of the first or one of the        *)
(* second, as focus says; the other stays in its initial state.            *)
(***************************************************************************)
EXTENDS MCProducer

VARIABLES
    focus,
    registered, epoch, members, age, topics, assignments, generation, dirty,
    watchers, wait, partitions, committed, deleting, basis,
    phase, session, reply, churn

Group == INSTANCE ConsumerGroup WITH
    Member <- {1, 2}, Topic <- {"orders"}, Call <- {1, 2}, Strategy <- "range",
    SessionTimeout <- 1, MaxPartitions <- 2, MaxGeneration <- 9, MaxEpoch <- 9,
    Offset <- {}, MaxChurn <- 5

groupState ==
    <<registered, epoch, members, age, topics, assignments, generation, dirty,
      watchers, wait, partitions, committed, deleting, basis, phase, session,
      reply, churn>>

everything == <<focus, allVars, groupState>>

MCInit ==
    /\ focus \in {"producer", "group"}
    /\ ProducerInit
    /\ Group!InitWithTopics
    /\ focus = "producer" => partitions["orders"] = 1

MCNext ==
    \/ focus = "producer" /\ ProducerNext /\ UNCHANGED <<focus, groupState>>
    \/ focus = "group" /\ Group!TimelyNext /\ UNCHANGED <<focus, allVars>>

(***************************************************************************)
(* Group!Fairness, of the behaviours in which the group runs.              *)
(***************************************************************************)
GroupFairness ==
    /\ \A m \in {1, 2} :
        /\ WF_groupState(focus = "group" /\ Group!Rejoin(m))
        /\ WF_groupState(focus = "group" /\ Group!JoinAnswered(m))
        /\ WF_groupState(focus = "group" /\ Group!JoinErrored(m) /\ ~reply[m].ok)
        /\ WF_groupState(focus = "group" /\ Group!BeatStale(m))
        /\ WF_groupState(focus = "group" /\ Group!BeatParks(m))
        /\ WF_groupState(focus = "group" /\ Group!BeatWoken(m))
        /\ WF_groupState(focus = "group" /\ Group!BeatTimesOut(m))
        /\ WF_groupState(focus = "group" /\ Group!LeaveGroup(m))
        /\ WF_groupState(focus = "group" /\ Group!ConnectionDropped(m))
    /\ WF_groupState(focus = "group" /\ Group!TimelyTick)

MCSpec ==
    /\ MCInit
    /\ [][MCNext]_everything
    /\ ProducerFairness
    /\ GroupFairness

(***************************************************************************)
(* See ConsumerGroup.                                                      *)
(***************************************************************************)
EventuallySettled == Group!EventuallySettled

=============================================================================
