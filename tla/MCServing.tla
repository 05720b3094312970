----------------------------- MODULE MCServing -----------------------------
(***************************************************************************)
(* The broker process: publishing and subscriptions (Broker), the network  *)
(* server around them from Listen to Close (Server), the messages on its   *)
(* connections (Wire) and the sticky division of partitions among the      *)
(* members of a group (StickyAssignment).  They share no state, so each    *)
(* behaviour runs the one that focus names; the others stay in an initial  *)
(* state, where none of their fair actions is enabled.                     *)
(***************************************************************************)
EXTENDS Broker, Server

VARIABLES
    focus,
    name, pattern, codec, compressible, sent, arrived, read, decoded,
    members, dirty, topics, count, assignments, generation, changes

Wires == INSTANCE Wire WITH
    Patterns <- {"plain", "edge", "empty"}, MaxFrame <- 1000

Sticky == INSTANCE StickyAssignment WITH
    Member <- {1, 2, 3}, Topics <- <<"logs", "orders">>, MaxPartitions <- 2,
    MaxRebalance <- 3, MaxChange <- 1

wireState == <<name, pattern, codec, compressible, sent, arrived, read, decoded>>

groupState == <<members, dirty, topics, count, assignments, generation, changes>>

MCInit ==
    /\ focus \in {"broker", "server", "wire", "sticky"}
    /\ Init
    /\ ServerInit
    /\ focus # "server" => retention = "off"
    /\ Wires!Init
    /\ focus # "wire" => name = "MetadataRequest" /\ pattern = "plain"
    /\ Sticky!Init
    /\ focus # "sticky" => \A t \in DOMAIN count : count[t] = 0

MCNext ==
    \/ focus = "broker" /\ Next /\ UNCHANGED <<focus, serverVars, wireState, groupState>>
    \/ focus = "server" /\ ServerNext /\ UNCHANGED <<focus, vars, wireState, groupState>>
    \/ focus = "wire" /\ Wires!Next /\ UNCHANGED <<focus, vars, serverVars, groupState>>
    \/ focus = "sticky" /\ Sticky!Next /\ UNCHANGED <<focus, vars, serverVars, wireState>>

MCSpec ==
    /\ MCInit
    /\ [][MCNext]_<<focus, vars, serverVars, wireState, groupState>>
    /\ Fairness
    /\ ServerFairness

(***************************************************************************)
(* See Wire: a frame cut anywhere yields the message or an error, and a    *)
(* decoder refuses a body that ends early.                                 *)
(***************************************************************************)
MessagesSurvive == Wires!WholeMessageOrNothing /\ Wires!ShortBodyIsRefused

(***************************************************************************)
(* See StickyAssignment: a rebalance is a fair division that moves no      *)
(* partition without need.                                                 *)
(***************************************************************************)
StickyDivides == Sticky!StickyDivides

=============================================================================
