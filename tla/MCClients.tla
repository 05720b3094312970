----------------------------- MODULE MCClients -----------------------------
(***************************************************************************)
(* A client and the handlers it calls: the producer and the broker below   *)
(* it (Producer), the consumer with the loops that drive it (Consumer),    *)
(* the transport under both (Transport) and the server's handlers          *)
(* (Requests).  They share no variable here: each behaviour runs the one   *)
(* that focus names, and the others stay in one initial state, where their *)
(* properties hold.  The consumer runs twice, a loop with CommitAll on     *)
(* batches and with Seek, and then the other loops.                        *)
(***************************************************************************)
EXTENDS MCProducer, Transport, TLC

VARIABLES
    focus,
    app, end, pumps, pumpCancel, fanIn, latest, polledMax, seekFloor,
    assignment, loop, committed, joining, rejoins, handled, sought, disturbed,
    clustered, grouped, exists, epoch, served, leads, moves, voters, members,
    groupOffset, bucket, clock, produced, conn

Batches == INSTANCE Consumer WITH
    Partition <- {1}, Apps <- {"commitAll"}, FanIn <- 2, PollMax <- 2,
    MaxEnd <- 2, MaxPump <- 2, MaxRejoin <- 2, MaxSeek <- 1, pump <- pumps

Loops == INSTANCE Consumer WITH
    Partition <- {1}, Apps <- {"run", "stream", "sink", "autoCommit"}, FanIn <- 1,
    PollMax <- 1, MaxEnd <- 2, MaxPump <- 2, MaxRejoin <- 1, MaxSeek <- 0, pump <- pumps

Scope(verb, pattern, wildcard) ==
    [verb |-> verb, pattern |-> pattern, wildcard |-> wildcard]

(***************************************************************************)
(* The principal of one connection has a scope for every gate, that of the *)
(* other may only produce.                                                 *)
(***************************************************************************)
MCScopes ==
    [c1 |-> {Scope("produce", <<>>, TRUE), Scope("consume", <<"o">>, TRUE),
             Scope("admin", <<>>, FALSE), Scope("admin", <<"o", "r", "d">>, FALSE)},
     c2 |-> {Scope("produce", <<>>, TRUE)}]

MCOps == {"Produce", "ProduceBatch", "Fetch", "CreateTopic", "UpdateTopicConfig",
    "DeleteTopic", "AddVoter", "RemoveVoter", "Commit", "JoinGroup", "LeaveGroup",
    "DeleteGroup", "Heartbeat", "Metadata", "HighWater", "Sync"}

Handling == INSTANCE Requests WITH
    Conn <- {"c1", "c2"}, Scopes <- MCScopes, Ops <- MCOps,
    Clustered <- BOOLEAN, Grouped <- BOOLEAN, BatchSize <- 2, Rate <- 3,
    Capacity <- 2, Ticks <- 2, MaxClock <- 1, MaxRequest <- 1, MaxMove <- 1,
    log <- served, committed <- groupOffset

consumerState == <<app, end, pumps, pumpCancel, fanIn, latest, polledMax,
                   seekFloor, assignment, loop, committed, joining, rejoins,
                   handled, sought, disturbed>>
handlerState == <<clustered, grouped, exists, epoch, served, leads, moves,
                  voters, members, groupOffset, bucket, clock, produced, conn>>

MCInit ==
    /\ focus \in {"producer", "batches", "loops", "transport", "handlers"}
    /\ ProducerInit
    /\ IF focus = "loops" THEN Loops!Init ELSE Batches!Init
    /\ TransportInit
    /\ focus # "transport" => addr = leader
    /\ Handling!Init
    /\ focus # "handlers" => ~clustered /\ ~grouped /\ ~exists

MCNext ==
    \/ /\ focus = "producer" /\ ProducerNext
       /\ UNCHANGED <<focus, consumerState, transportVars, handlerState>>
    \/ /\ focus = "batches" /\ Batches!Next
       /\ UNCHANGED <<focus, allVars, transportVars, handlerState>>
    \/ /\ focus = "loops" /\ Loops!Next
       /\ UNCHANGED <<focus, allVars, transportVars, handlerState>>
    \/ /\ focus = "transport" /\ TransportNext
       /\ UNCHANGED <<focus, allVars, consumerState, handlerState>>
    \/ /\ focus = "handlers" /\ Handling!Next
       /\ UNCHANGED <<focus, allVars, consumerState, transportVars>>

MCSpec == MCInit /\ [][MCNext]_<<focus, allVars, consumerState, transportVars,
                                handlerState>>

(***************************************************************************)
(* Only the component that runs tells two states apart.                    *)
(***************************************************************************)
MCView ==
    CASE focus = "producer" -> <<focus, allVars>>
      [] focus \in {"batches", "loops"} -> <<focus, consumerState>>
      [] focus = "transport" -> <<focus, transportVars>>
      [] focus = "handlers" -> <<focus, handlerState>>

(***************************************************************************)
(* The transport's callers are interchangeable, and so are the brokers.    *)
(***************************************************************************)
MCSymmetry == Permutations(Goroutine) \union Permutations(Node)

-----------------------------------------------------------------------------
(***************************************************************************)
(* See Consumer: CommitAll after a handled batch loses no record.          *)
(***************************************************************************)
CommitAllLosesNothing ==
    focus = "batches" => Batches!CommitAllLosesNothing

(***************************************************************************)
(* See Requests: a batch that stops half-way leaves a prefix of itself.    *)
(***************************************************************************)
BatchLeavesAPrefix ==
    focus = "handlers" => Handling!BatchLeavesAPrefix

(***************************************************************************)
(* See Requests: a subject never exceeds its burst plus its rate.          *)
(***************************************************************************)
QuotaIsKept ==
    focus = "handlers" => Handling!QuotaIsKept

=============================================================================
