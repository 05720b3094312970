------------------------------- MODULE MCApps -------------------------------
(***************************************************************************)
(* What is built on the broker: the schema registry, the connect worker    *)
(* and its source tasks, and the stream processor (record pipelines,       *)
(* windows, joins, tables and their state stores).  They share no variable *)
(* here: each behaviour runs the one that focus names, and the others stay *)
(* in one initial state, where their properties hold.  The state stores    *)
(* run twice, alone and with a caller besides the table.  The worker and   *)
(* its source tasks are extended; the others are instances.                *)
(***************************************************************************)
EXTENDS ConnectWorker, SourceTask, TLC

VARIABLES
    focus,
    schemas, byID, bySubject, compats, replayed, target, req, serviceStarts,
    mixed,
    ops, next, chainTask, seen, passed, substore, sink, dlq,
    windowKind, punctuating, windowMark, state, op, windowTick, emitted,
    counted, late, overlap,
    joinKind, watermark, buf, pending, doing, joinNext, tick, pairs, alone,
    arrived, onTime,
    kind, source, changelog, table, loop, put, committed, starts, ahead, replayCut,
    failed, raced, others

Schemas == INSTANCE SchemaRegistry WITH
    Service <- {"n1", "n2"}, Subject <- {"s"}, Text <- {{}, {"f"}},
    Mode <- {"BACKWARD"}, Bounded <- TRUE, MaxRecords <- 2, MaxStart <- 1,
    starts <- serviceStarts

MCOwners == <<{"t1"}, {"t2"}>>

MCPipelines ==
    UNION {[1 .. n -> {"even", "keep", "double", "panic"}] : n \in 1 .. 3}
    \union {<<"take">>, <<"skip">>, <<"sample">>, <<"distinct">>, <<"count">>,
            <<"double", "count">>, <<"take", "sum">>,
            <<"sample", "double", "count">>}

Chains == INSTANCE Pipeline WITH
    Task <- {"t1", "t2"}, Owners <- MCOwners, Pipelines <- MCPipelines,
    Limit <- 2, MaxRecord <- 2, store <- substore, task <- chainTask

Grouping == INSTANCE Windows WITH
    Key <- {"a", "b"}, Kinds <- {"window", "session"}, Size <- 3, Advance <- 2,
    MaxTime <- 5, Punctuations <- BOOLEAN, MaxRecord <- 2,
    kind <- windowKind, watermark <- windowMark, tick <- windowTick

Pairing == INSTANCE Joins WITH
    Key <- {"a"}, Kinds <- {"inner", "left", "outer"}, Source <- {1},
    Window <- 1, AllowedLateness <- 1, MaxTime <- 2, MaxRecord <- 2,
    kind <- joinKind, next <- joinNext

Tables == INSTANCE StateStores WITH
    Key <- {"a", "b"}, Value <- {"x", "y"}, Kinds <- {"memory", "changelog"},
    Writers <- {}, MaxSource <- 2, MaxLog <- 4, MaxStart <- 2,
    entries <- table, cut <- replayCut

SharedStores == INSTANCE StateStores WITH
    Key <- {"a"}, Value <- {"x"}, Kinds <- {"memory", "changelog"},
    Writers <- {"w"}, MaxSource <- 1, MaxLog <- 2, MaxStart <- 2,
    entries <- table, cut <- replayCut

schemaState == <<schemas, byID, bySubject, compats, replayed, target, req,
                 serviceStarts, mixed>>
chainState == <<ops, next, chainTask, seen, passed, substore, sink, dlq>>
windowState == <<windowKind, punctuating, windowMark, state, op, windowTick,
                 emitted, counted, late, overlap>>
joinState == <<joinKind, watermark, buf, pending, doing, joinNext, tick, pairs,
               alone, arrived, onTime>>
tableState == <<kind, source, changelog, table, loop, put, committed, starts,
                ahead, replayCut, failed, raced, others>>

MCInit ==
    /\ focus \in {"schemas", "worker", "sources", "chains", "windows", "joins",
                  "tables", "sharedStores"}
    /\ Schemas!Init
    /\ Init
    /\ SourceInit
    /\ Chains!Init
    /\ focus # "chains" => ops = <<"keep">>
    /\ Grouping!Init
    /\ focus # "windows" => windowKind = "window" /\ ~punctuating
    /\ Pairing!Init
    /\ focus # "joins" => joinKind = "inner"
    /\ IF focus = "sharedStores" THEN SharedStores!Init ELSE Tables!Init
    /\ focus \notin {"tables", "sharedStores"} => kind = "memory"

MCNext ==
    \/ /\ focus = "schemas" /\ Schemas!Next
       /\ UNCHANGED <<focus, vars, sourceVars, chainState, windowState,
                      joinState, tableState>>
    \/ /\ focus = "worker" /\ Next
       /\ UNCHANGED <<focus, schemaState, sourceVars, chainState, windowState,
                      joinState, tableState>>
    \/ /\ focus = "sources" /\ SourceNext
       /\ UNCHANGED <<focus, schemaState, vars, chainState, windowState,
                      joinState, tableState>>
    \/ /\ focus = "chains" /\ Chains!Next
       /\ UNCHANGED <<focus, schemaState, vars, sourceVars, windowState,
                      joinState, tableState>>
    \/ /\ focus = "windows" /\ Grouping!Next
       /\ UNCHANGED <<focus, schemaState, vars, sourceVars, chainState,
                      joinState, tableState>>
    \/ /\ focus = "joins" /\ Pairing!Next
       /\ UNCHANGED <<focus, schemaState, vars, sourceVars, chainState,
                      windowState, tableState>>
    \/ /\ focus = "tables" /\ Tables!Next
       /\ UNCHANGED <<focus, schemaState, vars, sourceVars, chainState,
                      windowState, joinState>>
    \/ /\ focus = "sharedStores" /\ SharedStores!Next
       /\ UNCHANGED <<focus, schemaState, vars, sourceVars, chainState,
                      windowState, joinState>>

MCSpec == MCInit /\ [][MCNext]_<<focus, schemaState, vars, sourceVars,
                                chainState, windowState, joinState, tableState>>

(***************************************************************************)
(* Only the component that runs tells two states apart.                    *)
(***************************************************************************)
MCView ==
    CASE focus = "schemas" -> <<focus, schemaState>>
      [] focus = "worker" -> <<focus, vars>>
      [] focus = "sources" -> <<focus, sourceVars>>
      [] focus = "chains" -> <<focus, chainState>>
      [] focus = "windows" -> <<focus, windowState>>
      [] focus = "joins" -> <<focus, joinState>>
      [] focus \in {"tables", "sharedStores"} -> <<focus, tableState>>

(***************************************************************************)
(* The callers of the registry and of the worker are interchangeable, and  *)
(* so are the workers that share a source.                                 *)
(***************************************************************************)
MCSymmetry == Permutations(Caller) \union Permutations(Worker)

-----------------------------------------------------------------------------
(***************************************************************************)
(* See SchemaRegistry: identifiers resolve to what was registered, and     *)
(* services that have read the same records hold the same tables.          *)
(***************************************************************************)
RegistriesAgree ==
    focus = "schemas" => Schemas!IdsResolve /\ Schemas!ReplayAgrees

(***************************************************************************)
(* See Pipeline: a chain of stateless operators is their composition.      *)
(***************************************************************************)
ChainIsComposition == focus = "chains" => Chains!ChainIsComposition

(***************************************************************************)
(* See Pipeline: concurrent tasks lose no update of a substore, and the    *)
(* limits of Sample, Skip and Take hold over all tasks.                    *)
(***************************************************************************)
SharedStateIsExact == focus = "chains" => Chains!NoLostUpdate /\ Chains!LimitsAreGlobal

(***************************************************************************)
(* See Windows: no count is lost or made up, and a window that got no late *)
(* record is emitted once.                                                 *)
(***************************************************************************)
WindowsCountEverything ==
    focus = "windows" => Grouping!CountsAreConserved /\ Grouping!OneRecordPerWindow

(***************************************************************************)
(* See Joins: on-time records in the window are paired exactly once, and   *)
(* an outer join forgets no record.                                        *)
(***************************************************************************)
JoinsPairEverything ==
    focus = "joins" => Pairing!PairsExactlyOnce /\ Pairing!OuterJoinForgetsNothing

(***************************************************************************)
(* See StateStores: a table is the latest value of each key, and replaying *)
(* the changelog rebuilds the store.                                       *)
(***************************************************************************)
TablesFollowTheirTopics ==
    /\ focus = "tables" => Tables!TableIsLatest /\ Tables!ReplayRebuildsUnraced
    /\ focus = "sharedStores" =>
          SharedStores!TableIsLatest /\ SharedStores!ReplayRebuildsUnraced

=============================================================================
