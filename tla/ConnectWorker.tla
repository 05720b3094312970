--------------------------- MODULE ConnectWorker ----------------------------
(***************************************************************************)
(* The lifecycle of a connect worker (connect/worker.go): callers of Start *)
(* and Stop, and of the calls that add and remove connectors, which hold   *)
(* the worker's lock only for parts of what they do.  A mount is known by  *)
(* its key, the kind and the name of its connector.                        *)
(*                                                                         *)
(* A run is what one Start begins, with its context; a scope is the        *)
(* context of one mount, a child of the context of the run it was spawned  *)
(* under.  A scope's goroutines count in the wait group.                   *)
(***************************************************************************)
EXTENDS Integers, Sequences

CONSTANTS
    Caller,
    SourceName, SinkName,
    MaxRun, MaxScope, MaxMount  \* bounds: Starts, spawned mounts, mounts

VARIABLES
    running, stopFunc, runCtx,  \* fields of the worker; 0: nil
    sources, sinks,             \* the registered mounts, by name
    mountCancels,               \* key to scope; 0: no entry
    cancelledRuns, runs,        \* the runs so far, and the cancelled ones
    scope,                      \* the scopes: [key, run, cancelled]
    live,                       \* scopes that have goroutines
    call                        \* the call each caller is in

worker == <<running, stopFunc, runCtx, sources, sinks, mountCancels>>
contexts == <<cancelledRuns, runs, scope, live>>
vars == <<worker, contexts, call>>

Key == {"source"} \X SourceName \union {"sink"} \X SinkName

Idle == [pc |-> "idle", run |-> 0, todo |-> <<>>, starting |-> FALSE, scope |-> 0]

Init ==
    /\ running = FALSE /\ stopFunc = 0 /\ runCtx = 0
    /\ sources = <<>> /\ sinks = <<>>
    /\ mountCancels = [k \in Key |-> 0]
    /\ cancelledRuns = {} /\ runs = 0
    /\ scope = <<>>
    /\ live = {}
    /\ call = [c \in Caller |-> Idle]

Keys(kind, names) == [i \in DOMAIN names |-> <<kind, names[i]>>]

Cancelled(g) == scope[g].cancelled \/ scope[g].run \in cancelledRuns

Room == Len(sources) + Len(sinks) < MaxMount

-----------------------------------------------------------------------------
AddSource(c, n) ==
    /\ call[c].pc = "idle" /\ Room
    /\ ~running
    /\ sources' = Append(sources, n)
    /\ UNCHANGED <<running, stopFunc, runCtx, sinks, mountCancels, contexts, call>>

AddSink(c, n) ==
    /\ call[c].pc = "idle" /\ Room
    /\ ~running
    /\ sinks' = Append(sinks, n)
    /\ UNCHANGED <<running, stopFunc, runCtx, sources, mountCancels, contexts, call>>

(***************************************************************************)
(* The Live forms register the mount and spawn it under the runCtx they    *)
(* read; a nil runCtx makes context.WithCancel panic.                      *)
(***************************************************************************)
AddLive(c, k) ==
    /\ call[c].pc = "idle" /\ Room
    /\ running
    /\ call' = [call EXCEPT ![c] =
                   [Idle EXCEPT !.pc = IF runCtx = 0 THEN "panic" ELSE "spawn",
                                !.run = runCtx, !.todo = <<k>>]]
    /\ UNCHANGED <<running, stopFunc, runCtx, mountCancels, contexts>>

AddSourceLive(c, n) ==
    /\ AddLive(c, <<"source", n>>)
    /\ sources' = Append(sources, n)
    /\ UNCHANGED sinks

AddSinkLive(c, n) ==
    /\ AddLive(c, <<"sink", n>>)
    /\ sinks' = Append(sinks, n)
    /\ UNCHANGED sources

(***************************************************************************)
(* Remove drops the first mount of the name and cancels the scope that     *)
(* mountCancels has for its key, if any.                                   *)
(***************************************************************************)
Uncouple(k) ==
    /\ scope' = [g \in DOMAIN scope |->
                    IF g = mountCancels[k]
                    THEN [scope[g] EXCEPT !.cancelled = TRUE] ELSE scope[g]]
    /\ mountCancels' = [mountCancels EXCEPT ![k] = 0]

First(names, n, i) == names[i] = n /\ \A j \in 1 .. i - 1 : names[j] # n

Without(names, i) == SubSeq(names, 1, i - 1) \o SubSeq(names, i + 1, Len(names))

RemoveSource(c, n) ==
    /\ call[c].pc = "idle"
    /\ \E i \in DOMAIN sources : First(sources, n, i) /\ sources' = Without(sources, i)
    /\ Uncouple(<<"source", n>>)
    /\ UNCHANGED <<running, stopFunc, runCtx, sinks, cancelledRuns, runs, live, call>>

RemoveSink(c, n) ==
    /\ call[c].pc = "idle"
    /\ \E i \in DOMAIN sinks : First(sinks, n, i) /\ sinks' = Without(sinks, i)
    /\ Uncouple(<<"sink", n>>)
    /\ UNCHANGED <<running, stopFunc, runCtx, sources, cancelledRuns, runs, live, call>>

-----------------------------------------------------------------------------
(***************************************************************************)
(* Start, its three parts: the flag, a new context and a copy of the       *)
(* mounts; NewProducer and runCtx; one spawn per mount.                    *)
(***************************************************************************)
Start(c) ==
    /\ call[c].pc = "idle" /\ runs < MaxRun
    /\ ~running
    /\ running' = TRUE
    /\ runs' = runs + 1
    /\ stopFunc' = runs'
    /\ call' = [call EXCEPT ![c] =
                   [Idle EXCEPT !.pc = "producer", !.run = runs', !.starting = TRUE,
                       !.todo = Keys("source", sources) \o Keys("sink", sinks)]]
    /\ UNCHANGED <<runCtx, sources, sinks, mountCancels, cancelledRuns, scope, live>>

SetProducer(c) ==
    /\ call[c].pc = "producer"
    /\ runCtx' = call[c].run
    /\ call' = [call EXCEPT ![c] =
                   IF call[c].todo = <<>> THEN Idle ELSE [@ EXCEPT !.pc = "spawn"]]
    /\ UNCHANGED <<running, stopFunc, sources, sinks, mountCancels, contexts>>

(***************************************************************************)
(* Mutation: the mount's context is no child of the run's context.         *)
(***************************************************************************)
Detached(k, r) == [key |-> k, run |-> 0, cancelled |-> FALSE]

(***************************************************************************)
(* context.WithCancel(parent) of spawnSourceMount and spawnSinkMount.      *)
(***************************************************************************)
NewScope(k, r) == [key |-> k, run |-> r, cancelled |-> FALSE]

RegisterCancel(c) ==
    LET k == Head(call[c].todo) IN
    /\ call[c].pc = "spawn" /\ Len(scope) < MaxScope
    /\ scope' = Append(scope, NewScope(k, call[c].run))
    /\ mountCancels' = [mountCancels EXCEPT ![k] = Len(scope')]
    /\ call' = [call EXCEPT ![c].pc = "init", ![c].scope = Len(scope')]
    /\ UNCHANGED <<running, stopFunc, runCtx, sources, sinks, cancelledRuns, runs, live>>

(***************************************************************************)
(* A task, or the coordinator of a mount, starts; the last ends the spawn. *)
(***************************************************************************)
StartTasks(c) ==
    LET rest == Tail(call[c].todo) IN
    /\ call[c].pc = "init"
    /\ live' = live \union {call[c].scope}
    /\ \/ UNCHANGED call
       \/ call' = [call EXCEPT ![c] =
                      IF rest = <<>> THEN Idle
                      ELSE [@ EXCEPT !.pc = "spawn", !.todo = rest]]
    /\ UNCHANGED <<worker, cancelledRuns, runs, scope>>

(***************************************************************************)
(* Tasks, Load or Init fails: the mount's scope is cancelled and the entry *)
(* of its key dropped, whosever it is by now; Start then cancels its run.  *)
(* running stays TRUE.  NewProducer's failure cancels the run too.         *)
(***************************************************************************)
SpawnFails(c) ==
    /\ call[c].pc = "init"
    /\ scope' = [scope EXCEPT ![call[c].scope].cancelled = TRUE]
    /\ mountCancels' = [mountCancels EXCEPT ![Head(call[c].todo)] = 0]
    /\ cancelledRuns' = IF call[c].starting THEN cancelledRuns \union {call[c].run}
                        ELSE cancelledRuns
    /\ call' = [call EXCEPT ![c] = Idle]
    /\ UNCHANGED <<running, stopFunc, runCtx, sources, sinks, runs, live>>

ProducerFails(c) ==
    /\ call[c].pc = "producer"
    /\ cancelledRuns' = cancelledRuns \union {call[c].run}
    /\ call' = [call EXCEPT ![c] = Idle]
    /\ UNCHANGED <<worker, runs, scope, live>>

(***************************************************************************)
(* A task goroutine ends, by an error of its own or on a cancelled context.*)
(***************************************************************************)
TasksEnd(g) ==
    /\ g \in live
    /\ live' = live \ {g}
    /\ UNCHANGED <<worker, cancelledRuns, runs, scope, call>>

-----------------------------------------------------------------------------
(***************************************************************************)
(* Stop: the flag and stopFunc under the lock, the cancellation, the wait. *)
(***************************************************************************)
Stop(c) ==
    /\ call[c].pc = "idle"
    /\ running
    /\ running' = FALSE
    /\ stopFunc' = 0
    /\ call' = [call EXCEPT ![c] = [Idle EXCEPT !.pc = "stop", !.run = stopFunc]]
    /\ UNCHANGED <<runCtx, sources, sinks, mountCancels, contexts>>

StopCancels(c) ==
    /\ call[c].pc = "stop"
    /\ cancelledRuns' = cancelledRuns \union {call[c].run}
    /\ call' = [call EXCEPT ![c].pc = "wait"]
    /\ UNCHANGED <<worker, runs, scope, live>>

StopReturns(c) ==
    /\ call[c].pc = "wait"
    /\ live = {}
    /\ call' = [call EXCEPT ![c] = Idle]
    /\ UNCHANGED <<worker, contexts>>

Next ==
    \/ \E c \in Caller :
          \/ \E n \in SourceName :
                AddSource(c, n) \/ AddSourceLive(c, n) \/ RemoveSource(c, n)
          \/ \E n \in SinkName :
                AddSink(c, n) \/ AddSinkLive(c, n) \/ RemoveSink(c, n)
          \/ Start(c) \/ SetProducer(c) \/ ProducerFails(c)
          \/ RegisterCancel(c) \/ StartTasks(c) \/ SpawnFails(c)
          \/ Stop(c) \/ StopCancels(c) \/ StopReturns(c)
    \/ \E g \in live : TasksEnd(g)

Spec == Init /\ [][Next]_vars

-----------------------------------------------------------------------------
(***************************************************************************)
(* Nothing escapes Stop: goroutines whose context is not cancelled belong  *)
(* to the run that the next Stop cancels, or that a Stop is about to       *)
(* cancel, whatever calls overlap and whatever spawns fail half way.       *)
(***************************************************************************)
NoOrphan ==
    \A g \in live :
        \/ Cancelled(g)
        \/ running /\ stopFunc = scope[g].run
        \/ \E c \in Caller : call[c].pc = "stop" /\ call[c].run = scope[g].run

(***************************************************************************)
(* "under a per-mount context so RemoveSource can later bring just that    *)
(* mount down" (worker.go:338-339): between calls, RemoveSource finds the  *)
(* scope of every mount that runs.                                         *)
(***************************************************************************)
RunningIsRemovable ==
    (\A c \in Caller : call[c] = Idle) =>
        \A g \in live : Cancelled(g) \/ mountCancels[scope[g].key] = g

(***************************************************************************)
(* "Stop cancels every running task and waits for them to exit"            *)
(* (worker.go:561): a worker that no call is at work on and that does not  *)
(* run has no task.                                                        *)
(***************************************************************************)
StoppedIsQuiet == ~running /\ (\A c \in Caller : call[c] = Idle) => live = {}

(***************************************************************************)
(* AddSourceLive on a running worker does not panic.                       *)
(***************************************************************************)
NoNilContext == \A c \in Caller : call[c].pc # "panic"

=============================================================================
