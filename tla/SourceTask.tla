----------------------------- MODULE SourceTask -----------------------------
(***************************************************************************)
(* The tasks of one source connector of connect workers (connect/worker.go *)
(* runSourceTask, connect/coordinator.go) and the store of their offsets   *)
(* (connect/offsets.go).  The source holds items 1, 2, ...; a task's       *)
(* position is the last item it has read and its SourceOffset.             *)
(*                                                                         *)
(* A worker that coordinates starts its task when the coordination topic's *)
(* only partition is assigned to it, and cancels it, without waiting, when *)
(* the partition moves.  Each worker has its own TopicOffsetStore: a topic *)
(* all workers share, and a map that only its own saves update.            *)
(***************************************************************************)
EXTENDS Integers, Sequences, Functions

CONSTANTS
    Worker,
    BatchMax,       \* records Poll returns at most
    MaxItem, MaxOut, MaxTask, MaxOpen \* bounds: items, output, tasks, opens

VARIABLES
    items,          \* items in the source
    out,            \* items published to the topic, in order
    offsets,        \* the offsets topic
    entries,        \* each worker's map: the saved position; -1: store closed
    owner,          \* the worker the coordination partition is assigned to
    coordRunning,   \* coordState.running: each worker's task; 0: none
    task,           \* the task goroutines in the order of their start
    opens,
    doubtful,       \* history: a Send failed or the process died, so that a
                    \* record may be published and its offset not saved
    cut,            \* history: a replay of the offsets topic was incomplete
    shared          \* history: two workers, or two tasks, at the source

store == <<offsets, entries>>
history == <<doubtful, cut, shared>>
sourceVars == <<items, out, store, owner, coordRunning, task, opens, history>>

NoOwner == "nobody"
Closed == -1

(***************************************************************************)
(* sent: records of the batch that Send has published; at "saved" the      *)
(* offsets topic has the new position and the map does not.                *)
(***************************************************************************)
NewTask(w, from) == [worker |-> w, pos |-> from, batch |-> <<>>, sent |-> 0,
                     pc |-> "poll", cancelled |-> FALSE]

SourceInit ==
    /\ items = 0
    /\ out = <<>>
    /\ offsets = <<>>
    /\ entries = [w \in Worker |-> Closed]
    /\ owner = NoOwner
    /\ coordRunning = [w \in Worker |-> 0]
    /\ task = <<>>
    /\ opens = 0
    /\ doubtful = FALSE /\ cut = FALSE /\ shared = FALSE

NewItem ==
    /\ items < MaxItem
    /\ items' = items + 1
    /\ UNCHANGED <<out, store, owner, coordRunning, task, opens, history>>

-----------------------------------------------------------------------------
(***************************************************************************)
(* OpenTopicOffsetStore: replay applies the last record of the key; the    *)
(* deadline may end it early.                                              *)
(***************************************************************************)
Open(w, n) ==
    /\ entries[w] = Closed /\ opens < MaxOpen
    /\ opens' = opens + 1
    /\ n \in 0 .. Len(offsets)
    /\ entries' = [entries EXCEPT ![w] = IF n = 0 THEN 0 ELSE offsets[n]]
    /\ cut' = (cut \/ n < Len(offsets))
    /\ UNCHANGED <<items, out, offsets, owner, coordRunning, task, doubtful, shared>>

TaskAlive(t) == task[t].pc # "done"

(***************************************************************************)
(* A rebalance moves the partition; the worker that loses it and the one   *)
(* that gets it learn of it in any order.                                  *)
(***************************************************************************)
Rebalance(w) ==
    /\ owner # w
    /\ w \in Worker => entries[w] # Closed
    /\ owner' = w
    /\ UNCHANGED <<items, out, store, coordRunning, task, opens, history>>

(***************************************************************************)
(* onAssign: Load, Init with the position loaded, and a new goroutine.     *)
(***************************************************************************)
StartTask(w) ==
    /\ owner = w /\ coordRunning[w] = 0
    /\ entries[w] # Closed
    /\ Len(task) < MaxTask
    /\ task' = Append(task, NewTask(w, entries[w]))
    /\ coordRunning' = [coordRunning EXCEPT ![w] = Len(task) + 1]
    /\ shared' = (shared \/ \E t \in DOMAIN task :
                                TaskAlive(t) \/ task[t].worker # w)
    /\ UNCHANGED <<items, out, store, owner, opens, doubtful, cut>>

(***************************************************************************)
(* onAssign without the partition, stopAll, RemoveSource and Stop: the     *)
(* task's context is cancelled.                                            *)
(***************************************************************************)
CancelTask(w) ==
    /\ coordRunning[w] # 0
    /\ coordRunning' = [coordRunning EXCEPT ![w] = 0]
    /\ task' = [task EXCEPT ![coordRunning[w]].cancelled = TRUE]
    /\ UNCHANGED <<items, out, store, owner, opens, history>>

-----------------------------------------------------------------------------
Poll(t) ==
    /\ task[t].pc = "poll" /\ ~task[t].cancelled
    /\ \E n \in task[t].pos + 1 .. task[t].pos + BatchMax :
          /\ n <= items
          /\ task' = [task EXCEPT ![t].pc = "send", ![t].pos = n, ![t].sent = 0,
                         ![t].batch = [i \in 1 .. n - task[t].pos |->
                                          task[t].pos + i]]
    /\ UNCHANGED <<items, out, store, owner, coordRunning, opens, history>>

(***************************************************************************)
(* producer.Send of the next record of the batch.                          *)
(***************************************************************************)
SendNext(t) ==
    /\ task[t].pc = "send" /\ ~task[t].cancelled
    /\ task[t].sent < Len(task[t].batch)
    /\ Len(out) < MaxOut
    /\ out' = Append(out, task[t].batch[task[t].sent + 1])
    /\ task' = [task EXCEPT ![t].sent = @ + 1]
    /\ UNCHANGED <<items, store, owner, coordRunning, opens, history>>

(***************************************************************************)
(* Send fails: the context was cancelled before it, or the broker's answer *)
(* was lost; in the second case the record may be published.               *)
(***************************************************************************)
SendFails(t, landed) ==
    LET w == task[t] IN
    /\ w.pc = "send" /\ w.sent < Len(w.batch)
    /\ landed => Len(out) < MaxOut
    /\ out' = IF landed THEN Append(out, w.batch[w.sent + 1]) ELSE out
    /\ doubtful' = (doubtful \/ landed)
    /\ task' = [task EXCEPT ![t].pc = IF w.sent > 0 THEN "saveLast" ELSE "done"]
    /\ UNCHANGED <<items, store, owner, coordRunning, opens, cut, shared>>

(***************************************************************************)
(* Mutation: the offsets of the whole batch are saved.                     *)
(***************************************************************************)
SavedWholeBatch(w) == w.batch[Len(w.batch)]

(***************************************************************************)
(* saveSourceOffsetsBestEffort for records[:sentCount].                    *)
(***************************************************************************)
SavedPosition(w) == w.batch[w.sent]

AtSave(t) ==
    \/ task[t].pc = "send" /\ task[t].sent = Len(task[t].batch)
    \/ task[t].pc = "saveLast"

(***************************************************************************)
(* Save publishes the position ...                                         *)
(***************************************************************************)
Save(t) ==
    /\ AtSave(t)
    /\ offsets' = Append(offsets, SavedPosition(task[t]))
    /\ task' = [task EXCEPT ![t].pc = IF @ = "send" THEN "saved" ELSE "savedLast"]
    /\ UNCHANGED <<items, out, entries, owner, coordRunning, opens, history>>

(***************************************************************************)
(* ... and then updates the map.  The task's Commit does nothing more.     *)
(***************************************************************************)
Remember(t) ==
    LET w == task[t] IN
    /\ w.pc \in {"saved", "savedLast"}
    /\ entries' = [entries EXCEPT ![w.worker] = SavedPosition(w)]
    /\ task' = [task EXCEPT ![t].pc = IF @ = "saved" THEN "poll" ELSE "done"]
    /\ UNCHANGED <<items, out, offsets, owner, coordRunning, opens, history>>

SaveFails(t) ==
    /\ AtSave(t)
    /\ task' = [task EXCEPT ![t].pc = IF @ = "send" THEN "poll" ELSE "done"]
    /\ doubtful' = TRUE
    /\ UNCHANGED <<items, out, store, owner, coordRunning, opens, cut, shared>>

(***************************************************************************)
(* A task ends at the top of its loop when it is cancelled, and when Poll  *)
(* or Commit fails; running keeps it either way.                           *)
(***************************************************************************)
Exit(t) ==
    /\ task[t].pc = "poll"
    /\ task' = [task EXCEPT ![t].pc = "done"]
    /\ UNCHANGED <<items, out, store, owner, coordRunning, opens, history>>

(***************************************************************************)
(* The worker's process dies.                                              *)
(***************************************************************************)
Crash(w) ==
    /\ entries[w] # Closed
    /\ entries' = [entries EXCEPT ![w] = Closed]
    /\ coordRunning' = [coordRunning EXCEPT ![w] = 0]
    /\ owner' = IF owner = w THEN NoOwner ELSE owner
    /\ task' = [t \in DOMAIN task |->
                   IF task[t].worker = w THEN [task[t] EXCEPT !.pc = "done"]
                   ELSE task[t]]
    /\ doubtful' = (doubtful \/ \E t \in DOMAIN task :
                                    task[t].worker = w /\ TaskAlive(t)
                                        /\ task[t].pc # "poll")
    /\ UNCHANGED <<items, out, offsets, opens, cut, shared>>

SourceNext ==
    \/ NewItem
    \/ \E w \in Worker :
          \/ \E n \in 0 .. Len(offsets) : Open(w, n)
          \/ StartTask(w)
          \/ CancelTask(w)
          \/ Crash(w)
    \/ \E w \in Worker \union {NoOwner} : Rebalance(w)
    \/ \E t \in DOMAIN task :
          \/ Poll(t)
          \/ SendNext(t)
          \/ \E landed \in BOOLEAN : SendFails(t, landed)
          \/ Save(t)
          \/ Remember(t)
          \/ SaveFails(t)
          \/ Exit(t)

SourceSpec == SourceInit /\ [][SourceNext]_sourceVars

-----------------------------------------------------------------------------
(***************************************************************************)
(* No item is lost: whatever position the offsets topic holds, every item  *)
(* up to it was published, although tasks are cancelled in the middle of a *)
(* batch, workers die and two workers may run the task at once.            *)
(***************************************************************************)
SavedWasPublished ==
    \A i \in DOMAIN offsets : 1 .. offsets[i] \subseteq Range(out)

(***************************************************************************)
(* "a Stop mid-batch doesn't lose the durability boundary that keeps a     *)
(* restart from re-emitting already-delivered records" (worker.go:672-673):*)
(* nothing is published twice by one worker whose tasks do not overlap, as *)
(* long as no Send or Save fails, no process dies and replays complete.    *)
(***************************************************************************)
CleanStopRepeatsNothing ==
    ~doubtful /\ ~cut /\ ~shared => IsInjective(out)

(***************************************************************************)
(* A task that starts again loses nothing and, after clean stops and moves *)
(* only, repeats nothing.                                                  *)
(***************************************************************************)
SourcesResume == SavedWasPublished /\ CleanStopRepeatsNothing

(***************************************************************************)
(* "Two workers running the same source connector with the same coord      *)
(* topic will not double-produce" (worker.go:221-222).                     *)
(***************************************************************************)
CoordinatedOnce == ~doubtful /\ ~cut => IsInjective(out)

=============================================================================
