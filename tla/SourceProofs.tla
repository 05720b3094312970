---------------------------- MODULE SourceProofs ----------------------------
(***************************************************************************)
(* Theorems about the tasks of a source connector: what the offsets topic  *)
(* stands for, and what a task that resumes from it publishes, for any     *)
(* number of workers, tasks, items and batch sizes.                        *)
(***************************************************************************)
EXTENDS SourceTask, TLAPS

-----------------------------------------------------------------------------
(***************************************************************************)
(* Source tasks: what a task has published is all up to its place in its   *)
(* batch, and the batch continues where the task was.                      *)
(***************************************************************************)
TaskState == [worker : Worker, pos : Nat, batch : Seq(Nat), sent : Nat,
              pc : {"poll", "send", "saveLast", "saved", "savedLast", "done"},
              cancelled : BOOLEAN]

BatchStart(w) == w.pos - Len(w.batch)

TaskOK(w) ==
    /\ w \in TaskState
    /\ w.sent <= Len(w.batch) /\ Len(w.batch) <= w.pos
    /\ \A i \in 1 .. Len(w.batch) : w.batch[i] = BatchStart(w) + i
    /\ w.pc \in {"poll", "saved"} => w.sent = Len(w.batch)
    /\ w.pc = "send" => Len(w.batch) > 0
    /\ w.pc \in {"saveLast", "saved", "savedLast"} => w.sent > 0

Published(n) == 1 .. n \subseteq Range(out)

SourceTypeOK ==
    /\ items \in Nat /\ out \in Seq(Nat) /\ offsets \in Seq(Nat)
    /\ entries \in [Worker -> Nat \union {Closed}]
    /\ task \in Seq(TaskState)

PublishedInv ==
    /\ \A t \in DOMAIN task : TaskOK(task[t]) /\ Published(BatchStart(task[t]) + task[t].sent)
    /\ \A w \in Worker : entries[w] # Closed => Published(entries[w])
    /\ \A i \in DOMAIN offsets : Published(offsets[i])

(***************************************************************************)
(* The position a replay of the whole offsets topic finds.                 *)
(***************************************************************************)
Durable == IF offsets = <<>> THEN 0 ELSE offsets[Len(offsets)]

(***************************************************************************)
(* While nothing is in doubt, the output is 1, 2, ... and ends where the   *)
(* task that runs is, or where the offsets topic says.                     *)
(***************************************************************************)
AtItsPlace(w) ==
    /\ entries[w.worker] # Closed
    /\ Len(out) = BatchStart(w) + w.sent
    /\ w.pc = "poll" => Durable = w.pos /\ entries[w.worker] = w.pos
    /\ w.pc \in {"send", "saveLast"} =>
            Durable = BatchStart(w) /\ entries[w.worker] = BatchStart(w)
    /\ w.pc \in {"saved", "savedLast"} => Durable = Len(out)

CleanInv ==
    /\ \A i \in DOMAIN out : out[i] = i
    /\ task = <<>> => offsets = <<>> /\ \A w \in Worker : entries[w] \in {Closed, 0}
    /\ \A t, u \in DOMAIN task :
        /\ task[t].worker = task[u].worker
        /\ TaskAlive(t) /\ TaskAlive(u) => t = u
    /\ \A t \in DOMAIN task : TaskAlive(t) => AtItsPlace(task[t])
    /\ (\A t \in DOMAIN task : ~TaskAlive(t)) =>
        /\ Len(out) = Durable
        /\ \A t \in DOMAIN task : entries[task[t].worker] \in {Closed, Durable}

Clean == ~doubtful /\ ~cut /\ ~shared

SourceInv == SourceTypeOK /\ PublishedInv /\ (Clean => CleanInv)

LEMMA SourceInvInit == SourceInit => SourceInv
<1> SUFFICES ASSUME SourceInit
             PROVE  SourceInv
  BY Zenon
<1>1. SourceTypeOK
  BY DEF SourceInit, SourceTypeOK, Closed
<1>2. DOMAIN task = {} /\ DOMAIN offsets = {} /\ DOMAIN out = {} /\ Len(out) = 0
  BY DEF SourceInit
<1>3. PublishedInv
  BY <1>2, Zenon DEF SourceInit, PublishedInv
<1>4. CleanInv
  BY <1>2 DEF SourceInit, CleanInv, Durable
<1> QED
  BY <1>1, <1>3, <1>4, Zenon DEF SourceInv

(***************************************************************************)
(* What was published stays published.                                     *)
(***************************************************************************)
LEMMA OutputGrows ==
    ASSUME SourceTypeOK, NEW x \in Nat, out' = Append(out, x)
    PROVE  /\ out' \in Seq(Nat) /\ Len(out') = Len(out) + 1 /\ Len(out) \in Nat
           /\ DOMAIN out' = DOMAIN out \union {Len(out) + 1}
           /\ out'[Len(out) + 1] = x /\ \A i \in DOMAIN out : out'[i] = out[i]
           /\ Range(out') = Range(out) \union {x}
<1>1. /\ out' \in Seq(Nat) /\ Len(out') = Len(out) + 1 /\ Len(out) \in Nat
      /\ DOMAIN out = 1 .. Len(out) /\ DOMAIN out' = 1 .. Len(out) + 1
      /\ out'[Len(out) + 1] = x /\ \A i \in DOMAIN out : out'[i] = out[i]
  BY DEF SourceTypeOK
<1>2. DOMAIN out' = DOMAIN out \union {Len(out) + 1}
  BY <1>1
<1>3. Range(out') = Range(out) \union {x}
  <2>1. \A y \in Range(out') : y \in Range(out) \union {x}
    BY <1>1, <1>2, Zenon DEF Range
  <2>2. \A y \in Range(out) \union {x} : y \in Range(out')
    BY <1>1, <1>2, Zenon DEF Range
  <2> QED
    BY <2>1, <2>2, Zenon
<1> QED
  BY <1>1, <1>2, <1>3, Zenon

(***************************************************************************)
(* A step of one task from t to w: what has to be shown of w.              *)
(***************************************************************************)
LEMMA TaskMoves ==
    ASSUME SourceTypeOK, PublishedInv, NEW t \in DOMAIN task, NEW w, TaskOK(w),
           task' = [task EXCEPT ![t] = w], Range(out) \subseteq Range(out'),
           1 .. (BatchStart(w) + w.sent) \subseteq Range(out')
    PROVE  /\ task' \in Seq(TaskState) /\ DOMAIN task' = DOMAIN task
           /\ task'[t] = w /\ \A u \in DOMAIN task : u # t => task'[u] = task[u]
           /\ (\A u \in DOMAIN task :
                    TaskOK(task[u]) /\ Published(BatchStart(task[u]) + task[u].sent))'
<1>1. w \in TaskState /\ task \in Seq(TaskState)
  BY Zenon DEF TaskOK, SourceTypeOK
<1>2. task' \in Seq(TaskState) /\ DOMAIN task' = DOMAIN task
  BY <1>1
<1>3. task'[t] = w /\ \A u \in DOMAIN task : u # t => task'[u] = task[u]
  BY <1>1, Zenon
<1>4. \A u \in DOMAIN task : TaskOK(task[u]) /\ 1 .. (BatchStart(task[u]) + task[u].sent) \subseteq Range(out)
  BY Zenon DEF PublishedInv, Published
<1>5. ASSUME NEW u \in DOMAIN task'
      PROVE  TaskOK(task'[u]) /\ 1 .. (BatchStart(task'[u]) + task'[u].sent) \subseteq Range(out')
  <2>1. CASE u = t
    BY <1>3, <2>1, Zenon
  <2>2. CASE u # t
    BY <1>2, <1>3, <1>4, <2>2, Zenon
  <2> QED
    BY <2>1, <2>2, Zenon
<1> QED
  BY <1>2, <1>3, <1>5, Zenon DEF Published, TaskOK, BatchStart

LEMMA CleanMoves ==
    ASSUME CleanInv, NEW t \in DOMAIN task, NEW w, TaskAlive(t),
           DOMAIN task' = DOMAIN task, task'[t] = w,
           \A u \in DOMAIN task : u # t => task'[u] = task[u],
           w.worker = task[t].worker,
           \A i \in DOMAIN out' : out'[i] = i,
           IF w.pc # "done" THEN AtItsPlace(w)'
           ELSE Len(out') = Durable' /\ entries'[w.worker] \in {Closed, Durable'}
    PROVE  CleanInv'
<1>1. \A u \in DOMAIN task' : /\ task'[u].worker = w.worker
                              /\ task'[u].pc # "done" => u = t
  BY DEF CleanInv, TaskAlive
<1>2. task' # <<>>
  OBVIOUS
<1>3. ASSUME NEW u \in DOMAIN task', task'[u].pc # "done"
      PROVE  AtItsPlace(task[u])'
  BY <1>1, <1>3, Zenon DEF AtItsPlace, BatchStart
<1>4. (\A u \in DOMAIN task' : task'[u].pc = "done") =>
        /\ Len(out') = Durable'
        /\ \A u \in DOMAIN task' : entries'[task'[u].worker] \in {Closed, Durable'}
  BY <1>1, Zenon
<1> QED
  BY <1>1, <1>2, <1>3, <1>4, Zenon DEF CleanInv, TaskAlive, Closed

(***************************************************************************)
(* The two together, for the steps that leave the stores alone or not.     *)
(***************************************************************************)
LEMMA TaskStepKeeps ==
    ASSUME SourceInv, NEW t \in DOMAIN task, NEW w, TaskAlive(t), TaskOK(w),
           w.worker = task[t].worker, task' = [task EXCEPT ![t] = w],
           items' \in Nat, out' \in Seq(Nat), offsets' \in Seq(Nat),
           entries' \in [Worker -> Nat \union {Closed}],
           Range(out) \subseteq Range(out'),
           1 .. (BatchStart(w) + w.sent) \subseteq Range(out'),
           \A v \in Worker : \/ entries'[v] = entries[v]
                             \/ 1 .. entries'[v] \subseteq Range(out'),
           \A i \in DOMAIN offsets' : \/ i \in DOMAIN offsets /\ offsets'[i] = offsets[i]
                                      \/ 1 .. offsets'[i] \subseteq Range(out'),
           Clean' => Clean,
           Clean' /\ CleanInv =>
                /\ \A i \in DOMAIN out' : out'[i] = i
                /\ IF w.pc # "done" THEN AtItsPlace(w)'
                   ELSE Len(out') = Durable' /\ entries'[w.worker] \in {Closed, Durable'}
    PROVE  SourceInv'
<1>1. SourceTypeOK /\ PublishedInv /\ (Clean => CleanInv)
  BY Zenon DEF SourceInv, Clean
<1>2. /\ task' \in Seq(TaskState) /\ DOMAIN task' = DOMAIN task
      /\ task'[t] = w /\ \A u \in DOMAIN task : u # t => task'[u] = task[u]
      /\ (\A u \in DOMAIN task :
                    TaskOK(task[u]) /\ Published(BatchStart(task[u]) + task[u].sent))'
  BY <1>1, TaskMoves, Zenon
<1>3. SourceTypeOK'
  BY <1>2, Zenon DEF SourceTypeOK
<1>4. (\A v \in Worker : entries[v] # Closed => Published(entries[v]))'
  <2>1. \A v \in Worker : entries[v] # Closed => 1 .. entries[v] \subseteq Range(out)
    BY <1>1, Zenon DEF PublishedInv, Published
  <2> QED
    BY <2>1, Zenon DEF Published, Closed
<1>5. (\A i \in DOMAIN offsets : Published(offsets[i]))'
  <2>1. \A i \in DOMAIN offsets : 1 .. offsets[i] \subseteq Range(out)
    BY <1>1, Zenon DEF PublishedInv, Published
  <2> QED
    BY <2>1, Zenon DEF Published
<1>6. Clean' => CleanInv'
  BY <1>1, <1>2, CleanMoves, Zenon
<1> QED
  BY <1>2, <1>3, <1>4, <1>5, <1>6, Zenon DEF SourceInv, PublishedInv, Clean

LEMMA TaskFacts ==
    ASSUME SourceInv, NEW t \in DOMAIN task
    PROVE  /\ TaskOK(task[t]) /\ task[t] \in TaskState
           /\ BatchStart(task[t]) \in Nat /\ Len(task[t].batch) \in Nat
           /\ 1 .. (BatchStart(task[t]) + task[t].sent) \subseteq Range(out)
           /\ CleanInv /\ task[t].pc # "done" => AtItsPlace(task[t])
<1>1. TaskOK(task[t]) /\ 1 .. (BatchStart(task[t]) + task[t].sent) \subseteq Range(out)
  BY Zenon DEF SourceInv, PublishedInv, Published
<1>2. BatchStart(task[t]) \in Nat /\ Len(task[t].batch) \in Nat /\ task[t] \in TaskState
  BY <1>1 DEF TaskOK, TaskState, BatchStart
<1>3. CleanInv /\ task[t].pc # "done" => AtItsPlace(task[t])
  BY Zenon DEF CleanInv, TaskAlive
<1> QED
  BY <1>1, <1>2, <1>3, Zenon

(***************************************************************************)
(* A task that changes only its control state stays where it is.           *)
(***************************************************************************)
LEMMA OnlyControl ==
    ASSUME NEW w, TaskOK(w), NEW pc \in {"poll", "saveLast", "saved", "savedLast", "done"},
           NEW u, u = [w EXCEPT !.pc = pc],
           pc \in {"poll", "saved"} => w.sent = Len(w.batch),
           pc \in {"saveLast", "saved", "savedLast"} => w.sent > 0
    PROVE  /\ TaskOK(u) /\ u.pc = pc /\ u.worker = w.worker /\ BatchStart(u) = BatchStart(w)
           /\ u.sent = w.sent /\ u.batch = w.batch /\ u.pos = w.pos
<1>1. w \in TaskState
  BY Zenon DEF TaskOK
<1>2. /\ u.pc = pc /\ u.worker = w.worker /\ u.sent = w.sent /\ u.batch = w.batch
      /\ u.pos = w.pos /\ u \in TaskState
  BY <1>1, Zenon DEF TaskState
<1> QED
  BY <1>1, <1>2, Zenon DEF TaskOK, BatchStart

LEMMA PollKeeps ==
    ASSUME SourceInv, NEW t \in DOMAIN task, Poll(t)
    PROVE  SourceInv'
<1>1. PICK n \in task[t].pos + 1 .. task[t].pos + BatchMax :
            task' = [task EXCEPT ![t].pc = "send", ![t].pos = n, ![t].sent = 0,
                         ![t].batch = [i \in 1 .. n - task[t].pos |-> task[t].pos + i]]
  BY Zenon DEF Poll
<1>2. PICK b : b = [i \in 1 .. n - task[t].pos |-> task[t].pos + i]
  BY Zenon
<1>3. PICK w : w = [task[t] EXCEPT !.pc = "send", !.pos = n, !.sent = 0, !.batch = b]
  BY Zenon
<1>4. task' = [task EXCEPT ![t] = w]
  BY <1>1, <1>2, <1>3, Zenon
<1>5. /\ task[t].pc = "poll" /\ UNCHANGED <<items, out, offsets, entries, doubtful, cut, shared>>
  BY Zenon DEF Poll, store, history
<1>6. /\ task[t].pos \in Nat /\ task[t].pos = BatchStart(task[t]) + task[t].sent
      /\ task[t].pos < n /\ n \in Nat
  BY <1>5, TaskFacts DEF TaskOK, TaskState, BatchStart
<1>7. b \in Seq(Nat) /\ Len(b) = n - task[t].pos
  BY <1>2, <1>6
<1>8. /\ w.worker = task[t].worker /\ w.pc = "send" /\ w.pos = n /\ w.sent = 0 /\ w.batch = b
      /\ w \in TaskState
  BY <1>3, <1>6, <1>7, TaskFacts, Zenon DEF TaskState
<1>9. TaskOK(w) /\ BatchStart(w) = task[t].pos
  <2>1. BatchStart(w) = task[t].pos /\ Len(b) > 0 /\ Len(b) <= n
    <3>1. \A p, m \in Nat : p < m => m - (m - p) = p /\ m - p > 0 /\ m - p <= m
      OBVIOUS
    <3>2. BatchStart(w) = n - (n - task[t].pos)
      BY <1>7, <1>8, Zenon DEF BatchStart
    <3> QED
      BY <1>6, <1>7, <3>1, <3>2, Zenon
  <2>2. \A i \in 1 .. Len(b) : b[i] = task[t].pos + i
    BY <1>2, <1>7, Zenon
  <2> QED
    BY <1>7, <1>8, <2>1, <2>2 DEF TaskOK
<1>10. 1 .. (BatchStart(w) + w.sent) \subseteq Range(out)
  BY <1>6, <1>8, <1>9, TaskFacts
<1>11. CleanInv => AtItsPlace(w)'
  <2>1. CleanInv => AtItsPlace(task[t])
    BY <1>5, TaskFacts, Zenon
  <2> QED
    BY <1>5, <1>6, <1>8, <1>9, <2>1 DEF AtItsPlace, Durable
<1>12. TaskAlive(t) /\ (CleanInv => \A i \in DOMAIN out : out[i] = i)
  BY <1>5, Zenon DEF TaskAlive, CleanInv
<1> QED
  BY <1>4, <1>5, <1>8, <1>9, <1>10, <1>11, <1>12, TaskStepKeeps, Zenon
     DEF Clean, SourceInv, SourceTypeOK

LEMMA SendNextKeeps ==
    ASSUME SourceInv, NEW t \in DOMAIN task, SendNext(t)
    PROVE  SourceInv'
<1>1. /\ task[t].pc = "send" /\ task[t].sent < Len(task[t].batch)
      /\ UNCHANGED <<items, offsets, entries, doubtful, cut, shared>>
  BY Zenon DEF SendNext, store, history
<1>2. PICK k : k = task[t].sent + 1
  BY Zenon
<1>3. PICK w : w = [task[t] EXCEPT !.sent = k]
  BY Zenon
<1>4. task' = [task EXCEPT ![t] = w]
  BY <1>2, <1>3, Zenon DEF SendNext
<1>5. /\ k \in 1 .. Len(task[t].batch) /\ k \in Nat
      /\ task[t].batch[k] = BatchStart(task[t]) + k
  BY <1>1, <1>2, TaskFacts DEF TaskOK, TaskState
<1>6. PICK x \in Nat : x = BatchStart(task[t]) + k /\ out' = Append(out, x)
  BY <1>2, <1>5, TaskFacts DEF SendNext
<1>7. /\ w.worker = task[t].worker /\ w.pc = "send" /\ w.pos = task[t].pos /\ w.sent = k
      /\ w.batch = task[t].batch /\ w \in TaskState
  BY <1>1, <1>3, <1>5, TaskFacts, Zenon DEF TaskState
<1>8. TaskOK(w) /\ BatchStart(w) = BatchStart(task[t])
  BY <1>5, <1>7, TaskFacts DEF TaskOK, BatchStart
<1>9. /\ out' \in Seq(Nat) /\ Len(out') = Len(out) + 1 /\ Len(out) \in Nat
      /\ DOMAIN out' = DOMAIN out \union {Len(out) + 1}
      /\ out'[Len(out) + 1] = x /\ \A i \in DOMAIN out : out'[i] = out[i]
      /\ Range(out') = Range(out) \union {x}
  BY <1>6, OutputGrows, Zenon DEF SourceInv
<1>10. 1 .. (BatchStart(w) + w.sent) \subseteq Range(out')
  <2>1. 1 .. (BatchStart(task[t]) + task[t].sent) \subseteq Range(out) /\ task[t].sent \in Nat
    BY TaskFacts, Zenon DEF TaskState
  <2> QED
    BY <1>2, <1>6, <1>7, <1>8, <1>9, <2>1, TaskFacts
<1>11. ASSUME CleanInv
       PROVE  AtItsPlace(w)' /\ \A i \in DOMAIN out' : out'[i] = i
  <2>1. AtItsPlace(task[t]) /\ task[t].sent \in Nat
    BY <1>1, <1>11, TaskFacts, Zenon DEF TaskState
  <2>2. Len(out) + 1 = x
    BY <1>2, <1>6, <1>9, <2>1, TaskFacts, SMTT(30) DEF AtItsPlace
  <2>3. \A i \in DOMAIN out' : out'[i] = i
    BY <1>9, <1>11, <2>2, Zenon DEF CleanInv
  <2>4. AtItsPlace(w)'
    BY <1>1, <1>2, <1>6, <1>7, <1>8, <1>9, <2>1, <2>2, TaskFacts, Zenon DEF AtItsPlace, Durable
  <2> QED
    BY <2>3, <2>4, Zenon
<1>12. TaskAlive(t) /\ SourceTypeOK
  BY <1>1, Zenon DEF TaskAlive, SourceInv
<1> QED
  BY <1>1, <1>4, <1>7, <1>8, <1>9, <1>10, <1>11, <1>12, TaskStepKeeps, Zenon DEF Clean, SourceTypeOK

(***************************************************************************)
(* The saved position is the last item of the batch that was sent.         *)
(***************************************************************************)
LEMMA SavedIsPublished ==
    ASSUME SourceInv, NEW t \in DOMAIN task, task[t].sent > 0
    PROVE  /\ SavedPosition(task[t]) = BatchStart(task[t]) + task[t].sent
           /\ SavedPosition(task[t]) \in Nat
           /\ 1 .. SavedPosition(task[t]) \subseteq Range(out)
<1>1. /\ task[t].sent \in 1 .. Len(task[t].batch)
      /\ \A i \in 1 .. Len(task[t].batch) : task[t].batch[i] = BatchStart(task[t]) + i
  BY TaskFacts DEF TaskOK, TaskState
<1> QED
  BY <1>1, TaskFacts DEF SavedPosition

LEMMA SendFailsKeeps ==
    ASSUME SourceInv, NEW t \in DOMAIN task, NEW landed \in BOOLEAN, SendFails(t, landed)
    PROVE  SourceInv'
<1>1. /\ task[t].pc = "send" /\ task[t].sent < Len(task[t].batch)
      /\ UNCHANGED <<items, offsets, entries, cut, shared>>
      /\ doubtful' = (doubtful \/ landed)
      /\ out' = IF landed THEN Append(out, task[t].batch[task[t].sent + 1]) ELSE out
  BY Zenon DEF SendFails, store
<1>2. PICK pc \in {"saveLast", "done"} : pc = IF task[t].sent > 0 THEN "saveLast" ELSE "done"
  BY Zenon
<1>3. PICK w : w = [task[t] EXCEPT !.pc = pc]
  BY Zenon
<1>4. task' = [task EXCEPT ![t] = w]
  BY <1>2, <1>3, Zenon DEF SendFails
<1>5. task[t].sent \in Nat /\ TaskOK(task[t])
  BY TaskFacts, Zenon DEF TaskState
<1>6. /\ TaskOK(w) /\ w.pc = pc /\ w.worker = task[t].worker /\ BatchStart(w) = BatchStart(task[t])
      /\ w.sent = task[t].sent
  BY <1>2, <1>3, <1>5, OnlyControl
<1>7. out' \in Seq(Nat) /\ Range(out) \subseteq Range(out')
  <2>1. CASE landed
    <3>1. PICK x \in Nat : out' = Append(out, x)
      BY <1>1, <1>5, <2>1 DEF TaskOK, TaskState
    <3> QED
      BY <3>1, OutputGrows, Zenon DEF SourceInv
  <2>2. CASE ~landed
    BY <1>1, <2>2, Zenon DEF SourceInv, SourceTypeOK
  <2> QED
    BY <2>1, <2>2, Zenon
<1>8. 1 .. (BatchStart(w) + w.sent) \subseteq Range(out')
  BY <1>6, <1>7, TaskFacts, Zenon
<1>9. ASSUME Clean', CleanInv
      PROVE  /\ \A i \in DOMAIN out' : out'[i] = i
             /\ IF w.pc # "done" THEN AtItsPlace(w)'
                ELSE Len(out') = Durable' /\ entries'[w.worker] \in {Closed, Durable'}
  <2>1. out' = out /\ Durable' = Durable
    BY <1>1, <1>9, Zenon DEF Clean, Durable
  <2>2. AtItsPlace(task[t])
    BY <1>1, <1>9, TaskFacts, Zenon
  <2>3. \A i \in DOMAIN out' : out'[i] = i
    BY <1>9, <2>1, Zenon DEF CleanInv
  <2>4. CASE pc = "saveLast"
    <3>1. AtItsPlace(w)'
      BY <1>1, <1>6, <2>1, <2>2, <2>4, Zenon DEF AtItsPlace
    <3> QED
      BY <1>6, <2>3, <2>4, <3>1, Zenon
  <2>5. CASE pc = "done"
    <3>1. task[t].sent = 0
      BY <1>2, <1>5, <2>5
    <3> QED
      BY <1>1, <1>6, <2>1, <2>2, <2>3, <2>5, <3>1, TaskFacts DEF AtItsPlace
  <2> QED
    BY <1>2, <1>6, <2>3, <2>4, <2>5, Zenon
<1>10. TaskAlive(t) /\ SourceTypeOK /\ (Clean' => Clean)
  BY <1>1, Zenon DEF TaskAlive, SourceInv, Clean
<1> QED
  BY <1>1, <1>4, <1>6, <1>7, <1>8, <1>9, <1>10, TaskStepKeeps, Zenon DEF SourceTypeOK

LEMMA SaveKeeps ==
    ASSUME SourceInv, NEW t \in DOMAIN task, Save(t)
    PROVE  SourceInv'
<1>1. /\ AtSave(t) /\ UNCHANGED <<items, out, entries, doubtful, cut, shared>>
  BY Zenon DEF Save, history
<1>2. PICK pc \in {"saved", "savedLast"} :
          pc = IF task[t].pc = "send" THEN "saved" ELSE "savedLast"
  BY Zenon
<1>3. PICK w : w = [task[t] EXCEPT !.pc = pc]
  BY Zenon
<1>4. task' = [task EXCEPT ![t] = w]
  BY <1>2, <1>3, Zenon DEF Save
<1>5. /\ task[t].sent \in Nat /\ TaskOK(task[t]) /\ task[t].sent > 0
      /\ pc = "saved" => task[t].sent = Len(task[t].batch)
      /\ task[t].pc \in {"send", "saveLast"}
  BY <1>1, <1>2, TaskFacts, Zenon DEF TaskState, TaskOK, AtSave
<1>6. /\ TaskOK(w) /\ w.pc = pc /\ w.worker = task[t].worker /\ BatchStart(w) = BatchStart(task[t])
      /\ w.sent = task[t].sent
  BY <1>2, <1>3, <1>5, OnlyControl
<1>7. PICK x \in Nat : /\ x = BatchStart(task[t]) + task[t].sent /\ 1 .. x \subseteq Range(out)
                       /\ offsets' = Append(offsets, x)
  BY <1>5, SavedIsPublished, Zenon DEF Save
<1>8. /\ offsets' \in Seq(Nat) /\ offsets' # <<>>
      /\ Len(offsets') = Len(offsets) + 1 /\ offsets'[Len(offsets')] = x
      /\ \A i \in DOMAIN offsets' : \/ i \in DOMAIN offsets /\ offsets'[i] = offsets[i]
                                    \/ offsets'[i] = x
  <2>1. offsets \in Seq(Nat)
    BY Zenon DEF SourceInv, SourceTypeOK
  <2> QED
    BY <1>7, <2>1
<1>9. 1 .. (BatchStart(w) + w.sent) \subseteq Range(out')
  BY <1>1, <1>6, TaskFacts, Zenon
<1>10. ASSUME CleanInv
       PROVE  AtItsPlace(w)' /\ \A i \in DOMAIN out' : out'[i] = i
  <2>1. AtItsPlace(task[t]) /\ Durable' = x
    BY <1>5, <1>8, <1>10, TaskFacts, Zenon DEF Durable
  <2>2. AtItsPlace(w)'
    BY <1>1, <1>2, <1>6, <1>7, <2>1, Zenon DEF AtItsPlace
  <2> QED
    BY <1>1, <1>10, <2>2, Zenon DEF CleanInv
<1>11. TaskAlive(t) /\ SourceTypeOK /\ (Clean' => Clean) /\ pc # "done"
  BY <1>1, <1>2, <1>5, Zenon DEF TaskAlive, SourceInv, Clean
<1> QED
  BY <1>1, <1>4, <1>6, <1>7, <1>8, <1>9, <1>10, <1>11, TaskStepKeeps, Zenon DEF SourceTypeOK

LEMMA RememberKeeps ==
    ASSUME SourceInv, NEW t \in DOMAIN task, Remember(t)
    PROVE  SourceInv'
<1>1. /\ task[t].pc \in {"saved", "savedLast"}
      /\ UNCHANGED <<items, out, offsets, doubtful, cut, shared>>
  BY Zenon DEF Remember, history
<1>2. PICK pc \in {"poll", "done"} : pc = IF task[t].pc = "saved" THEN "poll" ELSE "done"
  BY Zenon
<1>3. PICK w : w = [task[t] EXCEPT !.pc = pc]
  BY Zenon
<1>4. task' = [task EXCEPT ![t] = w]
  BY <1>2, <1>3, Zenon DEF Remember
<1>5. /\ task[t].sent \in Nat /\ TaskOK(task[t]) /\ task[t].sent > 0 /\ task[t].worker \in Worker
      /\ pc = "poll" => task[t].sent = Len(task[t].batch)
  BY <1>1, <1>2, TaskFacts, Zenon DEF TaskState, TaskOK
<1>6. /\ TaskOK(w) /\ w.pc = pc /\ w.worker = task[t].worker /\ BatchStart(w) = BatchStart(task[t])
      /\ w.sent = task[t].sent /\ w.batch = task[t].batch /\ w.pos = task[t].pos
  BY <1>2, <1>3, <1>5, OnlyControl
<1>7. PICK x \in Nat : /\ x = BatchStart(task[t]) + task[t].sent /\ 1 .. x \subseteq Range(out)
                       /\ entries' = [entries EXCEPT ![task[t].worker] = x]
  BY <1>5, SavedIsPublished, Zenon DEF Remember
<1>8. /\ entries' \in [Worker -> Nat \union {Closed}]
      /\ entries'[task[t].worker] = x
      /\ \A v \in Worker : v # task[t].worker => entries'[v] = entries[v]
  <2>1. entries \in [Worker -> Nat \union {Closed}]
    BY Zenon DEF SourceInv, SourceTypeOK
  <2> QED
    BY <1>5, <1>7, <2>1, Zenon
<1>9. 1 .. (BatchStart(w) + w.sent) \subseteq Range(out')
  BY <1>1, <1>6, TaskFacts, Zenon
<1>10. ASSUME CleanInv
       PROVE  /\ \A i \in DOMAIN out' : out'[i] = i
              /\ IF w.pc # "done" THEN AtItsPlace(w)'
                 ELSE Len(out') = Durable' /\ entries'[w.worker] \in {Closed, Durable'}
  <2>1. AtItsPlace(task[t]) /\ Durable' = Durable
    BY <1>1, <1>10, TaskFacts, Zenon DEF Durable
  <2>2. Len(out') = x /\ Durable' = x /\ entries'[w.worker] = x /\ x # Closed
    BY <1>1, <1>6, <1>7, <1>8, <2>1 DEF AtItsPlace, Closed
  <2>3. CASE pc = "poll"
    <3>1. x = w.pos
      BY <1>5, <1>6, <1>7, <2>3, TaskFacts DEF BatchStart, TaskState
    <3> QED
      BY <1>1, <1>6, <1>7, <1>10, <2>2, <2>3, <3>1, Zenon DEF AtItsPlace, CleanInv
  <2>4. CASE pc = "done"
    BY <1>1, <1>6, <1>10, <2>2, <2>4, Zenon DEF CleanInv
  <2> QED
    BY <1>2, <2>3, <2>4, Zenon
<1>11. TaskAlive(t) /\ SourceTypeOK /\ (Clean' => Clean)
  BY <1>1, Zenon DEF TaskAlive, SourceInv, Clean
<1>12. \A v \in Worker : \/ entries'[v] = entries[v]
                         \/ 1 .. entries'[v] \subseteq Range(out')
  BY <1>1, <1>7, <1>8, Zenon
<1> QED
  BY <1>1, <1>4, <1>6, <1>8, <1>9, <1>10, <1>11, <1>12, TaskStepKeeps, Zenon DEF SourceTypeOK

LEMMA SaveFailsKeeps ==
    ASSUME SourceInv, NEW t \in DOMAIN task, SaveFails(t)
    PROVE  SourceInv'
<1>1. /\ AtSave(t) /\ doubtful' = TRUE /\ UNCHANGED <<items, out, entries, offsets>>
  BY Zenon DEF SaveFails, store
<1>2. PICK pc \in {"poll", "done"} : pc = IF task[t].pc = "send" THEN "poll" ELSE "done"
  BY Zenon
<1>3. PICK w : w = [task[t] EXCEPT !.pc = pc]
  BY Zenon
<1>4. task' = [task EXCEPT ![t] = w]
  BY <1>2, <1>3, Zenon DEF SaveFails
<1>5. /\ TaskOK(task[t]) /\ task[t].pc # "done"
      /\ pc = "poll" => task[t].sent = Len(task[t].batch)
  BY <1>1, <1>2, TaskFacts, Zenon DEF AtSave
<1>6. /\ TaskOK(w) /\ w.worker = task[t].worker /\ BatchStart(w) = BatchStart(task[t])
      /\ w.sent = task[t].sent
  BY <1>2, <1>3, <1>5, OnlyControl
<1>7. 1 .. (BatchStart(w) + w.sent) \subseteq Range(out')
  BY <1>1, <1>6, TaskFacts, Zenon
<1>8. TaskAlive(t) /\ SourceTypeOK /\ ~Clean'
  BY <1>1, <1>5, Zenon DEF TaskAlive, SourceInv, Clean
<1> QED
  BY <1>1, <1>4, <1>6, <1>7, <1>8, TaskStepKeeps, Zenon DEF SourceTypeOK

LEMMA ExitKeeps ==
    ASSUME SourceInv, NEW t \in DOMAIN task, Exit(t)
    PROVE  SourceInv'
<1>1. /\ task[t].pc = "poll"
      /\ UNCHANGED <<items, out, entries, offsets, doubtful, cut, shared>>
  BY Zenon DEF Exit, store, history
<1>2. PICK w : w = [task[t] EXCEPT !.pc = "done"]
  BY Zenon
<1>3. task' = [task EXCEPT ![t] = w]
  BY <1>2, Zenon DEF Exit
<1>4. TaskOK(task[t]) /\ task[t].sent = Len(task[t].batch)
  BY <1>1, TaskFacts, Zenon DEF TaskOK
<1>5. /\ TaskOK(w) /\ w.pc = "done" /\ w.worker = task[t].worker /\ BatchStart(w) = BatchStart(task[t])
      /\ w.sent = task[t].sent
  BY <1>2, <1>4, OnlyControl
<1>6. 1 .. (BatchStart(w) + w.sent) \subseteq Range(out')
  BY <1>1, <1>5, TaskFacts, Zenon
<1>7. ASSUME CleanInv
      PROVE  /\ \A i \in DOMAIN out' : out'[i] = i
             /\ Len(out') = Durable' /\ entries'[w.worker] \in {Closed, Durable'}
  <2>1. AtItsPlace(task[t]) /\ Durable' = Durable /\ \A i \in DOMAIN out : out[i] = i
    BY <1>1, <1>7, TaskFacts, Zenon DEF Durable, CleanInv
  <2>2. BatchStart(task[t]) + task[t].sent = task[t].pos
    BY <1>4, TaskFacts DEF BatchStart, TaskState
  <2> QED
    BY <1>1, <1>5, <2>1, <2>2, Zenon DEF AtItsPlace
<1>8. TaskAlive(t) /\ SourceTypeOK /\ (Clean' => Clean)
  BY <1>1, Zenon DEF TaskAlive, SourceInv, Clean
<1> QED
  BY <1>1, <1>3, <1>5, <1>6, <1>7, <1>8, TaskStepKeeps, Zenon DEF SourceTypeOK

LEMMA OpenKeeps ==
    ASSUME SourceInv, NEW v \in Worker, NEW n \in 0 .. Len(offsets), Open(v, n)
    PROVE  SourceInv'
<1>1. /\ entries[v] = Closed /\ cut' = (cut \/ n < Len(offsets))
      /\ UNCHANGED <<items, out, offsets, task, doubtful, shared>>
      /\ entries' = [entries EXCEPT ![v] = IF n = 0 THEN 0 ELSE offsets[n]]
  BY Zenon DEF Open
<1>2. SourceTypeOK /\ PublishedInv /\ (Clean => CleanInv) /\ offsets \in Seq(Nat)
  BY Zenon DEF SourceInv, SourceTypeOK, Clean
<1>3. PICK x \in Nat : x = (IF n = 0 THEN 0 ELSE offsets[n]) /\ 1 .. x \subseteq Range(out)
  <2>1. CASE n = 0
    BY <2>1
  <2>2. CASE n # 0
    <3>1. n \in DOMAIN offsets
      BY <1>2, <2>2
    <3> QED
      BY <1>2, <2>2, <3>1 DEF PublishedInv, Published
  <2> QED
    BY <2>1, <2>2, Zenon
<1>4. /\ entries' \in [Worker -> Nat \union {Closed}] /\ entries'[v] = x
      /\ \A u \in Worker : u # v => entries'[u] = entries[u]
  <2>1. entries \in [Worker -> Nat \union {Closed}]
    BY <1>2, Zenon DEF SourceTypeOK
  <2> QED
    BY <1>1, <1>3, <2>1, Zenon
<1>5. SourceTypeOK'
  BY <1>1, <1>2, <1>4, Zenon DEF SourceTypeOK
<1>6. PublishedInv'
  <2>1. (\A t \in DOMAIN task : TaskOK(task[t]) /\ Published(BatchStart(task[t]) + task[t].sent))'
    BY <1>1, <1>2, Zenon DEF PublishedInv, Published, TaskOK, BatchStart
  <2>2. (\A w \in Worker : entries[w] # Closed => Published(entries[w]))'
    BY <1>1, <1>2, <1>3, <1>4, Zenon DEF PublishedInv, Published, Closed
  <2>3. (\A i \in DOMAIN offsets : Published(offsets[i]))'
    BY <1>1, <1>2, Zenon DEF PublishedInv, Published
  <2> QED
    BY <2>1, <2>2, <2>3, Zenon DEF PublishedInv
<1>7. ASSUME Clean'
      PROVE  CleanInv'
  <2>1. Clean /\ n = Len(offsets) /\ CleanInv
    <3>1. ~(cut \/ n < Len(offsets)) /\ ~doubtful /\ ~shared
      BY <1>1, <1>7, Zenon DEF Clean
    <3>2. Clean /\ ~(n < Len(offsets)) /\ CleanInv
      BY <1>2, <3>1, Zenon DEF Clean
    <3> QED
      BY <1>2, <3>2
  <2>2. x = Durable /\ Durable' = Durable
    BY <1>1, <1>2, <1>3, <2>1 DEF Durable
  <2>3. \A t \in DOMAIN task : TaskAlive(t) => entries[task[t].worker] # Closed
    BY <2>1, Zenon DEF CleanInv, AtItsPlace
  <2>4. \A t \in DOMAIN task : task[t].worker \in Worker
    BY <1>2, Zenon DEF PublishedInv, TaskOK, TaskState
  <2>5. \A t \in DOMAIN task : TaskAlive(t) => entries'[task[t].worker] = entries[task[t].worker]
    BY <1>1, <1>4, <2>3, <2>4, Zenon
  <2>6. ASSUME NEW t \in DOMAIN task, TaskAlive(t)
        PROVE  AtItsPlace(task[t])'
    <3>1. AtItsPlace(task[t])
      BY <2>1, <2>6, Zenon DEF CleanInv
    <3> QED
      BY <1>1, <2>2, <2>5, <2>6, <3>1, Zenon DEF AtItsPlace, BatchStart
  <2>7. task = <<>> => x = 0
    BY <2>1, <2>2, Zenon DEF CleanInv, Durable
  <2>8. (\A t \in DOMAIN task : ~TaskAlive(t)) =>
            \A t \in DOMAIN task : entries'[task[t].worker] \in {Closed, Durable}
    BY <1>4, <2>1, <2>2, <2>4, Zenon DEF CleanInv
  <2>9. task = <<>> => \A u \in Worker : entries'[u] \in {Closed, 0}
    BY <1>4, <2>1, <2>7, Zenon DEF CleanInv
  <2> QED
    BY <1>1, <2>1, <2>2, <2>6, <2>8, <2>9, Zenon DEF CleanInv, TaskAlive
<1> QED
  BY <1>5, <1>6, <1>7, Zenon DEF SourceInv, Clean

LEMMA StartTaskKeeps ==
    ASSUME SourceInv, NEW v \in Worker, StartTask(v)
    PROVE  SourceInv'
<1>1. /\ entries[v] # Closed /\ UNCHANGED <<items, out, entries, offsets, doubtful, cut>>
      /\ task' = Append(task, NewTask(v, entries[v]))
      /\ shared' = (shared \/ \E t \in DOMAIN task : TaskAlive(t) \/ task[t].worker # v)
  BY Zenon DEF StartTask, store
<1>2. /\ SourceTypeOK /\ PublishedInv /\ (Clean => CleanInv)
      /\ entries[v] \in Nat /\ task \in Seq(TaskState) /\ out \in Seq(Nat)
  BY <1>1, Zenon DEF SourceInv, SourceTypeOK, Clean
<1>3. PICK w : w = NewTask(v, entries[v])
  BY Zenon
<1>4. /\ w \in TaskState /\ w.worker = v /\ w.pos = entries[v] /\ w.batch = <<>> /\ w.sent = 0
      /\ w.pc = "poll"
  BY <1>2, <1>3 DEF NewTask, TaskState
<1>5. TaskOK(w) /\ BatchStart(w) = entries[v]
  BY <1>2, <1>4 DEF TaskOK, BatchStart
<1>6. /\ task' \in Seq(TaskState) /\ task' # <<>>
      /\ DOMAIN task' = DOMAIN task \union {Len(task) + 1}
      /\ Len(task) + 1 \notin DOMAIN task
      /\ task'[Len(task) + 1] = w /\ \A t \in DOMAIN task : task'[t] = task[t]
  BY <1>1, <1>2, <1>3, <1>4
<1>7. SourceTypeOK'
  BY <1>1, <1>2, <1>6, Zenon DEF SourceTypeOK
<1>8. PublishedInv'
  <2>1. 1 .. (BatchStart(w) + w.sent) \subseteq Range(out)
    BY <1>1, <1>2, <1>4, <1>5 DEF PublishedInv, Published
  <2>2. ASSUME NEW t \in DOMAIN task'
        PROVE  TaskOK(task'[t]) /\ 1 .. (BatchStart(task'[t]) + task'[t].sent) \subseteq Range(out)
    <3>1. CASE t \in DOMAIN task
      BY <1>2, <1>6, <3>1, Zenon DEF PublishedInv, Published
    <3>2. CASE t = Len(task) + 1
      BY <1>5, <1>6, <2>1, <3>2, Zenon
    <3> QED
      BY <1>6, <3>1, <3>2, Zenon
  <2> QED
    BY <1>1, <1>2, <2>2, Zenon DEF PublishedInv, Published, TaskOK, BatchStart
<1>9. ASSUME Clean'
      PROVE  CleanInv'
  <2>1. Clean /\ \A t \in DOMAIN task : ~TaskAlive(t) /\ task[t].worker = v
    BY <1>1, <1>9, Zenon DEF Clean
  <2>2. CleanInv /\ Len(out) = Durable /\ Durable' = Durable
    BY <1>1, <1>2, <2>1, Zenon DEF CleanInv, Durable
  <2>3. entries[v] = Durable
    <3>1. CASE task = <<>>
      BY <1>1, <2>2, <3>1, Zenon DEF CleanInv, Durable
    <3>2. CASE task # <<>>
      <4>1. 1 \in DOMAIN task
        BY <1>2, <3>2
      <4> QED
        BY <1>1, <2>1, <2>2, <4>1, Zenon DEF CleanInv
    <3> QED
      BY <3>1, <3>2, Zenon
  <2>4. AtItsPlace(w)'
    BY <1>1, <1>2, <1>4, <1>5, <2>2, <2>3 DEF AtItsPlace, BatchStart
  <2>5. \A t \in DOMAIN task' : /\ task'[t].worker = v
                                /\ task'[t].pc # "done" => t = Len(task) + 1
    BY <1>4, <1>6, <2>1, Zenon DEF TaskAlive
  <2>6. ASSUME NEW t \in DOMAIN task', task'[t].pc # "done"
        PROVE  AtItsPlace(task[t])'
    <3>1. task'[t] = w
      BY <1>6, <2>5, <2>6, Zenon
    <3> QED
      BY <2>4, <3>1, Zenon DEF AtItsPlace, BatchStart
  <2>7. task'[Len(task) + 1].pc # "done" /\ Len(task) + 1 \in DOMAIN task'
    BY <1>4, <1>6, Zenon
  <2>8. \A i \in DOMAIN out' : out'[i] = i
    BY <1>1, <2>2, Zenon DEF CleanInv
  <2> QED
    <3>1. \A t, u \in DOMAIN task' :
             /\ task'[t].worker = task'[u].worker
             /\ task'[t].pc # "done" /\ task'[u].pc # "done" => t = u
      BY <2>5, Zenon
    <3>2. ~\A t \in DOMAIN task' : task'[t].pc = "done"
      BY <2>7, Zenon
    <3> QED
      BY <1>6, <2>6, <2>8, <3>1, <3>2, Zenon DEF CleanInv, TaskAlive
<1> QED
  BY <1>7, <1>8, <1>9, Zenon DEF SourceInv, Clean

(***************************************************************************)
(* Steps that change nothing of the tasks but that they are cancelled.     *)
(***************************************************************************)
LEMMA SameTasksKeep ==
    ASSUME SourceInv, items' \in Nat,
           UNCHANGED <<out, offsets, entries, doubtful, cut, shared>>,
           task' \in Seq(TaskState), DOMAIN task' = DOMAIN task,
           \A t \in DOMAIN task :
                /\ task'[t].worker = task[t].worker /\ task'[t].pos = task[t].pos
                /\ task'[t].batch = task[t].batch /\ task'[t].sent = task[t].sent
                /\ task'[t].pc = task[t].pc
    PROVE  SourceInv'
<1>1. SourceTypeOK /\ PublishedInv /\ (Clean => CleanInv) /\ task \in Seq(TaskState)
  BY Zenon DEF SourceInv, SourceTypeOK, Clean
<1>2. SourceTypeOK'
  BY <1>1, Zenon DEF SourceTypeOK
<1>3. (\A t \in DOMAIN task : TaskOK(task[t]) /\ Published(BatchStart(task[t]) + task[t].sent))'
  <2>1. ASSUME NEW t \in DOMAIN task
        PROVE  (TaskOK(task[t]) /\ Published(BatchStart(task[t]) + task[t].sent))'
    <3>1. task'[t] \in TaskState
      OBVIOUS
    <3>2. TaskOK(task[t]) /\ Published(BatchStart(task[t]) + task[t].sent)
      BY <1>1, Zenon DEF PublishedInv
    <3> QED
      BY <3>1, <3>2, Zenon DEF TaskOK, Published, BatchStart
  <2> QED
    BY <2>1, Zenon
<1>4. PublishedInv'
  BY <1>1, <1>3, Zenon DEF PublishedInv, Published
<1>5. ASSUME Clean'
      PROVE  CleanInv'
  <2>1. CleanInv /\ Durable' = Durable
    BY <1>1, <1>5, Zenon DEF Clean, Durable
  <2>2. ASSUME NEW t \in DOMAIN task, TaskAlive(t)
        PROVE  AtItsPlace(task[t])'
    BY <2>1, <2>2, Zenon DEF CleanInv, AtItsPlace, BatchStart
  <2>3. task' = <<>> => task = <<>>
    BY <1>1
  <2>4. \A t \in DOMAIN task : TaskAlive(t)' = TaskAlive(t)
    BY Zenon DEF TaskAlive
  <2> QED
    BY <2>1, <2>2, <2>3, <2>4 DEF CleanInv
<1> QED
  BY <1>2, <1>4, <1>5, Zenon DEF SourceInv, Clean

LEMMA CancelTaskKeeps ==
    ASSUME SourceInv, NEW v \in Worker, CancelTask(v)
    PROVE  SourceInv'
<1>1. PICK r : task' = [task EXCEPT ![r].cancelled = TRUE]
  BY Zenon DEF CancelTask
<1>2. items' \in Nat /\ UNCHANGED <<out, offsets, entries, doubtful, cut, shared>>
  BY Zenon DEF CancelTask, store, history, SourceInv, SourceTypeOK
<1>3. task \in Seq(TaskState)
  BY Zenon DEF SourceInv, SourceTypeOK
<1>4. \A t \in DOMAIN task : task[t] \in TaskState
  BY <1>3
<1>5. DOMAIN task' = DOMAIN task /\ \A t \in DOMAIN task :
            task'[t] = IF t = r THEN [task[t] EXCEPT !.cancelled = TRUE] ELSE task[t]
  BY <1>1, <1>3, Zenon
<1>6. ASSUME NEW t \in DOMAIN task
      PROVE  /\ task'[t] \in TaskState
             /\ task'[t].worker = task[t].worker /\ task'[t].pos = task[t].pos
             /\ task'[t].batch = task[t].batch /\ task'[t].sent = task[t].sent
             /\ task'[t].pc = task[t].pc
  BY <1>4, <1>5, ZenonT(40) DEF TaskState
<1>7. task' \in Seq(TaskState)
  <2>1. CASE r \in DOMAIN task
    <3>1. PICK w : w = [task[r] EXCEPT !.cancelled = TRUE]
      BY Zenon
    <3>2. w \in TaskState /\ task' = [task EXCEPT ![r] = w]
      BY <1>1, <1>4, <2>1, <3>1, Zenon DEF TaskState
    <3> QED
      BY <1>3, <2>1, <3>2
  <2>2. CASE r \notin DOMAIN task
    <3>1. task' = task
      BY <1>1, <1>3, <2>2
    <3> QED
      BY <1>3, <3>1, Zenon
  <2> QED
    BY <2>1, <2>2, Zenon
<1> QED
  BY <1>2, <1>5, <1>6, <1>7, SameTasksKeep, Zenon

LEMMA CrashKeeps ==
    ASSUME SourceInv, NEW v \in Worker, Crash(v)
    PROVE  SourceInv'
<1>1. /\ entries' = [entries EXCEPT ![v] = Closed] /\ UNCHANGED <<items, out, offsets, cut, shared>>
      /\ task' = [t \in DOMAIN task |->
                     IF task[t].worker = v THEN [task[t] EXCEPT !.pc = "done"] ELSE task[t]]
      /\ doubtful' = (doubtful \/ \E t \in DOMAIN task :
                            task[t].worker = v /\ TaskAlive(t) /\ task[t].pc # "poll")
  BY Zenon DEF Crash
<1>2. /\ SourceTypeOK /\ PublishedInv /\ (Clean => CleanInv)
      /\ task \in Seq(TaskState) /\ entries \in [Worker -> Nat \union {Closed}]
  BY Zenon DEF SourceInv, SourceTypeOK
<1>3. /\ entries' \in [Worker -> Nat \union {Closed}] /\ entries'[v] = Closed
      /\ \A u \in Worker : u # v => entries'[u] = entries[u]
  BY <1>1, <1>2, Zenon
<1>4. ASSUME NEW t \in DOMAIN task
      PROVE  /\ TaskOK(task'[t]) /\ BatchStart(task'[t]) = BatchStart(task[t])
             /\ task'[t].sent = task[t].sent /\ task'[t].worker = task[t].worker
             /\ task[t].worker = v => task'[t].pc = "done"
             /\ task[t].worker # v => task'[t] = task[t]
             /\ task[t].worker \in Worker
  <2>1. TaskOK(task[t]) /\ task[t].worker \in Worker
    BY <1>2, Zenon DEF PublishedInv, TaskOK, TaskState
  <2>2. CASE task[t].worker = v
    <3>1. PICK w : w = [task[t] EXCEPT !.pc = "done"]
      BY Zenon
    <3>2. task'[t] = w
      BY <1>1, <2>2, <3>1, Zenon
    <3> QED
      BY <2>1, <2>2, <3>1, <3>2, OnlyControl
  <2>3. CASE task[t].worker # v
    BY <1>1, <2>1, <2>3, Zenon
  <2> QED
    BY <2>2, <2>3, Zenon
<1>5. task' \in Seq(TaskState) /\ DOMAIN task' = DOMAIN task
  <2>1. DOMAIN task' = 1 .. Len(task) /\ Len(task) \in Nat /\ DOMAIN task = 1 .. Len(task)
    BY <1>1, <1>2
  <2>2. \A t \in 1 .. Len(task) : task'[t] \in TaskState
    BY <1>4, <2>1, Zenon DEF TaskOK
  <2>3. task' = [t \in 1 .. Len(task) |-> task'[t]]
    BY <1>1, <2>1, Zenon
  <2> QED
    BY <2>1, <2>2, <2>3
<1>6. SourceTypeOK'
  BY <1>1, <1>2, <1>3, <1>5, Zenon DEF SourceTypeOK
<1>7. PublishedInv'
  <2>1. \A t \in DOMAIN task : 1 .. (BatchStart(task[t]) + task[t].sent) \subseteq Range(out)
    BY <1>2, Zenon DEF PublishedInv, Published
  <2>2. \A t \in DOMAIN task' : /\ TaskOK(task'[t])
                                /\ 1 .. (BatchStart(task'[t]) + task'[t].sent) \subseteq Range(out)
    BY <1>4, <1>5, <2>1, Zenon
  <2>3. (\A t \in DOMAIN task : TaskOK(task[t]) /\ Published(BatchStart(task[t]) + task[t].sent))'
    BY <1>1, <2>2 DEF Published, TaskOK, BatchStart
  <2>4. (\A w \in Worker : entries[w] # Closed => Published(entries[w]))'
    BY <1>1, <1>2, <1>3, Zenon DEF PublishedInv, Published, Closed
  <2>5. (\A i \in DOMAIN offsets : Published(offsets[i]))'
    BY <1>1, <1>2, Zenon DEF PublishedInv, Published
  <2> QED
    BY <2>3, <2>4, <2>5, Zenon DEF PublishedInv
<1>8. ASSUME Clean'
      PROVE  CleanInv'
  <2>1. /\ Clean /\ CleanInv
        /\ \A t \in DOMAIN task : task[t].worker = v /\ TaskAlive(t) => task[t].pc = "poll"
    BY <1>1, <1>2, <1>8, Zenon DEF Clean
  <2>2. Durable' = Durable /\ \A i \in DOMAIN out' : out'[i] = i
    BY <1>1, <2>1, Zenon DEF Durable, CleanInv
  <2>3. \A t, u \in DOMAIN task' :
            /\ task'[t].worker = task'[u].worker
            /\ task'[t].pc # "done" /\ task'[u].pc # "done" => t = u
    BY <1>4, <1>5, <2>1 DEF CleanInv, TaskAlive
  <2>4. task' = <<>> => offsets' = <<>> /\ \A w \in Worker : entries'[w] \in {Closed, 0}
    <3>1. task' = <<>> => task = <<>>
      BY <1>2, <1>5
    <3> QED
      BY <1>1, <1>3, <2>1, <3>1, Zenon DEF CleanInv
  <2>5. ASSUME NEW t \in DOMAIN task', task'[t].pc # "done"
        PROVE  AtItsPlace(task[t])'
    <3>1. task'[t] = task[t] /\ task[t].worker # v /\ task[t].worker \in Worker
      BY <1>4, <1>5, <2>5, Zenon
    <3>2. AtItsPlace(task[t])
      BY <1>5, <2>1, <2>5, <3>1, Zenon DEF CleanInv, TaskAlive
    <3> QED
      BY <1>1, <1>3, <2>2, <3>1, <3>2, Zenon DEF AtItsPlace, BatchStart
  <2>6. ASSUME \A t \in DOMAIN task' : task'[t].pc = "done"
        PROVE  /\ Len(out') = Durable'
               /\ \A t \in DOMAIN task' : entries'[task'[t].worker] \in {Closed, Durable'}
    <3>1. CASE \A t \in DOMAIN task : ~TaskAlive(t)
      <4>1. Len(out) = Durable /\ \A t \in DOMAIN task : entries[task[t].worker] \in {Closed, Durable}
        BY <2>1, <3>1, Zenon DEF CleanInv
      <4> QED
        BY <1>1, <1>3, <1>4, <1>5, <2>2, <4>1
    <3>2. ASSUME NEW t \in DOMAIN task, TaskAlive(t)
          PROVE  /\ Len(out) = Durable
                 /\ \A u \in DOMAIN task : task[u].worker = v
      <4>1. task[t].worker = v
        BY <1>4, <1>5, <2>6, <3>2, Zenon DEF TaskAlive
      <4>2. task[t].pc = "poll" /\ AtItsPlace(task[t])
        BY <2>1, <3>2, <4>1, Zenon DEF CleanInv
      <4>3. BatchStart(task[t]) + task[t].sent = task[t].pos
        BY <4>2, TaskFacts DEF BatchStart, TaskState, TaskOK
      <4> QED
        BY <2>1, <4>1, <4>2, <4>3, Zenon DEF AtItsPlace, CleanInv
    <3>3. CASE ~\A t \in DOMAIN task : ~TaskAlive(t)
      BY <1>1, <1>3, <1>4, <1>5, <2>2, <3>2, <3>3
    <3> QED
      BY <3>1, <3>3, Zenon
  <2> QED
    BY <2>2, <2>3, <2>4, <2>5, <2>6, Zenon DEF CleanInv, TaskAlive
<1> QED
  BY <1>6, <1>7, <1>8, Zenon DEF SourceInv

LEMMA SourceInvNext == SourceInv /\ [SourceNext]_sourceVars => SourceInv'
<1> SUFFICES ASSUME SourceInv, [SourceNext]_sourceVars
             PROVE  SourceInv'
  BY Zenon
<1>1. task \in Seq(TaskState) /\ items \in Nat
  BY Zenon DEF SourceInv, SourceTypeOK
<1>2. CASE NewItem
  BY <1>1, <1>2, SameTasksKeep DEF NewItem, store, history
<1>3. ASSUME NEW w \in Worker, NEW n \in 0 .. Len(offsets), Open(w, n)
      PROVE  SourceInv'
  BY <1>3, OpenKeeps, Zenon
<1>4. ASSUME NEW w \in Worker, StartTask(w)
      PROVE  SourceInv'
  BY <1>4, StartTaskKeeps, Zenon
<1>5. ASSUME NEW w \in Worker, CancelTask(w)
      PROVE  SourceInv'
  BY <1>5, CancelTaskKeeps, Zenon
<1>6. ASSUME NEW w \in Worker, Crash(w)
      PROVE  SourceInv'
  BY <1>6, CrashKeeps, Zenon
<1>7. ASSUME NEW w \in Worker \union {NoOwner}, Rebalance(w)
      PROVE  SourceInv'
  BY <1>1, <1>7, SameTasksKeep, Zenon DEF Rebalance, store, history
<1>8. ASSUME NEW t \in DOMAIN task, Poll(t)
      PROVE  SourceInv'
  BY <1>8, PollKeeps, Zenon
<1>9. ASSUME NEW t \in DOMAIN task, SendNext(t)
      PROVE  SourceInv'
  BY <1>9, SendNextKeeps, Zenon
<1>10. ASSUME NEW t \in DOMAIN task, NEW landed \in BOOLEAN, SendFails(t, landed)
       PROVE  SourceInv'
  BY <1>10, SendFailsKeeps, Zenon
<1>11. ASSUME NEW t \in DOMAIN task, Save(t)
       PROVE  SourceInv'
  BY <1>11, SaveKeeps, Zenon
<1>12. ASSUME NEW t \in DOMAIN task, Remember(t)
       PROVE  SourceInv'
  BY <1>12, RememberKeeps, Zenon
<1>13. ASSUME NEW t \in DOMAIN task, SaveFails(t)
       PROVE  SourceInv'
  BY <1>13, SaveFailsKeeps, Zenon
<1>14. ASSUME NEW t \in DOMAIN task, Exit(t)
       PROVE  SourceInv'
  BY <1>14, ExitKeeps, Zenon
<1>15. CASE UNCHANGED sourceVars
  BY <1>1, <1>15, SameTasksKeep, Zenon DEF sourceVars, store, history
<1> QED
  BY Zenon, <1>2, <1>3, <1>4, <1>5, <1>6, <1>7, <1>8, <1>9, <1>10, <1>11, <1>12, <1>13, <1>14,
     <1>15 DEF SourceNext

(***************************************************************************)
(* runSourceTask with saveSourceOffsetsBestEffort and the coordinator: the *)
(* position a source task resumes from never skips an item that was not    *)
(* published, whatever fails or dies and however many workers run the      *)
(* connector, and stops and moves that are clean repeat no item.           *)
(***************************************************************************)
THEOREM ResumptionIsSound == SourceSpec => []SourcesResume
<1>1. SourceInit => SourceInv
  BY SourceInvInit, Zenon
<1>2. SourceInv /\ [SourceNext]_sourceVars => SourceInv'
  BY SourceInvNext, Zenon
<1>3. SourceInv => SourcesResume
  <2> SUFFICES ASSUME SourceInv
               PROVE  SavedWasPublished /\ CleanStopRepeatsNothing
    BY Zenon DEF SourcesResume
  <2>1. SavedWasPublished
    BY Zenon DEF SourceInv, PublishedInv, Published, SavedWasPublished
  <2>2. CleanStopRepeatsNothing
    BY Zenon DEF SourceInv, Clean, CleanInv, CleanStopRepeatsNothing, IsInjective
  <2> QED
    BY <2>1, <2>2, Zenon
<1> QED
  BY <1>1, <1>2, <1>3, PTL DEF SourceSpec

=============================================================================
