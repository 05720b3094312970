------------------------------ MODULE Consumer ------------------------------
(***************************************************************************)
(* One SDK consumer (sdk/consumer.go) and the loops the repository runs on *)
(* it: Consumer.Run, a loop that polls and calls CommitAll, a sink task of *)
(* the connect worker and a pipeline of a streams topology.                *)
(*                                                                         *)
(* A pump goroutine per partition copies records into fanIn and notes the  *)
(* highest offset in latest before it sends; Poll takes records out and    *)
(* notes polledMax.  The application, the pumps, Pause, Resume and Seek,   *)
(* and the heartbeat goroutine, which rejoins, all run concurrently.  A    *)
(* record is its offset.  The group's other members appear as commits on   *)
(* partitions this consumer does not own.                                  *)
(***************************************************************************)
EXTENDS Integers, SequencesExt

CONSTANTS
    Partition,
    Apps,         \* the loops to consider
    FanIn,        \* capacity of fanIn (256 in the code)
    PollMax,      \* maxRecords of a poll
    MaxEnd,       \* bound: records per partition
    MaxPump,      \* bound: pumps started
    MaxRejoin,    \* bound: rebalances
    MaxSeek       \* bound: calls of Seek

VARIABLES
    app,          \* the loop that drives the consumer
    end,          \* the high water of each partition
    pump,         \* the pump goroutines, in the order of their start
    pumpCancel,   \* the pump whose cancel function is registered; 0: none
    fanIn,        \* records sent by pumps and not polled yet
    latest,       \* the highest offset a pump received, -1: none
    polledMax,    \* the highest offset Poll returned, -1: none
    seekFloor,    \* the floor Seek set, -1: none
    assignment,   \* partitions the group assigned to this consumer
    loop,         \* the application: its step, its batch, what it commits
    committed,    \* the group's committed offsets
    joining,      \* the reply of JoinGroup that rejoin is about to apply
    rejoins,      \* rebalances so far
    handled,      \* history: offsets the application has processed
    sought,       \* history: the offsets Seek was given, per partition
    disturbed     \* history: partitions paused, sought or taken away

clientVars == <<pumpCancel, fanIn, latest, polledMax, seekFloor, assignment>>
historyVars == <<rejoins, handled, sought, disturbed>>
vars == <<app, end, pump, clientVars, loop, committed, joining, historyVars>>

None == -1

NewPump(p, from) == [part |-> p, next |-> from, hold |-> None,
                     state |-> "running"]

Ended(w) == [w EXCEPT !.next = 0, !.hold = None, !.state = "done"]

Quiet == [busy |-> FALSE, now |-> {}, from |-> <<>>]

Loop(pc, batch, todo) == [pc |-> pc, batch |-> batch, todo |-> todo]

(***************************************************************************)
(* Subscribe has joined the group and started a pump for each partition.   *)
(***************************************************************************)
Init ==
    /\ app \in Apps
    /\ end = [p \in Partition |-> 0]
    /\ pump = SetToSeq({NewPump(p, 0) : p \in Partition})
    /\ pumpCancel = [p \in Partition |->
                        SelectInSeq(pump, LAMBDA w : w.part = p)]
    /\ fanIn = <<>>
    /\ latest = [p \in Partition |-> None]
    /\ polledMax = [p \in Partition |-> None]
    /\ seekFloor = [p \in Partition |-> None]
    /\ assignment = Partition
    /\ loop = Loop("poll", <<>>, {})
    /\ committed = [p \in Partition |-> None]
    /\ handled = [p \in Partition |-> {}]
    /\ joining = Quiet
    /\ rejoins = 0
    /\ sought = [p \in Partition |-> <<>>]
    /\ disturbed = {}

Produce(p) ==
    /\ end[p] < MaxEnd
    /\ end' = [end EXCEPT ![p] = @ + 1]
    /\ UNCHANGED <<app, pump, clientVars, loop, committed, joining, historyVars>>

-----------------------------------------------------------------------------
Cancel(pumps, i) ==
    IF i = 0 \/ pumps[i].state = "done" THEN pumps
    ELSE [pumps EXCEPT ![i].state = "cancelled"]

(***************************************************************************)
(* startPump: the pump registered for the partition is cancelled, not      *)
(* waited for.                                                             *)
(***************************************************************************)
startPump(p, from) ==
    /\ Len(pump) < MaxPump
    /\ pump' = Append(Cancel(pump, pumpCancel[p]), NewPump(p, from))
    /\ pumpCancel' = [pumpCancel EXCEPT ![p] = Len(pump) + 1]

(***************************************************************************)
(* pump receives a record and calls recordLatest; its select may prefer    *)
(* the record to a cancellation.                                           *)
(***************************************************************************)
PumpReceive(i) ==
    LET p == pump[i].part IN
    /\ pump[i].state # "done" /\ pump[i].hold = None
    /\ pump[i].next < end[p]
    /\ pump' = [pump EXCEPT ![i].hold = pump[i].next, ![i].next = @ + 1]
    /\ latest' = [latest EXCEPT ![p] = IF pump[i].next > @ THEN pump[i].next
                                                          ELSE @]
    /\ UNCHANGED <<app, end, pumpCancel, fanIn, polledMax, seekFloor,
                   assignment, loop, committed, joining, historyVars>>

PumpSend(i) ==
    /\ pump[i].hold # None
    /\ Len(fanIn) < FanIn
    /\ fanIn' = Append(fanIn, [part |-> pump[i].part, offset |-> pump[i].hold])
    /\ pump' = [pump EXCEPT ![i].hold = None]
    /\ UNCHANGED <<app, end, pumpCancel, latest, polledMax, seekFloor,
                   assignment, loop, committed, joining, historyVars>>

(***************************************************************************)
(* The subscription fails: its error follows its records into fanIn.       *)
(***************************************************************************)
PumpFails(i) ==
    /\ pump[i].state = "running" /\ pump[i].hold = None
    /\ Len(fanIn) < FanIn
    /\ fanIn' = Append(fanIn, [part |-> pump[i].part, offset |-> None])
    /\ pump' = [pump EXCEPT ![i] = Ended(@)]
    /\ UNCHANGED <<app, end, pumpCancel, latest, polledMax, seekFloor,
                   assignment, loop, committed, joining, historyVars>>

(***************************************************************************)
(* A cancelled pump ends; a record in its hands is dropped.                *)
(***************************************************************************)
PumpExit(i) ==
    /\ pump[i].state = "cancelled"
    /\ pump' = [pump EXCEPT ![i] = Ended(@)]
    /\ UNCHANGED <<app, end, clientVars, loop, committed, joining, historyVars>>

-----------------------------------------------------------------------------
OffsetsOf(batch, p) == {r.offset : r \in {s \in ToSet(batch) : s.part = p}}

recordPolled(batch) ==
    polledMax' = [p \in Partition |-> Max(OffsetsOf(batch, p) \union {polledMax[p]})]

(***************************************************************************)
(* PollMeta takes one record: those of partitions that are not assigned    *)
(* and those belowSeekFloor are dropped, and the first one that passes     *)
(* removes the floor.                                                      *)
(***************************************************************************)
Keeps(r) == r.part \in assignment /\ r.offset >= seekFloor[r.part]

PollTake ==
    LET r == Head(fanIn) IN
    /\ loop.pc = "poll"
    /\ fanIn # <<>> /\ r.offset # None
    /\ Len(loop.batch) < PollMax
    /\ fanIn' = Tail(fanIn)
    /\ loop' = IF Keeps(r) THEN [loop EXCEPT !.batch = Append(@, r)] ELSE loop
    /\ seekFloor' = IF Keeps(r) THEN [seekFloor EXCEPT ![r.part] = None]
                    ELSE seekFloor
    /\ UNCHANGED <<app, end, pump, pumpCancel, latest, polledMax, assignment,
                   committed, joining, historyVars>>

(***************************************************************************)
(* Poll returns when the batch is full or fanIn is empty.                  *)
(***************************************************************************)
PollReturn ==
    /\ loop.pc = "poll"
    /\ loop.batch # <<>>
    /\ Len(loop.batch) = PollMax \/ fanIn = <<>>
    /\ recordPolled(loop.batch)
    /\ loop' = [loop EXCEPT !.pc = "handle"]
    /\ UNCHANGED <<app, end, pump, pumpCancel, fanIn, latest, seekFloor,
                   assignment, committed, joining, historyVars>>

(***************************************************************************)
(* Poll meets the error of a pump: it records and returns its batch with   *)
(* the error, and every loop then ends without handling the batch.         *)
(***************************************************************************)
PollFails ==
    /\ loop.pc = "poll"
    /\ fanIn # <<>> /\ Head(fanIn).offset = None
    /\ Len(loop.batch) < PollMax
    /\ fanIn' = Tail(fanIn)
    /\ recordPolled(loop.batch)
    /\ loop' = Loop("stopped", <<>>, {})
    /\ UNCHANGED <<app, end, pump, pumpCancel, latest, seekFloor, assignment,
                   committed, joining, historyVars>>

-----------------------------------------------------------------------------
Pause(p) ==
    /\ pumpCancel[p] # 0
    /\ pump' = Cancel(pump, pumpCancel[p])
    /\ pumpCancel' = [pumpCancel EXCEPT ![p] = 0]
    /\ disturbed' = disturbed \union {p}
    /\ UNCHANGED <<app, end, fanIn, latest, polledMax, seekFloor, assignment,
                   loop, committed, joining, rejoins, handled, sought>>

(***************************************************************************)
(* Resume starts behind the last record a pump has received.               *)
(***************************************************************************)
Resume(p) ==
    /\ pumpCancel[p] = 0
    /\ startPump(p, latest[p] + 1)
    /\ UNCHANGED <<app, end, fanIn, latest, polledMax, seekFloor, assignment,
                   loop, committed, joining, historyVars>>

Seek(p, from) ==
    /\ Len(sought[p]) < MaxSeek
    /\ startPump(p, from)
    /\ latest' = [latest EXCEPT ![p] = None]
    /\ seekFloor' = [seekFloor EXCEPT ![p] = from]
    /\ sought' = [sought EXCEPT ![p] = Append(@, from)]
    /\ disturbed' = disturbed \union {p}
    /\ UNCHANGED <<app, end, fanIn, polledMax, assignment, loop, committed,
                   joining, rejoins, handled>>

(***************************************************************************)
(* The revoke listener of a sink task: Flush, then a commit of latest + 1  *)
(* for each partition assigned so far.                                     *)
(***************************************************************************)
revoke == [p \in Partition |->
              IF app = "sink" /\ p \in assignment /\ latest[p] # None
              THEN latest[p] + 1 ELSE committed[p]]

(***************************************************************************)
(* rejoin, on the heartbeat goroutine: the revoke listener, then JoinGroup *)
(* whose reply names the new assignment and its committed offsets.         *)
(***************************************************************************)
rejoin(now) ==
    /\ rejoins < MaxRejoin
    /\ ~joining.busy
    /\ committed' = revoke
    /\ joining' = [busy |-> TRUE, now |-> now, from |-> revoke]
    /\ rejoins' = rejoins + 1
    /\ disturbed' = disturbed \union (Partition \ now)
    /\ UNCHANGED <<app, end, pump, clientVars, loop, handled, sought>>

startOffset(c, fallback) == IF c = None THEN fallback ELSE c

(***************************************************************************)
(* rejoin applies the reply: the old pumps are cancelled and a pump starts *)
(* for each partition assigned.                                            *)
(***************************************************************************)
Rejoined ==
    LET stopped == [i \in DOMAIN pump |->
                       IF \E p \in Partition : pumpCancel[p] = i
                       THEN Cancel(pump, i)[i] ELSE pump[i]]
        order == SetToSeq(joining.now)
    IN
    /\ joining.busy
    /\ Len(pump) + Len(order) <= MaxPump
    /\ joining' = Quiet
    /\ pump' = stopped \o [i \in DOMAIN order |->
            NewPump(order[i], startOffset(joining.from[order[i]], 0))]
    /\ pumpCancel' = [p \in Partition |->
            IF p \in joining.now
            THEN Len(pump) + SelectInSeq(order, LAMBDA q : q = p) ELSE 0]
    /\ assignment' = joining.now
    /\ UNCHANGED <<app, end, fanIn, latest, polledMax, seekFloor, loop,
                   committed, historyVars>>

(***************************************************************************)
(* Another member owns the partition: it handles the next record and       *)
(* commits.                                                                *)
(***************************************************************************)
PeerCommits(p) ==
    LET next == startOffset(committed[p], 0) IN
    /\ p \notin (IF joining.busy THEN joining.now ELSE assignment)
    /\ next < end[p]
    /\ handled' = [handled EXCEPT ![p] = @ \union {next}]
    /\ committed' = [committed EXCEPT ![p] = next + 1]
    /\ UNCHANGED <<app, end, pump, clientVars, loop, joining, rejoins, sought,
                   disturbed>>

-----------------------------------------------------------------------------
(***************************************************************************)
(* Run, sink tasks and pipelines commit a snapshot of LatestOffsets;       *)
(* CommitAll goes through Assignment.                                      *)
(***************************************************************************)
LatestOffsets == {[part |-> p, offset |-> latest[p]] :
                      p \in {q \in Partition : latest[q] # None}}

Assignment == assignment \union
                  {q \in Partition : pumpCancel[q] # 0 \/ latest[q] # None}

(***************************************************************************)
(* The application processes its batch: Run's handler, task.Put with its   *)
(* retries and dead-letter topic, a pipeline's operators and sink.         *)
(***************************************************************************)
HandleBatch ==
    /\ loop.pc = "handle"
    /\ handled' = [p \in Partition |->
                      handled[p] \union OffsetsOf(loop.batch, p)]
    /\ loop' = CASE app \in {"run", "stream"} ->
                       Loop("commit", <<>>, LatestOffsets)
                 [] app = "commitAll" ->
                       Loop("commit", <<>>,
                            {[part |-> p, offset |-> None] : p \in Assignment})
                 [] OTHER -> Loop("poll", <<>>, {})
    /\ UNCHANGED <<app, end, pump, clientVars, committed, joining, rejoins,
                   sought, disturbed>>

(***************************************************************************)
(* The handler, Put, or the sink of a pipeline fails for good: the loop    *)
(* ends without a commit.                                                  *)
(***************************************************************************)
HandleFails ==
    /\ loop.pc = "handle"
    /\ loop' = Loop("stopped", <<>>, {})
    /\ UNCHANGED <<app, end, pump, clientVars, committed, joining, historyVars>>

(***************************************************************************)
(* The flush tick of a sink task, between two polls.                       *)
(***************************************************************************)
FlushTick ==
    /\ app = "sink"
    /\ loop.pc = "poll" /\ loop.batch = <<>>
    /\ LatestOffsets # {}
    /\ loop' = Loop("commit", <<>>, LatestOffsets)
    /\ UNCHANGED <<app, end, pump, clientVars, committed, joining, historyVars>>

(***************************************************************************)
(* Position: behind the last record Poll returned, or 0 with a pump.       *)
(***************************************************************************)
Position(p) ==
    IF polledMax[p] = None /\ pumpCancel[p] = 0 THEN None ELSE polledMax[p] + 1

(***************************************************************************)
(* Mutation: CommitAll commits what the pumps have received.               *)
(***************************************************************************)
CommitReceived(item) ==
    [committed EXCEPT ![item.part] =
        IF app = "commitAll" THEN latest[item.part] + 1 ELSE item.offset + 1]

(***************************************************************************)
(* One commit of the loop: the offset of the snapshot plus one, or in      *)
(* CommitAll the position the partition has by now.                        *)
(***************************************************************************)
CommitOne(item) ==
    [committed EXCEPT ![item.part] =
        CASE app # "commitAll" -> item.offset + 1
          [] app = "commitAll" /\ Position(item.part) = None -> @
          [] OTHER -> Position(item.part)]

CommitNext ==
    \E item \in loop.todo :
        /\ loop.pc = "commit"
        /\ committed' = CommitOne(item)
        /\ loop' = IF loop.todo = {item} THEN Loop("poll", <<>>, {})
                   ELSE [loop EXCEPT !.todo = @ \ {item}]
        /\ UNCHANGED <<app, end, pump, clientVars, joining, historyVars>>

(***************************************************************************)
(* The WithAutoCommit goroutine commits positions whenever it ticks.       *)
(***************************************************************************)
AutoCommit(p) ==
    /\ app = "autoCommit"
    /\ p \in Assignment
    /\ Position(p) # None
    /\ committed' = [committed EXCEPT ![p] = Position(p)]
    /\ UNCHANGED <<app, end, pump, clientVars, loop, joining, historyVars>>

Client ==
    \/ \E i \in DOMAIN pump :
          \/ PumpReceive(i)
          \/ PumpSend(i)
          \/ PumpExit(i)
    \/ PollTake
    \/ PollReturn
    \/ PollFails
    \/ HandleBatch
    \/ CommitNext
    \/ Rejoined

(***************************************************************************)
(* A loop that ends closes the consumer: Close cancels the pumps and stops *)
(* the heartbeat, and nothing happens after it.                            *)
(***************************************************************************)
Next ==
    /\ loop.pc # "stopped"
    /\ \/ Client
       \/ HandleFails
       \/ FlushTick
       \/ \E i \in DOMAIN pump : PumpFails(i)
       \/ \E now \in SUBSET Partition : rejoin(now)
       \/ \E p \in Partition :
             \/ Produce(p)
             \/ Pause(p)
             \/ Resume(p)
             \/ PeerCommits(p)
             \/ AutoCommit(p)
             \/ \E from \in 0 .. end[p] : Seek(p, from)

Spec == Init /\ [][Next]_vars

-----------------------------------------------------------------------------
(***************************************************************************)
(* Every record below the committed offset has been handled, by this       *)
(* consumer or by another member of the group: a process that dies here    *)
(* loses no record.                                                        *)
(***************************************************************************)
CommittedIsHandled(p) == 0 .. committed[p] - 1 \subseteq handled[p]

(***************************************************************************)
(* A loop that handles a batch and then calls CommitAll loses no record:   *)
(* the pumps run ahead of it and rebalances restart them in its back.  A   *)
(* partition that was paused, moved by Seek, or owned by another member in *)
(* between is excluded: there the first record Poll returns may lie above  *)
(* one that is still to come (consumer.go, Position and CommitAll).        *)
(***************************************************************************)
CommitAllLosesNothing ==
    app = "commitAll" =>
        \A p \in Partition \ disturbed : CommittedIsHandled(p)

(***************************************************************************)
(* "if the process dies mid-batch the broker's committed offset still      *)
(* points at records the pipeline never finished" (topology.go:923-925);   *)
(* the sink task and Run use the same commit.                              *)
(***************************************************************************)
CommittedWasHandled ==
    \A p \in Partition \ disturbed : CommittedIsHandled(p)

(***************************************************************************)
(* "records buffered from the prior pump that fall below fromOffset are    *)
(* dropped by the next Poll" (consumer.go:795-797).                        *)
(***************************************************************************)
SeekIsClean ==
    [][\A p \in Partition :
          sought[p] # <<>> /\ Len(loop'.batch) > Len(loop.batch)
              /\ Last(loop'.batch).part = p
              => Last(loop'.batch).offset >= Last(sought[p])]_vars

(***************************************************************************)
(* "Resume restarts the pump from the offset just past the last record     *)
(* this consumer saw" (consumer.go:748-749): records are returned in order *)
(* of their offsets, none left out, when nothing but Pause and Resume has  *)
(* happened.                                                               *)
(***************************************************************************)
PauseLosesNothing ==
    \A p \in Partition :
        sought[p] = <<>> /\ rejoins = 0 => 0 .. polledMax[p] - 1
            \subseteq handled[p] \union OffsetsOf(loop.batch, p)

=============================================================================
