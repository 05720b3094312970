------------------------------- MODULE Broker -------------------------------
(***************************************************************************)
(* One partition of the broker core (broker/internal/broker/broker.go):    *)
(* Publish with its idempotent-retry table, Subscribe, the pump goroutine  *)
(* that drives a subscription, and the restart that hydrates the table     *)
(* from the dedup topic.  The store is the promise of PartitionLog: a log  *)
(* by offset, from which retention and compaction take records away.       *)
(*                                                                         *)
(* ps.mu is the only lock.  Publish holds it while it sends to the         *)
(* subscribers' channels, so its fan-out is a step per channel; Subscribe  *)
(* and removeSubscriber hold it for a single step.  A record is told apart *)
(* by its offset and by the producer ID and sequence number in its headers.*)
(***************************************************************************)
EXTENDS Integers, Sequences, FiniteSetsExt, Functions

CONSTANTS
    Caller,         \* goroutines inside Publish
    Cancellable,    \* the callers whose context may end (never the server's)
    Subscription,   \* calls of Subscribe
    Unsubscribing,  \* the subscriptions whose context may end
    Producer,       \* producer IDs
    NoProducer,     \* a record without the idempotency headers
    MaxSeq,         \* bound: the largest sequence number
    Buffer,         \* defaultSubscriberBuffer
    CatchUpBatch,   \* catchUpBatchSize
    MaxOffset,      \* bound: records ever appended
    MaxReclaim,     \* bound: runs of retention or compaction
    MaxRestart,     \* bound: restarts of the broker
    Expiring        \* the producers that may be silent for longer than dedupTTL

ASSUME BrokerAssumption ==
    /\ Cancellable \subseteq Caller
    /\ Unsubscribing \subseteq Subscription
    /\ NoProducer \notin Producer
    /\ MaxSeq \in Nat
    /\ Buffer \in Nat \ {0}
    /\ CatchUpBatch \in Nat \ {0}
    /\ MaxOffset \in Nat /\ MaxReclaim \in Nat /\ MaxRestart \in Nat
    /\ Expiring \subseteq Producer

VARIABLES
    log,          \* the records in the store: messages by offset
    highWater,    \* the store's next offset
    holder,       \* the callers that hold ps.mu: at most one
    call,         \* what each caller is doing
    subscribers,  \* ps.subscribers
    sub,          \* each subscription's fan-out channel
    out,          \* each subscription's output channel
    pump,         \* each subscription's pump goroutine
    ended,        \* subscriptions whose context is done
    dedup,        \* ps.dedup
    persisted,    \* the checkpoints in the dedup topic
    reclaims,     \* runs of retention or compaction so far
    restarts,     \* restarts so far
    delivered,    \* history: the offsets each subscriber has received
    skipped       \* history: the offsets a cancelled fan-out did not send it

storeVars == <<log, highWater, reclaims>>
publishVars == <<holder, call, skipped>>
streamVars == <<subscribers, sub, out, pump, ended, delivered>>
dedupVars == <<dedup, persisted>>
vars == <<storeVars, publishVars, streamVars, dedupVars, restarts>>

Message == [producer : Producer, seq : 0 .. MaxSeq]
               \union {[producer |-> NoProducer, seq |-> 0]}

IdleCall == [pc |-> "idle", msg |-> [producer |-> NoProducer, seq |-> 0],
             offset |-> -1, todo |-> <<>>]

NoPump == [pc |-> "none", from |-> 0, cursor |-> 0, hw |-> 0, hand |-> {},
           got |-> 0]

NoCheckpoint == [seq |-> -1, offset |-> -1, stale |-> FALSE]

-----------------------------------------------------------------------------
(***************************************************************************)
(* Store.Read: the offsets of the first records at or after from.          *)
(***************************************************************************)
Read(from, max) ==
    LET tail == {o \in DOMAIN log : o >= from}
    IN  {o \in tail : Cardinality({p \in tail : p < o}) < max}

Init ==
    /\ log = [o \in {} |-> NoProducer]
    /\ highWater = 0
    /\ holder = {}
    /\ call = [c \in Caller |-> IdleCall]
    /\ subscribers = <<>>
    /\ sub = [s \in Subscription |-> <<>>]
    /\ out = [s \in Subscription |-> <<>>]
    /\ pump = [s \in Subscription |-> NoPump]
    /\ ended = {}
    /\ dedup = [p \in Producer |-> NoCheckpoint]
    /\ persisted = <<>>
    /\ reclaims = 0
    /\ restarts = 0
    /\ delivered = [s \in Subscription |-> <<>>]
    /\ skipped = [s \in Subscription |-> {}]

-----------------------------------------------------------------------------
(***************************************************************************)
(* evictStaleDedupLocked, which only a record with the headers triggers.   *)
(***************************************************************************)
KeptCheckpoints(msg) ==
    [p \in Producer |-> IF msg.producer # NoProducer /\ dedup[p].stale
                        THEN NoCheckpoint ELSE dedup[p]]

(***************************************************************************)
(* Mutation: only smaller sequence numbers count as retries.               *)
(***************************************************************************)
IsRetryStrict(msg) ==
    /\ msg.producer # NoProducer
    /\ msg.seq < KeptCheckpoints(msg)[msg.producer].seq

(***************************************************************************)
(* The producer has a checkpoint and the sequence number is not past it.   *)
(***************************************************************************)
IsRetry(msg) ==
    /\ msg.producer # NoProducer
    /\ msg.seq <= KeptCheckpoints(msg)[msg.producer].seq

(***************************************************************************)
(* Publish of a retry: the checkpoint's offset, nothing appended.          *)
(***************************************************************************)
PublishRetry(c, msg) ==
    /\ call[c].pc = "idle"
    /\ holder = {}
    /\ IsRetry(msg)
    /\ dedup' = KeptCheckpoints(msg)
    /\ call' = [call EXCEPT ![c] =
            [pc |-> "returned", msg |-> msg, todo |-> <<>>,
             offset |-> dedup[msg.producer].offset]]
    /\ UNCHANGED <<storeVars, holder, skipped, streamVars, persisted, restarts>>

(***************************************************************************)
(* Publish of a new record: append, note and persist the checkpoint, then  *)
(* go on to the subscribers with the lock held.                            *)
(***************************************************************************)
PublishAppend(c, msg) ==
    LET cp == [seq |-> msg.seq, offset |-> highWater, stale |-> FALSE] IN
    /\ call[c].pc = "idle"
    /\ holder = {}
    /\ ~IsRetry(msg)
    /\ highWater < MaxOffset
    /\ log' = [o \in DOMAIN log \union {highWater} |->
                    IF o = highWater THEN msg ELSE log[o]]
    /\ highWater' = highWater + 1
    /\ IF msg.producer = NoProducer
       THEN UNCHANGED dedupVars
       ELSE /\ dedup' = [KeptCheckpoints(msg) EXCEPT ![msg.producer] = cp]
            /\ persisted' = Append(persisted, [msg |-> msg, offset |-> highWater])
    /\ call' = [call EXCEPT ![c] =
            [pc |-> "fanout", msg |-> msg, offset |-> highWater,
             todo |-> subscribers]]
    /\ holder' = {c}
    /\ UNCHANGED <<reclaims, skipped, streamVars, restarts>>

(***************************************************************************)
(* Mutation: a full channel is skipped instead of waited for.              *)
(***************************************************************************)
FanOutDropping(c) ==
    LET s == Head(call[c].todo) IN
    /\ call[c].pc = "fanout"
    /\ call[c].todo # <<>>
    /\ sub' = IF Len(sub[s]) < Buffer
              THEN [sub EXCEPT ![s] = Append(@, call[c].offset)] ELSE sub
    /\ call' = [call EXCEPT ![c].todo = Tail(@)]
    /\ UNCHANGED <<storeVars, holder, skipped, subscribers, out, pump, ended,
                   delivered, dedupVars, restarts>>

(***************************************************************************)
(* One send of the fan-out loop; it waits for room in the channel.         *)
(***************************************************************************)
FanOut(c) ==
    LET s == Head(call[c].todo) IN
    /\ call[c].pc = "fanout"
    /\ call[c].todo # <<>>
    /\ Len(sub[s]) < Buffer
    /\ sub' = [sub EXCEPT ![s] = Append(@, call[c].offset)]
    /\ call' = [call EXCEPT ![c].todo = Tail(@)]
    /\ UNCHANGED <<storeVars, holder, skipped, subscribers, out, pump, ended,
                   delivered, dedupVars, restarts>>

PublishDone(c) ==
    /\ call[c].pc = "fanout"
    /\ call[c].todo = <<>>
    /\ call' = [call EXCEPT ![c].pc = "returned"]
    /\ holder' = {}
    /\ UNCHANGED <<storeVars, skipped, streamVars, dedupVars, restarts>>

(***************************************************************************)
(* The caller's context ends during the fan-out: Publish returns an error  *)
(* (and the offset); the channels still to come do not get the record.     *)
(***************************************************************************)
PublishCancelled(c) ==
    /\ c \in Cancellable
    /\ call[c].pc = "fanout"
    /\ call[c].todo # <<>>
    /\ call' = [call EXCEPT ![c] = IdleCall]
    /\ holder' = {}
    /\ skipped' = [s \in Subscription |->
            IF s \in Range(call[c].todo) THEN skipped[s] \union {call[c].offset}
                                        ELSE skipped[s]]
    /\ UNCHANGED <<storeVars, streamVars, dedupVars, restarts>>

Return(c) ==
    /\ call[c].pc = "returned"
    /\ call' = [call EXCEPT ![c] = IdleCall]
    /\ UNCHANGED <<storeVars, holder, skipped, streamVars, dedupVars, restarts>>

-----------------------------------------------------------------------------
(***************************************************************************)
(* Mutation: the high water is read before the lock is taken.              *)
(***************************************************************************)
SubscribeEarlyHighWater(s, from) ==
    /\ pump[s].pc = "none"
    /\ holder = {}
    /\ subscribers' = Append(subscribers, s)
    /\ \E hw \in 0 .. highWater :
        pump' = [pump EXCEPT ![s] = [NoPump EXCEPT !.pc = "read", !.from = from,
                                     !.cursor = from, !.hw = hw]]
    /\ UNCHANGED <<storeVars, publishVars, sub, out, ended, delivered, dedupVars,
                   restarts>>

(***************************************************************************)
(* Subscribe: the high water is read and the channel registered in one     *)
(* critical section.                                                       *)
(***************************************************************************)
Subscribe(s, from) ==
    /\ pump[s].pc = "none"
    /\ holder = {}
    /\ subscribers' = Append(subscribers, s)
    /\ pump' = [pump EXCEPT ![s] = [NoPump EXCEPT !.pc = "read", !.from = from,
                                    !.cursor = from, !.hw = highWater]]
    /\ UNCHANGED <<storeVars, publishVars, sub, out, ended, delivered, dedupVars,
                   restarts>>

(***************************************************************************)
(* The head of the catch-up loop: go live, read a batch, or give up when   *)
(* the read fails (context done) or comes back empty.                      *)
(***************************************************************************)
PumpRead(s) ==
    LET recs == Read(pump[s].cursor, CatchUpBatch) IN
    /\ pump[s].pc = "read"
    /\ pump' = [pump EXCEPT ![s] =
            IF @.cursor >= @.hw THEN [@ EXCEPT !.pc = "live"]
            ELSE IF s \in ended \/ recs = {} THEN [@ EXCEPT !.pc = "exiting"]
            ELSE [@ EXCEPT !.pc = "send", !.got = Cardinality(recs),
                           !.hand = recs]]
    /\ UNCHANGED <<storeVars, publishVars, subscribers, sub, out, ended,
                   delivered, dedupVars, restarts>>

(***************************************************************************)
(* One send of the catch-up batch; after the last the cursor advances by   *)
(* the number of records read.                                             *)
(***************************************************************************)
PumpSend(s) ==
    LET rest == pump[s].hand \ {Min(pump[s].hand)} IN
    /\ pump[s].pc = "send"
    /\ Len(out[s]) < Buffer
    /\ out' = [out EXCEPT ![s] = Append(@, Min(pump[s].hand))]
    /\ pump' = [pump EXCEPT ![s] =
            IF rest # {} THEN [@ EXCEPT !.hand = rest]
            ELSE [@ EXCEPT !.pc = "read", !.cursor = pump[s].cursor + pump[s].got,
                           !.hand = {}, !.got = 0]]
    /\ UNCHANGED <<storeVars, publishVars, subscribers, sub, ended, delivered,
                   dedupVars, restarts>>

(***************************************************************************)
(* The live loop receives from the fan-out channel and drops what is below *)
(* its cursor.                                                             *)
(***************************************************************************)
PumpTake(s) ==
    /\ pump[s].pc = "live"
    /\ sub[s] # <<>>
    /\ sub' = [sub EXCEPT ![s] = Tail(@)]
    /\ pump' = IF Head(sub[s]) < pump[s].cursor
               THEN pump
               ELSE [pump EXCEPT ![s].pc = "forward",
                                 ![s].hand = {Head(sub[s])}]
    /\ UNCHANGED <<storeVars, publishVars, subscribers, out, ended, delivered,
                   dedupVars, restarts>>

PumpForward(s) ==
    LET offset == Min(pump[s].hand) IN
    /\ pump[s].pc = "forward"
    /\ Len(out[s]) < Buffer
    /\ out' = [out EXCEPT ![s] = Append(@, offset)]
    /\ pump' = [pump EXCEPT ![s].pc = "live", ![s].hand = {},
                            ![s].cursor = offset + 1]
    /\ UNCHANGED <<storeVars, publishVars, subscribers, sub, ended, delivered,
                   dedupVars, restarts>>

(***************************************************************************)
(* A select of the pump takes the ended context.                           *)
(***************************************************************************)
PumpCancelled(s) ==
    /\ s \in ended
    /\ pump[s].pc \in {"send", "live", "forward"}
    /\ pump' = [pump EXCEPT ![s].pc = "exiting", ![s].hand = {}, ![s].got = 0]
    /\ UNCHANGED <<storeVars, publishVars, subscribers, sub, out, ended,
                   delivered, dedupVars, restarts>>

(***************************************************************************)
(* removeSubscriber, which needs ps.mu, and the close of out.              *)
(***************************************************************************)
PumpExit(s) ==
    /\ pump[s].pc = "exiting"
    /\ holder = {}
    /\ \E i \in DOMAIN subscribers :
        /\ subscribers[i] = s
        /\ subscribers' = SubSeq(subscribers, 1, i - 1)
                              \o SubSeq(subscribers, i + 1, Len(subscribers))
    /\ pump' = [pump EXCEPT ![s].pc = "closed"]
    /\ UNCHANGED <<storeVars, publishVars, sub, out, ended, delivered,
                   dedupVars, restarts>>

(***************************************************************************)
(* The subscriber: receives, and may end its context.                      *)
(***************************************************************************)
Receive(s) ==
    /\ out[s] # <<>>
    /\ out' = [out EXCEPT ![s] = Tail(@)]
    /\ delivered' = [delivered EXCEPT ![s] = Append(@, Head(out[s]))]
    /\ UNCHANGED <<storeVars, publishVars, subscribers, sub, pump, ended,
                   dedupVars, restarts>>

Unsubscribe(s) ==
    /\ s \in Unsubscribing \ ended
    /\ pump[s].pc # "none"
    /\ ended' = ended \union {s}
    /\ UNCHANGED <<storeVars, publishVars, subscribers, sub, out, pump,
                   delivered, dedupVars, restarts>>

-----------------------------------------------------------------------------
(***************************************************************************)
(* Retention and compaction take some of the stored records away.          *)
(***************************************************************************)
Reclaim(gone) ==
    /\ reclaims < MaxReclaim
    /\ gone # {}
    /\ gone \subseteq DOMAIN log
    /\ log' = [o \in DOMAIN log \ gone |-> log[o]]
    /\ reclaims' = reclaims + 1
    /\ UNCHANGED <<highWater, publishVars, streamVars, dedupVars, restarts>>

(***************************************************************************)
(* A checkpoint gets older than the TTL: the producer has been silent.     *)
(***************************************************************************)
CheckpointAges(p) ==
    /\ p \in Expiring
    /\ dedup[p].seq >= 0
    /\ dedup' = [dedup EXCEPT ![p].stale = TRUE]
    /\ UNCHANGED <<storeVars, publishVars, streamVars, persisted, restarts>>

(***************************************************************************)
(* hydrateDedupFromTopic: the last checkpoint written for each producer.   *)
(***************************************************************************)
Hydrated(entries) ==
    [p \in Producer |->
        LET of == {i \in DOMAIN entries : entries[i].msg.producer = p} IN
        IF of = {} THEN NoCheckpoint
        ELSE [seq |-> entries[Max(of)].msg.seq,
              offset |-> entries[Max(of)].offset, stale |-> FALSE]]

(***************************************************************************)
(* The broker starts again on a partition log that kept the offsets below  *)
(* n and a dedup topic that kept m checkpoints.                            *)
(***************************************************************************)
Restart(n, m) ==
    /\ restarts < MaxRestart
    /\ restarts' = restarts + 1
    /\ log' = [o \in {x \in DOMAIN log : x < n} |-> log[o]]
    /\ highWater' = n
    /\ persisted' = SubSeq(persisted, 1, m)
    /\ dedup' = Hydrated(persisted')
    /\ holder' = {}
    /\ call' = [c \in Caller |-> IdleCall]
    /\ subscribers' = <<>>
    /\ sub' = [s \in Subscription |-> <<>>]
    /\ out' = [s \in Subscription |-> <<>>]
    /\ pump' = [s \in Subscription |-> NoPump]
    /\ ended' = {}
    /\ delivered' = [s \in Subscription |-> <<>>]
    /\ skipped' = [s \in Subscription |-> {}]
    /\ UNCHANGED reclaims

CleanRestart == Restart(highWater, Len(persisted))

PublishStep(c) ==
    \/ FanOut(c)
    \/ PublishDone(c)
    \/ PublishCancelled(c)
    \/ Return(c)

PumpStep(s) ==
    \/ PumpRead(s)
    \/ PumpSend(s)
    \/ PumpTake(s)
    \/ PumpForward(s)
    \/ PumpCancelled(s)
    \/ PumpExit(s)

Next ==
    \/ \E c \in Caller, msg \in Message : PublishRetry(c, msg)
    \/ \E c \in Caller, msg \in Message : PublishAppend(c, msg)
    \/ \E c \in Caller : PublishStep(c)
    \/ \E s \in Subscription, from \in 0 .. MaxOffset : Subscribe(s, from)
    \/ \E s \in Subscription : PumpStep(s)
    \/ \E s \in Subscription : Receive(s)
    \/ \E s \in Subscription : Unsubscribe(s)
    \/ \E gone \in SUBSET (0 .. MaxOffset - 1) : Reclaim(gone)
    \/ \E p \in Producer : CheckpointAges(p)
    \/ CleanRestart

Spec == Init /\ [][Next]_vars

(***************************************************************************)
(* A killed broker: the partition log and the dedup topic sit behind       *)
(* separate bufio.Writers, and each loses some tail of its own.            *)
(***************************************************************************)
Kill == \E n \in 0 .. highWater, m \in 0 .. Len(persisted) : Restart(n, m)

CrashSpec == Init /\ [][Next \/ Kill]_vars

(***************************************************************************)
(* The scheduler runs what can run (weak fairness per goroutine: a blocked *)
(* goroutine gets its lock or its channel slot when it stays available),   *)
(* and the subscribers go on receiving.                                    *)
(***************************************************************************)
Fairness ==
    /\ \A c \in Caller : WF_vars(FanOut(c)) /\ WF_vars(PublishDone(c))
                             /\ WF_vars(Return(c))
    /\ \A s \in Subscription : WF_vars(PumpStep(s)) /\ WF_vars(Receive(s))

FairSpec == Spec /\ Fairness

-----------------------------------------------------------------------------
(***************************************************************************)
(* The fields of partitionState, the channels and the goroutines.          *)
(***************************************************************************)
TypeOK ==
    /\ highWater \in Nat
    /\ log \in [DOMAIN log -> Message] /\ DOMAIN log \subseteq 0 .. highWater - 1
    /\ holder \in SUBSET Caller
    /\ call \in [Caller -> [pc : {"idle", "fanout", "returned"}, msg : Message,
                            offset : Nat \union {-1}, todo : Seq(Subscription)]]
    /\ subscribers \in Seq(Subscription)
    /\ sub \in [Subscription -> Seq(Nat)]
    /\ out \in [Subscription -> Seq(Nat)]
    /\ pump \in [Subscription ->
            [pc : {"none", "read", "send", "live", "forward", "exiting", "closed"},
             from : Nat, cursor : Nat, hw : Nat, hand : SUBSET Nat, got : Nat]]
    /\ ended \in SUBSET Subscription
    /\ dedup \in [Producer -> [seq : Nat \union {-1}, offset : Nat \union {-1},
                               stale : BOOLEAN]]
    /\ persisted \in Seq([msg : Message, offset : Nat])
    /\ reclaims \in 0 .. MaxReclaim
    /\ restarts \in 0 .. MaxRestart
    /\ delivered \in [Subscription -> Seq(Nat)]
    /\ skipped \in [Subscription -> SUBSET Nat]

(***************************************************************************)
(* What a subscriber receives is the log from its start offset on, without *)
(* a gap, a repetition or a swap: also across the hand-over from catch-up  *)
(* to the live tail, with publishers racing it and full channels.  The only*)
(* records it may miss are those whose Publish was cancelled half way      *)
(* through its fan-out.  Stated as long as nothing has been reclaimed.     *)
(***************************************************************************)
DeliveredIsTheLog ==
    \A s \in Subscription : \A i \in DOMAIN delivered[s] :
        LET before == IF i = 1 THEN pump[s].from - 1 ELSE delivered[s][i - 1] IN
        reclaims = 0 =>
            /\ delivered[s][i] > before
            /\ before + 1 .. delivered[s][i] - 1 \subseteq skipped[s]

(***************************************************************************)
(* The log has a producer's records in the order of their sequence numbers *)
(* and each of them once, however often, by however many connections and in*)
(* whatever order they are sent, and across clean restarts, for every      *)
(* producer whose checkpoint does not expire.                              *)
(***************************************************************************)
ProducerOrder ==
    \A i, j \in DOMAIN log :
        /\ i < j
        /\ log[i].producer = log[j].producer
        /\ log[i].producer \in Producer \ Expiring
        => log[i].seq < log[j].seq

(***************************************************************************)
(* A checkpoint is behind the log: it names an offset that is assigned, and*)
(* the record there, if not reclaimed, is the one it stands for.  It holds *)
(* with expiry and across clean restarts; the comment on WithDedupTopic    *)
(* says it of a crash too (the dedup state is then behind reality).        *)
(***************************************************************************)
CheckpointsAreBehind ==
    \A p \in Producer : dedup[p].seq >= 0 =>
        /\ dedup[p].offset < highWater
        /\ dedup[p].offset \in DOMAIN log =>
                log[dedup[p].offset] = [producer |-> p, seq |-> dedup[p].seq]

(***************************************************************************)
(* Only the caller that holds ps.mu is in the fan-out, and what is left of *)
(* its subscriber list is still registered: no channel is taken out of the *)
(* list under a Publish that is about to send to it.                       *)
(***************************************************************************)
FanOutIsExclusive ==
    \A c \in Caller : call[c].pc = "fanout" =>
        /\ holder = {c}
        /\ \A i \in DOMAIN call[c].todo : call[c].todo[i] \in Range(subscribers)

(***************************************************************************)
(* Every record in the log at or after its start offset reaches a          *)
(* subscriber, unless its Publish was cancelled, as long as no subscriber  *)
(* ends its subscription (see PumpsUnregister).                            *)
(***************************************************************************)
EverythingIsDelivered ==
    \A s \in Subscription, o \in 0 .. MaxOffset - 1 :
        (pump[s].pc # "none" /\ o >= pump[s].from /\ o < highWater)
            ~> (o \in Range(delivered[s]) \union skipped[s] \/ ended # {})

-----------------------------------------------------------------------------
(***************************************************************************)
(* Claims of the documentation that the code does not keep; the README says*)
(* under which constants TLC finds each of them violated.                  *)
(***************************************************************************)

(***************************************************************************)
(* What docs/stage-1.md says of the hand-over: no record appended before   *)
(* registration is delivered twice.  It fails once retention or compaction *)
(* has taken records away, because the catch-up cursor counts records.     *)
(***************************************************************************)
DeliveredInOrder ==
    \A s \in Subscription : \A i, j \in DOMAIN delivered[s] :
        i < j => delivered[s][i] < delivered[s][j]

(***************************************************************************)
(* What docs/stage-1.md says of the hand-over: no record appended after    *)
(* registration is missed.  Stated of two records received in a row.       *)
(***************************************************************************)
NothingMissed ==
    \A s \in Subscription : \A i \in DOMAIN delivered[s] :
        i > 1 => delivered[s][i] <= delivered[s][i - 1] + 1

(***************************************************************************)
(* What the comment on pump says: it closes out and unregisters on exit.   *)
(***************************************************************************)
PumpsUnregister ==
    \A s \in Subscription : (pump[s].pc = "exiting") ~> (pump[s].pc # "exiting")

(***************************************************************************)
(* What the comment on Subscribe says: live records are forwarded as they  *)
(* arrive.  So the stream ends only when the subscriber ends it.           *)
(***************************************************************************)
StreamsStayOpen ==
    \A s \in Subscription : pump[s].pc = "exiting" => s \in ended

=============================================================================
