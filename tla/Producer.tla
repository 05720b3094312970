------------------------------ MODULE Producer ------------------------------
(***************************************************************************)
(* The SDK producer with WithIdempotency (sdk/producer.go, sdk/batcher.go) *)
(* on the network transport (sdk/net/transport.go) and the server's        *)
(* produce handlers, composed with Broker: one partition, one producer ID. *)
(*                                                                         *)
(* Sends stamp a sequence number and publish directly or, with a linger    *)
(* window, through the partition's batcher.  An RPC holds the shared       *)
(* connection's mutex from its request to its response; when the           *)
(* connection breaks, do retries the same records on a new one, and the    *)
(* server may still serve the request it already has.  The server's side   *)
(* of attempt a of RPC r is the Caller <<r, a>> of Broker.                 *)
(***************************************************************************)
EXTENDS Broker

CONSTANTS
    Sender,      \* goroutines that call Send and SendNoWait
    NoSender,    \* stands for the missing result channel of SendNoWait
    Linger,      \* whether WithLinger is set
    NoWait,      \* whether the senders also use SendNoWait
    Closing,     \* whether the application may close the producer
    BatchSize,   \* batchSize
    Rpc,         \* bound: the publish RPCs, in the order of their start
    Attempts,    \* connection attempts per RPC (4 in do)
    Self,        \* this producer's ID
    Other        \* callers of other clients

ASSUME ProducerAssumption ==
    /\ NoSender \notin Sender
    /\ Linger \in BOOLEAN /\ NoWait \in BOOLEAN /\ Closing \in BOOLEAN
    /\ BatchSize \in Nat \ {0}
    /\ Attempts \in Nat \ {0}
    /\ Self \in Producer
    /\ Other \intersect (Rpc \X (1 .. Attempts)) = {}
    /\ Caller = (Rpc \X (1 .. Attempts)) \union Other

VARIABLES
    idempSeq,    \* idempSeqs of the partition
    send,        \* what each sender is doing, and its record
    pending,     \* the batcher's records with their result channels
    timer,       \* the batcher's linger timer
    spawned,     \* flushNow goroutines that have not run yet
    rpc,         \* each publish RPC on the client
    request,     \* each attempt on the server
    closed,      \* the producer is closed
    acked        \* history: records reported as sent, with the offset told

batchVars == <<pending, timer, spawned, closed>>
clientVars == <<idempSeq, send, batchVars, rpc, request, acked>>
brokerVars == vars
allVars == <<brokerVars, clientVars>>

Plain == [producer |-> NoProducer, seq |-> 0]

Entry == [by : Sender \union {NoSender}, msg : Message]

NoRpc == [pc |-> "unused", batch |-> <<>>, attempt |-> 1]

NoRequest == [pc |-> "none", at |-> 1, base |-> -1]

ProducerInit ==
    /\ Init
    /\ idempSeq = 0
    /\ send = [g \in Sender |-> [pc |-> "idle", msg |-> Plain]]
    /\ pending = <<>>
    /\ timer = "nil"
    /\ spawned = 0
    /\ rpc = [r \in Rpc |-> NoRpc]
    /\ request = [c \in Rpc \X (1 .. Attempts) |-> NoRequest]
    /\ closed = FALSE
    /\ acked = {}

-----------------------------------------------------------------------------
(***************************************************************************)
(* Send and SendNoWait begin: checkOpen, then the sequence number is taken *)
(* under the producer's lock, which is released before the record goes on. *)
(***************************************************************************)
Stamp(g) ==
    /\ send[g].pc = "idle"
    /\ ~closed
    /\ idempSeq <= MaxSeq
    /\ send' = [send EXCEPT ![g] = [pc |-> "stamped",
                    msg |-> [producer |-> Self, seq |-> idempSeq]]]
    /\ idempSeq' = idempSeq + 1
    /\ UNCHANGED <<brokerVars, batchVars, rpc, request, acked>>

(***************************************************************************)
(* The sender waits for the result or, in SendNoWait, goes on.             *)
(***************************************************************************)
Handed(g, by) ==
    IF by = g THEN [send EXCEPT ![g].pc = "waiting"]
              ELSE [send EXCEPT ![g] = [pc |-> "idle", msg |-> Plain]]

Waiters(g) == {g} \union (IF NoWait THEN {NoSender} ELSE {})

(***************************************************************************)
(* The RPC that starts now: the first unused one.                          *)
(***************************************************************************)
IsNextRpc(r) ==
    /\ rpc[r].pc = "unused"
    /\ \A q \in Rpc : q < r => rpc[q].pc # "unused"

(***************************************************************************)
(* Without linger: publishWithRetry, in SendNoWait in a goroutine.         *)
(***************************************************************************)
PublishRecord(g, by, r) ==
    /\ ~Linger
    /\ send[g].pc = "stamped"
    /\ IsNextRpc(r)
    /\ rpc' = [rpc EXCEPT ![r] = [pc |-> "open", attempt |-> 1,
                                  batch |-> <<[by |-> by, msg |-> send[g].msg]>>]]
    /\ send' = Handed(g, by)
    /\ UNCHANGED <<brokerVars, idempSeq, batchVars, request, acked>>

(***************************************************************************)
(* Mutation: a full batch stops the timer, and starts no flush.            *)
(***************************************************************************)
AddForgetsFlush(g, by) ==
    /\ Linger
    /\ ~closed
    /\ send[g].pc = "stamped"
    /\ pending' = Append(pending, [by |-> by, msg |-> send[g].msg])
    /\ timer' = IF Len(pending') >= BatchSize THEN "nil"
                ELSE IF timer = "nil" THEN "armed" ELSE timer
    /\ send' = Handed(g, by)
    /\ UNCHANGED <<brokerVars, idempSeq, spawned, closed, rpc, request, acked>>

(***************************************************************************)
(* batcher.add and addNoWait: a full batch starts a flush, a record in a   *)
(* batch without a timer arms it.                                          *)
(***************************************************************************)
Add(g, by) ==
    /\ Linger
    /\ ~closed
    /\ send[g].pc = "stamped"
    /\ pending' = Append(pending, [by |-> by, msg |-> send[g].msg])
    /\ IF Len(pending') >= BatchSize
       THEN spawned' = spawned + 1 /\ UNCHANGED timer
       ELSE /\ timer' = IF timer = "nil" THEN "armed" ELSE timer
            /\ UNCHANGED spawned
    /\ send' = Handed(g, by)
    /\ UNCHANGED <<brokerVars, idempSeq, closed, rpc, request, acked>>

(***************************************************************************)
(* enqueue on a closed producer: an error, the record is dropped.          *)
(***************************************************************************)
AddClosed(g) ==
    /\ Linger
    /\ closed
    /\ send[g].pc = "stamped"
    /\ send' = [send EXCEPT ![g] = [pc |-> "idle", msg |-> Plain]]
    /\ UNCHANGED <<brokerVars, idempSeq, batchVars, rpc, request, acked>>

(***************************************************************************)
(* The context of a waiting Send ends; its record stays where it is.       *)
(***************************************************************************)
GiveUp(g) ==
    /\ Linger
    /\ send[g].pc = "waiting"
    /\ send' = [send EXCEPT ![g] = [pc |-> "idle", msg |-> Plain]]
    /\ UNCHANGED <<brokerVars, idempSeq, batchVars, rpc, request, acked>>

TimerFires ==
    /\ timer = "armed"
    /\ timer' = "fired"
    /\ spawned' = spawned + 1
    /\ UNCHANGED <<brokerVars, idempSeq, send, pending, closed, rpc, request, acked>>

(***************************************************************************)
(* flushNow up to its RPC: takes the whole batch and the timer with it.    *)
(***************************************************************************)
TakeBatch(r) ==
    /\ pending # <<>>
    /\ IsNextRpc(r)
    /\ rpc' = [rpc EXCEPT ![r] = [pc |-> "open", attempt |-> 1, batch |-> pending]]
    /\ pending' = <<>>
    /\ timer' = "nil"
    /\ UNCHANGED <<brokerVars, idempSeq, send, closed, request, acked>>

FlushNow(r) == spawned > 0 /\ TakeBatch(r) /\ spawned' = spawned - 1

FlushEmpty ==
    /\ spawned > 0
    /\ pending = <<>>
    /\ spawned' = spawned - 1
    /\ UNCHANGED <<brokerVars, idempSeq, send, pending, timer, closed, rpc,
                   request, acked>>

Flush(r) == TakeBatch(r) /\ UNCHANGED spawned

(***************************************************************************)
(* The senders that wait for these entries get their result.               *)
(***************************************************************************)
Answered(batch) ==
    [g \in Sender |->
        IF send[g].pc = "waiting" /\ [by |-> g, msg |-> send[g].msg] \in Range(batch)
        THEN [pc |-> "idle", msg |-> Plain] ELSE send[g]]

(***************************************************************************)
(* Mutation: shutdown drops the records without answering their senders.   *)
(***************************************************************************)
CloseSilently ==
    /\ Closing
    /\ ~closed
    /\ closed' = TRUE
    /\ pending' = <<>>
    /\ timer' = "nil"
    /\ UNCHANGED <<brokerVars, idempSeq, send, spawned, rpc, request, acked>>

(***************************************************************************)
(* Close and the batcher's shutdown: what is pending fails.                *)
(***************************************************************************)
Close ==
    /\ Closing
    /\ ~closed
    /\ closed' = TRUE
    /\ pending' = <<>>
    /\ timer' = "nil"
    /\ send' = Answered(pending)
    /\ UNCHANGED <<brokerVars, idempSeq, spawned, rpc, request, acked>>

-----------------------------------------------------------------------------
(***************************************************************************)
(* do: with the connection's mutex, the request is written and the         *)
(* response awaited.                                                       *)
(***************************************************************************)
Issue(r) ==
    /\ rpc[r].pc = "open"
    /\ \A q \in Rpc : rpc[q].pc # "waiting"
    /\ rpc' = [rpc EXCEPT ![r].pc = "waiting"]
    /\ request' = [request EXCEPT ![<<r, rpc[r].attempt>>].pc = "queued"]
    /\ UNCHANGED <<brokerVars, idempSeq, send, batchVars, acked>>

(***************************************************************************)
(* The connection breaks before the request or before the response.        *)
(***************************************************************************)
Retry(r) ==
    /\ rpc[r].pc \in {"open", "waiting"}
    /\ rpc[r].attempt < Attempts
    /\ rpc' = [rpc EXCEPT ![r].pc = "open", ![r].attempt = @ + 1]
    /\ UNCHANGED <<brokerVars, idempSeq, send, batchVars, request, acked>>

(***************************************************************************)
(* The last attempt breaks or no connection can be dialled: every waiter   *)
(* of the batch gets the error.                                            *)
(***************************************************************************)
RpcFails(r) ==
    /\ \/ rpc[r].pc = "open"
       \/ rpc[r].pc = "waiting" /\ rpc[r].attempt = Attempts
    /\ rpc' = [rpc EXCEPT ![r].pc = "done"]
    /\ send' = Answered(rpc[r].batch)
    /\ UNCHANGED <<brokerVars, idempSeq, batchVars, request, acked>>

(***************************************************************************)
(* The response arrives: record i of the batch is told base + i.           *)
(***************************************************************************)
RpcAnswered(r) ==
    LET c == <<r, rpc[r].attempt>> IN
    /\ rpc[r].pc = "waiting"
    /\ request[c].pc = "answered"
    /\ rpc' = [rpc EXCEPT ![r].pc = "done"]
    /\ send' = Answered(rpc[r].batch)
    /\ acked' = acked \union
            {[msg |-> rpc[r].batch[i].msg,
              offset |-> IF rpc[r].batch[i].by = NoSender THEN -1
                         ELSE request[c].base + i - 1] : i \in DOMAIN rpc[r].batch}
    /\ UNCHANGED <<brokerVars, idempSeq, batchVars, request>>

-----------------------------------------------------------------------------
(***************************************************************************)
(* handleProduce and handleProduceBatch: one Publish after the other.      *)
(***************************************************************************)
Serve(c) ==
    LET msg == rpc[c[1]].batch[request[c].at].msg IN
    /\ request[c].pc = "queued"
    /\ \/ PublishRetry(c, msg)
       \/ PublishAppend(c, msg)
    /\ UNCHANGED clientVars

ServePublished(c) ==
    /\ PublishDone(c)
    /\ UNCHANGED clientVars

(***************************************************************************)
(* Publish has returned; the first offset is the response's BaseOffset.    *)
(***************************************************************************)
ServeNext(c) ==
    LET last == request[c].at = Len(rpc[c[1]].batch) IN
    /\ Return(c)
    /\ request' = [request EXCEPT ![c] =
            [pc |-> IF last THEN "answered" ELSE "queued",
             at |-> IF last THEN @.at ELSE @.at + 1,
             base |-> IF @.at = 1 THEN call[c].offset ELSE @.base]]
    /\ UNCHANGED <<idempSeq, send, batchVars, rpc, acked>>

(***************************************************************************)
(* Another client publishes.                                               *)
(***************************************************************************)
OtherPublish(c) ==
    /\ PublishAppend(c, Plain) \/ PublishDone(c) \/ Return(c)
    /\ UNCHANGED clientVars

(***************************************************************************)
(* The broker restarts: it forgets its requests, the client's connection   *)
(* breaks and the attempt in progress will be retried.                     *)
(***************************************************************************)
BrokerRestart ==
    /\ CleanRestart
    /\ request' = [c \in DOMAIN request |->
            IF request[c].pc = "queued" THEN [request[c] EXCEPT !.pc = "dead"]
            ELSE request[c]]
    /\ UNCHANGED <<idempSeq, send, batchVars, rpc, acked>>

SendStep(g) ==
    \/ \E by \in Waiters(g), r \in Rpc : PublishRecord(g, by, r)
    \/ \E by \in Waiters(g) : Add(g, by)
    \/ AddClosed(g)

FlushStep == FlushEmpty \/ \E r \in Rpc : FlushNow(r)

RpcStep(r) == Issue(r) \/ Retry(r) \/ RpcFails(r) \/ RpcAnswered(r)

ServeStep(c) == Serve(c) \/ ServePublished(c) \/ ServeNext(c)

ProducerNext ==
    \/ \E g \in Sender : Stamp(g)
    \/ \E g \in Sender : SendStep(g)
    \/ \E g \in Sender : GiveUp(g)
    \/ TimerFires
    \/ FlushStep
    \/ \E r \in Rpc : Linger /\ Flush(r)
    \/ Close
    \/ \E r \in Rpc : RpcStep(r)
    \/ \E c \in DOMAIN request : ServeStep(c)
    \/ \E c \in Other : OtherPublish(c)
    \/ BrokerRestart

ProducerSpec == ProducerInit /\ [][ProducerNext]_allVars

(***************************************************************************)
(* Goroutines that can run do, the linger timer fires, and the server goes *)
(* on serving.  Nothing is assumed of retries, failures or GiveUp beyond   *)
(* that an RPC takes one of its steps.                                     *)
(***************************************************************************)
ProducerFairness ==
    /\ \A g \in Sender : WF_allVars(SendStep(g))
    /\ WF_allVars(TimerFires)
    /\ WF_allVars(FlushStep)
    /\ \A r \in Rpc : WF_allVars(RpcStep(r))
    /\ \A c \in Rpc \X (1 .. Attempts) : WF_allVars(ServeStep(c))

ProducerFairSpec == ProducerSpec /\ ProducerFairness

-----------------------------------------------------------------------------
(***************************************************************************)
(* The producer, its batcher, its RPCs and the server's requests.          *)
(***************************************************************************)
ProducerTypeOK ==
    /\ TypeOK
    /\ idempSeq \in 0 .. MaxSeq + 1
    /\ send \in [Sender -> [pc : {"idle", "stamped", "waiting"}, msg : Message]]
    /\ pending \in Seq(Entry)
    /\ timer \in {"nil", "armed", "fired"}
    /\ spawned \in Nat
    /\ rpc \in [Rpc -> [pc : {"unused", "open", "waiting", "done"},
                        batch : Seq(Entry), attempt : 1 .. Attempts]]
    /\ request \in [Rpc \X (1 .. Attempts) ->
            [pc : {"none", "queued", "answered", "dead"}, at : Nat \ {0},
             base : Nat \union {-1}]]
    /\ closed \in BOOLEAN
    /\ acked \in SUBSET [msg : Message, offset : Nat \union {-1}]

Copies(msg) == {o \in DOMAIN log : log[o] = msg}

(***************************************************************************)
(* A Send that reports success has its record in the log: it is never      *)
(* silently lost (docs/data-model.md), and the producer may be shared      *)
(* between goroutines (the comment on Producer).                           *)
(***************************************************************************)
AckedIsAppended == \A a \in acked : Copies(a.msg) # {}

(***************************************************************************)
(* A record reported as sent is in the log exactly once, at the offset the *)
(* caller was told, whatever connections break, requests arrive late and   *)
(* restarts fall between the append and the answer.                        *)
(***************************************************************************)
AckedOnceAtOffset ==
    \A a \in acked :
        /\ \E o \in DOMAIN log : Copies(a.msg) = {o}
        /\ a.offset # -1 => \A o \in Copies(a.msg) : o = a.offset

(***************************************************************************)
(* What the comment on flushNow says: each result channel is resolved with *)
(* the offset the broker assigned.                                         *)
(***************************************************************************)
OffsetsAreAssigned ==
    \A a \in acked : a.offset # -1 =>
        \A o \in Copies(a.msg) : o = a.offset

(***************************************************************************)
(* A record in the batcher has something that will flush it: an armed      *)
(* timer or a flush that has yet to run, whatever size flushes, explicit   *)
(* flushes and late timers overlap.                                        *)
(***************************************************************************)
NoStrandedRecord == pending # <<>> => timer = "armed" \/ spawned > 0

(***************************************************************************)
(* What the comment on flushNow says: at most one flush is in flight.      *)
(***************************************************************************)
OneFlushInFlight ==
    \A q, r \in Rpc :
        rpc[q].pc \in {"open", "waiting"} /\ rpc[r].pc \in {"open", "waiting"}
            => q = r

(***************************************************************************)
(* Every Send returns: its record is flushed and answered, fails with its  *)
(* RPC, or fails with the close of the producer.                           *)
(***************************************************************************)
EverySendReturns ==
    \A g \in Sender : (send[g].pc = "waiting") ~> (send[g].pc = "idle")

=============================================================================
