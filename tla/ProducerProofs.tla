--------------------------- MODULE ProducerProofs ---------------------------
(***************************************************************************)
(* Theorems about Producer, for any number of senders, RPCs and attempts   *)
(* and any batch size: it drives the broker only through Broker's own      *)
(* steps, and its batcher never strands a record.                          *)
(***************************************************************************)
EXTENDS Producer, BrokerProofs

-----------------------------------------------------------------------------
(***************************************************************************)
(* The client, its RPCs and the server's requests.                         *)
(***************************************************************************)
Attempt == Rpc \X (1 .. Attempts)

SendState == [pc : {"idle", "stamped", "waiting"}, msg : Message]

RpcState == [pc : {"unused", "open", "waiting", "done"}, batch : Seq(Entry),
             attempt : 1 .. Attempts]

RequestState == [pc : {"none", "queued", "answered", "dead"}, at : Nat \ {0},
                 base : Nat \union {-1}]

Ack == [msg : Message, offset : Nat \union {-1}]

ClientTyped ==
    /\ idempSeq \in 0 .. MaxSeq + 1
    /\ send \in [Sender -> SendState]
    /\ pending \in Seq(Entry)
    /\ timer \in {"nil", "armed", "fired"}
    /\ spawned \in Nat
    /\ rpc \in [Rpc -> RpcState]
    /\ request \in [Attempt -> RequestState]
    /\ closed \in BOOLEAN
    /\ acked \in SUBSET Ack

(***************************************************************************)
(* An attempt reaches the server when its turn has come, the server is at  *)
(* a record of the batch, and it is inside Publish only for a request it   *)
(* is serving.                                                             *)
(***************************************************************************)
RequestOK(q, k, r, a) ==
    /\ q.pc = "none" => q = NoRequest
    /\ q.pc # "none" =>
        /\ r.pc # "unused"
        /\ r.pc = "open" => a < r.attempt
        /\ r.pc = "waiting" => a <= r.attempt
    /\ q.pc = "queued" => q.at \in 1 .. Len(r.batch)
    /\ k.pc # "idle" => q.pc = "queued"

RequestInv ==
    /\ \A r \in Rpc : rpc[r].pc # "unused" => rpc[r].batch # <<>>
    /\ \A c \in Attempt : RequestOK(request[c], call[c], rpc[c[1]], c[2])

(***************************************************************************)
(* The batcher: a timer belongs to a batch, and one that has fired has its *)
(* flush still to run.                                                     *)
(***************************************************************************)
BatchInv ==
    /\ timer # "nil" => pending # <<>>
    /\ timer = "fired" => spawned > 0
    /\ NoStrandedRecord

ClientInv == ClientTyped /\ RequestInv

LEMMA AttemptFacts ==
    /\ Attempt \subseteq Caller /\ Other \subseteq Caller
    /\ \A c \in Attempt : c \notin Other /\ c[1] \in Rpc /\ c[2] \in 1 .. Attempts
    /\ \A r \in Rpc, a \in 1 .. Attempts : <<r, a>> \in Attempt
  BY ProducerAssumption, Zenon DEF Attempt

LEMMA ClientValues ==
    /\ Plain \in Message
    /\ \A seq \in 0 .. MaxSeq : [producer |-> Self, seq |-> seq] \in Message
    /\ NoRpc \in RpcState /\ NoRequest \in RequestState
<1>1. Plain \in Message /\ \A seq \in 0 .. MaxSeq : [producer |-> Self, seq |-> seq] \in Message
  BY ProducerAssumption, Zenon DEF Plain, Message
<1>2. NoRpc \in RpcState
  BY ProducerAssumption, EmptySeq DEF NoRpc, RpcState
<1>3. NoRequest \in RequestState
  BY DEF NoRequest, RequestState
<1> QED
  BY <1>1, <1>2, <1>3, Zenon

LEMMA ClientInit == ProducerInit => ClientInv /\ BatchInv
<1> SUFFICES ASSUME ProducerInit
             PROVE  ClientInv /\ BatchInv
  BY Zenon
<1>1. ClientTyped
  <2>1. [pc |-> "idle", msg |-> Plain] \in SendState
    BY ClientValues, Zenon DEF SendState
  <2>2. send \in [Sender -> SendState] /\ pending \in Seq(Entry)
    BY <2>1, EmptySeq, Zenon DEF ProducerInit
  <2>3. rpc \in [Rpc -> RpcState] /\ request \in [Attempt -> RequestState]
    BY ClientValues, Zenon DEF ProducerInit, Attempt
  <2>4. idempSeq \in 0 .. MaxSeq + 1 /\ spawned \in Nat
    BY BrokerAssumption DEF ProducerInit
  <2>5. timer \in {"nil", "armed", "fired"} /\ closed \in BOOLEAN /\ acked \in SUBSET Ack
    BY Zenon DEF ProducerInit
  <2> QED
    BY <2>2, <2>3, <2>4, <2>5, Zenon DEF ClientTyped
<1>2. RequestInv
  BY AttemptFacts, Zenon DEF ProducerInit, Init, RequestInv, RequestOK, NoRpc, NoRequest,
     IdleCall, Attempt
<1>3. BatchInv
  BY Zenon DEF ProducerInit, BatchInv, NoStrandedRecord
<1> QED
  BY <1>1, <1>2, <1>3, Zenon DEF ClientInv

-----------------------------------------------------------------------------
(***************************************************************************)
(* The record a request is at.                                             *)
(***************************************************************************)
LEMMA ServedRecord ==
    ASSUME ClientInv, NEW c \in Attempt, request[c].pc = "queued"
    PROVE  rpc[c[1]].batch[request[c].at].msg \in Message
<1>1. /\ rpc[c[1]].batch \in Seq(Entry)
      /\ request[c].at \in 1 .. Len(rpc[c[1]].batch)
  BY AttemptFacts, Zenon DEF ClientInv, ClientTyped, RequestInv, RequestOK, RpcState
<1>2. rpc[c[1]].batch[request[c].at] \in Entry
  BY <1>1
<1> QED
  BY <1>2, Zenon DEF Entry

(***************************************************************************)
(* What the producer and the server's handlers do to the broker.           *)
(***************************************************************************)
LEMMA BrokerMoves ==
    ASSUME ClientInv, [ProducerNext]_allVars
    PROVE  \/ UNCHANGED vars
           \/ \E c \in Caller, msg \in Message : PublishRetry(c, msg) \/ PublishAppend(c, msg)
           \/ \E c \in Caller : PublishDone(c) \/ Return(c)
           \/ CleanRestart
<1>1. ASSUME NEW c \in DOMAIN request, ServeStep(c)
      PROVE  \/ \E msg \in Message : PublishRetry(c, msg) \/ PublishAppend(c, msg)
             \/ PublishDone(c) \/ Return(c)
  <2>1. c \in Attempt
    BY Zenon DEF ClientInv, ClientTyped
  <2>2. ASSUME Serve(c)
        PROVE  \E msg \in Message : PublishRetry(c, msg) \/ PublishAppend(c, msg)
    <3>1. PICK msg : /\ msg = rpc[c[1]].batch[request[c].at].msg
                     /\ PublishRetry(c, msg) \/ PublishAppend(c, msg)
      BY <2>2, Zenon DEF Serve
    <3>2. msg \in Message
      BY <2>1, <2>2, <3>1, ServedRecord, Zenon DEF Serve
    <3> QED
      BY <3>1, <3>2, Zenon
  <2> QED
    BY <1>1, <2>2, Zenon DEF ServeStep, ServePublished, ServeNext
<1>2. ASSUME NEW c \in Other, OtherPublish(c)
      PROVE  PublishAppend(c, Plain) \/ PublishDone(c) \/ Return(c)
  BY <1>2, Zenon DEF OtherPublish
<1>3. ASSUME NEW g \in Sender, Stamp(g) \/ SendStep(g) \/ GiveUp(g)
      PROVE  UNCHANGED vars
  BY <1>3, Zenon DEF Stamp, SendStep, GiveUp, PublishRecord, Add, AddClosed, brokerVars
<1>4. CASE TimerFires \/ FlushStep \/ Close
  BY <1>4, Zenon DEF TimerFires, FlushStep, FlushEmpty, FlushNow, TakeBatch, Close,
     brokerVars
<1>5. ASSUME NEW r \in Rpc, Flush(r) \/ RpcStep(r)
      PROVE  UNCHANGED vars
  BY <1>5, Zenon DEF Flush, TakeBatch, RpcStep, Issue, Retry, RpcFails, RpcAnswered,
     brokerVars
<1>6. CASE BrokerRestart \/ UNCHANGED allVars
  BY <1>6, Zenon DEF BrokerRestart, allVars, brokerVars
<1>7. DOMAIN request \subseteq Caller /\ Other \subseteq Caller /\ Plain \in Message
  BY AttemptFacts, ClientValues, Zenon DEF ClientInv, ClientTyped
<1> QED
  BY <1>1, <1>2, <1>3, <1>4, <1>5, <1>6, <1>7, Zenon DEF ProducerNext

(***************************************************************************)
(* It is a step of Broker, or nothing.                                     *)
(***************************************************************************)
LEMMA BrokerStep ==
    ASSUME ClientInv, [ProducerNext]_allVars
    PROVE  [Next]_vars
  BY BrokerMoves, Zenon DEF Next, PublishStep

-----------------------------------------------------------------------------
(***************************************************************************)
(* The steps of the client keep its types.                                 *)
(***************************************************************************)
LEMMA HandedTyped ==
    ASSUME ClientTyped, NEW g \in Sender, NEW by, send' = Handed(g, by)
    PROVE  send' \in [Sender -> SendState]
<1>1. [pc |-> "idle", msg |-> Plain] \in SendState
  BY ClientValues, Zenon DEF SendState
<1>2. [send[g] EXCEPT !.pc = "waiting"] \in SendState
  BY Zenon DEF ClientTyped, SendState
<1> QED
  BY <1>1, <1>2, Zenon DEF ClientTyped, Handed

LEMMA AnsweredTyped ==
    ASSUME ClientTyped, NEW batch, send' = Answered(batch)
    PROVE  send' \in [Sender -> SendState]
<1>1. [pc |-> "idle", msg |-> Plain] \in SendState
  BY ClientValues, Zenon DEF SendState
<1> QED
  BY <1>1, Zenon DEF ClientTyped, Answered

LEMMA HandedEntry ==
    ASSUME ClientTyped, NEW g \in Sender, NEW by \in Waiters(g)
    PROVE  [by |-> by, msg |-> send[g].msg] \in Entry
  BY Zenon DEF ClientTyped, SendState, Waiters, Entry

(***************************************************************************)
(* An RPC starts.                                                          *)
(***************************************************************************)
Opens(r, batch) ==
    /\ rpc[r].pc = "unused"
    /\ rpc' = [rpc EXCEPT ![r] = [pc |-> "open", attempt |-> 1, batch |-> batch]]
    /\ UNCHANGED <<call, request>>

LEMMA OpensTyped ==
    ASSUME ClientTyped, NEW r \in Rpc, NEW batch \in Seq(Entry), Opens(r, batch)
    PROVE  rpc' \in [Rpc -> RpcState]
<1>1. [pc |-> "open", attempt |-> 1, batch |-> batch] \in RpcState
  BY ProducerAssumption DEF RpcState
<1> QED
  BY <1>1, Zenon DEF ClientTyped, Opens

LEMMA AckTyped ==
    ASSUME ClientTyped, NEW r \in Rpc, RpcAnswered(r)
    PROVE  acked' \in SUBSET Ack
<1> DEFINE c == <<r, rpc[r].attempt>>
           batch == rpc[r].batch
           ack(i) == [msg |-> batch[i].msg,
                      offset |-> IF batch[i].by = NoSender THEN -1
                                 ELSE request[c].base + i - 1]
<1>1. c \in Attempt /\ batch \in Seq(Entry)
  BY AttemptFacts, Zenon DEF ClientTyped, RpcState
<1>2. request[c].base \in Nat \union {-1}
  BY <1>1, Zenon DEF ClientTyped, RequestState
<1>3. ASSUME NEW i \in DOMAIN batch
      PROVE  ack(i) \in Ack
  <2>1. batch[i] \in Entry /\ i \in Nat /\ i >= 1
    BY <1>1
  <2>2. batch[i].msg \in Message
    BY <2>1, Zenon DEF Entry
  <2>3. request[c].base + i - 1 \in Nat \union {-1}
    BY <1>2, <2>1
  <2> HIDE DEF batch, c
  <2> QED
    BY <2>2, <2>3, Zenon DEF Ack
<1>4. acked' = acked \union {ack(i) : i \in DOMAIN batch}
  BY Zenon DEF RpcAnswered
<1> HIDE DEF ack, batch
<1> QED
  BY <1>3, <1>4, Zenon DEF ClientTyped

LEMMA ClientTypedNext ==
    ASSUME ClientInv, Typed, [ProducerNext]_allVars
    PROVE  ClientTyped'
<1>a. ClientTyped
  BY Zenon DEF ClientInv
<1>1. ASSUME NEW g \in Sender, Stamp(g)
      PROVE  ClientTyped'
  <2>1. [producer |-> Self, seq |-> idempSeq] \in Message
    BY <1>a, <1>1, ClientValues, BrokerAssumption DEF Stamp, ClientTyped
  <2>2. send' \in [Sender -> SendState]
    BY <1>a, <1>1, <2>1, Zenon DEF Stamp, ClientTyped, SendState
  <2>3. idempSeq' \in 0 .. MaxSeq + 1
    BY <1>a, <1>1, BrokerAssumption DEF Stamp, ClientTyped
  <2> QED
    BY <1>a, <1>1, <2>2, <2>3, Zenon DEF Stamp, ClientTyped, batchVars
<1>2. ASSUME NEW g \in Sender, NEW by \in Waiters(g), NEW r \in Rpc,
             PublishRecord(g, by, r)
      PROVE  ClientTyped'
  <2>1. <<[by |-> by, msg |-> send[g].msg]>> \in Seq(Entry)
    BY <1>a, HandedEntry
  <2>2. Opens(r, <<[by |-> by, msg |-> send[g].msg]>>)
    BY <1>2, Zenon DEF PublishRecord, IsNextRpc, Opens, brokerVars, vars, publishVars
  <2>3. rpc' \in [Rpc -> RpcState] /\ send' \in [Sender -> SendState]
    BY <1>a, <1>2, <2>1, <2>2, OpensTyped, HandedTyped, Zenon DEF PublishRecord
  <2> QED
    BY <1>a, <1>2, <2>3, Zenon DEF PublishRecord, ClientTyped, batchVars
<1>3. ASSUME NEW g \in Sender, NEW by \in Waiters(g), Add(g, by)
      PROVE  ClientTyped'
  <2>1. send' \in [Sender -> SendState]
    BY <1>a, <1>3, HandedTyped, Zenon DEF Add
  <2>2. pending' \in Seq(Entry)
    BY <1>a, <1>3, HandedEntry DEF Add, ClientTyped
  <2>3. timer' \in {"nil", "armed", "fired"} /\ spawned' \in Nat
    BY <1>a, <1>3 DEF Add, ClientTyped
  <2> QED
    BY <1>a, <1>3, <2>1, <2>2, <2>3, Zenon DEF Add, ClientTyped
<1>4. ASSUME NEW g \in Sender, AddClosed(g) \/ GiveUp(g)
      PROVE  ClientTyped'
  <2>1. send' \in [Sender -> SendState]
    BY <1>a, <1>4, ClientValues DEF AddClosed, GiveUp, ClientTyped, SendState
  <2> QED
    BY <1>a, <1>4, <2>1, Zenon DEF AddClosed, GiveUp, ClientTyped, batchVars
<1>5. CASE TimerFires \/ FlushEmpty
  BY <1>a, <1>5 DEF TimerFires, FlushEmpty, ClientTyped
<1>6. ASSUME NEW r \in Rpc, FlushNow(r) \/ Flush(r)
      PROVE  ClientTyped'
  <2>1. TakeBatch(r) /\ spawned' \in Nat
    BY <1>a, <1>6 DEF FlushNow, Flush, ClientTyped
  <2>2. Opens(r, pending) /\ pending \in Seq(Entry)
    BY <1>a, <2>1, Zenon DEF TakeBatch, IsNextRpc, Opens, ClientTyped, brokerVars, vars,
       publishVars
  <2>3. rpc' \in [Rpc -> RpcState] /\ pending' \in Seq(Entry)
    BY <1>a, <2>1, <2>2, OpensTyped, EmptySeq, Zenon DEF TakeBatch
  <2> QED
    BY <1>a, <2>1, <2>3, Zenon DEF TakeBatch, ClientTyped
<1>7. CASE Close
  <2>1. send' \in [Sender -> SendState] /\ pending' \in Seq(Entry)
    BY <1>a, <1>7, AnsweredTyped, EmptySeq, Zenon DEF Close
  <2> QED
    BY <1>a, <1>7, <2>1, Zenon DEF Close, ClientTyped
<1>8. ASSUME NEW r \in Rpc, Issue(r)
      PROVE  ClientTyped'
  <2>1. rpc' \in [Rpc -> RpcState]
    BY <1>a, <1>8, Zenon DEF Issue, ClientTyped, RpcState
  <2>2. <<r, rpc[r].attempt>> \in Attempt
    BY <1>a, AttemptFacts, Zenon DEF ClientTyped, RpcState
  <2>3. request' \in [Attempt -> RequestState]
    BY <1>a, <1>8, <2>2, Zenon DEF Issue, ClientTyped, RequestState
  <2> QED
    BY <1>a, <1>8, <2>1, <2>3, Zenon DEF Issue, ClientTyped, batchVars
<1>9. ASSUME NEW r \in Rpc, Retry(r)
      PROVE  ClientTyped'
  <2>1. rpc[r].attempt + 1 \in 1 .. Attempts
    BY <1>a, <1>9, ProducerAssumption DEF Retry, ClientTyped, RpcState
  <2>2. rpc' \in [Rpc -> RpcState]
    BY <1>a, <1>9, <2>1, Zenon DEF Retry, ClientTyped, RpcState
  <2> QED
    BY <1>a, <1>9, <2>2, Zenon DEF Retry, ClientTyped, batchVars
<1>10. ASSUME NEW r \in Rpc, RpcFails(r) \/ RpcAnswered(r)
       PROVE  ClientTyped'
  <2>1. rpc' \in [Rpc -> RpcState]
    BY <1>a, <1>10, ZenonT(40) DEF RpcFails, RpcAnswered, ClientTyped, RpcState
  <2>2. send' \in [Sender -> SendState]
    BY <1>a, <1>10, AnsweredTyped, Zenon DEF RpcFails, RpcAnswered
  <2>3. acked' \in SUBSET Ack
    <3>1. CASE RpcFails(r)
      BY <1>a, <3>1, Zenon DEF RpcFails, ClientTyped
    <3> QED
      BY <1>a, <1>10, <3>1, AckTyped, Zenon
  <2> QED
    BY <1>a, <1>10, <2>1, <2>2, <2>3, Zenon DEF RpcFails, RpcAnswered, ClientTyped, batchVars
<1>11. ASSUME NEW c \in DOMAIN request, ServeStep(c)
       PROVE  ClientTyped'
  <2>1. CASE Serve(c) \/ ServePublished(c)
    BY <1>a, <2>1, Zenon DEF Serve, ServePublished, ClientTyped, clientVars, batchVars
  <2>2. CASE ServeNext(c)
    <3>1. c \in Attempt /\ call[c].offset \in Nat \union {-1} /\ request[c] \in RequestState
      BY <1>a, <1>11, AttemptFacts, Zenon DEF ClientTyped, Typed, PublishTyped, CallState
    <3>2. request' \in [Attempt -> RequestState]
      BY <1>a, <2>2, <3>1 DEF ServeNext, ClientTyped, RequestState
    <3> QED
      BY <1>a, <2>2, <3>2, Zenon DEF ServeNext, ClientTyped, batchVars
  <2> QED
    BY <1>11, <2>1, <2>2, Zenon DEF ServeStep
<1>12. ASSUME NEW c \in Other, OtherPublish(c)
       PROVE  ClientTyped'
  BY <1>a, <1>12, Zenon DEF OtherPublish, ClientTyped, clientVars, batchVars
<1>13. CASE BrokerRestart
  <2>1. request' \in [Attempt -> RequestState]
    BY <1>a, <1>13, ZenonT(40) DEF BrokerRestart, ClientTyped, RequestState
  <2> QED
    BY <1>a, <1>13, <2>1, Zenon DEF BrokerRestart, ClientTyped, batchVars
<1>14. CASE UNCHANGED allVars
  BY <1>a, <1>14, Zenon DEF ClientTyped, allVars, clientVars, batchVars
<1> QED
  BY Zenon, <1>1, <1>2, <1>3, <1>4, <1>5, <1>6, <1>7, <1>8, <1>9, <1>10, <1>11, <1>12,
     <1>13, <1>14 DEF ProducerNext, SendStep, FlushStep, RpcStep

(***************************************************************************)
(* The steps that concern no RPC, and what the others do.                  *)
(***************************************************************************)
LEMMA ClientFrame ==
    ASSUME ProducerNext
    PROVE  \/ /\ UNCHANGED <<rpc, request, call, dedup, acked>>
              /\ idempSeq' \in {idempSeq, idempSeq + 1}
           \/ \E g \in Sender : \E by \in Waiters(g), r \in Rpc : PublishRecord(g, by, r)
           \/ \E r \in Rpc : TakeBatch(r) \/ RpcStep(r)
           \/ \E c \in DOMAIN request : ServeStep(c)
           \/ \E c \in Other : OtherPublish(c)
           \/ BrokerRestart
<1>1. ASSUME NEW g \in Sender, Stamp(g) \/ GiveUp(g) \/ AddClosed(g)
      PROVE  /\ UNCHANGED <<rpc, request, call, dedup, acked>>
             /\ idempSeq' \in {idempSeq, idempSeq + 1}
  BY <1>1, Zenon DEF Stamp, GiveUp, AddClosed, brokerVars, vars, publishVars, dedupVars
<1>2. ASSUME NEW g \in Sender, NEW by \in Waiters(g), Add(g, by)
      PROVE  /\ UNCHANGED <<rpc, request, call, dedup, acked>>
             /\ idempSeq' \in {idempSeq, idempSeq + 1}
  BY <1>2, Zenon DEF Add, brokerVars, vars, publishVars, dedupVars
<1>3. CASE TimerFires \/ FlushEmpty \/ Close
  BY <1>3, Zenon DEF TimerFires, FlushEmpty, Close, brokerVars, vars, publishVars,
     dedupVars
<1> QED
  BY <1>1, <1>2, <1>3, Zenon DEF ProducerNext, SendStep, FlushStep, FlushNow, Flush

LEMMA OpensRequests ==
    ASSUME ClientInv, NEW r \in Rpc, NEW batch \in Seq(Entry), batch # <<>>,
           Opens(r, batch)
    PROVE  RequestInv'
<1>1. /\ rpc'[r] = [pc |-> "open", attempt |-> 1, batch |-> batch]
      /\ \A q \in Rpc \ {r} : rpc'[q] = rpc[q]
      /\ UNCHANGED <<call, request>>
  BY Zenon DEF Opens, ClientInv, ClientTyped
<1>2. \A q \in Rpc : rpc'[q].pc # "unused" => rpc'[q].batch # <<>>
  BY <1>1 DEF ClientInv, RequestInv
<1>3. ASSUME NEW c \in Attempt
      PROVE  RequestOK(request[c], call[c], rpc'[c[1]], c[2])
  <2>1. c[1] \in Rpc /\ RequestOK(request[c], call[c], rpc[c[1]], c[2])
    BY AttemptFacts, Zenon DEF ClientInv, RequestInv
  <2>2. CASE c[1] = r
    BY <1>1, <2>1, <2>2, Zenon DEF RequestOK, Opens
  <2> QED
    BY <1>1, <2>1, <2>2, Zenon
<1> QED
  BY <1>1, <1>2, <1>3, Zenon DEF RequestInv

LEMMA RpcStepRequests ==
    ASSUME ClientInv, NEW r \in Rpc, RpcStep(r)
    PROVE  RequestInv'
<1>1. /\ rpc[r] \in RpcState /\ \A c \in Attempt : request[c] \in RequestState
      /\ \A c \in Attempt : c[1] \in Rpc /\ c[2] \in 1 .. Attempts /\ c = <<c[1], c[2]>>
      /\ \A c \in Attempt : RequestOK(request[c], call[c], rpc[c[1]], c[2])
      /\ rpc[r].attempt \in 1 .. Attempts
  BY AttemptFacts DEF ClientInv, ClientTyped, RequestInv, RpcState, Attempt
<1>2. /\ \A q \in Rpc \ {r} : rpc'[q] = rpc[q]
      /\ rpc'[r].batch = rpc[r].batch /\ rpc[r].pc # "unused" /\ call' = call
  BY <1>1 DEF ClientInv, ClientTyped, RpcState, RpcStep, Issue, Retry, RpcFails,
              RpcAnswered, brokerVars, vars, publishVars
<1>3. \A q \in Rpc : rpc'[q].pc # "unused" => rpc'[q].batch # <<>>
  BY <1>2, Zenon DEF ClientInv, RequestInv
<1>4. ASSUME NEW c \in Attempt
      PROVE  RequestOK(request'[c], call[c], rpc'[c[1]], c[2])
  <2>1. CASE Issue(r)
    <3>1. /\ rpc[r].pc = "open" /\ rpc'[r].pc = "waiting"
          /\ rpc'[r].attempt = rpc[r].attempt
      BY <1>1, <2>1, Zenon DEF Issue, ClientInv, ClientTyped, RpcState
    <3>2. CASE c = <<r, rpc[r].attempt>>
      <4>1. c[1] = r /\ c[2] = rpc[r].attempt
        BY <3>2, Zenon
      <4>2. request[c].pc = "none"
        BY <1>1, <3>1, <4>1 DEF RequestOK
      <4>3. request[c].at = 1 /\ call[c].pc = "idle"
        BY <1>1, <4>2 DEF RequestOK, NoRequest
      <4>4. request'[c] = [request[c] EXCEPT !.pc = "queued"]
        BY <2>1, <3>2, Zenon DEF Issue, ClientInv, ClientTyped
      <4>5. request'[c].pc = "queued" /\ request'[c].at = 1
        BY <1>1, <4>3, <4>4, Zenon DEF RequestState
      <4>6. 1 \in 1 .. Len(rpc[r].batch)
        <5>1. rpc[r].batch \in Seq(Entry) /\ rpc[r].batch # <<>>
          BY <1>1, <1>2, Zenon DEF RpcState, ClientInv, RequestInv
        <5> QED
          BY <5>1, EmptySeq
      <4> QED
        BY <1>1, <1>2, <3>1, <4>1, <4>3, <4>5, <4>6 DEF RequestOK
    <3>3. CASE c # <<r, rpc[r].attempt>>
      <4>1. request'[c] = request[c]
        BY <2>1, <3>3, Zenon DEF Issue, ClientInv, ClientTyped
      <4> QED
        BY <1>1, <1>2, <3>1, <4>1 DEF RequestOK
    <3> QED
      BY <3>2, <3>3, Zenon
  <2>2. CASE Retry(r)
    <3>1. /\ rpc[r].pc \in {"open", "waiting"} /\ rpc'[r].pc = "open"
          /\ rpc'[r].attempt = rpc[r].attempt + 1 /\ request' = request
      BY <1>1, <2>2, Zenon DEF Retry, ClientInv, ClientTyped, RpcState
    <3> QED
      BY <1>1, <1>2, <3>1 DEF RequestOK
  <2>3. CASE RpcFails(r) \/ RpcAnswered(r)
    <3>1. rpc'[r].pc = "done" /\ request' = request
      BY <1>1, <2>3 DEF RpcFails, RpcAnswered, ClientInv, ClientTyped, RpcState
    <3> QED
      BY <1>1, <1>2, <3>1, Zenon DEF RequestOK
  <2> QED
    BY <2>1, <2>2, <2>3, Zenon DEF RpcStep
<1> QED
  BY <1>2, <1>3, <1>4, Zenon DEF RequestInv

(***************************************************************************)
(* A request whose Publish has returned goes on to the next record, or is  *)
(* answered.                                                               *)
(***************************************************************************)
LEMMA RequestAdvances ==
    ASSUME NEW q \in RequestState, NEW k, NEW r \in RpcState, NEW a, RequestOK(q, k, r, a),
           k.pc # "idle", NEW p, NEW j, j.pc = "idle", p.pc \in {"queued", "answered"},
           p.pc = "queued" => q.at # Len(r.batch) /\ p.at = q.at + 1
    PROVE  RequestOK(p, j, r, a)
<1>1. q.pc = "queued" /\ q.at \in 1 .. Len(r.batch) /\ Len(r.batch) \in Nat
  BY DEF RequestOK, RpcState
<1>2. p.pc = "queued" => p.at \in 1 .. Len(r.batch)
  BY <1>1
<1> QED
  BY <1>1, <1>2, Zenon DEF RequestOK

LEMMA ServeStepRequests ==
    ASSUME ClientInv, Typed, NEW c \in Attempt, ServeStep(c)
    PROVE  RequestInv'
<1>1. /\ \A d \in Attempt : d \in Caller /\ d[1] \in Rpc
      /\ \A d \in Attempt : RequestOK(request[d], call[d], rpc[d[1]], d[2])
  BY AttemptFacts, Zenon DEF ClientInv, RequestInv
<1>2. /\ call \in [Caller -> CallState] /\ request \in [Attempt -> RequestState]
      /\ rpc \in [Rpc -> RpcState]
  BY Zenon DEF ClientInv, ClientTyped, Typed, PublishTyped
<1>3. rpc' = rpc
  BY Zenon DEF ServeStep, Serve, ServePublished, ServeNext, clientVars
<1>4. /\ RequestOK(request'[c], call'[c], rpc[c[1]], c[2])
      /\ \A d \in Attempt \ {c} : call'[d] = call[d] /\ request'[d] = request[d]
  <2>1. CASE Serve(c)
    <3>1. request' = request /\ request[c].pc = "queued"
      BY <2>1, Zenon DEF Serve, clientVars
    <3>2. PICK msg : PublishRetry(c, msg) \/ PublishAppend(c, msg)
      BY <2>1, Zenon DEF Serve
    <3>3. \A d \in Caller \ {c} : call'[d] = call[d]
      BY <1>2, <3>2, Zenon DEF PublishRetry, PublishAppend
    <3>4. RequestOK(request[c], call'[c], rpc[c[1]], c[2])
      BY <1>1, <3>1, Zenon DEF RequestOK
    <3> QED
      BY <1>1, <3>1, <3>3, <3>4, Zenon
  <2>2. CASE ServePublished(c)
    <3>1. /\ call[c].pc # "idle" /\ request' = request
          /\ \A d \in Caller \ {c} : call'[d] = call[d]
      BY <1>2, <2>2, Zenon DEF ServePublished, PublishDone, clientVars
    <3>2. RequestOK(request[c], call'[c], rpc[c[1]], c[2])
      BY <1>1, <3>1, Zenon DEF RequestOK
    <3> QED
      BY <1>1, <3>1, <3>2, Zenon
  <2>3. CASE ServeNext(c)
    <3>1. /\ call[c].pc # "idle" /\ call'[c].pc = "idle"
          /\ \A d \in Caller \ {c} : call'[d] = call[d]
      BY <1>1, <1>2, <2>3, Zenon DEF ServeNext, Return, IdleCall
    <3>2. PICK n : n = Len(rpc[c[1]].batch)
      BY Zenon
    <3>3. request' = [request EXCEPT ![c] =
                [pc |-> IF request[c].at = n THEN "answered" ELSE "queued",
                 at |-> IF request[c].at = n THEN request[c].at ELSE request[c].at + 1,
                 base |-> IF request[c].at = 1 THEN call[c].offset ELSE request[c].base]]
      BY <2>3, <3>2, Zenon DEF ServeNext
    <3>4. /\ request'[c].pc \in {"queued", "answered"}
          /\ request'[c].pc = "queued" =>
                request[c].at # n /\ request'[c].at = request[c].at + 1
          /\ \A d \in Attempt \ {c} : request'[d] = request[d]
      BY <1>2, <3>3, Zenon
    <3>5. RequestOK(request'[c], call'[c], rpc[c[1]], c[2])
      <4>1. request[c] \in RequestState /\ rpc[c[1]] \in RpcState
        BY <1>1, <1>2, Zenon
      <4> QED
        BY <1>1, <3>1, <3>2, <3>4, <4>1, RequestAdvances
    <3> QED
      BY <1>1, <3>1, <3>4, <3>5, Zenon
  <2> QED
    BY <2>1, <2>2, <2>3, Zenon DEF ServeStep
<1>5. \A r \in Rpc : rpc'[r].pc # "unused" => rpc'[r].batch # <<>>
  BY <1>3, Zenon DEF ClientInv, RequestInv
<1> QED
  BY <1>1, <1>3, <1>4, <1>5, Zenon DEF RequestInv

LEMMA RequestNext ==
    ASSUME ClientInv, Typed, [ProducerNext]_allVars
    PROVE  RequestInv'
<1>1. CASE UNCHANGED <<rpc, request, call>>
  BY <1>1, Zenon DEF ClientInv, RequestInv
<1>2. ASSUME NEW g \in Sender, NEW by \in Waiters(g), NEW r \in Rpc,
             PublishRecord(g, by, r)
      PROVE  RequestInv'
  <2>1. <<[by |-> by, msg |-> send[g].msg]>> \in Seq(Entry)
    BY HandedEntry DEF ClientInv
  <2>2. Opens(r, <<[by |-> by, msg |-> send[g].msg]>>)
    BY <1>2, Zenon DEF PublishRecord, IsNextRpc, Opens, brokerVars, vars, publishVars
  <2> QED
    BY <2>1, <2>2, OpensRequests, Zenon
<1>3. ASSUME NEW r \in Rpc, TakeBatch(r)
      PROVE  RequestInv'
  <2>1. Opens(r, pending) /\ pending \in Seq(Entry) /\ pending # <<>>
    BY <1>3, Zenon DEF TakeBatch, IsNextRpc, Opens, ClientInv, ClientTyped, brokerVars, vars,
       publishVars
  <2> QED
    BY <2>1, OpensRequests, Zenon
<1>4. ASSUME NEW c \in DOMAIN request, ServeStep(c)
      PROVE  RequestInv'
  BY <1>4, ServeStepRequests, Zenon DEF ClientInv, ClientTyped
<1>5. ASSUME NEW c \in Other, OtherPublish(c)
      PROVE  RequestInv'
  <2>1. UNCHANGED <<rpc, request>> /\ \A d \in Attempt : call'[d] = call[d]
    BY <1>5, AttemptFacts, Zenon DEF OtherPublish, PublishAppend, PublishDone, Return,
       clientVars, Typed, PublishTyped
  <2> QED
    BY <2>1, Zenon DEF ClientInv, RequestInv
<1>6. CASE BrokerRestart
  <2>1. /\ UNCHANGED rpc
        /\ \A c \in Attempt : call'[c].pc = "idle"
    BY <1>6, AttemptFacts, Zenon DEF BrokerRestart, CleanRestart, Restart, IdleCall
  <2>2. ASSUME NEW c \in Attempt
        PROVE  RequestOK(request'[c], call'[c], rpc[c[1]], c[2])
    <3>1. RequestOK(request[c], call[c], rpc[c[1]], c[2]) /\ request[c] \in RequestState
      BY Zenon DEF ClientInv, ClientTyped, RequestInv
    <3>2. request'[c] = IF request[c].pc = "queued"
                        THEN [request[c] EXCEPT !.pc = "dead"] ELSE request[c]
      BY <1>6, Zenon DEF BrokerRestart, ClientInv, ClientTyped
    <3>3. CASE request[c].pc = "queued"
      <4>1. request'[c].pc = "dead"
        BY <3>1, <3>2, <3>3, Zenon DEF RequestState
      <4> QED
        BY <2>1, <3>1, <3>3, <4>1, Zenon DEF RequestOK
    <3> QED
      BY <2>1, <3>1, <3>2, <3>3, Zenon DEF RequestOK
  <2> QED
    BY <2>1, <2>2, Zenon DEF RequestInv, ClientInv
<1>7. CASE UNCHANGED allVars
  BY <1>1, <1>7, Zenon DEF allVars, brokerVars, vars, publishVars, clientVars
<1> QED
  BY <1>1, <1>2, <1>3, <1>4, <1>5, <1>6, <1>7, ClientFrame, RpcStepRequests, Zenon

-----------------------------------------------------------------------------
(***************************************************************************)
(* The producer and its server's handlers use the broker only as Broker    *)
(* allows: every theorem about Broker holds of the composition.            *)
(***************************************************************************)
LEMMA ClientHolds == ProducerSpec => [](Typed /\ LockInv /\ ClientInv)
<1>1. ProducerInit => Typed /\ LockInv /\ ClientInv
  BY TypedInit, LockInit, ClientInit, Zenon DEF ProducerInit
<1>2. Typed /\ LockInv /\ ClientInv /\ [ProducerNext]_allVars
            => (Typed /\ LockInv /\ ClientInv)'
  <2> SUFFICES ASSUME Typed, LockInv, ClientInv, [ProducerNext]_allVars
               PROVE  Typed' /\ LockInv' /\ ClientInv'
    BY Zenon
  <2>1. [Next \/ Kill]_vars
    BY BrokerStep, Zenon
  <2>2. ClientTyped' /\ RequestInv'
    BY ClientTypedNext, RequestNext, Zenon
  <2> QED
    BY <2>1, <2>2, TypedNext, LockNext, Zenon DEF ClientInv
<1> QED
  BY <1>1, <1>2, PTL DEF ProducerSpec

THEOREM ProducerDrivesBroker == ProducerSpec => Spec
<1>1. ProducerInit => Init
  BY Zenon DEF ProducerInit
<1>2. ClientInv /\ [ProducerNext]_allVars => [Next]_vars
  BY BrokerStep, Zenon
<1> QED
  BY <1>1, <1>2, ClientHolds, PTL DEF ProducerSpec, Spec

(***************************************************************************)
(* Every variable of the producer and of the broker below it keeps its     *)
(* type.                                                                   *)
(***************************************************************************)
THEOREM ProducerTypes == ProducerSpec => []ProducerTypeOK
<1>1. Typed /\ ClientInv => ProducerTypeOK
  BY TypedIsTypeOK, Zenon DEF ClientInv, ClientTyped, ProducerTypeOK, SendState, RpcState,
     RequestState, Ack, Attempt
<1> QED
  BY <1>1, ClientHolds, PTL

(***************************************************************************)
(* The batcher strands no record: whatever size flushes, explicit flushes, *)
(* late timers and a close overlap, a batch has a timer that will fire or  *)
(* a flush that will run.                                                  *)
(***************************************************************************)
LEMMA BatchNext ==
    ASSUME ClientTyped, BatchInv, [ProducerNext]_allVars
    PROVE  BatchInv'
<1> USE DEF BatchInv, NoStrandedRecord
<1>a. spawned \in Nat /\ timer \in {"nil", "armed", "fired"} /\ pending \in Seq(Entry)
  BY Zenon DEF ClientTyped
<1>1. ASSUME NEW g \in Sender, NEW by \in Waiters(g), Add(g, by)
      PROVE  BatchInv'
  <2>1. pending' # <<>>
    BY <1>a, <1>1, HandedEntry DEF Add
  <2>2. \/ spawned' = spawned + 1 /\ timer' = timer
        \/ spawned' = spawned /\ timer' = IF timer = "nil" THEN "armed" ELSE timer
    BY <1>1, Zenon DEF Add
  <2> QED
    BY <1>a, <2>1, <2>2
<1>2. CASE TimerFires \/ FlushEmpty
  BY <1>a, <1>2 DEF TimerFires, FlushEmpty
<1>3. ASSUME NEW r \in Rpc, TakeBatch(r)
      PROVE  BatchInv'
  BY <1>3, Zenon DEF TakeBatch
<1>4. CASE Close
  BY <1>4, Zenon DEF Close
<1>5. CASE UNCHANGED <<pending, timer, spawned>>
  BY <1>5, Zenon
<1>6. ASSUME NEW g \in Sender, Stamp(g) \/ AddClosed(g) \/ GiveUp(g)
      PROVE  UNCHANGED <<pending, timer, spawned>>
  BY <1>6, Zenon DEF Stamp, AddClosed, GiveUp, batchVars
<1>7. ASSUME NEW g \in Sender, NEW by \in Waiters(g), NEW r \in Rpc,
             PublishRecord(g, by, r)
      PROVE  UNCHANGED <<pending, timer, spawned>>
  BY <1>7, Zenon DEF PublishRecord, batchVars
<1>8. ASSUME NEW r \in Rpc, RpcStep(r)
      PROVE  UNCHANGED <<pending, timer, spawned>>
  BY <1>8, Zenon DEF RpcStep, Issue, Retry, RpcFails, RpcAnswered, batchVars
<1>9. ASSUME NEW c \in DOMAIN request, ServeStep(c)
      PROVE  UNCHANGED <<pending, timer, spawned>>
  BY <1>9, Zenon DEF ServeStep, Serve, ServePublished, ServeNext, clientVars, batchVars
<1>10. ASSUME NEW c \in Other, OtherPublish(c)
       PROVE  UNCHANGED <<pending, timer, spawned>>
  BY <1>10, Zenon DEF OtherPublish, clientVars, batchVars
<1>11. CASE BrokerRestart \/ UNCHANGED allVars
  BY <1>11, Zenon DEF BrokerRestart, allVars, clientVars, batchVars
<1> QED
  BY <1>1, <1>2, <1>3, <1>4, <1>5, <1>6, <1>7, <1>8, <1>9, <1>10, <1>11, Zenon
     DEF ProducerNext, SendStep, FlushStep, FlushNow, Flush

THEOREM BatcherStrandsNothing == ProducerSpec => []NoStrandedRecord
<1>1. ProducerInit => BatchInv
  BY ClientInit, Zenon
<1>2. ClientInv /\ BatchInv /\ [ProducerNext]_allVars => BatchInv'
  BY BatchNext, Zenon DEF ClientInv
<1>3. BatchInv => NoStrandedRecord
  BY Zenon DEF BatchInv
<1> QED
  BY <1>1, <1>2, <1>3, ClientHolds, PTL DEF ProducerSpec

=============================================================================
