----------------------------- MODULE RetryProofs ----------------------------
(***************************************************************************)
(* Idempotent retries end to end, for clean restarts (a killed broker      *)
(* loses a tail of the log and a tail of the dedup topic independently).   *)
(* First the broker: a checkpoint matches the log.  Then the producer on   *)
(* it: one goroutine that sends without a linger window gets every         *)
(* acknowledged record into the log once, at the offset it was told.  The  *)
(* argument puts the client's invariant, that only the newest record is in *)
(* flight, together with the broker's.                                     *)
(***************************************************************************)
EXTENDS ProducerProofs

-----------------------------------------------------------------------------
(***************************************************************************)
(* A checkpoint names an assigned offset, and the record there is the one  *)
(* it stands for; so does the one hydration would restore.                 *)
(***************************************************************************)
CheckpointMatches(p, cp) ==
    cp.seq >= 0 =>
        /\ cp.offset \in 0 .. highWater - 1
        /\ cp.offset \in DOMAIN log =>
            log[cp.offset] = [producer |-> p, seq |-> cp.seq]

CheckpointInv ==
    \A p \in Producer : /\ CheckpointMatches(p, dedup[p])
                        /\ CheckpointMatches(p, Hydrated(persisted)[p])

LEMMA CheckpointInit == Init => CheckpointInv
<1> SUFFICES ASSUME Init
             PROVE  CheckpointInv
  BY Zenon
<1>1. persisted = <<>> /\ dedup = [p \in Producer |-> NoCheckpoint]
  BY Zenon DEF Init
<1>2. \A p \in Producer : Hydrated(persisted)[p] = NoCheckpoint
  BY <1>1, EmptySeq DEF Hydrated
<1> QED
  BY <1>1, <1>2 DEF CheckpointInv, CheckpointMatches, NoCheckpoint

(***************************************************************************)
(* A checkpoint that matches goes on matching when the log grows above it  *)
(* or loses records.                                                       *)
(***************************************************************************)
LEMMA StillMatches ==
    ASSUME NEW p, NEW cp, CheckpointMatches(p, cp),
           highWater \in Nat, highWater' \in Nat, highWater <= highWater',
           \A o \in DOMAIN log' : o \in 0 .. highWater - 1 =>
                o \in DOMAIN log /\ log'[o] = log[o]
    PROVE  cp.seq >= 0 =>
                /\ cp.offset \in 0 .. highWater' - 1
                /\ cp.offset \in DOMAIN log' =>
                        log'[cp.offset] = [producer |-> p, seq |-> cp.seq]
  BY DEF CheckpointMatches

LEMMA CheckpointNext ==
    ASSUME Typed, CheckpointInv, Next
    PROVE  CheckpointInv'
<1> DEFINE Matches(p, cp) ==
        cp.seq >= 0 =>
            /\ cp.offset \in 0 .. highWater' - 1
            /\ cp.offset \in DOMAIN log' =>
                    log'[cp.offset] = [producer |-> p, seq |-> cp.seq]
<1>1. SUFFICES \A p \in Producer : /\ Matches(p, dedup'[p])
                                   /\ Matches(p, Hydrated(persisted')[p])
  BY Zenon DEF CheckpointInv, CheckpointMatches
<1>2. /\ highWater \in Nat /\ \A p \in Producer : Matches(p, NoCheckpoint)
      /\ \A p \in Producer : /\ CheckpointMatches(p, dedup[p])
                             /\ CheckpointMatches(p, Hydrated(persisted)[p])
  BY DEF Typed, StoreTyped, NoCheckpoint, CheckpointInv
<1>3. ASSUME highWater' \in Nat, highWater <= highWater',
             \A o \in DOMAIN log' : o \in 0 .. highWater - 1 =>
                    o \in DOMAIN log /\ log'[o] = log[o]
      PROVE  \A p \in Producer : /\ Matches(p, dedup[p])
                                 /\ Matches(p, Hydrated(persisted)[p])
  BY <1>2, <1>3, StillMatches
<1>4. CASE UNCHANGED RetryVars
  <2>1. UNCHANGED <<log, highWater, dedup, persisted>>
    BY <1>4, Zenon DEF RetryVars
  <2> HIDE DEF Matches
  <2> QED
    BY <1>2, <1>3, <2>1
<1>5. ASSUME NEW c \in Caller, NEW msg \in Message, PublishRetry(c, msg)
      PROVE  \A p \in Producer : /\ Matches(p, dedup'[p])
                                 /\ Matches(p, Hydrated(persisted')[p])
  <2>1. /\ UNCHANGED <<log, highWater, persisted>>
        /\ \A p \in Producer : dedup'[p] \in {dedup[p], NoCheckpoint}
    BY <1>5, RetryKeeps, Zenon
  <2>2. \A p \in Producer : /\ Matches(p, dedup[p])
                            /\ Matches(p, Hydrated(persisted)[p])
    <3> HIDE DEF Matches
    <3> QED
      BY <1>2, <1>3, <2>1
  <2> HIDE DEF Matches
  <2> QED
    BY <1>2, <2>1, <2>2, Zenon
<1>6. ASSUME NEW c \in Caller, NEW msg \in Message, PublishAppend(c, msg)
      PROVE  \A p \in Producer : /\ Matches(p, dedup'[p])
                                 /\ Matches(p, Hydrated(persisted')[p])
  <2> DEFINE cp == [seq |-> msg.seq, offset |-> highWater, stale |-> FALSE]
  <2>1. /\ highWater' \in Nat /\ highWater <= highWater'
        /\ \A o \in DOMAIN log' : o \in 0 .. highWater - 1 =>
                o \in DOMAIN log /\ log'[o] = log[o]
    <3>1. /\ highWater' = highWater + 1
          /\ DOMAIN log' = DOMAIN log \union {highWater}
          /\ \A o \in DOMAIN log : log'[o] = log[o]
      BY <1>6, AppendKeeps, Zenon
    <3> QED
      BY <1>2, <3>1
  <2>2. /\ \A p \in Producer : p # msg.producer =>
                /\ dedup'[p] \in {dedup[p], NoCheckpoint}
                /\ Hydrated(persisted')[p] = Hydrated(persisted)[p]
        /\ msg.producer \in Producer =>
                dedup'[msg.producer] = cp /\ Hydrated(persisted')[msg.producer] = cp
    BY <1>6, AppendKeeps
  <2>3. Matches(msg.producer, cp)
    <3>1. highWater' = highWater + 1 /\ log'[highWater] = msg
      BY <1>6, AppendKeeps, Zenon
    <3>2. msg = [producer |-> msg.producer, seq |-> msg.seq]
      BY Zenon DEF Message
    <3> QED
      BY <1>2, <3>1, <3>2
  <2> HIDE DEF Matches, cp
  <2> QED
    BY <1>2, <1>3, <2>1, <2>2, <2>3, Zenon
<1>7. ASSUME NEW gone \in SUBSET (0 .. MaxOffset - 1), Reclaim(gone)
      PROVE  \A p \in Producer : /\ Matches(p, dedup'[p])
                                 /\ Matches(p, Hydrated(persisted')[p])
  <2>1. /\ UNCHANGED <<highWater, dedup, persisted>> /\ DOMAIN log' \subseteq DOMAIN log
        /\ \A o \in DOMAIN log' : log'[o] = log[o]
    BY <1>7, Zenon DEF Reclaim, dedupVars
  <2> HIDE DEF Matches
  <2> QED
    BY <1>2, <1>3, <2>1
<1>8. ASSUME NEW q \in Producer, CheckpointAges(q)
      PROVE  \A p \in Producer : /\ Matches(p, dedup'[p])
                                 /\ Matches(p, Hydrated(persisted')[p])
  <2>1. /\ UNCHANGED <<log, highWater, persisted>>
        /\ \A p \in Producer : /\ dedup'[p].seq = dedup[p].seq
                               /\ dedup'[p].offset = dedup[p].offset
    BY <1>8, AgesKeeps, Zenon
  <2>2. \A p \in Producer : /\ Matches(p, dedup[p])
                            /\ Matches(p, Hydrated(persisted)[p])
    <3> HIDE DEF Matches
    <3> QED
      BY <1>2, <1>3, <2>1
  <2> QED
    BY <2>1, <2>2, Zenon
<1>9. CASE CleanRestart
  <2>1. UNCHANGED <<log, highWater, persisted>> /\ dedup' = Hydrated(persisted)
    BY <1>9, RestartKeeps, Zenon
  <2> HIDE DEF Matches
  <2> QED
    BY <1>2, <1>3, <2>1
<1> QED
  BY <1>4, <1>5, <1>6, <1>7, <1>8, <1>9, RetryFrame, Zenon

LEMMA CheckpointHolds == Spec => []CheckpointInv
<1>1. Typed /\ LockInv /\ CheckpointInv /\ [Next]_vars => CheckpointInv'
  <2>1. ASSUME CheckpointInv, UNCHANGED vars
        PROVE  CheckpointInv'
    BY <2>1, Zenon DEF CheckpointInv, CheckpointMatches, vars, storeVars, dedupVars
  <2> QED
    BY <2>1, CheckpointNext, Zenon
<1> QED
  BY <1>1, CheckpointInit, LockHolds, SpecIsCrashSpec, PTL DEF Spec

(***************************************************************************)
(* A checkpoint is behind the log, with expiring checkpoints, reclaimed    *)
(* records and clean restarts: a retry is answered with an offset that was *)
(* assigned, and with no other record's.                                   *)
(***************************************************************************)
THEOREM CheckpointsStayBehind == Spec => []CheckpointsAreBehind
<1>1. Typed /\ CheckpointInv => CheckpointsAreBehind
  <2> SUFFICES ASSUME Typed, CheckpointInv, NEW p \in Producer, dedup[p].seq >= 0
               PROVE  /\ dedup[p].offset < highWater
                      /\ dedup[p].offset \in DOMAIN log =>
                            log[dedup[p].offset] = [producer |-> p, seq |-> dedup[p].seq]
    BY Zenon DEF CheckpointsAreBehind
  <2>1. CheckpointMatches(p, dedup[p]) /\ highWater \in Nat
    BY Zenon DEF CheckpointInv, Typed, StoreTyped
  <2> QED
    BY <2>1 DEF CheckpointMatches
<1> QED
  BY <1>1, CheckpointHolds, LockHolds, SpecIsCrashSpec, PTL

-----------------------------------------------------------------------------
(***************************************************************************)
(* One goroutine sends, each record in its own RPC before the next, and    *)
(* the broker keeps the producer's checkpoint.                             *)
(***************************************************************************)
SerialProducer ==
    /\ ~Linger /\ ~NoWait
    /\ \A g, h \in Sender : g = h
    /\ Self \notin Expiring

Live(r) == rpc[r].pc \in {"open", "waiting"}

Stamped(seq) == [producer |-> Self, seq |-> seq]

(***************************************************************************)
(* Every RPC carries one record, stamped before; the one that is live      *)
(* carries the newest, and its sender waits for it.                        *)
(***************************************************************************)
SendInv ==
    /\ pending = <<>>
    /\ \A g \in Sender : send[g].pc # "idle" =>
            idempSeq > 0 /\ send[g].msg = Stamped(idempSeq - 1)
    /\ \A r \in Rpc : rpc[r].pc # "unused" =>
            \E g \in Sender, seq \in 0 .. idempSeq - 1 :
                rpc[r].batch = <<[by |-> g, msg |-> Stamped(seq)]>>
    /\ \A r \in Rpc : Live(r) =>
            \E g \in Sender :
                /\ send[g].pc = "waiting"
                /\ rpc[r].batch = <<[by |-> g, msg |-> Stamped(idempSeq - 1)]>>
    /\ OneFlushInFlight

(***************************************************************************)
(* Offset o is the place of the record of RPC r.                           *)
(***************************************************************************)
PlacedAt(r, o) == o \in DOMAIN log /\ log[o] = rpc[r].batch[1].msg

(***************************************************************************)
(* The server is behind the sender, and what it has for a live RPC is the  *)
(* place of its record.                                                    *)
(***************************************************************************)
ServedInv ==
    /\ DOMAIN log = 0 .. highWater - 1
    /\ dedup[Self].seq < idempSeq
    /\ \A c \in Attempt : Live(c[1]) =>
        /\ call[c].pc # "idle" => PlacedAt(c[1], call[c].offset)
        /\ request[c].pc = "answered" => PlacedAt(c[1], request[c].base)

AckedInv ==
    \A a \in acked : /\ a.msg.producer = Self
                     /\ a.offset \in DOMAIN log /\ log[a.offset] = a.msg

SerialInv == SendInv /\ ServedInv /\ AckedInv

LEMMA SerialInit == ProducerInit => SerialInv
<1> SUFFICES ASSUME ProducerInit
             PROVE  SerialInv
  BY Zenon
<1>1. SendInv
  BY Zenon DEF ProducerInit, SendInv, Live, NoRpc, OneFlushInFlight
<1>2. ServedInv
  <2>1. DOMAIN log = 0 .. highWater - 1 /\ dedup[Self].seq < idempSeq
    BY ProducerAssumption DEF ProducerInit, Init, NoCheckpoint
  <2>2. \A c \in Attempt : ~Live(c[1])
    BY AttemptFacts, Zenon DEF ProducerInit, Live, NoRpc
  <2> QED
    BY <2>1, <2>2, Zenon DEF ServedInv
<1>3. AckedInv
  BY Zenon DEF ProducerInit, AckedInv
<1> QED
  BY <1>1, <1>2, <1>3, Zenon DEF SerialInv

(***************************************************************************)
(* The sender's side: what a step may do to it, and that it stays serial.  *)
(***************************************************************************)
LEMMA SerialFrame ==
    ASSUME SerialProducer, ClientTyped, pending = <<>>, ProducerNext
    PROVE  \/ UNCHANGED <<idempSeq, send, pending, rpc>>
           \/ \E g \in Sender : Stamp(g) \/ \E r \in Rpc : PublishRecord(g, g, r)
           \/ \E r \in Rpc : RpcStep(r)
<1>1. CASE Close
  <2>1. Range(pending) = {}
    BY EmptySeq DEF Range
  <2>2. send' = send /\ pending' = pending /\ UNCHANGED <<idempSeq, rpc>>
    BY <1>1, <2>1, Zenon DEF Close, Answered, ClientTyped
  <2> QED
    BY <2>2, Zenon
<1>2. CASE TimerFires \/ FlushEmpty \/ BrokerRestart
  BY <1>2, Zenon DEF TimerFires, FlushEmpty, BrokerRestart, batchVars
<1>3. ASSUME NEW c \in DOMAIN request, ServeStep(c)
      PROVE  UNCHANGED <<idempSeq, send, pending, rpc>>
  BY <1>3, Zenon DEF ServeStep, Serve, ServePublished, ServeNext, clientVars, batchVars
<1>4. ASSUME NEW c \in Other, OtherPublish(c)
      PROVE  UNCHANGED <<idempSeq, send, pending, rpc>>
  BY <1>4, Zenon DEF OtherPublish, clientVars, batchVars
<1>5. ASSUME NEW r \in Rpc
      PROVE  ~TakeBatch(r)
  BY Zenon DEF TakeBatch
<1>6. ASSUME NEW g \in Sender, NEW by \in Waiters(g)
      PROVE  /\ by = g /\ ~Add(g, by) /\ ~AddClosed(g) /\ ~GiveUp(g)
  BY Zenon DEF Waiters, SerialProducer, Add, AddClosed, GiveUp
<1>7. ASSUME NEW g \in Sender
      PROVE  ~AddClosed(g) /\ ~GiveUp(g)
  BY Zenon DEF SerialProducer, AddClosed, GiveUp
<1> QED
  BY <1>1, <1>2, <1>3, <1>4, <1>5, <1>6, <1>7
     DEF ProducerNext, SendStep, FlushStep, FlushNow, Flush

LEMMA SendNext ==
    ASSUME SerialProducer, ClientInv, SendInv, [ProducerNext]_allVars
    PROVE  SendInv'
<1>a. /\ \A g, h \in Sender : g = h
      /\ idempSeq \in Nat /\ rpc \in [Rpc -> RpcState] /\ send \in [Sender -> SendState]
      /\ pending = <<>>
  BY DEF SerialProducer, ClientInv, ClientTyped, SendInv
<1>1. CASE UNCHANGED <<idempSeq, send, pending, rpc>>
  BY <1>1, Zenon DEF SendInv, Live, OneFlushInFlight
<1>2. ASSUME NEW g \in Sender, Stamp(g)
      PROVE  SendInv'
  <2>1. /\ idempSeq' = idempSeq + 1 /\ UNCHANGED <<pending, rpc>>
        /\ send[g].pc = "idle" /\ send'[g].msg = Stamped(idempSeq)
    BY <1>a, <1>2, Zenon DEF Stamp, batchVars, Stamped
  <2>2. \A r \in Rpc : ~Live(r)
    BY <1>a, <2>1, Zenon DEF SendInv
  <2>3. \A r \in Rpc : rpc[r].pc # "unused" =>
            \E h \in Sender, seq \in 0 .. idempSeq' - 1 :
                rpc[r].batch = <<[by |-> h, msg |-> Stamped(seq)]>>
    <3>1. 0 .. idempSeq - 1 \subseteq 0 .. idempSeq' - 1
      BY <1>a, <2>1
    <3> QED
      BY <3>1, Zenon DEF SendInv
  <2>4. \A h \in Sender : idempSeq' > 0 /\ send'[h].msg = Stamped(idempSeq' - 1)
    <3>1. idempSeq' - 1 = idempSeq /\ idempSeq' > 0
      BY <1>a, <2>1
    <3> QED
      BY <1>a, <2>1, <3>1, Zenon
  <2> QED
    BY <1>a, <2>1, <2>2, <2>3, <2>4, Zenon DEF SendInv, Live, OneFlushInFlight
<1>3. ASSUME NEW g \in Sender, NEW r \in Rpc, PublishRecord(g, g, r)
      PROVE  SendInv'
  <2>1. /\ send[g].pc = "stamped" /\ send'[g] = [send[g] EXCEPT !.pc = "waiting"]
        /\ UNCHANGED <<idempSeq, pending>>
    BY <1>a, <1>3, Zenon DEF PublishRecord, Handed, batchVars
  <2>2. send'[g].pc = "waiting" /\ send'[g].msg = send[g].msg
    BY <1>a, <2>1, Zenon DEF SendState
  <2>3. idempSeq > 0 /\ send[g].msg = Stamped(idempSeq - 1)
    BY <2>1, Zenon DEF SendInv
  <2>4. \A q \in Rpc : ~Live(q)
    BY <1>a, <2>1, Zenon DEF SendInv
  <2>5. /\ rpc'[r].batch = <<[by |-> g, msg |-> Stamped(idempSeq - 1)]>>
        /\ \A q \in Rpc \ {r} : rpc'[q] = rpc[q]
    BY <1>a, <1>3, <2>3, Zenon DEF PublishRecord
  <2>6. \A h \in Sender : idempSeq > 0 /\ send'[h].msg = Stamped(idempSeq - 1)
    BY <1>a, <2>2, <2>3, Zenon
  <2>7. \A q \in Rpc : rpc'[q].pc # "unused" =>
            \E h \in Sender, seq \in 0 .. idempSeq - 1 :
                rpc'[q].batch = <<[by |-> h, msg |-> Stamped(seq)]>>
    <3>1. idempSeq - 1 \in 0 .. idempSeq - 1
      BY <1>a, <2>3
    <3> QED
      BY <2>5, <3>1 DEF SendInv
  <2>8. \A q \in Rpc : rpc'[q].pc \in {"open", "waiting"} => q = r
    BY <2>4, <2>5, Zenon DEF Live
  <2>9. OneFlushInFlight'
    BY <2>8, Zenon DEF OneFlushInFlight
  <2>10. \A q \in Rpc : rpc'[q].pc \in {"open", "waiting"} =>
            /\ send'[g].pc = "waiting"
            /\ rpc'[q].batch = <<[by |-> g, msg |-> Stamped(idempSeq - 1)]>>
    BY <2>2, <2>5, <2>8, Zenon
  <2> QED
    BY <1>a, <2>1, <2>6, <2>7, <2>9, <2>10, Zenon DEF SendInv, Live
<1>4. ASSUME NEW r \in Rpc, RpcStep(r)
      PROVE  SendInv'
  <2>1. /\ UNCHANGED <<idempSeq, pending>> /\ Live(r)
        /\ \A q \in Rpc \ {r} : rpc'[q] = rpc[q]
        /\ rpc'[r].batch = rpc[r].batch
    BY <1>a, <1>4 DEF RpcStep, Issue, Retry, RpcFails, RpcAnswered, batchVars, Live, RpcState
  <2>2. \A q \in Rpc : rpc'[q].pc # "unused" =>
            \E h \in Sender, seq \in 0 .. idempSeq - 1 :
                rpc'[q].batch = <<[by |-> h, msg |-> Stamped(seq)]>>
    BY <2>1 DEF SendInv, Live
  <2>3. \A q \in Rpc : rpc'[q].pc \in {"open", "waiting"} => q = r
    BY <2>1, Zenon DEF SendInv, OneFlushInFlight, Live
  <2>4. CASE Issue(r) \/ Retry(r)
    <3>1. send' = send
      BY <2>4, Zenon DEF Issue, Retry
    <3> QED
      BY <2>1, <2>2, <2>3, <3>1 DEF SendInv, Live, OneFlushInFlight
  <2>5. CASE RpcFails(r) \/ RpcAnswered(r)
    <3>1. rpc'[r].pc = "done" /\ send' = Answered(rpc[r].batch)
      BY <1>a, <2>5, Zenon DEF RpcFails, RpcAnswered, RpcState
    <3>2. \A h \in Sender : send'[h] \in {send[h], [pc |-> "idle", msg |-> Plain]}
      BY <3>1, Zenon DEF Answered
    <3>3. \A h \in Sender : send'[h].pc # "idle" =>
                idempSeq > 0 /\ send'[h].msg = Stamped(idempSeq - 1)
      BY <3>2 DEF SendInv
    <3>4. \A q \in Rpc : ~(rpc'[q].pc \in {"open", "waiting"})
      BY <2>3, <3>1, Zenon
    <3> QED
      BY <2>1, <2>2, <3>3, <3>4, Zenon DEF SendInv, Live, OneFlushInFlight
  <2> QED
    BY <1>4, <2>4, <2>5, Zenon DEF RpcStep
<1>5. CASE UNCHANGED allVars
  BY <1>1, <1>5, Zenon DEF allVars, clientVars, batchVars
<1> QED
  BY <1>a, <1>1, <1>2, <1>3, <1>4, <1>5, SerialFrame, Zenon DEF ClientInv

-----------------------------------------------------------------------------
(***************************************************************************)
(* The server's side.  In the composition the log only grows.              *)
(***************************************************************************)
LEMMA LogGrows ==
    ASSUME Typed, ClientInv, DOMAIN log = 0 .. highWater - 1, [ProducerNext]_allVars
    PROVE  /\ DOMAIN log' = 0 .. highWater' - 1
           /\ \A o \in DOMAIN log : o \in DOMAIN log' /\ log'[o] = log[o]
<1>1. CASE UNCHANGED <<log, highWater>>
  BY <1>1, Zenon
<1>2. ASSUME NEW c \in Caller, NEW msg \in Message, PublishAppend(c, msg)
      PROVE  /\ DOMAIN log' = 0 .. highWater' - 1
             /\ \A o \in DOMAIN log : o \in DOMAIN log' /\ log'[o] = log[o]
  <2>1. /\ highWater \in Nat /\ highWater' = highWater + 1
        /\ DOMAIN log' = DOMAIN log \union {highWater}
        /\ \A o \in DOMAIN log : log'[o] = log[o]
    BY <1>2, AppendKeeps, Zenon
  <2> QED
    BY <2>1
<1>3. CASE CleanRestart
  BY <1>1, <1>3, RestartKeeps, Zenon
<1>4. CASE UNCHANGED vars
  BY <1>1, <1>4, Zenon DEF vars, storeVars
<1>5. ASSUME NEW c \in Caller, NEW msg \in Message,
             PublishRetry(c, msg) \/ PublishDone(c) \/ Return(c)
      PROVE  UNCHANGED <<log, highWater>>
  BY <1>5, Zenon DEF PublishRetry, PublishDone, Return, storeVars
<1> QED
  BY <1>1, <1>2, <1>3, <1>4, <1>5, BrokerMoves, ClientValues, Zenon

(***************************************************************************)
(* The record the server has for an RPC of this producer.                  *)
(***************************************************************************)
LEMMA SerialRecord ==
    ASSUME ClientInv, SendInv, NEW c \in Attempt, request[c].pc = "queued"
    PROVE  /\ request[c].at = 1 /\ Len(rpc[c[1]].batch) = 1
           /\ rpc[c[1]].batch[1].msg \in Message
           /\ rpc[c[1]].batch[1].msg.producer = Self
           /\ rpc[c[1]].batch[1].msg.seq \in 0 .. idempSeq - 1
           /\ Live(c[1]) => rpc[c[1]].batch[1].msg = Stamped(idempSeq - 1)
<1>1. /\ c[1] \in Rpc /\ rpc[c[1]].pc # "unused"
      /\ request[c].at \in 1 .. Len(rpc[c[1]].batch)
  BY AttemptFacts, Zenon DEF ClientInv, RequestInv, RequestOK
<1>2. PICK g \in Sender, seq \in 0 .. idempSeq - 1 :
            rpc[c[1]].batch = <<[by |-> g, msg |-> Stamped(seq)]>>
  BY <1>1, Zenon DEF SendInv
<1>3. Len(rpc[c[1]].batch) = 1 /\ rpc[c[1]].batch[1].msg = Stamped(seq)
  BY <1>2
<1>4. request[c].at = 1
  BY <1>1, <1>3
<1>5. ASSUME Live(c[1])
      PROVE  rpc[c[1]].batch[1].msg = Stamped(idempSeq - 1)
  <2>1. PICK h \in Sender :
                rpc[c[1]].batch = <<[by |-> h, msg |-> Stamped(idempSeq - 1)]>>
    BY <1>1, <1>5, Zenon DEF SendInv
  <2> QED
    BY <2>1
<1>6. rpc[c[1]].batch[1].msg \in Message
  BY <1>4, ServedRecord, Zenon
<1> QED
  BY <1>3, <1>4, <1>5, <1>6 DEF Stamped

(***************************************************************************)
(* The newest record of the producer is a retry only when it is the one of *)
(* the checkpoint, whose offset is then its place.                         *)
(***************************************************************************)
LEMMA RetryIsPlaced ==
    ASSUME SerialProducer, Typed, DedupInv, CheckpointInv, ServedInv, idempSeq \in Nat,
           idempSeq > 0, IsRetry(Stamped(idempSeq - 1))
    PROVE  /\ dedup[Self].offset \in DOMAIN log
           /\ log[dedup[Self].offset] = Stamped(idempSeq - 1)
<1>1. Self \in Producer /\ Self # NoProducer /\ ~dedup[Self].stale
  BY ProducerAssumption, BrokerAssumption, Zenon DEF SerialProducer, DedupInv
<1>2. dedup[Self].seq \in Int
  BY <1>1 DEF Typed, DedupTyped, Checkpoint
<1>3. KeptCheckpoints(Stamped(idempSeq - 1))[Self] = dedup[Self]
  BY <1>1, Zenon DEF KeptCheckpoints
<1>4. idempSeq - 1 <= dedup[Self].seq
  BY <1>3, Zenon DEF IsRetry, Stamped
<1>5. dedup[Self].seq = idempSeq - 1
  BY <1>2, <1>4 DEF ServedInv
<1>6. CheckpointMatches(Self, dedup[Self])
  BY <1>1, Zenon DEF CheckpointInv
<1> QED
  BY <1>5, <1>6 DEF CheckpointMatches, ServedInv, Stamped

(***************************************************************************)
(* A step of Publish on behalf of an RPC: the producer's checkpoint stays  *)
(* behind the sender, and the offset for a live RPC is its record's place. *)
(***************************************************************************)
LEMMA PublishPlaces ==
    ASSUME SerialProducer, Typed, DedupInv, CheckpointInv, ServedInv, idempSeq \in Nat,
           NEW c \in Caller, NEW msg \in Message, msg.producer = Self,
           msg.seq \in 0 .. idempSeq - 1,
           PublishRetry(c, msg) \/ PublishAppend(c, msg)
    PROVE  /\ dedup'[Self].seq < idempSeq
           /\ \A d \in Caller \ {c} : call'[d] = call[d]
           /\ msg = Stamped(idempSeq - 1) =>
                call'[c].offset \in DOMAIN log' /\ log'[call'[c].offset] = msg
<1>1. /\ dedup[Self].seq < idempSeq /\ ~dedup[Self].stale /\ Self \in Producer
      /\ idempSeq > 0 /\ call \in [Caller -> CallState]
  BY ProducerAssumption
     DEF SerialProducer, DedupInv, ServedInv, Typed, PublishTyped
<1>2. CASE PublishRetry(c, msg)
  <2>1. log' = log /\ dedup'[Self] = dedup[Self]
    BY <1>1, <1>2, RetryKeeps, Zenon
  <2>2. /\ \A d \in Caller \ {c} : call'[d] = call[d]
        /\ call'[c].offset = dedup[Self].offset /\ IsRetry(msg)
    BY <1>1, <1>2, Zenon DEF PublishRetry
  <2>3. ASSUME msg = Stamped(idempSeq - 1)
        PROVE  dedup[Self].offset \in DOMAIN log /\ log[dedup[Self].offset] = msg
    BY <1>1, <2>2, <2>3, RetryIsPlaced, Zenon
  <2> QED
    BY <1>1, <2>1, <2>2, <2>3, Zenon
<1>3. CASE PublishAppend(c, msg)
  <2>1. /\ dedup'[Self] = [seq |-> msg.seq, offset |-> highWater, stale |-> FALSE]
        /\ highWater \in DOMAIN log' /\ log'[highWater] = msg
    BY <1>1, <1>3, AppendKeeps, Zenon
  <2>2. /\ \A d \in Caller \ {c} : call'[d] = call[d]
        /\ call'[c].offset = highWater
    BY <1>1, <1>3, Zenon DEF PublishAppend
  <2>3. dedup'[Self].seq = msg.seq
    BY <2>1
  <2> QED
    BY <2>1, <2>2, <2>3
<1> QED
  BY <1>2, <1>3, Zenon

(***************************************************************************)
(* What ServedInv says of one attempt, after a step.                       *)
(***************************************************************************)
AttemptServed(c) ==
    Live(c[1]) => /\ call[c].pc # "idle" => PlacedAt(c[1], call[c].offset)
                  /\ request[c].pc = "answered" => PlacedAt(c[1], request[c].base)

LEMMA AttemptKept ==
    ASSUME NEW c \in Attempt, AttemptServed(c),
           \A o \in DOMAIN log : o \in DOMAIN log' /\ log'[o] = log[o],
           Live(c[1])' => Live(c[1]), rpc'[c[1]].batch = rpc[c[1]].batch,
           \/ call'[c].pc = "idle"
           \/ call[c].pc # "idle" /\ call'[c].offset = call[c].offset,
           request'[c].pc = "answered" =>
                \/ request[c].pc = "answered" /\ request'[c].base = request[c].base
                \/ call[c].pc # "idle" /\ request'[c].base = call[c].offset
    PROVE  AttemptServed(c)'
<1>1. SUFFICES ASSUME Live(c[1])'
               PROVE  /\ call'[c].pc # "idle" =>
                            /\ call'[c].offset \in DOMAIN log'
                            /\ log'[call'[c].offset] = rpc'[c[1]].batch[1].msg
                      /\ request'[c].pc = "answered" =>
                            /\ request'[c].base \in DOMAIN log'
                            /\ log'[request'[c].base] = rpc'[c[1]].batch[1].msg
  BY Zenon DEF AttemptServed, PlacedAt
<1>2. PICK msg : msg = rpc[c[1]].batch[1].msg /\ msg = rpc'[c[1]].batch[1].msg
  BY Zenon
<1>3. /\ call[c].pc # "idle" => call[c].offset \in DOMAIN log /\ log[call[c].offset] = msg
      /\ request[c].pc = "answered" =>
                request[c].base \in DOMAIN log /\ log[request[c].base] = msg
  BY <1>1, <1>2, Zenon DEF AttemptServed, PlacedAt
<1> QED
  BY <1>2, <1>3, Zenon

LEMMA ServedNext ==
    ASSUME SerialProducer, Typed, ClientInv, DedupInv, CheckpointInv, SendInv, ServedInv,
           [ProducerNext]_allVars
    PROVE  ServedInv'
<1>a. /\ DOMAIN log' = 0 .. highWater' - 1
      /\ \A o \in DOMAIN log : o \in DOMAIN log' /\ log'[o] = log[o]
  BY LogGrows, Zenon DEF ServedInv
<1>b. /\ idempSeq \in Nat /\ dedup[Self].seq \in Int /\ dedup[Self].seq < idempSeq
      /\ Self \in Producer \ Expiring /\ Self # NoProducer
  <2>1. Self \in Producer \ Expiring /\ Self # NoProducer
    BY ProducerAssumption, BrokerAssumption, Zenon DEF SerialProducer
  <2>2. dedup[Self].seq \in Int
    BY <2>1 DEF Typed, DedupTyped, Checkpoint
  <2> QED
    BY <2>1, <2>2 DEF ClientInv, ClientTyped, ServedInv
<1>c. \A c \in Attempt : c[1] \in Rpc /\ c \in Caller /\ AttemptServed(c)
  BY AttemptFacts, Zenon DEF ServedInv, AttemptServed
<1>d. \A c \in Attempt : RequestOK(request[c], call[c], rpc[c[1]], c[2])
  BY Zenon DEF ClientInv, RequestInv
<1>e. /\ call \in [Caller -> CallState] /\ request \in [Attempt -> RequestState]
      /\ rpc \in [Rpc -> RpcState]
  BY Zenon DEF ClientInv, ClientTyped, Typed, PublishTyped
<1>f. SUFFICES dedup'[Self].seq < idempSeq' /\ \A c \in Attempt : AttemptServed(c)'
  BY <1>a, Zenon DEF ServedInv, AttemptServed
<1>g. ASSUME NEW c \in Attempt, rpc'[c[1]] = rpc[c[1]], call'[c] = call[c],
             request'[c] = request[c]
      PROVE  AttemptServed(c)'
  <2>1. Live(c[1])' => Live(c[1])
    BY <1>g, Zenon DEF Live
  <2> QED
    BY <1>a, <1>c, <1>g, <2>1, AttemptKept, Zenon
<1>1. CASE /\ UNCHANGED <<rpc, request, call, dedup>>
           /\ idempSeq' \in {idempSeq, idempSeq + 1}
  BY <1>1, <1>b, <1>g
<1>2. ASSUME NEW g \in Sender, NEW r \in Rpc, PublishRecord(g, g, r)
      PROVE  dedup'[Self].seq < idempSeq' /\ \A c \in Attempt : AttemptServed(c)'
  <2>1. /\ UNCHANGED <<request, call, dedup, idempSeq>> /\ rpc[r].pc = "unused"
        /\ \A q \in Rpc \ {r} : rpc'[q] = rpc[q]
    BY <1>e, <1>2, Zenon DEF PublishRecord, IsNextRpc, brokerVars, vars, publishVars, dedupVars
  <2>2. ASSUME NEW c \in Attempt, c[1] = r
        PROVE  AttemptServed(c)'
    <3>1. request[c].pc = "none" /\ call[c].pc = "idle"
      BY <1>d, <2>1, <2>2, Zenon DEF RequestOK
    <3> QED
      BY <2>1, <3>1, Zenon DEF AttemptServed
  <2> QED
    BY <1>b, <1>c, <1>g, <2>1, <2>2, Zenon
<1>3. ASSUME NEW r \in Rpc, RpcStep(r)
      PROVE  dedup'[Self].seq < idempSeq' /\ \A c \in Attempt : AttemptServed(c)'
  <2>1. /\ UNCHANGED <<call, dedup, idempSeq>> /\ Live(r)
        /\ \A q \in Rpc \ {r} : rpc'[q] = rpc[q]
        /\ rpc'[r].batch = rpc[r].batch
    BY <1>e, <1>3 DEF RpcStep, Issue, Retry, RpcFails, RpcAnswered, Live, RpcState,
       brokerVars, vars, publishVars, dedupVars
  <2>2. \A c \in Attempt : request'[c].pc = "answered" => request'[c] = request[c]
    <3>1. CASE Issue(r)
      <4>1. request' = [request EXCEPT ![<<r, rpc[r].attempt>>].pc = "queued"]
        BY <3>1, Zenon DEF Issue
      <4> QED
        BY <1>e, <4>1, Zenon DEF RequestState
    <3>2. CASE Retry(r) \/ RpcFails(r) \/ RpcAnswered(r)
      BY <3>2, Zenon DEF Retry, RpcFails, RpcAnswered
    <3> QED
      BY <1>3, <3>1, <3>2, Zenon DEF RpcStep
  <2>3. ASSUME NEW c \in Attempt
        PROVE  AttemptServed(c)'
    <3>1. rpc'[c[1]].batch = rpc[c[1]].batch /\ (Live(c[1])' => Live(c[1]))
      BY <1>c, <2>1, Zenon DEF Live
    <3> QED
      BY <1>a, <1>c, <2>1, <2>2, <3>1, AttemptKept, Zenon
  <2> QED
    BY <1>b, <2>1, <2>3, Zenon
<1>4. ASSUME NEW c \in Attempt, Serve(c)
      PROVE  dedup'[Self].seq < idempSeq' /\ \A d \in Attempt : AttemptServed(d)'
  <2>1. UNCHANGED <<rpc, request, idempSeq>> /\ request[c].pc = "queued"
    BY <1>4, Zenon DEF Serve, clientVars
  <2>2. PICK msg \in Message :
            /\ msg = rpc[c[1]].batch[1].msg /\ msg.producer = Self
            /\ msg.seq \in 0 .. idempSeq - 1
            /\ Live(c[1]) => msg = Stamped(idempSeq - 1)
            /\ PublishRetry(c, msg) \/ PublishAppend(c, msg)
    BY <1>4, <2>1, SerialRecord, Zenon DEF Serve
  <2>3. /\ dedup'[Self].seq < idempSeq
        /\ \A d \in Caller \ {c} : call'[d] = call[d]
        /\ Live(c[1]) => call'[c].offset \in DOMAIN log' /\ log'[call'[c].offset] = msg
    BY <1>b, <1>c, <2>2, PublishPlaces, Zenon
  <2>4. AttemptServed(c)'
    BY <2>1, <2>2, <2>3, Zenon DEF AttemptServed, PlacedAt, Live
  <2> QED
    BY <1>c, <1>g, <2>1, <2>3, <2>4, Zenon
<1>5. ASSUME NEW c \in Attempt, ServePublished(c) \/ ServeNext(c)
      PROVE  dedup'[Self].seq < idempSeq' /\ \A d \in Attempt : AttemptServed(d)'
  <2>1. /\ UNCHANGED <<rpc, dedup, idempSeq>> /\ call[c].pc # "idle"
        /\ \A d \in Attempt \ {c} : call'[d] = call[d] /\ request'[d] = request[d]
    BY <1>c, <1>e, <1>5, Zenon DEF ServePublished, ServeNext, PublishDone, Return, clientVars,
       dedupVars
  <2>2. request[c].pc = "queued" /\ request[c].at = 1
    <3>1. request[c].pc = "queued"
      BY <1>d, <2>1, Zenon DEF RequestOK
    <3> QED
      BY <3>1, SerialRecord, Zenon
  <2>3. rpc'[c[1]].batch = rpc[c[1]].batch /\ (Live(c[1])' => Live(c[1]))
    BY <2>1, Zenon DEF Live
  <2>4. ASSUME ServePublished(c)
        PROVE  AttemptServed(c)'
    <3>1. request' = request /\ call'[c].offset = call[c].offset
      BY <1>c, <1>e, <2>4, Zenon DEF ServePublished, PublishDone, clientVars, CallState
    <3> QED
      BY <1>a, <1>c, <2>1, <2>2, <2>3, <3>1, AttemptKept, Zenon
  <2>5. ASSUME ServeNext(c)
        PROVE  AttemptServed(c)'
    <3>1. call'[c].pc = "idle" /\ request'[c].base = call[c].offset
      BY <1>c, <1>e, <2>2, <2>5, Zenon DEF ServeNext, Return, IdleCall
    <3> QED
      BY <1>a, <1>c, <2>1, <2>3, <3>1, AttemptKept, Zenon
  <2> QED
    BY <1>b, <1>c, <1>g, <1>5, <2>1, <2>4, <2>5, Zenon
<1>6. ASSUME NEW c \in Other, OtherPublish(c)
      PROVE  dedup'[Self].seq < idempSeq' /\ \A d \in Attempt : AttemptServed(d)'
  <2>1. /\ UNCHANGED <<rpc, request, dedup, idempSeq>>
        /\ \A d \in Attempt : call'[d] = call[d]
    BY <1>e, <1>6, AttemptFacts, Zenon DEF OtherPublish, PublishAppend, PublishDone, Return,
       clientVars, dedupVars, Plain
  <2> QED
    BY <1>b, <1>g, <2>1, Zenon
<1>7. CASE BrokerRestart
  <2>1. /\ UNCHANGED <<rpc, idempSeq>> /\ dedup' = Hydrated(persisted)
    BY <1>7, RestartKeeps, Zenon DEF BrokerRestart
  <2>2. dedup'[Self].seq = dedup[Self].seq
    BY <1>b, <2>1, Zenon DEF DedupInv
  <2>3. ASSUME NEW c \in Attempt
        PROVE  AttemptServed(c)'
    <3>1. call'[c].pc = "idle"
      BY <1>7, <1>c, Zenon DEF BrokerRestart, CleanRestart, Restart, IdleCall
    <3>2. request'[c].pc = "answered" => request'[c] = request[c]
      BY <1>7, <1>e, Zenon DEF BrokerRestart, RequestState
    <3> QED
      BY <1>a, <1>c, <2>1, <3>1, <3>2, AttemptKept, Zenon DEF Live
  <2> QED
    BY <1>b, <2>1, <2>2, <2>3, Zenon
<1>8. CASE UNCHANGED allVars
  <2>1. UNCHANGED <<rpc, request, call, dedup, idempSeq>>
    BY <1>8, Zenon DEF allVars, brokerVars, vars, publishVars, dedupVars, clientVars
  <2> QED
    BY <1>1, <2>1, Zenon
<1>9. \A r \in Rpc : ~TakeBatch(r)
  BY Zenon DEF TakeBatch, SendInv
<1>10. ASSUME NEW g \in Sender, NEW by \in Waiters(g)
       PROVE  by = g
  BY Zenon DEF Waiters, SerialProducer
<1> QED
  BY <1>e, <1>1, <1>2, <1>3, <1>4, <1>5, <1>6, <1>7, <1>8, <1>9, <1>10, ClientFrame, Zenon
     DEF ServeStep

(***************************************************************************)
(* What has been acknowledged is in the log where the sender was told.     *)
(***************************************************************************)
LEMMA AckedNext ==
    ASSUME SerialProducer, Typed, ClientInv, SendInv, ServedInv, AckedInv,
           [ProducerNext]_allVars
    PROVE  AckedInv'
<1>1. \A o \in DOMAIN log : o \in DOMAIN log' /\ log'[o] = log[o]
  BY LogGrows, Zenon DEF ServedInv
<1>2. CASE acked' = acked
  BY <1>1, <1>2, Zenon DEF AckedInv
<1>3. ASSUME NEW r \in Rpc, RpcAnswered(r)
      PROVE  AckedInv'
  <2> DEFINE c == <<r, rpc[r].attempt>>
             batch == rpc[r].batch
  <2>1. /\ Live(r) /\ rpc[r].pc # "unused" /\ request[c].pc = "answered" /\ c \in Attempt
        /\ request[c].base \in Nat \union {-1}
    <3>1. c \in Attempt
      BY AttemptFacts, Zenon DEF ClientInv, ClientTyped, RpcState
    <3> QED
      BY <1>3, <3>1, Zenon DEF RpcAnswered, Live, ClientInv, ClientTyped, RequestState
  <2>2. PICK g \in Sender, seq \in 0 .. idempSeq - 1 :
                batch = <<[by |-> g, msg |-> Stamped(seq)]>>
    BY <2>1, Zenon DEF SendInv
  <2>3. /\ DOMAIN batch = {1} /\ batch[1].msg = Stamped(seq) /\ batch[1].by # NoSender
    BY <2>2, ProducerAssumption
  <2>4. request[c].base \in DOMAIN log /\ log[request[c].base] = Stamped(seq)
    <3>1. PlacedAt(c[1], request[c].base) /\ c[1] = r
      BY <2>1, Zenon DEF ServedInv
    <3> QED
      BY <2>3, <3>1, Zenon DEF PlacedAt
  <2>5. acked' = acked \union
            {[msg |-> batch[i].msg, offset |-> IF batch[i].by = NoSender THEN -1
                                               ELSE request[c].base + i - 1] : i \in DOMAIN batch}
    BY <1>3, Zenon DEF RpcAnswered
  <2>6. ASSUME NEW a \in acked', a \notin acked
        PROVE  a.msg = Stamped(seq) /\ a.offset = request[c].base
    <3>1. a = [msg |-> batch[1].msg, offset |-> request[c].base + 1 - 1]
      <4> HIDE DEF batch, c
      <4> QED
        BY <2>3, <2>5, <2>6, Zenon
    <3> QED
      BY <2>1, <2>3, <3>1
  <2> HIDE DEF batch, c
  <2> QED
    BY <1>1, <2>4, <2>6 DEF AckedInv, Stamped
<1>4. ASSUME NEW r \in Rpc, RpcStep(r), ~RpcAnswered(r)
      PROVE  acked' = acked
  BY <1>4, Zenon DEF RpcStep, Issue, Retry, RpcFails
<1>5. ASSUME NEW c \in DOMAIN request, ServeStep(c)
      PROVE  acked' = acked
  BY <1>5, Zenon DEF ServeStep, Serve, ServePublished, ServeNext, clientVars
<1>6. ASSUME NEW c \in Other, OtherPublish(c)
      PROVE  acked' = acked
  BY <1>6, Zenon DEF OtherPublish, clientVars
<1>7. CASE BrokerRestart \/ UNCHANGED allVars
  BY <1>2, <1>7, Zenon DEF BrokerRestart, allVars, clientVars
<1>8. ASSUME NEW g \in Sender, NEW by, NEW r \in Rpc, PublishRecord(g, by, r) \/ TakeBatch(r)
      PROVE  acked' = acked
  BY <1>8, Zenon DEF PublishRecord, TakeBatch
<1>9. \A r \in Rpc : ~TakeBatch(r)
  BY Zenon DEF TakeBatch, SendInv
<1> QED
  BY <1>2, <1>3, <1>4, <1>5, <1>6, <1>7, <1>8, <1>9, ClientFrame, Zenon

LEMMA SerialHolds ==
    ASSUME SerialProducer
    PROVE  ProducerSpec => []SerialInv
<1>1. ProducerInit => SerialInv
  BY SerialInit, Zenon
<1>2. Typed /\ LockInv /\ ClientInv /\ DedupInv /\ CheckpointInv /\ SerialInv
            /\ [ProducerNext]_allVars => SerialInv'
  <2> SUFFICES ASSUME Typed, LockInv, ClientInv, DedupInv, CheckpointInv,
                      SerialInv, [ProducerNext]_allVars
               PROVE  SerialInv'
    BY Zenon
  <2>1. SendInv /\ ServedInv /\ AckedInv
    BY Zenon DEF SerialInv
  <2>2. SendInv' /\ ServedInv' /\ AckedInv'
    BY <2>1, SendNext, ServedNext, AckedNext, Zenon
  <2> QED
    BY <2>2, Zenon DEF SerialInv
<1> QED
  BY <1>1, <1>2, ClientHolds, ProducerDrivesBroker, DedupHolds, CheckpointHolds, PTL
     DEF ProducerSpec

(***************************************************************************)
(* For a producer whose records go out one at a time, Send is exactly      *)
(* once: an acknowledged record is in the log once, at the offset Send     *)
(* returned, whatever connections break before or after the request, late  *)
(* requests the server still serves, other publishers and clean restarts.  *)
(***************************************************************************)
THEOREM SerialSendsAreExactlyOnce ==
    ASSUME SerialProducer
    PROVE  ProducerSpec => []AckedOnceAtOffset
<1>1. Typed /\ SerialInv /\ ProducerOrder => AckedOnceAtOffset
  <2> SUFFICES ASSUME Typed, SerialInv, ProducerOrder, NEW a \in acked
               PROVE  Copies(a.msg) = {a.offset} /\ a.offset \in DOMAIN log
    BY Zenon DEF AckedOnceAtOffset
  <2>1. a.msg.producer = Self /\ a.offset \in DOMAIN log /\ log[a.offset] = a.msg
    BY Zenon DEF SerialInv, AckedInv
  <2>2. Self \in Producer \ Expiring
    BY ProducerAssumption, Zenon DEF SerialProducer
  <2>3. /\ \A o \in DOMAIN log : o \in Int
        /\ \A o \in DOMAIN log : log[o].seq \in Int
    BY MessageFields DEF Typed, StoreTyped
  <2>4. ASSUME NEW o \in DOMAIN log, log[o] = a.msg
        PROVE  o = a.offset
    <3>1. CASE o < a.offset
      BY <2>1, <2>2, <2>3, <2>4, <3>1, SMTT(30) DEF ProducerOrder
    <3>2. CASE a.offset < o
      BY <2>1, <2>2, <2>3, <2>4, <3>2 DEF ProducerOrder
    <3> QED
      BY <2>1, <2>3, <3>1, <3>2
  <2> QED
    BY <2>1, <2>4 DEF Copies
<1> QED
  BY <1>1, SerialHolds, ClientHolds, ProducerDrivesBroker, RetriesKeepOrder, PTL

=============================================================================
