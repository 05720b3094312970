---------------------------- MODULE BrokerProofs ----------------------------
(***************************************************************************)
(* Theorems about one partition of the broker core, for any number of      *)
(* publishers, subscriptions and producers, any buffer and batch size.     *)
(***************************************************************************)
EXTENDS Broker, SequenceTheorems, FiniteSetTheorems, WellFoundedInduction, TLAPS

-----------------------------------------------------------------------------
(***************************************************************************)
(* Who holds ps.mu, and the subscribers a Publish has still to serve.      *)
(***************************************************************************)
Distinct(seq) == \A i, j \in DOMAIN seq : i # j => seq[i] # seq[j]

Registered(s) == \E i \in DOMAIN subscribers : subscribers[i] = s

LockInv ==
    /\ Distinct(subscribers)
    /\ \A s \in Subscription :
        Registered(s) <=> pump[s].pc \notin {"none", "closed"}
    /\ \A c \in Caller : call[c].pc = "fanout" =>
        /\ holder = {c}
        /\ call[c].offset = highWater - 1
        /\ Distinct(call[c].todo)
        /\ \A i \in DOMAIN call[c].todo : Registered(call[c].todo[i])

-----------------------------------------------------------------------------
(***************************************************************************)
(* Typing.                                                                 *)
(***************************************************************************)
CallState == [pc : {"idle", "fanout", "returned"}, msg : Message,
              offset : Nat \union {-1}, todo : Seq(Subscription)]

PumpState == [pc : {"none", "read", "send", "live", "forward", "exiting",
                    "closed"},
              from : Nat, cursor : Nat, hw : Nat, hand : SUBSET Nat, got : Nat]

DedupEntry == [msg : Message, offset : Nat]

Checkpoint == [seq : Nat \union {-1}, offset : Nat \union {-1}, stale : BOOLEAN]

(***************************************************************************)
(* The initial values of a caller, a pump and a checkpoint are well-typed. *)
(***************************************************************************)
LEMMA InitialValues ==
    /\ IdleCall \in CallState
    /\ NoPump \in PumpState
    /\ NoCheckpoint \in Checkpoint
  BY DEF IdleCall, NoPump, NoCheckpoint, CallState, PumpState, Checkpoint, Message

(***************************************************************************)
(* A message has a sequence number; one with a producer is that producer's.*)
(***************************************************************************)
LEMMA MessageFields ==
    ASSUME NEW msg \in Message
    PROVE  msg.seq \in Nat /\ (msg.producer # NoProducer => msg.producer \in Producer)
  BY BrokerAssumption DEF Message

(***************************************************************************)
(* Eviction and hydration yield checkpoint tables.                         *)
(***************************************************************************)
LEMMA CheckpointTables ==
    ASSUME TypeOK
    PROVE  \A msg : KeptCheckpoints(msg) \in [Producer -> Checkpoint]
  BY InitialValues, Zenon DEF TypeOK, KeptCheckpoints, Checkpoint

(***************************************************************************)
(* The least and the greatest of a set of offsets or positions.            *)
(***************************************************************************)
LEMMA MinIs ==
    ASSUME NEW S \in SUBSET Int, NEW a \in S, \A y \in S : a <= y
    PROVE  Min(S) = a
<1>1. \A x \in S : (\A y \in S : x =< y) => x = a
  OBVIOUS
<1> QED
  BY <1>1, Zenon DEF Min

LEMMA MaxIs ==
    ASSUME NEW S \in SUBSET Int, NEW a \in S, \A y \in S : a >= y
    PROVE  Max(S) = a
<1>1. \A x \in S : (\A y \in S : x >= y) => x = a
  OBVIOUS
<1> QED
  BY <1>1, Zenon DEF Max

(***************************************************************************)
(* A non-empty set of naturals has a least element, and a bounded one has  *)
(* a greatest.                                                             *)
(***************************************************************************)
LEMMA LeastExists ==
    ASSUME NEW S \in SUBSET Nat, S # {}
    PROVE  \E x \in S : \A y \in S : x <= y
<1> DEFINE R == {p \in Nat \X Nat : p[1] < p[2]}
<1>1. IsWellFoundedOn(R, Nat)
  BY NatLessThanWellFounded, Zenon DEF OpToRel
<1>2. PICK x \in S : \A y \in S : <<y, x>> \notin R
  <2> HIDE DEF R
  <2> QED
    BY <1>1, WFMin, Zenon
<1>3. ASSUME NEW y \in S, y < x PROVE FALSE
  <2>1. <<y, x>> \in R
    BY <1>3, Zenon
  <2> QED
    BY <2>1, <1>2, Zenon
<1> QED
  BY <1>3

LEMMA MinOfNats ==
    ASSUME NEW S \in SUBSET Nat, S # {}
    PROVE  Min(S) \in S /\ \A y \in S : Min(S) <= y
  BY LeastExists, MinIs

LEMMA MaxOfBounded ==
    ASSUME NEW n \in Nat, NEW S \in SUBSET (0 .. n), S # {}
    PROVE  Max(S) \in S /\ \A y \in S : Max(S) >= y
<1> DEFINE bounds == {k \in 0 .. n : \A y \in S : y <= k}
<1>1. n \in bounds
  OBVIOUS
<1>2. PICK b \in bounds : \A k \in bounds : b <= k
  <2>1. bounds \in SUBSET Nat /\ bounds # {}
    BY <1>1
  <2> HIDE DEF bounds
  <2> QED
    BY <2>1, LeastExists, Zenon
<1>3. b \in S
  <2>1. CASE b = 0
    <3>1. PICK y \in S : y <= b
      BY <1>2, Zenon
    <3> QED
      BY <2>1, <3>1
  <2>2. CASE b > 0
    <3>1. b - 1 \notin bounds
      BY <1>2
    <3>2. PICK y \in S : y > b - 1
      BY <3>1, <2>2
    <3> QED
      BY <3>2
  <2> QED
    BY <2>1, <2>2
<1>4. \A y \in S : b >= y
  BY <1>2, Zenon
<1>5. Max(S) = b
  BY <1>3, <1>4, MaxIs
<1> QED
  BY <1>3, <1>4, <1>5, Zenon

(***************************************************************************)
(* A read of the store returns finitely many offsets.                      *)
(***************************************************************************)
LEMMA ReadIsFinite ==
    ASSUME TypeOK, NEW from \in Nat, NEW max \in Nat
    PROVE  /\ Read(from, max) \in SUBSET Nat
           /\ Cardinality(Read(from, max)) \in Nat
<1> USE DEF TypeOK
<1>1. IsFiniteSet(0 .. highWater - 1)
  <2>1. highWater - 1 \in Int /\ 0 \in Int
    OBVIOUS
  <2> QED
    BY <2>1, FS_Interval, Zenon
<1>2. Read(from, max) \subseteq 0 .. highWater - 1
  BY Zenon DEF Read
<1>3. IsFiniteSet(Read(from, max))
  BY <1>1, <1>2, FS_Subset, Zenon
<1> QED
  BY <1>2, <1>3, FS_CardinalityType

(***************************************************************************)
(* What is left of a list after removeSubscriber.                          *)
(***************************************************************************)
Without(seq, i) == SubSeq(seq, 1, i - 1) \o SubSeq(seq, i + 1, Len(seq))

LEMMA WithoutProperties ==
    ASSUME NEW S, NEW seq \in Seq(S), NEW i \in 1 .. Len(seq)
    PROVE  /\ Without(seq, i) \in Seq(S)
           /\ Len(Without(seq, i)) = Len(seq) - 1
           /\ \A k \in 1 .. i - 1 : Without(seq, i)[k] = seq[k]
           /\ \A k \in i .. Len(seq) - 1 : Without(seq, i)[k] = seq[k + 1]
<1> DEFINE a == SubSeq(seq, 1, i - 1)
           b == SubSeq(seq, i + 1, Len(seq))
<1>1. a \in Seq(S) /\ Len(a) = i - 1 /\ \A k \in 1 .. i - 1 : a[k] = seq[k]
  OBVIOUS
<1>2. /\ b \in Seq(S) /\ Len(b) = Len(seq) - i
      /\ \A k \in 1 .. Len(seq) - i : b[k] = seq[k + i]
  OBVIOUS
<1>3. Without(seq, i) = a \o b
  BY Zenon DEF Without
<1> HIDE DEF a, b
<1>4. a \o b \in Seq(S) /\ Len(a \o b) = Len(seq) - 1
  <2>1. a \o b \in Seq(S)
    BY <1>1, <1>2
  <2>2. Len(a \o b) = Len(a) + Len(b)
    BY <1>1, <1>2, ConcatProperties, Zenon
  <2> QED
    BY <1>1, <1>2, <2>1, <2>2
<1>5. ASSUME NEW k \in 1 .. i - 1
      PROVE  (a \o b)[k] = seq[k]
  BY <1>1, <1>2
<1>6. ASSUME NEW k \in i .. Len(seq) - 1
      PROVE  (a \o b)[k] = seq[k + 1]
  <2>1. k - (i - 1) \in 1 .. Len(seq) - i /\ (k - (i - 1)) + i = k + 1
    OBVIOUS
  <2>2. (a \o b)[k] = b[k - (i - 1)]
    BY <1>1, <1>2
  <2> QED
    BY <1>2, <2>1, <2>2, Zenon
<1> QED
  BY <1>3, <1>4, <1>5, <1>6, Zenon

(***************************************************************************)
(* Hydration yields a checkpoint table.                                    *)
(***************************************************************************)
LEMMA HydratedTable ==
    ASSUME NEW entries \in Seq(DedupEntry)
    PROVE  Hydrated(entries) \in [Producer -> Checkpoint]
<1> SUFFICES ASSUME NEW p \in Producer
             PROVE  Hydrated(entries)[p] \in Checkpoint
  BY Zenon DEF Hydrated
<1> DEFINE of == {i \in DOMAIN entries : entries[i].msg.producer = p}
<1>1. CASE of = {}
  BY <1>1, InitialValues, Zenon DEF Hydrated
<1>2. CASE of # {}
  <2>1. of \in SUBSET (0 .. Len(entries)) /\ Len(entries) \in Nat
    OBVIOUS
  <2>2. Max(of) \in of
    <3> HIDE DEF of
    <3> QED
      BY <1>2, <2>1, MaxOfBounded, Zenon
  <2>3. PICK k \in DOMAIN entries : k = Max(of)
    BY <2>2, Zenon
  <2>4. entries[k] \in DedupEntry
    OBVIOUS
  <2>5. entries[k].msg.seq \in Nat /\ entries[k].offset \in Nat
    BY <2>4, MessageFields, Zenon DEF DedupEntry
  <2>6. Hydrated(entries)[p] =
            [seq |-> entries[k].msg.seq, offset |-> entries[k].offset,
             stale |-> FALSE]
    BY <1>2, <2>3, Zenon DEF Hydrated
  <2> QED
    BY <2>5, <2>6 DEF Checkpoint
<1> QED
  BY <1>1, <1>2, Zenon

(***************************************************************************)
(* The types by component.  A pump that has something to send has a record *)
(* in its hand.                                                            *)
(***************************************************************************)
StoreTyped ==
    /\ highWater \in Nat
    /\ log \in [DOMAIN log -> Message] /\ DOMAIN log \subseteq 0 .. highWater - 1
    /\ reclaims \in 0 .. MaxReclaim

CallTyped(k) == k \in CallState /\ (k.pc = "fanout" => k.offset \in Nat)

PublishTyped ==
    /\ holder \in SUBSET Caller
    /\ call \in [Caller -> CallState]
    /\ \A c \in Caller : CallTyped(call[c])
    /\ skipped \in [Subscription -> SUBSET Nat]

PumpTyped(p) == p \in PumpState /\ (p.pc \in {"send", "forward"} => p.hand # {})

StreamTyped ==
    /\ subscribers \in Seq(Subscription)
    /\ sub \in [Subscription -> Seq(Nat)]
    /\ out \in [Subscription -> Seq(Nat)]
    /\ pump \in [Subscription -> PumpState]
    /\ \A s \in Subscription : PumpTyped(pump[s])
    /\ ended \in SUBSET Subscription
    /\ delivered \in [Subscription -> Seq(Nat)]

DedupTyped ==
    /\ dedup \in [Producer -> Checkpoint]
    /\ persisted \in Seq(DedupEntry)
    /\ restarts \in 0 .. MaxRestart

Typed == StoreTyped /\ PublishTyped /\ StreamTyped /\ DedupTyped

LEMMA TypedIsTypeOK == Typed => TypeOK
  BY Zenon DEF Typed, StoreTyped, PublishTyped, StreamTyped, DedupTyped, TypeOK,
         CallState, PumpState, Checkpoint, DedupEntry, CallTyped

LEMMA TypedInit == Init => Typed
<1> SUFFICES ASSUME Init PROVE Typed
  BY Zenon
<1> USE InitialValues, BrokerAssumption DEF Init
<1>1. StoreTyped
  BY DEF StoreTyped
<1>2. PublishTyped
  BY Zenon DEF PublishTyped, CallTyped, IdleCall
<1>3. StreamTyped
  BY DEF StreamTyped, PumpTyped, NoPump
<1>4. DedupTyped
  BY DEF DedupTyped
<1> QED
  BY <1>1, <1>2, <1>3, <1>4, Zenon DEF Typed

(***************************************************************************)
(* What a step leaves alone stays typed.                                   *)
(***************************************************************************)
LEMMA TypedUnchanged ==
    /\ StoreTyped /\ UNCHANGED storeVars => StoreTyped'
    /\ PublishTyped /\ UNCHANGED publishVars => PublishTyped'
    /\ StreamTyped /\ UNCHANGED streamVars => StreamTyped'
    /\ DedupTyped /\ UNCHANGED <<dedupVars, restarts>> => DedupTyped'
<1>1. StoreTyped /\ UNCHANGED storeVars => StoreTyped'
  BY Zenon DEF StoreTyped, storeVars
<1>2. PublishTyped /\ UNCHANGED publishVars => PublishTyped'
  BY Zenon DEF PublishTyped, publishVars
<1>3. StreamTyped /\ UNCHANGED streamVars => StreamTyped'
  BY Zenon DEF StreamTyped, streamVars
<1>4. DedupTyped /\ UNCHANGED <<dedupVars, restarts>> => DedupTyped'
  BY Zenon DEF DedupTyped, dedupVars
<1> QED
  BY <1>1, <1>2, <1>3, <1>4, Zenon

(***************************************************************************)
(* A step of one caller, or of one pump.                                   *)
(***************************************************************************)
LEMMA CallStep ==
    ASSUME PublishTyped, NEW c \in Caller, NEW new, CallTyped(new),
           call' = [call EXCEPT ![c] = new],
           holder' \in SUBSET Caller, skipped' \in [Subscription -> SUBSET Nat]
    PROVE  PublishTyped'
  BY Zenon DEF PublishTyped, CallTyped

LEMMA PumpStepTyped ==
    ASSUME StreamTyped, NEW s \in Subscription, NEW new, PumpTyped(new),
           pump' = [pump EXCEPT ![s] = new],
           subscribers' \in Seq(Subscription),
           sub' \in [Subscription -> Seq(Nat)],
           out' \in [Subscription -> Seq(Nat)],
           UNCHANGED <<ended, delivered>>
    PROVE  StreamTyped'
  BY Zenon DEF StreamTyped, PumpTyped

(***************************************************************************)
(* The two ways a pump moves its cursor.                                   *)
(***************************************************************************)
LEMMA PumpMoves ==
    ASSUME NEW p \in PumpState, NEW k \in Nat
    PROVE  /\ PumpTyped([p EXCEPT !.pc = "live", !.hand = {}, !.cursor = k])
           /\ PumpTyped([p EXCEPT !.pc = "read", !.cursor = k, !.hand = {}, !.got = 0])
<1>1. PumpTyped([p EXCEPT !.pc = "live", !.hand = {}, !.cursor = k])
  BY Zenon DEF PumpTyped, PumpState
<1>2. PumpTyped([p EXCEPT !.pc = "read", !.cursor = k, !.hand = {}, !.got = 0])
  BY Zenon DEF PumpTyped, PumpState
<1> QED
  BY <1>1, <1>2, Zenon

(***************************************************************************)
(* Every step, a crash included, keeps the types.                          *)
(***************************************************************************)
LEMMA TypedNext == Typed /\ [Next \/ Kill]_vars => Typed'
<1> SUFFICES ASSUME Typed, [Next \/ Kill]_vars
             PROVE  Typed'
  BY Zenon
<1>a. StoreTyped /\ PublishTyped /\ StreamTyped /\ DedupTyped
  BY Zenon DEF Typed
<1>b. TypeOK
  BY TypedIsTypeOK, Zenon
<1> USE <1>a
<1>1. ASSUME NEW c \in Caller, NEW msg \in Message, PublishRetry(c, msg)
      PROVE  Typed'
  <2>1. dedup[msg.producer].offset \in Nat \union {-1}
    BY <1>1, MessageFields, Zenon DEF PublishRetry, IsRetry, DedupTyped, Checkpoint
  <2>2. CallTyped([pc |-> "returned", msg |-> msg, todo |-> <<>>,
                   offset |-> dedup[msg.producer].offset])
    BY <2>1 DEF CallTyped, CallState
  <2>3. PublishTyped'
    BY <1>1, <2>2, CallStep, Zenon DEF PublishRetry, PublishTyped
  <2>4. DedupTyped'
    BY <1>1, <1>b, CheckpointTables, Zenon DEF PublishRetry, DedupTyped
  <2> QED
    BY <1>1, <2>3, <2>4, TypedUnchanged, Zenon DEF Typed, PublishRetry
<1>2. ASSUME NEW c \in Caller, NEW msg \in Message, PublishAppend(c, msg)
      PROVE  Typed'
  <2>1. CallTyped([pc |-> "fanout", msg |-> msg, offset |-> highWater,
                   todo |-> subscribers])
    BY Zenon DEF CallTyped, CallState, StoreTyped, StreamTyped
  <2>2. PublishTyped'
    BY <1>2, <2>1, CallStep, Zenon DEF PublishAppend, PublishTyped
  <2>3. StoreTyped'
    BY <1>2 DEF PublishAppend, StoreTyped
  <2>4. DedupTyped'
    <3>1. [seq |-> msg.seq, offset |-> highWater, stale |-> FALSE] \in Checkpoint
      BY MessageFields, Zenon DEF Checkpoint, StoreTyped
    <3>2. [msg |-> msg, offset |-> highWater] \in DedupEntry
      BY Zenon DEF StoreTyped, DedupEntry
    <3>3. KeptCheckpoints(msg) \in [Producer -> Checkpoint]
      BY <1>b, CheckpointTables, Zenon
    <3>4. dedup' \in [Producer -> Checkpoint]
      BY <1>2, <3>1, <3>3, Zenon DEF PublishAppend, DedupTyped, dedupVars
    <3>5. persisted' \in Seq(DedupEntry)
      BY <1>2, <3>2, SMTT(30) DEF PublishAppend, DedupTyped, dedupVars
    <3> QED
      BY <1>2, <3>4, <3>5, Zenon DEF PublishAppend, DedupTyped
  <2> QED
    BY <1>2, <2>2, <2>3, <2>4, TypedUnchanged, Zenon DEF Typed, PublishAppend
<1>3. ASSUME NEW c \in Caller, FanOut(c)
      PROVE  Typed'
  <2>a. CallTyped(call[c])
    BY Zenon DEF PublishTyped
  <2>b. /\ Tail(call[c].todo) \in Seq(Subscription)
        /\ Head(call[c].todo) \in Subscription
        /\ call[c].offset \in Nat
    BY <1>3, <2>a DEF FanOut, CallTyped, CallState
  <2>1. CallTyped([call[c] EXCEPT !.todo = Tail(@)])
    BY <2>a, <2>b, Zenon DEF CallTyped, CallState
  <2>2. PublishTyped'
    BY <1>3, <2>1, CallStep, Zenon DEF FanOut, PublishTyped
  <2>3. StreamTyped'
    <3>1. sub' \in [Subscription -> Seq(Nat)]
      BY <1>3, <2>b, SMTT(30) DEF FanOut, StreamTyped
    <3> QED
      BY <1>3, <3>1, Zenon DEF FanOut, StreamTyped
  <2> QED
    BY <1>3, <2>2, <2>3, TypedUnchanged, Zenon DEF Typed, FanOut
<1>4. ASSUME NEW c \in Caller, PublishDone(c)
      PROVE  Typed'
  <2>1. CallTyped([call[c] EXCEPT !.pc = "returned"])
    BY Zenon DEF PublishTyped, CallTyped, CallState
  <2>2. PublishTyped'
    BY <1>4, <2>1, CallStep, Zenon DEF PublishDone, PublishTyped
  <2> QED
    BY <1>4, <2>2, TypedUnchanged, Zenon DEF Typed, PublishDone
<1>5. ASSUME NEW c \in Caller, PublishCancelled(c)
      PROVE  Typed'
  <2>a. CallTyped(IdleCall)
    BY InitialValues, Zenon DEF CallTyped, IdleCall
  <2>1. call[c].offset \in Nat
    BY <1>5, Zenon DEF PublishCancelled, PublishTyped, CallTyped
  <2>2. skipped' \in [Subscription -> SUBSET Nat]
    BY <1>5, <2>1, Zenon DEF PublishCancelled, PublishTyped
  <2>3. PublishTyped'
    BY <1>5, <2>2, <2>a, CallStep, Zenon DEF PublishCancelled
  <2> QED
    BY <1>5, <2>3, TypedUnchanged, Zenon DEF Typed, PublishCancelled
<1>6. ASSUME NEW c \in Caller, Return(c)
      PROVE  Typed'
  <2>1. CallTyped(IdleCall)
    BY InitialValues, Zenon DEF CallTyped, IdleCall
  <2>2. PublishTyped'
    BY <1>6, <2>1, CallStep, Zenon DEF Return, PublishTyped
  <2> QED
    BY <1>6, <2>2, TypedUnchanged, Zenon DEF Typed, Return
<1>7. ASSUME NEW s \in Subscription, NEW from \in 0 .. MaxOffset, Subscribe(s, from)
      PROVE  Typed'
  <2> DEFINE new == [NoPump EXCEPT !.pc = "read", !.from = from, !.cursor = from,
                                   !.hw = highWater]
  <2>0. from \in Nat /\ highWater \in Nat
    BY BrokerAssumption DEF StoreTyped
  <2>1. PumpTyped(new)
    BY <2>0, Zenon DEF PumpTyped, PumpState, NoPump
  <2>2. StreamTyped'
    <3>1. pump' = [pump EXCEPT ![s] = new] /\ subscribers' \in Seq(Subscription)
      BY <1>7 DEF Subscribe, StreamTyped
    <3> HIDE DEF new
    <3> QED
      BY <1>7, <2>1, <3>1, PumpStepTyped, Zenon DEF Subscribe, StreamTyped
  <2> QED
    BY <1>7, <2>2, TypedUnchanged, Zenon DEF Typed, Subscribe
<1>8. ASSUME NEW s \in Subscription, PumpRead(s)
      PROVE  Typed'
  <2> DEFINE recs == Read(pump[s].cursor, CatchUpBatch)
             new == IF pump[s].cursor >= pump[s].hw
                    THEN [pump[s] EXCEPT !.pc = "live"]
                    ELSE IF s \in ended \/ recs = {}
                    THEN [pump[s] EXCEPT !.pc = "exiting"]
                    ELSE [pump[s] EXCEPT !.pc = "send", !.got = Cardinality(recs),
                                         !.hand = recs]
  <2>1. PumpTyped(pump[s])
    BY Zenon DEF StreamTyped
  <2>2. recs \in SUBSET Nat /\ Cardinality(recs) \in Nat
    BY <1>b, <2>1, ReadIsFinite, BrokerAssumption, Zenon DEF PumpTyped, PumpState
  <2>3. PumpTyped(new)
    <3> HIDE DEF recs
    <3> QED
      BY <2>1, <2>2, Zenon DEF PumpTyped, PumpState
  <2>4. pump' = [pump EXCEPT ![s] = new]
    BY <1>8, Zenon DEF PumpRead
  <2>5. StreamTyped'
    <3> HIDE DEF new
    <3> QED
      BY <1>8, <2>3, <2>4, PumpStepTyped, Zenon DEF PumpRead, StreamTyped
  <2> QED
    BY <1>8, <2>5, TypedUnchanged, Zenon DEF Typed, PumpRead
<1>9. ASSUME NEW s \in Subscription, PumpSend(s)
      PROVE  Typed'
  <2> DEFINE rest == pump[s].hand \ {Min(pump[s].hand)}
             new == IF rest # {} THEN [pump[s] EXCEPT !.hand = rest]
                    ELSE [pump[s] EXCEPT !.pc = "read",
                                         !.cursor = pump[s].cursor + pump[s].got,
                                         !.hand = {}, !.got = 0]
  <2>1. PumpTyped(pump[s])
    BY Zenon DEF StreamTyped
  <2>2. Min(pump[s].hand) \in Nat
    BY <1>9, <2>1, MinOfNats, Zenon DEF PumpSend, PumpTyped, PumpState
  <2>3. PumpTyped(new)
    <3>1. rest \in SUBSET Nat
      BY <2>1, Zenon DEF PumpTyped, PumpState
    <3> HIDE DEF rest
    <3>2. CASE rest # {}
      BY <2>1, <3>1, <3>2, Zenon DEF PumpTyped, PumpState
    <3>3. CASE rest = {}
      <4>1. pump[s].cursor + pump[s].got \in Nat /\ pump[s] \in PumpState
        BY <2>1 DEF PumpTyped, PumpState
      <4> QED
        BY <3>3, <4>1, PumpMoves, Zenon DEF PumpTyped, PumpState
    <3> QED
      BY <3>2, <3>3, Zenon
  <2>4. pump' = [pump EXCEPT ![s] = new]
    BY <1>9, Zenon DEF PumpSend
  <2>5. StreamTyped'
    <3>1. out' \in [Subscription -> Seq(Nat)]
      BY <1>9, <2>2 DEF PumpSend, StreamTyped
    <3> HIDE DEF new
    <3> QED
      BY <1>9, <2>3, <2>4, <3>1, PumpStepTyped, Zenon DEF PumpSend, StreamTyped
  <2> QED
    BY <1>9, <2>5, TypedUnchanged, Zenon DEF Typed, PumpSend
<1>10. ASSUME NEW s \in Subscription, PumpTake(s)
       PROVE  Typed'
  <2> DEFINE new == IF Head(sub[s]) < pump[s].cursor THEN pump[s]
                    ELSE [pump[s] EXCEPT !.pc = "forward", !.hand = {Head(sub[s])}]
  <2>1. PumpTyped(pump[s]) /\ Head(sub[s]) \in Nat
    BY <1>10 DEF StreamTyped, PumpTake
  <2>2. PumpTyped(new)
    BY <2>1, Zenon DEF PumpTyped, PumpState
  <2>3. pump' = [pump EXCEPT ![s] = new]
    BY <1>10, Zenon DEF PumpTake, StreamTyped
  <2>4. sub' \in [Subscription -> Seq(Nat)]
    BY <1>10 DEF PumpTake, StreamTyped
  <2>5. StreamTyped'
    <3> HIDE DEF new
    <3> QED
      BY <1>10, <2>2, <2>3, <2>4, PumpStepTyped, Zenon DEF PumpTake, StreamTyped
  <2> QED
    BY <1>10, <2>5, TypedUnchanged, Zenon DEF Typed, PumpTake
<1>11. ASSUME NEW s \in Subscription, PumpForward(s)
       PROVE  Typed'
  <2> DEFINE new == [pump[s] EXCEPT !.pc = "live", !.hand = {},
                                    !.cursor = Min(pump[s].hand) + 1]
  <2>1. PumpTyped(pump[s])
    BY Zenon DEF StreamTyped
  <2>2. Min(pump[s].hand) \in Nat
    BY <1>11, <2>1, MinOfNats, Zenon DEF PumpForward, PumpTyped, PumpState
  <2>3. PumpTyped(new)
    <3>1. Min(pump[s].hand) + 1 \in Nat /\ pump[s] \in PumpState
      BY <2>1, <2>2 DEF PumpTyped
    <3> QED
      BY <3>1, PumpMoves, Zenon
  <2>4. pump' = [pump EXCEPT ![s] = new]
    BY <1>11, Zenon DEF PumpForward, StreamTyped
  <2>5. StreamTyped'
    <3>1. out' \in [Subscription -> Seq(Nat)]
      BY <1>11, <2>2 DEF PumpForward, StreamTyped
    <3> HIDE DEF new
    <3> QED
      BY <1>11, <2>3, <2>4, <3>1, PumpStepTyped, Zenon DEF PumpForward, StreamTyped
  <2> QED
    BY <1>11, <2>5, TypedUnchanged, Zenon DEF Typed, PumpForward
<1>12. ASSUME NEW s \in Subscription, PumpCancelled(s)
       PROVE  Typed'
  <2> DEFINE new == [pump[s] EXCEPT !.pc = "exiting", !.hand = {}, !.got = 0]
  <2>1. PumpTyped(new)
    BY Zenon DEF StreamTyped, PumpTyped, PumpState
  <2>2. pump' = [pump EXCEPT ![s] = new]
    BY <1>12, Zenon DEF PumpCancelled, StreamTyped
  <2>3. StreamTyped'
    <3> HIDE DEF new
    <3> QED
      BY <1>12, <2>1, <2>2, PumpStepTyped, Zenon DEF PumpCancelled, StreamTyped
  <2> QED
    BY <1>12, <2>3, TypedUnchanged, Zenon DEF Typed, PumpCancelled
<1>13. ASSUME NEW s \in Subscription, PumpExit(s)
       PROVE  Typed'
  <2>1. PumpTyped([pump[s] EXCEPT !.pc = "closed"])
    BY Zenon DEF StreamTyped, PumpTyped, PumpState
  <2>2. subscribers' \in Seq(Subscription)
    <3>1. PICK i \in DOMAIN subscribers : subscribers' = Without(subscribers, i)
      BY <1>13, Zenon DEF PumpExit, Without
    <3>2. subscribers \in Seq(Subscription) /\ i \in 1 .. Len(subscribers)
      BY DEF StreamTyped
    <3> QED
      BY <3>1, <3>2, WithoutProperties, Zenon
  <2>3. StreamTyped'
    BY <1>13, <2>1, <2>2, PumpStepTyped, Zenon DEF PumpExit, StreamTyped
  <2> QED
    BY <1>13, <2>3, TypedUnchanged, Zenon DEF Typed, PumpExit
<1>14. ASSUME NEW s \in Subscription, Receive(s)
       PROVE  Typed'
  <2>1. StreamTyped'
    BY <1>14 DEF Receive, StreamTyped
  <2> QED
    BY <1>14, <2>1, TypedUnchanged, Zenon DEF Typed, Receive
<1>15. ASSUME NEW s \in Subscription, Unsubscribe(s)
       PROVE  Typed'
  <2>1. StreamTyped'
    BY <1>15, Zenon DEF Unsubscribe, StreamTyped
  <2> QED
    BY <1>15, <2>1, TypedUnchanged, Zenon DEF Typed, Unsubscribe
<1>16. ASSUME NEW gone, Reclaim(gone)
       PROVE  Typed'
  <2>1. StoreTyped'
    BY <1>16, BrokerAssumption DEF Reclaim, StoreTyped
  <2> QED
    BY <1>16, <2>1, TypedUnchanged, Zenon DEF Typed, Reclaim
<1>17. ASSUME NEW p \in Producer, CheckpointAges(p)
       PROVE  Typed'
  <2>1. DedupTyped'
    BY <1>17, Zenon DEF CheckpointAges, DedupTyped, Checkpoint
  <2> QED
    BY <1>17, <2>1, TypedUnchanged, Zenon DEF Typed, CheckpointAges
<1>18. ASSUME NEW n \in 0 .. highWater, NEW m \in 0 .. Len(persisted), Restart(n, m)
       PROVE  Typed'
  <2>1. persisted' \in Seq(DedupEntry)
    <3>1. \A i \in 1 .. m : persisted[i] \in DedupEntry
      BY DEF DedupTyped
    <3> QED
      BY <1>18, <3>1 DEF Restart, DedupTyped
  <2>2. DedupTyped'
    <3>1. dedup' \in [Producer -> Checkpoint]
      BY <1>18, <2>1, HydratedTable, Zenon DEF Restart
    <3> QED
      BY <1>18, <2>1, <3>1, BrokerAssumption DEF Restart, DedupTyped
  <2>3. StoreTyped'
    BY <1>18 DEF Restart, StoreTyped
  <2>4. PublishTyped'
    BY <1>18, InitialValues, Zenon DEF Restart, PublishTyped, CallTyped, IdleCall
  <2>5. StreamTyped'
    BY <1>18, InitialValues DEF Restart, StreamTyped, PumpTyped, NoPump
  <2> QED
    BY <2>2, <2>3, <2>4, <2>5, Zenon DEF Typed
<1>19. ASSUME UNCHANGED vars
       PROVE  Typed'
  BY <1>19, TypedUnchanged, Zenon DEF Typed, vars
<1>20. highWater \in 0 .. highWater /\ Len(persisted) \in 0 .. Len(persisted)
  BY DEF StoreTyped, DedupTyped
<1> QED
  BY Zenon, <1>1, <1>2, <1>3, <1>4, <1>5, <1>6, <1>7, <1>8, <1>9, <1>10, <1>11, <1>12,
     <1>13, <1>14, <1>15, <1>16, <1>17, <1>18, <1>19, <1>20
  DEF Next, Kill, CleanRestart, PublishStep, PumpStep

-----------------------------------------------------------------------------
(***************************************************************************)
(* The lock.                                                               *)
(***************************************************************************)
LEMMA LockInit == Init => LockInv
<1> SUFFICES ASSUME Init PROVE LockInv
  BY Zenon
<1>1. Distinct(subscribers) /\ \A s : ~Registered(s)
  BY DEF Init, Distinct, Registered
<1>2. \A c \in Caller : call[c].pc = "idle"
  BY Zenon DEF Init, IdleCall
<1>3. \A s \in Subscription : pump[s].pc = "none"
  BY Zenon DEF Init, NoPump
<1> QED
  BY <1>1, <1>2, <1>3, Zenon DEF LockInv

(***************************************************************************)
(* A step that keeps the list of subscribers, and moves no pump into or    *)
(* out of it, keeps the lock invariant if each call keeps its share.       *)
(***************************************************************************)
CallInv(c) ==
    call[c].pc = "fanout" =>
        /\ holder = {c}
        /\ call[c].offset = highWater - 1
        /\ Distinct(call[c].todo)
        /\ \A i \in DOMAIN call[c].todo : Registered(call[c].todo[i])

PumpActive(s) == pump[s].pc \notin {"none", "closed"}

LEMMA LockKept ==
    ASSUME LockInv, UNCHANGED subscribers,
           \A s \in Subscription : PumpActive(s)' <=> PumpActive(s),
           \A c \in Caller : CallInv(c)'
    PROVE  LockInv'
<1>1. Distinct(subscribers)' /\ \A s : Registered(s)' <=> Registered(s)
  BY Zenon DEF LockInv, Distinct, Registered
<1> QED
  BY <1>1, Zenon DEF LockInv, CallInv, PumpActive

LEMMA CallsKept ==
    ASSUME LockInv, UNCHANGED <<subscribers, call, holder, highWater>>
    PROVE  \A c \in Caller : CallInv(c)'
  BY DEF LockInv, CallInv, Distinct, Registered

LEMMA LockNext == Typed /\ LockInv /\ [Next \/ Kill]_vars => LockInv'
<1> SUFFICES ASSUME Typed, LockInv, [Next \/ Kill]_vars
             PROVE  LockInv'
  BY Zenon
<1>a. StoreTyped /\ PublishTyped /\ StreamTyped
  BY Zenon DEF Typed
<1>b. \A c \in Caller : CallInv(c)
  BY Zenon DEF LockInv, CallInv
<1>c. \A c, d \in Caller : call[c].pc = "fanout" /\ call[d].pc = "fanout" => c = d
  BY Zenon DEF LockInv
<1>d. holder = {} => \A c \in Caller : call[c].pc # "fanout"
  BY Zenon DEF LockInv
<1>e. UNCHANGED pump => \A s \in Subscription : PumpActive(s)' <=> PumpActive(s)
  BY Zenon DEF PumpActive
<1>1. ASSUME NEW c \in Caller, NEW msg \in Message, PublishRetry(c, msg)
      PROVE  LockInv'
  <2>1. \A d \in Caller : call'[d].pc # "fanout"
    BY <1>1, <1>a, <1>d, Zenon DEF PublishRetry, PublishTyped
  <2> QED
    BY <1>1, <1>e, <2>1, LockKept, Zenon DEF PublishRetry, CallInv, streamVars
<1>2. ASSUME NEW c \in Caller, NEW msg \in Message, PublishAppend(c, msg)
      PROVE  LockInv'
  <2>1. \A d \in Caller : d # c => call'[d].pc # "fanout"
    BY <1>2, <1>a, <1>d, Zenon DEF PublishAppend, PublishTyped
  <2>2. /\ call'[c].offset = highWater /\ call'[c].todo = subscribers
        /\ holder' = {c} /\ highWater' = highWater + 1
        /\ UNCHANGED <<subscribers, pump>>
    BY <1>2, <1>a, Zenon DEF PublishAppend, PublishTyped, streamVars
  <2>3. CallInv(c)'
    <3>1. Distinct(call'[c].todo)
      BY <2>2, Zenon DEF LockInv
    <3>2. (\A i \in DOMAIN call[c].todo : Registered(call[c].todo[i]))'
      BY <2>2, Zenon DEF Registered
    <3>3. call'[c].offset = highWater' - 1
      BY <2>2, <1>a DEF StoreTyped
    <3> QED
      BY <2>2, <3>1, <3>2, <3>3, Zenon DEF CallInv, Distinct
  <2>4. \A d \in Caller : CallInv(d)'
    BY <2>1, <2>3, Zenon DEF CallInv
  <2> QED
    BY <2>2, <2>4, <1>e, LockKept, Zenon
<1>3. ASSUME NEW c \in Caller, FanOut(c)
      PROVE  LockInv'
  <2> DEFINE todo == call[c].todo
  <2>1. /\ call'[c].pc = "fanout" /\ call'[c].todo = Tail(todo)
        /\ call'[c].offset = call[c].offset
        /\ call[c].pc = "fanout" /\ todo # <<>>
        /\ UNCHANGED <<holder, highWater, subscribers, pump>>
    BY <1>3, <1>a, Zenon DEF FanOut, PublishTyped, CallTyped, CallState, storeVars
  <2>2. \A d \in Caller : d # c => call'[d].pc # "fanout"
    BY <1>3, <2>1, <1>a, <1>c, Zenon DEF FanOut, PublishTyped
  <2>3. todo \in Seq(Subscription)
    BY <1>a, Zenon DEF PublishTyped, CallState
  <2>4. /\ DOMAIN Tail(todo) = 1 .. Len(todo) - 1
        /\ \A i \in DOMAIN Tail(todo) : i + 1 \in DOMAIN todo
                                        /\ Tail(todo)[i] = todo[i + 1]
    BY <2>1, <2>3
  <2>5. CallInv(c)
    BY <1>b, Zenon
  <2>6. Distinct(call'[c].todo)
    BY <2>1, <2>3, <2>4, <2>5, SMTT(30) DEF CallInv, Distinct
  <2>7. (\A i \in DOMAIN call[c].todo : Registered(call[c].todo[i]))'
    BY <2>1, <2>4, <2>5, Zenon DEF CallInv, Registered
  <2>8. CallInv(c)'
    BY <2>1, <2>5, <2>6, <2>7, Zenon DEF CallInv, Distinct
  <2>9. \A d \in Caller : CallInv(d)'
    BY <2>2, <2>8, Zenon DEF CallInv
  <2> QED
    BY <2>1, <2>9, <1>e, LockKept, Zenon
<1>4. ASSUME NEW c \in Caller, PublishDone(c)
      PROVE  LockInv'
  <2>1. \A d \in Caller : call'[d].pc # "fanout"
    BY <1>4, <1>a, <1>c, Zenon DEF PublishDone, PublishTyped, CallState
  <2> QED
    BY <1>4, <1>e, <2>1, LockKept, Zenon DEF PublishDone, CallInv, streamVars
<1>5. ASSUME NEW c \in Caller, PublishCancelled(c)
      PROVE  LockInv'
  <2>1. \A d \in Caller : call'[d].pc # "fanout"
    BY <1>5, <1>a, <1>c, Zenon DEF PublishCancelled, PublishTyped, IdleCall
  <2> QED
    BY <1>5, <1>e, <2>1, LockKept, Zenon DEF PublishCancelled, CallInv, streamVars
<1>6. ASSUME NEW c \in Caller, Return(c)
      PROVE  LockInv'
  <2>1. /\ call'[c].pc # "fanout"
        /\ \A d \in Caller : d # c => call'[d] = call[d]
        /\ UNCHANGED <<holder, highWater, subscribers, pump>>
    BY <1>6, <1>a, Zenon DEF Return, PublishTyped, IdleCall, storeVars, streamVars
  <2>2. \A d \in Caller : CallInv(d)'
    BY <2>1, <1>b DEF CallInv, Registered, Distinct
  <2> QED
    BY <2>1, <2>2, <1>e, LockKept, Zenon
<1>7. ASSUME NEW s \in Subscription, NEW from \in 0 .. MaxOffset, Subscribe(s, from)
      PROVE  LockInv'
  <2>1. \A d \in Caller : call'[d].pc # "fanout"
    BY <1>7, <1>d, Zenon DEF Subscribe, publishVars
  <2>2. /\ pump'[s].pc = "read" /\ pump[s].pc = "none"
        /\ \A x \in Subscription : x # s => pump'[x] = pump[x]
    BY <1>7, <1>a, Zenon DEF Subscribe, StreamTyped, NoPump
  <2>3. /\ subscribers \in Seq(Subscription) /\ ~Registered(s)
        /\ subscribers' = Append(subscribers, s)
    BY <1>7, <1>a, <2>2, Zenon DEF StreamTyped, LockInv, Subscribe
  <2>4. /\ DOMAIN subscribers' = 1 .. Len(subscribers) + 1
        /\ \A i \in 1 .. Len(subscribers) : subscribers'[i] = subscribers[i]
        /\ subscribers'[Len(subscribers) + 1] = s
        /\ DOMAIN subscribers = 1 .. Len(subscribers) /\ Len(subscribers) \in Nat
    BY <2>3
  <2>5. Distinct(subscribers)'
    BY <2>3, <2>4 DEF Distinct, LockInv, Registered
  <2>6. \A x \in Subscription : Registered(x)' <=> Registered(x) \/ x = s
    BY <2>4 DEF Registered
  <2> QED
    BY <2>1, <2>2, <2>5, <2>6, Zenon DEF LockInv
<1>8. ASSUME NEW s \in Subscription,
             PumpRead(s) \/ PumpSend(s) \/ PumpTake(s) \/ PumpForward(s)
                \/ PumpCancelled(s)
      PROVE  LockInv'
  <2>1. \A x \in Subscription : x # s => pump'[x] = pump[x]
    BY <1>8, <1>a, Zenon
    DEF StreamTyped, PumpRead, PumpSend, PumpTake, PumpForward, PumpCancelled
  <2>2. PumpActive(s) /\ PumpActive(s)'
    <3>1. CASE PumpRead(s)
      BY <3>1, <1>a, Zenon DEF PumpRead, PumpActive, StreamTyped, PumpState
    <3>2. CASE PumpSend(s)
      BY <3>2, <1>a, Zenon DEF PumpSend, PumpActive, StreamTyped, PumpState
    <3>3. CASE PumpTake(s)
      BY <3>3, <1>a, Zenon DEF PumpTake, PumpActive, StreamTyped, PumpState
    <3>4. CASE PumpForward(s)
      BY <3>4, <1>a, Zenon DEF PumpForward, PumpActive, StreamTyped, PumpState
    <3>5. CASE PumpCancelled(s)
      BY <3>5, <1>a, Zenon DEF PumpCancelled, PumpActive, StreamTyped, PumpState
    <3> QED
      BY <1>8, <3>1, <3>2, <3>3, <3>4, <3>5, Zenon
  <2>3. UNCHANGED <<subscribers, call, holder, highWater>>
    BY <1>8, Zenon DEF PumpRead, PumpSend, PumpTake, PumpForward, PumpCancelled,
                storeVars, publishVars
  <2>4. \A x \in Subscription : PumpActive(x)' <=> PumpActive(x)
    BY <2>1, <2>2, Zenon DEF PumpActive
  <2> QED
    BY <2>3, <2>4, CallsKept, LockKept, Zenon
<1>9. ASSUME NEW s \in Subscription, PumpExit(s)
      PROVE  LockInv'
  <2>1. \A d \in Caller : call'[d].pc # "fanout"
    BY <1>9, <1>d, Zenon DEF PumpExit, publishVars
  <2>2. /\ pump'[s].pc = "closed" /\ pump[s].pc = "exiting"
        /\ \A x \in Subscription : x # s => pump'[x] = pump[x]
    BY <1>9, <1>a, Zenon DEF PumpExit, StreamTyped, PumpState
  <2>3. PICK i \in DOMAIN subscribers :
            subscribers[i] = s /\ subscribers' = Without(subscribers, i)
    BY <1>9, Zenon DEF PumpExit, Without
  <2> DEFINE n == Len(subscribers)
  <2>4. /\ subscribers \in Seq(Subscription) /\ n \in Nat
        /\ i \in 1 .. n /\ DOMAIN subscribers = 1 .. n
    BY <1>a, SMTT(30) DEF StreamTyped
  <2>5. /\ DOMAIN subscribers' = 1 .. n - 1
        /\ \A k \in 1 .. i - 1 : subscribers'[k] = subscribers[k]
        /\ \A k \in i .. n - 1 : subscribers'[k] = subscribers[k + 1]
    <3>1. subscribers' \in Seq(Subscription) /\ Len(subscribers') = n - 1
      BY <2>3, <2>4, WithoutProperties, Zenon
    <3>2. DOMAIN subscribers' = 1 .. n - 1
      BY <3>1
    <3>3. /\ \A k \in 1 .. i - 1 : subscribers'[k] = subscribers[k]
          /\ \A k \in i .. n - 1 : subscribers'[k] = subscribers[k + 1]
      BY <2>3, <2>4, WithoutProperties, Zenon
    <3> QED
      BY <3>2, <3>3, Zenon
  <2> HIDE DEF n
  <2>6. \A k \in 1 .. n : k # i => subscribers[k] # s
    BY <2>3, <2>4, Zenon DEF LockInv, Distinct
  <2>7. Distinct(subscribers)'
    <3>1. ASSUME NEW k \in 1 .. n - 1, NEW l \in 1 .. n - 1, k < l
          PROVE  subscribers'[k] # subscribers'[l]
      <4>1. \A a, b \in 1 .. n : a < b => subscribers[a] # subscribers[b]
        BY <2>4 DEF LockInv, Distinct
      <4>2. \A a \in 1 .. n - 1 : \/ a < i /\ subscribers'[a] = subscribers[a]
                                  \/ a >= i /\ subscribers'[a] = subscribers[a + 1]
        BY <2>4, <2>5
      <4>3. k + 1 \in 1 .. n /\ l + 1 \in 1 .. n /\ k \in 1 .. n /\ l \in 1 .. n
        BY <2>4
      <4> QED
        BY <2>4, <3>1, <4>1, <4>2, <4>3
    <3> QED
      BY <2>4, <2>5, <3>1 DEF Distinct
  <2>8. ASSUME NEW x \in Subscription, x # s
        PROVE  Registered(x)' <=> Registered(x)
    <3>1. ASSUME NEW k \in 1 .. n, subscribers[k] = x
          PROVE  Registered(x)'
      <4>1. CASE k < i
        BY <2>4, <2>5, <3>1, <4>1 DEF Registered
      <4>2. CASE k > i
        <5>1. k - 1 \in i .. n - 1 /\ (k - 1) + 1 = k /\ k - 1 \in 1 .. n - 1
          BY <2>4, <4>2
        <5>2. subscribers'[k - 1] = x
          BY <2>5, <5>1, <3>1, Zenon
        <5> QED
          BY <5>1, <5>2, <2>5, Zenon DEF Registered
      <4>3. k # i
        BY <2>3, <2>8, <3>1, Zenon
      <4> QED
        BY <2>4, <4>1, <4>2, <4>3
    <3>2. ASSUME NEW k \in 1 .. n - 1, subscribers'[k] = x
          PROVE  Registered(x)
      <4>1. k \in 1 .. n /\ k + 1 \in 1 .. n /\ (k \in 1 .. i - 1 \/ k \in i .. n - 1)
        BY <2>4
      <4>2. \E l \in 1 .. n : subscribers[l] = x
        BY <2>5, <3>2, <4>1, Zenon
      <4> QED
        BY <2>4, <4>2, Zenon DEF Registered
    <3> QED
      BY <3>1, <3>2, <2>4, <2>5, Zenon DEF Registered
  <2>9. ~Registered(s)'
    <3>1. ASSUME NEW k \in 1 .. n - 1
          PROVE  subscribers'[k] # s
      BY <2>4, <2>5, <2>6
    <3> QED
      BY <2>5, <3>1, Zenon DEF Registered
  <2> QED
    BY <2>1, <2>2, <2>7, <2>8, <2>9, Zenon DEF LockInv
<1>10. ASSUME \/ \E s \in Subscription : Receive(s) \/ Unsubscribe(s)
              \/ \E gone : Reclaim(gone)
              \/ \E p \in Producer : CheckpointAges(p)
              \/ UNCHANGED vars
       PROVE  LockInv'
  <2>1. UNCHANGED <<subscribers, call, holder, highWater, pump>>
    BY <1>10, Zenon DEF Receive, Unsubscribe, Reclaim, CheckpointAges, vars, storeVars,
                 publishVars, streamVars
  <2> QED
    BY <2>1, <1>e, CallsKept, LockKept, Zenon
<1>11. ASSUME NEW n, NEW m, Restart(n, m)
       PROVE  LockInv'
  <2>1. Distinct(subscribers)' /\ \A s : ~Registered(s)'
    BY <1>11 DEF Restart, Distinct, Registered
  <2>2. \A c \in Caller : call'[c].pc = "idle"
    BY <1>11, Zenon DEF Restart, IdleCall
  <2>3. \A s \in Subscription : pump'[s].pc = "none"
    BY <1>11, Zenon DEF Restart, NoPump
  <2> QED
    BY <2>1, <2>2, <2>3, Zenon DEF LockInv
<1> QED
  BY <1>1, <1>2, <1>3, <1>4, <1>5, <1>6, <1>7, <1>8, <1>9, <1>10, <1>11, Zenon
  DEF Next, Kill, CleanRestart, PublishStep, PumpStep

-----------------------------------------------------------------------------
(***************************************************************************)
(* The theorems hold with crashes too: CrashSpec lets a killed broker lose *)
(* any tail of its log and of its dedup topic.                             *)
(***************************************************************************)
LEMMA LockHolds == CrashSpec => [](Typed /\ LockInv)
<1>1. Init => Typed /\ LockInv
  BY TypedInit, LockInit, Zenon
<1>2. Typed /\ LockInv /\ [Next \/ Kill]_vars => (Typed /\ LockInv)'
  BY TypedNext, LockNext, Zenon
<1> QED
  BY <1>1, <1>2, PTL DEF CrashSpec

LEMMA SpecIsCrashSpec == Spec => CrashSpec
<1>1. [Next]_vars => [Next \/ Kill]_vars
  BY Zenon
<1> QED
  BY <1>1, PTL DEF Spec, CrashSpec

(***************************************************************************)
(* Every variable keeps its type, crashes included.                        *)
(***************************************************************************)
THEOREM BrokerTypes == CrashSpec => []TypeOK
  BY LockHolds, TypedIsTypeOK, PTL

(***************************************************************************)
(* Publish's fan-out is exclusive: only the holder of ps.mu is in it, and  *)
(* it sends to no channel that removeSubscriber has taken out of the list. *)
(***************************************************************************)
THEOREM FanOutHoldsTheLock == CrashSpec => []FanOutIsExclusive
<1>1. LockInv => FanOutIsExclusive
  BY DEF LockInv, FanOutIsExclusive, Registered, Range
<1> QED
  BY <1>1, LockHolds, PTL

-----------------------------------------------------------------------------
(***************************************************************************)
(* Idempotent retries, for clean restarts: a killed broker loses a tail of *)
(* the log and a tail of the dedup topic independently.  The checkpoint in *)
(* memory is the one hydration would restore from the dedup topic, and it  *)
(* is at or above everything the producer has in the log.                  *)
(***************************************************************************)
DedupInv ==
    /\ \A p \in Producer \ Expiring :
        /\ dedup[p].seq = Hydrated(persisted)[p].seq
        /\ ~dedup[p].stale
        /\ \A o \in DOMAIN log : log[o].producer = p => log[o].seq <= dedup[p].seq
    /\ ProducerOrder

-----------------------------------------------------------------------------
(***************************************************************************)
(* A producer's checkpoint after the dedup topic has grown by an entry.    *)
(***************************************************************************)
LEMMA HydratedAppend ==
    ASSUME NEW entries \in Seq(DedupEntry), NEW e \in DedupEntry, NEW p \in Producer
    PROVE  Hydrated(Append(entries, e))[p] =
                IF e.msg.producer = p
                THEN [seq |-> e.msg.seq, offset |-> e.offset, stale |-> FALSE]
                ELSE Hydrated(entries)[p]
<1> DEFINE n == Len(entries)
           new == Append(entries, e)
           of == {i \in DOMAIN entries : entries[i].msg.producer = p}
           nof == {i \in DOMAIN new : new[i].msg.producer = p}
<1>1. /\ n \in Nat /\ DOMAIN entries = 1 .. n /\ DOMAIN new = 1 .. n + 1
      /\ new[n + 1] = e /\ \A i \in 1 .. n : new[i] = entries[i]
  OBVIOUS
<1>2. /\ Hydrated(entries)[p] =
            IF of = {} THEN NoCheckpoint
            ELSE [seq |-> entries[Max(of)].msg.seq,
                  offset |-> entries[Max(of)].offset, stale |-> FALSE]
      /\ Hydrated(new)[p] =
            IF nof = {} THEN NoCheckpoint
            ELSE [seq |-> new[Max(nof)].msg.seq,
                  offset |-> new[Max(nof)].offset, stale |-> FALSE]
  BY Zenon DEF Hydrated
<1>3. CASE e.msg.producer = p
  <2>1. n + 1 \in nof /\ nof \in SUBSET Int /\ \A y \in nof : n + 1 >= y
    BY <1>1, <1>3
  <2>2. Max(nof) = n + 1 /\ nof # {}
    <3> HIDE DEF nof
    <3> QED
      BY <2>1, MaxIs, Zenon
  <2> HIDE DEF nof, new, of
  <2> QED
    BY <1>1, <1>2, <1>3, <2>2, Zenon DEF new
<1>4. CASE e.msg.producer # p
  <2>1. nof = of
    BY <1>1, <1>4
  <2>2. of # {} => new[Max(of)] = entries[Max(of)]
    <3>1. of \in SUBSET (0 .. n) /\ of \subseteq 1 .. n
      BY <1>1
    <3> HIDE DEF of, new
    <3>2. of # {} => Max(of) \in of
      BY <1>1, <3>1, MaxOfBounded, Zenon
    <3> QED
      BY <1>1, <3>1, <3>2, Zenon
  <2> HIDE DEF nof, new, of
  <2> QED
    BY <1>2, <1>4, <2>1, <2>2, Zenon DEF new
<1> QED
  BY <1>3, <1>4, Zenon

LEMMA HydratedIsFresh ==
    ASSUME NEW entries \in Seq(DedupEntry), NEW p \in Producer
    PROVE  ~Hydrated(entries)[p].stale
  BY Zenon DEF Hydrated, NoCheckpoint

(***************************************************************************)
(* Steps that touch neither the log nor the checkpoints.                   *)
(***************************************************************************)
RetryVars == <<log, highWater, dedup, persisted>>

LEMMA RetryFrame ==
    ASSUME Next, ~UNCHANGED RetryVars
    PROVE  \/ \E c \in Caller, msg \in Message :
                PublishRetry(c, msg) \/ PublishAppend(c, msg)
           \/ \E gone \in SUBSET (0 .. MaxOffset - 1) : Reclaim(gone)
           \/ \E p \in Producer : CheckpointAges(p)
           \/ CleanRestart
  BY Zenon DEF Next, RetryVars, PublishStep, FanOut, PublishDone, PublishCancelled, Return,
         Subscribe, PumpStep, PumpRead, PumpSend, PumpTake, PumpForward,
         PumpCancelled, PumpExit, Receive, Unsubscribe, storeVars, dedupVars

(***************************************************************************)
(* What each of the others does to them.                                   *)
(***************************************************************************)
LEMMA RestartKeeps ==
    ASSUME Typed, CleanRestart
    PROVE  UNCHANGED <<log, highWater, persisted>> /\ dedup' = Hydrated(persisted)
<1>1. /\ persisted \in Seq(DedupEntry) /\ log = [o \in DOMAIN log |-> log[o]]
      /\ \A x \in DOMAIN log : x < highWater
  BY DEF Typed, StoreTyped, DedupTyped
<1>2. persisted' = persisted
  BY <1>1, SubSeqFull, Zenon DEF CleanRestart, Restart
<1>3. {x \in DOMAIN log : x < highWater} = DOMAIN log
  BY <1>1, Zenon
<1>4. log' = log
  BY <1>1, <1>3, Zenon DEF CleanRestart, Restart
<1> QED
  BY <1>2, <1>4, Zenon DEF CleanRestart, Restart

LEMMA AppendKeeps ==
    ASSUME Typed, NEW c \in Caller, NEW msg \in Message, PublishAppend(c, msg)
    PROVE  /\ highWater \in Nat /\ highWater' = highWater + 1
           /\ DOMAIN log' = DOMAIN log \union {highWater}
           /\ log'[highWater] = msg
           /\ \A o \in DOMAIN log : o \in Nat /\ o < highWater /\ log'[o] = log[o]
           /\ \A p \in Producer : p # msg.producer =>
                /\ dedup'[p] \in {dedup[p], NoCheckpoint}
                /\ ~dedup[p].stale => dedup'[p] = dedup[p]
                /\ Hydrated(persisted')[p] = Hydrated(persisted)[p]
           /\ msg.producer \in Producer =>
                LET cp == [seq |-> msg.seq, offset |-> highWater, stale |-> FALSE]
                IN  /\ dedup'[msg.producer] = cp
                    /\ Hydrated(persisted')[msg.producer] = cp
                    /\ ~dedup[msg.producer].stale =>
                            dedup[msg.producer].seq < msg.seq
<1> DEFINE cp == [seq |-> msg.seq, offset |-> highWater, stale |-> FALSE]
           e == [msg |-> msg, offset |-> highWater]
<1>1. /\ highWater \in Nat /\ highWater' = highWater + 1
      /\ \A o \in DOMAIN log : o \in Nat /\ o < highWater
  BY DEF Typed, StoreTyped, PublishAppend
<1>2. /\ DOMAIN log' = DOMAIN log \union {highWater} /\ log'[highWater] = msg
      /\ \A o \in DOMAIN log : log'[o] = log[o]
  BY <1>1 DEF PublishAppend
<1>3. CASE msg.producer = NoProducer
  <2>1. UNCHANGED <<dedup, persisted>> /\ msg.producer \notin Producer
    BY <1>3, BrokerAssumption, Zenon DEF PublishAppend, dedupVars
  <2> QED
    BY <1>1, <1>2, <2>1, Zenon
<1>4. CASE msg.producer # NoProducer
  <2>1. /\ dedup' = [KeptCheckpoints(msg) EXCEPT ![msg.producer] = cp]
        /\ persisted' = Append(persisted, e) /\ msg.producer \in Producer
        /\ msg.seq \in Nat
    BY <1>4, MessageFields, Zenon DEF PublishAppend
  <2>2. e \in DedupEntry /\ persisted \in Seq(DedupEntry)
    BY <1>1, Zenon DEF DedupEntry, Typed, DedupTyped
  <2>3. \A p \in Producer :
            /\ KeptCheckpoints(msg)[p] \in {dedup[p], NoCheckpoint}
            /\ ~dedup[p].stale => KeptCheckpoints(msg)[p] = dedup[p]
    BY Zenon DEF KeptCheckpoints
  <2>4. KeptCheckpoints(msg) \in [Producer -> Checkpoint]
    BY CheckpointTables, TypedIsTypeOK, Zenon
  <2>5. \A p \in Producer : dedup'[p] = IF p = msg.producer THEN cp
                                        ELSE KeptCheckpoints(msg)[p]
    BY <2>1, <2>4, Zenon
  <2>6. \A p \in Producer :
            Hydrated(persisted')[p] = IF p = msg.producer THEN cp
                                      ELSE Hydrated(persisted)[p]
    <3>1. e.msg.producer = msg.producer /\ e.msg.seq = msg.seq /\ e.offset = highWater
      BY Zenon
    <3> HIDE DEF e
    <3> QED
      BY <2>1, <2>2, <3>1, HydratedAppend
  <2>7. ~dedup[msg.producer].stale => dedup[msg.producer].seq < msg.seq
    <3>1. ~(msg.seq <= KeptCheckpoints(msg)[msg.producer].seq)
      BY <1>4, Zenon DEF PublishAppend, IsRetry
    <3>2. KeptCheckpoints(msg)[msg.producer].seq \in Int
      BY <2>1, <2>4 DEF Checkpoint
    <3>3. ~dedup[msg.producer].stale =>
            KeptCheckpoints(msg)[msg.producer] = dedup[msg.producer]
      BY <2>1, <2>3, Zenon
    <3>4. KeptCheckpoints(msg)[msg.producer].seq < msg.seq
      BY <2>1, <3>1, <3>2
    <3> QED
      BY <3>3, <3>4, Zenon
  <2> HIDE DEF cp
  <2>8. \A p \in Producer : p # msg.producer =>
                /\ dedup'[p] \in {dedup[p], NoCheckpoint}
                /\ ~dedup[p].stale => dedup'[p] = dedup[p]
                /\ Hydrated(persisted')[p] = Hydrated(persisted)[p]
    BY <2>3, <2>5, <2>6, Zenon
  <2>9. dedup'[msg.producer] = cp /\ Hydrated(persisted')[msg.producer] = cp
    BY <2>1, <2>5, <2>6, Zenon
  <2> QED
    BY <1>1, <1>2, <2>7, <2>8, <2>9, Zenon DEF cp
<1> QED
  BY <1>3, <1>4, Zenon

LEMMA RetryKeeps ==
    ASSUME Typed, NEW c \in Caller, NEW msg \in Message, PublishRetry(c, msg)
    PROVE  /\ UNCHANGED <<log, highWater, persisted>>
           /\ \A p \in Producer : /\ dedup'[p] \in {dedup[p], NoCheckpoint}
                                  /\ ~dedup[p].stale => dedup'[p] = dedup[p]
  BY Zenon DEF PublishRetry, KeptCheckpoints, storeVars

LEMMA AgesKeeps ==
    ASSUME Typed, NEW q \in Producer, CheckpointAges(q)
    PROVE  /\ UNCHANGED <<log, highWater, persisted>> /\ q \in Expiring
           /\ \A p \in Producer : /\ p # q => dedup'[p] = dedup[p]
                                  /\ dedup'[p].seq = dedup[p].seq
                                  /\ dedup'[p].offset = dedup[p].offset
  BY Zenon DEF CheckpointAges, storeVars, Typed, DedupTyped, Checkpoint

LEMMA DedupInit == Init => DedupInv
<1> SUFFICES ASSUME Init
             PROVE  DedupInv
  BY Zenon
<1>1. log = <<>> /\ persisted = <<>> /\ dedup = [p \in Producer |-> NoCheckpoint]
  BY DEF Init
<1>2. DOMAIN log = {} /\ \A p \in Producer : Hydrated(persisted)[p] = NoCheckpoint
  BY <1>1, EmptySeq DEF Hydrated
<1> QED
  BY <1>1, <1>2, Zenon DEF DedupInv, ProducerOrder, NoCheckpoint

LEMMA DedupNext ==
    ASSUME Typed, DedupInv, Next
    PROVE  DedupInv'
<1>1. CASE UNCHANGED RetryVars
  BY <1>1, Zenon DEF DedupInv, RetryVars, ProducerOrder
<1>2. ASSUME NEW c \in Caller, NEW msg \in Message, PublishRetry(c, msg)
      PROVE  DedupInv'
  BY <1>2, RetryKeeps, Zenon DEF DedupInv, ProducerOrder
<1>3. ASSUME NEW c \in Caller, NEW msg \in Message, PublishAppend(c, msg)
      PROVE  DedupInv'
  <2>1. ASSUME NEW p \in Producer \ Expiring
        PROVE  /\ dedup'[p].seq = Hydrated(persisted')[p].seq
               /\ ~dedup'[p].stale
               /\ \A o \in DOMAIN log :
                    log[o].producer = p => log[o].seq <= dedup'[p].seq
               /\ msg.producer = p => msg.seq <= dedup'[p].seq
    <3>1. /\ dedup[p].seq = Hydrated(persisted)[p].seq /\ ~dedup[p].stale
          /\ \A o \in DOMAIN log : log[o].producer = p => log[o].seq <= dedup[p].seq
      BY Zenon DEF DedupInv
    <3>2. CASE p # msg.producer
      <4>1. dedup'[p] = dedup[p] /\ Hydrated(persisted')[p] = Hydrated(persisted)[p]
        BY <1>3, <3>1, <3>2, AppendKeeps, Zenon
      <4> QED
        BY <3>1, <3>2, <4>1, Zenon
    <3>3. CASE p = msg.producer
      <4>1. /\ dedup'[p] = [seq |-> msg.seq, offset |-> highWater, stale |-> FALSE]
            /\ Hydrated(persisted')[p] =
                    [seq |-> msg.seq, offset |-> highWater, stale |-> FALSE]
            /\ dedup[p].seq < msg.seq
        BY <1>3, <3>1, <3>3, AppendKeeps, Zenon
      <4>2. /\ dedup[p].seq \in Int /\ msg.seq \in Int
            /\ \A o \in DOMAIN log : log[o].seq \in Int
        BY MessageFields DEF Typed, DedupTyped, StoreTyped, Checkpoint
      <4> QED
        BY <3>1, <4>1, <4>2
    <3> QED
      BY <3>2, <3>3, Zenon
  <2>2. \A p \in Producer \ Expiring :
            \A o \in DOMAIN log' : log'[o].producer = p => log'[o].seq <= dedup'[p].seq
    <3>1. /\ DOMAIN log' = DOMAIN log \union {highWater} /\ log'[highWater] = msg
          /\ \A o \in DOMAIN log : log'[o] = log[o]
      BY <1>3, AppendKeeps, Zenon
    <3> QED
      BY <2>1, <3>1, Zenon
  <2>3. ProducerOrder'
    <3>1. SUFFICES ASSUME NEW i \in DOMAIN log', NEW j \in DOMAIN log', i < j,
                          log'[i].producer = log'[j].producer,
                          log'[i].producer \in Producer \ Expiring
                   PROVE  log'[i].seq < log'[j].seq
      BY Zenon DEF ProducerOrder
    <3>2. /\ DOMAIN log' = DOMAIN log \union {highWater} /\ highWater \in Nat
          /\ log'[highWater] = msg
          /\ \A o \in DOMAIN log : o \in Nat /\ o < highWater /\ log'[o] = log[o]
      BY <1>3, AppendKeeps, Zenon
    <3>3. i \in DOMAIN log /\ log'[i] = log[i]
      BY <3>1, <3>2
    <3>4. CASE j \in DOMAIN log
      BY <3>1, <3>2, <3>3, <3>4, Zenon DEF DedupInv, ProducerOrder
    <3>5. CASE j = highWater
      <4> DEFINE p == msg.producer
      <4>1. p \in Producer \ Expiring /\ log[i].producer = p /\ log'[j] = msg
        BY <3>1, <3>2, <3>3, <3>5, Zenon
      <4>2. log[i].seq <= dedup[p].seq /\ ~dedup[p].stale
        BY <3>3, <4>1, Zenon DEF DedupInv
      <4>3. dedup[p].seq < msg.seq
        BY <1>3, <4>1, <4>2, AppendKeeps, Zenon
      <4>4. dedup[p].seq \in Int /\ msg.seq \in Int /\ log[i].seq \in Int
        BY <3>3, <4>1, MessageFields DEF Typed, DedupTyped, StoreTyped, Checkpoint
      <4> HIDE DEF p
      <4> QED
        BY <3>3, <4>1, <4>2, <4>3, <4>4
    <3> QED
      BY <3>2, <3>4, <3>5, Zenon
  <2> QED
    BY <2>1, <2>2, <2>3, Zenon DEF DedupInv
<1>4. ASSUME NEW gone \in SUBSET (0 .. MaxOffset - 1), Reclaim(gone)
      PROVE  DedupInv'
  <2>1. /\ UNCHANGED <<dedup, persisted>> /\ DOMAIN log' \subseteq DOMAIN log
        /\ \A o \in DOMAIN log' : log'[o] = log[o]
    BY <1>4, Zenon DEF Reclaim, dedupVars
  <2> QED
    BY <2>1, Zenon DEF DedupInv, ProducerOrder
<1>5. ASSUME NEW q \in Producer, CheckpointAges(q)
      PROVE  DedupInv'
  BY <1>5, AgesKeeps, Zenon DEF DedupInv, ProducerOrder
<1>6. CASE CleanRestart
  <2>1. UNCHANGED <<log, persisted>> /\ dedup' = Hydrated(persisted)
    BY <1>6, RestartKeeps, Zenon
  <2>2. \A p \in Producer : ~Hydrated(persisted)[p].stale
    BY HydratedIsFresh, Zenon DEF Typed, DedupTyped
  <2> QED
    BY <2>1, <2>2, Zenon DEF DedupInv, ProducerOrder
<1> QED
  BY <1>1, <1>2, <1>3, <1>4, <1>5, <1>6, RetryFrame, Zenon

LEMMA DedupHolds == Spec => []DedupInv
<1>1. Typed /\ LockInv /\ DedupInv /\ [Next]_vars => DedupInv'
  <2>1. ASSUME DedupInv, UNCHANGED vars
        PROVE  DedupInv'
    BY <2>1, Zenon DEF DedupInv, ProducerOrder, vars, storeVars, dedupVars
  <2> QED
    BY <2>1, DedupNext, Zenon
<1> QED
  BY <1>1, DedupInit, LockHolds, SpecIsCrashSpec, PTL DEF Spec

(***************************************************************************)
(* The log never holds a record of a producer twice or out of the order of *)
(* its sequence numbers, across retries by any connections and clean       *)
(* restarts: Publish appends only above the checkpoint, the checkpoint is  *)
(* at or above every record, and a restart reads back the same checkpoint. *)
(***************************************************************************)
THEOREM RetriesKeepOrder == Spec => []ProducerOrder
<1>1. DedupInv => ProducerOrder
  BY Zenon DEF DedupInv
<1> QED
  BY <1>1, DedupHolds, PTL

=============================================================================
