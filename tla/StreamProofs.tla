---------------------------- MODULE StreamProofs ----------------------------
(***************************************************************************)
(* Theorems about the subscriptions of one partition: a subscriber receives*)
(* the log, for any number of publishers and subscribers and any buffer and*)
(* batch size.                                                             *)
(***************************************************************************)
EXTENDS BrokerProofs

-----------------------------------------------------------------------------
(***************************************************************************)
(* A stream that starts at from is unbroken: its offsets rise, and those   *)
(* it leaves out were skipped.                                             *)
(***************************************************************************)
End(given, from) == IF given = <<>> THEN from - 1 ELSE given[Len(given)]

Unbroken(given, from, left) ==
    \A i \in DOMAIN given :
        LET before == IF i = 1 THEN from - 1 ELSE given[i - 1] IN
        /\ given[i] > before
        /\ before + 1 .. given[i] - 1 \subseteq left

(***************************************************************************)
(* The pump p's place in the log, when the last offset it gave is end.     *)
(***************************************************************************)
CursorInv(p, end, left) ==
    /\ p.pc \in {"read", "live", "forward"} => end = p.cursor - 1
    /\ p.pc = "send" => /\ p.hand = end + 1 .. p.cursor + p.got - 1
                        /\ end + 1 < p.cursor + p.got
    /\ p.pc \in {"live", "forward"} => p.cursor >= p.hw
    /\ p.pc = "forward" =>
        \E o \in p.hand : /\ p.hand = {o}
                          /\ o >= p.cursor
                          /\ p.cursor .. o - 1 \subseteq left

(***************************************************************************)
(* The fan-out channel chan of p: rising offsets, and every record appended*)
(* since Subscribe that the pump still wants is there, is due (the Publish *)
(* that appended it has yet to send it), or was skipped.                   *)
(***************************************************************************)
InHand(p) == IF p.pc = "forward" THEN p.hand ELSE {}

ChannelInv(p, chan, left, due, next) ==
    p.pc \in {"read", "send", "live", "forward"} =>
        /\ \A i, j \in DOMAIN chan : i < j => chan[i] < chan[j]
        /\ \A i \in DOMAIN chan :
            /\ chan[i] < next
            /\ \A h \in InHand(p) : h < chan[i]
            /\ \A d \in due : chan[i] < d
        /\ \A h \in InHand(p) : h < next /\ \A d \in due : h < d
        /\ \A o \in p.hw .. next - 1 :
            (o >= p.cursor /\ \A h \in InHand(p) : o > h)
                => \/ \E i \in DOMAIN chan : chan[i] = o
                   \/ o \in due \union left

StreamOK(given, p, chan, left, due, next) ==
    /\ p.pc = "none" => given = <<>> /\ chan = <<>>
    /\ Unbroken(given, p.from, left)
    /\ CursorInv(p, End(given, p.from), left)
    /\ ChannelInv(p, chan, left, due, next)

(***************************************************************************)
(* Caller c has yet to send to subscription s.                             *)
(***************************************************************************)
Due(c, s) ==
    call[c].pc = "fanout" /\ \E i \in DOMAIN call[c].todo : call[c].todo[i] = s

(***************************************************************************)
(* What the pump has given to the subscriber: received, or in the channel. *)
(***************************************************************************)
Given(s) == delivered[s] \o out[s]

DueOffsets(s) == {call[c].offset : c \in {d \in Caller : Due(d, s)}}

Streaming(s) ==
    StreamOK(Given(s), pump[s], sub[s], skipped[s], DueOffsets(s), highWater)

StreamInv ==
    reclaims = 0 =>
        /\ DOMAIN log = 0 .. highWater - 1
        /\ \A s \in Subscription : Streaming(s)

-----------------------------------------------------------------------------
(***************************************************************************)
(* Streams.                                                                *)
(***************************************************************************)
LEMMA UnbrokenAppend ==
    ASSUME NEW given \in Seq(Nat), NEW from \in Nat, NEW left,
           Unbroken(given, from, left),
           NEW o \in Nat, o > End(given, from),
           End(given, from) + 1 .. o - 1 \subseteq left
    PROVE  /\ Unbroken(Append(given, o), from, left)
           /\ End(Append(given, o), from) = o
<1> DEFINE n == Len(given)
           new == Append(given, o)
<1>1. /\ n \in Nat /\ DOMAIN given = 1 .. n /\ DOMAIN new = 1 .. n + 1
      /\ new[n + 1] = o /\ \A i \in 1 .. n : new[i] = given[i]
      /\ Len(new) = n + 1
  OBVIOUS
<1>0. (given = <<>> <=> n = 0) /\ new # <<>>
  BY <1>1, EmptySeq
<1> HIDE DEF n, new
<1>2. End(new, from) = o
  BY <1>0, <1>1, Zenon DEF End
<1>3. End(given, from) = IF n = 0 THEN from - 1 ELSE given[n]
  BY <1>0, <1>1, Zenon DEF End, n
<1>4. ASSUME NEW i \in 1 .. n + 1
      PROVE  LET before == IF i = 1 THEN from - 1 ELSE new[i - 1]
             IN  new[i] > before /\ before + 1 .. new[i] - 1 \subseteq left
  <2>1. CASE i = n + 1
    <3>1. End(given, from) = IF i = 1 THEN from - 1 ELSE new[i - 1]
      BY <1>1, <1>3, <2>1
    <3> QED
      BY <1>1, <2>1, <3>1, Zenon
  <2>2. CASE i # n + 1
    <3>1. i \in 1 .. n /\ (i # 1 => i - 1 \in 1 .. n)
      BY <1>1, <2>2
    <3>2. LET before == IF i = 1 THEN from - 1 ELSE given[i - 1]
          IN  given[i] > before /\ before + 1 .. given[i] - 1 \subseteq left
      BY <1>1, <3>1, Zenon DEF Unbroken
    <3>3. /\ new[i] = given[i]
          /\ (IF i = 1 THEN from - 1 ELSE new[i - 1])
                = (IF i = 1 THEN from - 1 ELSE given[i - 1])
      BY <1>1, <3>1, Zenon
    <3> QED
      BY <3>2, <3>3, Zenon
  <2> QED
    BY <2>1, <2>2, Zenon
<1>5. Unbroken(new, from, left)
  BY <1>1, <1>4, Zenon DEF Unbroken
<1> QED
  BY <1>2, <1>5, Zenon DEF new

(***************************************************************************)
(* A stream's promise when the log grows, when a due record is sent, and   *)
(* when it is skipped.                                                     *)
(***************************************************************************)
StreamTypes(given, p, chan, left, due, next) ==
    /\ given \in Seq(Nat) /\ p \in PumpState /\ chan \in Seq(Nat)
    /\ left \in SUBSET Nat /\ due \in SUBSET Nat /\ next \in Nat

LEMMA StreamAppended ==
    ASSUME NEW given, NEW p, NEW chan, NEW left, NEW next,
           StreamTypes(given, p, chan, left, {}, next),
           StreamOK(given, p, chan, left, {}, next),
           NEW due, due = {next} \/ (due = {} /\ p.pc \in {"none", "closed"})
    PROVE  StreamOK(given, p, chan, left, due, next + 1)
<1> USE DEF StreamTypes, StreamOK
<1>1. CASE p.pc \in {"none", "closed"}
  BY <1>1, Zenon DEF ChannelInv
<1>2. CASE p.pc \notin {"none", "closed"}
  <2>1. due = {next}
    BY <1>2, Zenon
  <2>2. ASSUME p.pc \in {"read", "send", "live", "forward"},
               NEW o \in p.hw .. next, o >= p.cursor, \A h \in InHand(p) : o > h
        PROVE  \/ \E i \in DOMAIN chan : chan[i] = o
               \/ o \in due \union left
    <3>1. CASE o = next
      BY <3>1, <2>1, Zenon
    <3>2. CASE o # next
      <4>1. o \in p.hw .. next - 1
        BY <3>2 DEF PumpState
      <4> QED
        BY <2>2, <4>1, Zenon DEF ChannelInv
    <3> QED
      BY <3>1, <3>2, Zenon
  <2>3. \A i \in DOMAIN chan : chan[i] \in Nat
    OBVIOUS
  <2>4. \A h \in InHand(p) : h \in Nat
    BY Zenon DEF InHand, PumpState
  <2>5. next + 1 - 1 = next
    OBVIOUS
  <2>6. ChannelInv(p, chan, left, due, next + 1)
    BY <2>1, <2>2, <2>3, <2>4, <2>5 DEF ChannelInv
  <2> QED
    BY <2>6, Zenon
<1> QED
  BY <1>1, <1>2, Zenon

LEMMA StreamSent ==
    ASSUME NEW given, NEW p, NEW chan, NEW left, NEW next, NEW d \in Nat,
           StreamTypes(given, p, chan, left, {d}, next), d < next,
           StreamOK(given, p, chan, left, {d}, next), p.pc # "none"
    PROVE  StreamOK(given, p, Append(chan, d), left, {}, next)
<1> USE DEF StreamTypes
<1> DEFINE n == Len(chan)
           new == Append(chan, d)
<1>1. /\ n \in Nat /\ DOMAIN chan = 1 .. n /\ DOMAIN new = 1 .. n + 1
      /\ new[n + 1] = d /\ \A i \in 1 .. n : new[i] = chan[i] /\ chan[i] \in Nat
  OBVIOUS
<1> HIDE DEF n, new
<1>2. ASSUME p.pc \in {"read", "send", "live", "forward"}
      PROVE  ChannelInv(p, new, left, {}, next)
  <2>1. /\ \A i, j \in 1 .. n : i < j => chan[i] < chan[j]
        /\ \A i \in 1 .. n : chan[i] < next /\ chan[i] < d
                             /\ \A h \in InHand(p) : h < chan[i]
        /\ \A h \in InHand(p) : h < next /\ h < d
        /\ \A o \in p.hw .. next - 1 :
            (o >= p.cursor /\ \A h \in InHand(p) : o > h)
                => \/ \E i \in 1 .. n : chan[i] = o
                   \/ o \in {d} \union left
    BY <1>1, <1>2, Zenon DEF StreamOK, ChannelInv
  <2>2. ASSUME NEW i \in 1 .. n + 1, NEW j \in 1 .. n + 1, i < j
        PROVE  new[i] < new[j]
    <3>1. i \in 1 .. n /\ new[i] = chan[i]
      BY <1>1, <2>2
    <3>2. CASE j = n + 1
      BY <1>1, <2>1, <3>1, <3>2, Zenon
    <3>3. CASE j \in 1 .. n
      BY <1>1, <2>1, <2>2, <3>1, <3>3, Zenon
    <3> QED
      BY <1>1, <3>2, <3>3
  <2>3. \A i \in 1 .. n + 1 : new[i] < next /\ \A h \in InHand(p) : h < new[i]
    BY <1>1, <2>1
  <2>4. ASSUME NEW o \in p.hw .. next - 1, o >= p.cursor,
               \A h \in InHand(p) : o > h, o \notin left
        PROVE  \E i \in 1 .. n + 1 : new[i] = o
    <3>1. CASE o = d
      BY <1>1, <3>1
    <3>2. ASSUME NEW i \in 1 .. n, chan[i] = o
          PROVE  \E k \in 1 .. n + 1 : new[k] = o
      BY <1>1, <3>2
    <3> QED
      BY <2>1, <2>4, <3>1, <3>2, Zenon
  <2> QED
    BY <1>1, <2>1, <2>2, <2>3, <2>4, Zenon DEF ChannelInv
<1>3. ChannelInv(p, new, left, {}, next)
  BY <1>2, Zenon DEF ChannelInv
<1> QED
  BY <1>3, Zenon DEF StreamOK, new

LEMMA StreamSkipped ==
    ASSUME NEW given, NEW p, NEW chan, NEW left, NEW due, NEW next,
           StreamTypes(given, p, chan, left, due, next),
           StreamOK(given, p, chan, left, due, next)
    PROVE  StreamOK(given, p, chan, left \union due, {}, next)
<1> USE DEF StreamTypes
<1>1. Unbroken(given, p.from, left \union due)
  BY Zenon DEF StreamOK, Unbroken
<1>2. CursorInv(p, End(given, p.from), left \union due)
  BY Zenon DEF StreamOK, CursorInv
<1>3. ChannelInv(p, chan, left \union due, {}, next)
  BY Zenon DEF StreamOK, ChannelInv
<1> QED
  BY <1>1, <1>2, <1>3, Zenon DEF StreamOK

(***************************************************************************)
(* The steps of the pump: it goes live, takes a batch of the log in hand,  *)
(* sends the first record of the batch, drops a record it has sent during  *)
(* catch-up, takes a record from the channel, forwards it, or stops.       *)
(***************************************************************************)
LEMMA PumpStops ==
    ASSUME NEW given, NEW p, NEW chan, NEW left, NEW due, NEW next,
           StreamOK(given, p, chan, left, due, next),
           NEW q, q.pc \in {"exiting", "closed"}, q.from = p.from
    PROVE  StreamOK(given, q, chan, left, due, next)
  BY Zenon DEF StreamOK, CursorInv, ChannelInv

LEMMA PumpGoesLive ==
    ASSUME NEW given, NEW p, NEW chan, NEW left, NEW due, NEW next,
           StreamTypes(given, p, chan, left, due, next),
           StreamOK(given, p, chan, left, due, next),
           p.pc = "read", p.cursor >= p.hw,
           NEW q, q.pc = "live", q.from = p.from, q.cursor = p.cursor, q.hw = p.hw
    PROVE  StreamOK(given, q, chan, left, due, next)
<1>1. InHand(p) = {} /\ InHand(q) = {}
  BY Zenon DEF InHand
<1>2. CursorInv(q, End(given, q.from), left)
  BY Zenon DEF StreamOK, CursorInv
<1>3. ChannelInv(q, chan, left, due, next)
  BY <1>1, Zenon DEF StreamOK, ChannelInv
<1> QED
  BY <1>2, <1>3, Zenon DEF StreamOK

LEMMA PumpTakesBatch ==
    ASSUME NEW given, NEW p, NEW chan, NEW left, NEW due, NEW next,
           StreamTypes(given, p, chan, left, due, next),
           StreamOK(given, p, chan, left, due, next),
           p.pc = "read",
           NEW q, q.pc = "send", q.from = p.from, q.cursor = p.cursor, q.hw = p.hw,
           q.got \in Nat \ {0}, q.hand = p.cursor .. p.cursor + q.got - 1
    PROVE  StreamOK(given, q, chan, left, due, next)
<1>1. InHand(p) = {} /\ InHand(q) = {}
  BY Zenon DEF InHand
<1>2. p.cursor \in Nat
  BY Zenon DEF StreamTypes, PumpState
<1>3. End(given, p.from) = p.cursor - 1
  BY Zenon DEF StreamOK, CursorInv
<1>4. CursorInv(q, End(given, q.from), left)
  BY <1>2, <1>3 DEF CursorInv
<1>5. ChannelInv(q, chan, left, due, next)
  BY <1>1, Zenon DEF StreamOK, ChannelInv
<1> QED
  BY <1>4, <1>5, Zenon DEF StreamOK

LEMMA PumpSendsNext ==
    ASSUME NEW given, NEW p, NEW chan, NEW left, NEW due, NEW next,
           StreamTypes(given, p, chan, left, due, next),
           StreamOK(given, p, chan, left, due, next),
           p.pc = "send",
           NEW q, q.from = p.from, q.hw = p.hw,
           LET rest == p.hand \ {Min(p.hand)} IN
           \/ /\ rest # {} /\ q.pc = "send" /\ q.hand = rest
              /\ q.cursor = p.cursor /\ q.got = p.got
           \/ /\ rest = {} /\ q.pc = "read" /\ q.cursor = p.cursor + p.got
    PROVE  StreamOK(Append(given, Min(p.hand)), q, chan, left, due, next)
<1> DEFINE e == End(given, p.from)
           top == p.cursor + p.got - 1
<1>1. /\ p.from \in Nat /\ p.cursor \in Nat /\ p.hw \in Nat /\ p.got \in Nat
      /\ given \in Seq(Nat)
  BY Zenon DEF StreamTypes, PumpState
<1>2. e \in Int /\ e + 1 \in Nat
  <2>1. CASE given = <<>>
    BY <2>1, <1>1 DEF End
  <2>2. CASE given # <<>>
    BY <2>2, <1>1, EmptySeq DEF End
  <2> QED
    BY <2>1, <2>2, Zenon
<1>3. p.hand = e + 1 .. top /\ e + 1 <= top /\ top \in Int
  BY <1>1, <1>2 DEF StreamOK, CursorInv
<1> HIDE DEF e, top
<1>4. Min(p.hand) = e + 1
  BY <1>2, <1>3, MinIs
<1>5. p.hand \ {Min(p.hand)} = e + 2 .. top
  BY <1>2, <1>3, <1>4
<1>a. (e + 2 .. top = {}) <=> e + 1 = top
  <2>1. CASE e + 1 = top
    BY <1>2, <2>1
  <2>2. CASE e + 1 # top
    <3>1. top \in e + 2 .. top
      BY <1>2, <1>3, <2>2
    <3> QED
      BY <2>2, <3>1, Zenon
  <2> QED
    BY <2>1, <2>2, Zenon
<1>6. /\ Unbroken(Append(given, e + 1), p.from, left)
      /\ End(Append(given, e + 1), p.from) = e + 1
  <2>1. e + 1 .. (e + 1) - 1 = {} /\ e + 1 > e
    BY <1>2
  <2> QED
    BY <1>1, <1>2, <2>1, UnbrokenAppend, Zenon DEF StreamOK, e
<1>7. CursorInv(q, e + 1, left)
  <2>1. CASE q.pc = "send"
    <3>0. e + 1 # top /\ q.hand = e + 2 .. top
      BY <1>5, <1>a, <2>1, Zenon
    <3>1. e + 2 <= top /\ q.hand = e + 2 .. top /\ top = q.cursor + q.got - 1
      BY <1>2, <1>3, <2>1, <3>0 DEF top
    <3>2. (e + 1) + 1 = e + 2 /\ (e + 1) + 1 < q.cursor + q.got
      BY <1>1, <1>2, <2>1, <1>3, <3>1 DEF top
    <3> QED
      BY <2>1, <3>1, <3>2, <1>1, <1>2, <1>3, Zenon DEF CursorInv
  <2>2. CASE q.pc = "read"
    <3>1. e + 1 = top /\ q.cursor = p.cursor + p.got
      BY <1>5, <1>a, <2>2, Zenon
    <3> QED
      BY <1>1, <1>2, <2>2, <3>1 DEF CursorInv, top
  <2> QED
    BY <2>1, <2>2, Zenon
<1>8. ChannelInv(q, chan, left, due, next)
  <2>1. InHand(p) = {} /\ InHand(q) = {}
    BY Zenon DEF InHand
  <2>2. q.cursor >= p.cursor /\ q.cursor \in Nat
    BY <1>1
  <2>3. /\ \A i, j \in DOMAIN chan : i < j => chan[i] < chan[j]
        /\ \A i \in DOMAIN chan : chan[i] < next /\ \A d \in due : chan[i] < d
        /\ \A o \in p.hw .. next - 1 :
            o >= p.cursor => \/ \E i \in DOMAIN chan : chan[i] = o
                             \/ o \in due \union left
    BY <2>1, Zenon DEF StreamOK, ChannelInv
  <2>4. \A o \in p.hw .. next - 1 : o >= q.cursor => o >= p.cursor
    BY <1>1, <2>2
  <2> QED
    BY <2>1, <2>3, <2>4, Zenon DEF ChannelInv
<1> QED
  BY <1>4, <1>6, <1>7, <1>8, Zenon DEF StreamOK

LEMMA PumpDrops ==
    ASSUME NEW given, NEW p, NEW chan, NEW left, NEW due, NEW next,
           StreamTypes(given, p, chan, left, due, next),
           StreamOK(given, p, chan, left, due, next),
           p.pc = "live", chan # <<>>, Head(chan) < p.cursor
    PROVE  StreamOK(given, p, Tail(chan), left, due, next)
<1> DEFINE n == Len(chan)
           new == Tail(chan)
<1>1. /\ n \in Nat \ {0} /\ DOMAIN chan = 1 .. n /\ DOMAIN new = 1 .. n - 1
      /\ \A i \in 1 .. n : chan[i] \in Nat
      /\ \A i \in 1 .. n - 1 : new[i] = chan[i + 1]
      /\ Head(chan) = chan[1]
  BY EmptySeq DEF StreamTypes
<1>2. InHand(p) = {} /\ p.cursor \in Nat
  BY Zenon DEF InHand, StreamTypes, PumpState
<1> HIDE DEF n, new
<1>3. /\ \A i, j \in 1 .. n : i < j => chan[i] < chan[j]
      /\ \A i \in 1 .. n : chan[i] < next /\ \A d \in due : chan[i] < d
      /\ \A o \in p.hw .. next - 1 :
            o >= p.cursor => \/ \E i \in 1 .. n : chan[i] = o
                             \/ o \in due \union left
  BY <1>1, <1>2, Zenon DEF StreamOK, ChannelInv
<1>4. /\ \A i, j \in 1 .. n - 1 : i < j => new[i] < new[j]
      /\ \A i \in 1 .. n - 1 : new[i] < next /\ \A d \in due : new[i] < d
  BY <1>1, <1>3
<1>5. ASSUME NEW o \in p.hw .. next - 1, o >= p.cursor, o \notin due \union left
      PROVE  \E i \in 1 .. n - 1 : new[i] = o
  <2>1. PICK i \in 1 .. n : chan[i] = o
    BY <1>3, <1>5, Zenon
  <2>2. i # 1
    BY <1>1, <1>2, <1>5, <2>1
  <2>3. i - 1 \in 1 .. n - 1 /\ new[i - 1] = o
    BY <1>1, <2>1, <2>2
  <2> QED
    BY <2>3, Zenon
<1>6. ChannelInv(p, new, left, due, next)
  BY <1>1, <1>2, <1>4, <1>5, Zenon DEF ChannelInv
<1> QED
  BY <1>6, Zenon DEF StreamOK, new

LEMMA PumpTakes ==
    ASSUME NEW given, NEW p, NEW chan, NEW left, NEW due, NEW next,
           StreamTypes(given, p, chan, left, due, next),
           StreamOK(given, p, chan, left, due, next),
           p.pc = "live", chan # <<>>, Head(chan) >= p.cursor,
           NEW q, q.pc = "forward", q.from = p.from, q.cursor = p.cursor,
           q.hw = p.hw, q.hand = {Head(chan)}
    PROVE  StreamOK(given, q, Tail(chan), left, due, next)
<1> DEFINE n == Len(chan)
           new == Tail(chan)
           h == chan[1]
<1>1. /\ n \in Nat \ {0} /\ DOMAIN chan = 1 .. n /\ DOMAIN new = 1 .. n - 1
      /\ \A i \in 1 .. n : chan[i] \in Nat
      /\ \A i \in 1 .. n - 1 : new[i] = chan[i + 1]
      /\ Head(chan) = h
  BY EmptySeq DEF StreamTypes
<1>2. InHand(p) = {} /\ InHand(q) = {h}
  BY <1>1, Zenon DEF InHand
<1>3. /\ p.cursor \in Nat /\ p.hw \in Nat /\ next \in Nat /\ h \in Nat
      /\ due \in SUBSET Nat
  BY <1>1 DEF StreamTypes, PumpState
<1> HIDE DEF n, new, h
<1>4. /\ \A i, j \in 1 .. n : i < j => chan[i] < chan[j]
      /\ \A i \in 1 .. n : chan[i] < next /\ \A d \in due : chan[i] < d
      /\ \A o \in p.hw .. next - 1 :
            o >= p.cursor => \/ \E i \in 1 .. n : chan[i] = o
                             \/ o \in due \union left
  BY <1>1, <1>2, Zenon DEF StreamOK, ChannelInv
<1>5. /\ h < next /\ \A d \in due : h < d
      /\ \A i \in 1 .. n : h <= chan[i] /\ (i # 1 => h < chan[i])
  <2>1. 1 \in 1 .. n
    BY <1>1
  <2> QED
    BY <1>1, <1>3, <1>4, <2>1 DEF h
<1>6. p.cursor .. h - 1 \subseteq left
  <2> SUFFICES ASSUME NEW o \in p.cursor .. h - 1
               PROVE  o \in left
    BY Zenon
  <2>1. p.cursor >= p.hw
    BY Zenon DEF StreamOK, CursorInv
  <2>2. o \in p.hw .. next - 1 /\ o >= p.cursor /\ o < h
    BY <1>3, <1>5, <2>1
  <2>3. ~\E i \in 1 .. n : chan[i] = o
    BY <1>1, <1>3, <1>5, <2>2
  <2>4. o \notin due
    BY <1>3, <1>5, <2>2
  <2> QED
    BY <1>4, <2>2, <2>3, <2>4, Zenon
<1>7. CursorInv(q, End(given, q.from), left)
  <2>1. End(given, p.from) = p.cursor - 1 /\ p.cursor >= p.hw
    BY Zenon DEF StreamOK, CursorInv
  <2>2. q.hand = {h} /\ h >= q.cursor /\ q.cursor .. h - 1 \subseteq left
    BY <1>1, <1>6, Zenon
  <2> QED
    BY <2>1, <2>2, Zenon DEF CursorInv
<1>8. /\ \A i, j \in 1 .. n - 1 : i < j => new[i] < new[j]
      /\ \A i \in 1 .. n - 1 : /\ new[i] < next
                               /\ h < new[i]
                               /\ \A d \in due : new[i] < d
  BY <1>1, <1>4, <1>5, SMTT(30)
<1>9. ASSUME NEW o \in p.hw .. next - 1, o >= p.cursor, o > h,
             o \notin due \union left
      PROVE  \E i \in 1 .. n - 1 : new[i] = o
  <2>1. PICK i \in 1 .. n : chan[i] = o
    BY <1>4, <1>9, Zenon
  <2>2. i # 1
    BY <1>3, <1>9, <2>1 DEF h
  <2>3. i - 1 \in 1 .. n - 1 /\ new[i - 1] = o
    BY <1>1, <2>1, <2>2
  <2> QED
    BY <2>3, Zenon
<1>10. ChannelInv(q, new, left, due, next)
  BY <1>1, <1>2, <1>5, <1>8, <1>9, Zenon DEF ChannelInv
<1> QED
  BY <1>7, <1>10, Zenon DEF StreamOK, new

LEMMA PumpForwards ==
    ASSUME NEW given, NEW p, NEW chan, NEW left, NEW due, NEW next,
           StreamTypes(given, p, chan, left, due, next),
           StreamOK(given, p, chan, left, due, next),
           p.pc = "forward",
           NEW q, q.pc = "live", q.from = p.from, q.hw = p.hw,
           q.cursor = Min(p.hand) + 1
    PROVE  StreamOK(Append(given, Min(p.hand)), q, chan, left, due, next)
<1>1. PICK h \in p.hand : /\ p.hand = {h} /\ h >= p.cursor
                          /\ p.cursor .. h - 1 \subseteq left
  BY Zenon DEF StreamOK, CursorInv
<1>2. /\ p.from \in Nat /\ p.cursor \in Nat /\ p.hw \in Nat /\ h \in Nat
      /\ given \in Seq(Nat)
  BY <1>1, Zenon DEF StreamTypes, PumpState
<1>3. Min(p.hand) = h
  <2>1. p.hand \in SUBSET Int /\ \A y \in p.hand : h <= y
    BY <1>1, <1>2
  <2> QED
    BY <2>1, MinIs, Zenon
<1>4. End(given, p.from) = p.cursor - 1 /\ p.cursor >= p.hw
  BY Zenon DEF StreamOK, CursorInv
<1>5. /\ Unbroken(Append(given, h), p.from, left)
      /\ End(Append(given, h), p.from) = h
  <2>1. h > End(given, p.from) /\ End(given, p.from) + 1 .. h - 1 \subseteq left
    BY <1>1, <1>2, <1>4
  <2> QED
    BY <1>2, <2>1, UnbrokenAppend, Zenon DEF StreamOK
<1>6. CursorInv(q, h, left)
  BY <1>1, <1>2, <1>3, <1>4 DEF CursorInv
<1>7. InHand(p) = {h} /\ InHand(q) = {}
  BY <1>1, Zenon DEF InHand
<1>8. ChannelInv(q, chan, left, due, next)
  <2>1. \A o \in p.hw .. next - 1 : o >= q.cursor => o >= p.cursor /\ o > h
    BY <1>1, <1>2, <1>3
  <2> QED
    BY <1>7, <2>1, Zenon DEF StreamOK, ChannelInv
<1> QED
  BY <1>3, <1>5, <1>6, <1>8, Zenon DEF StreamOK

(***************************************************************************)
(* A read of a log that nothing was taken from is an interval.             *)
(***************************************************************************)
LEMMA ReadIsInterval ==
    ASSUME NEW from \in Nat, NEW max \in Nat, highWater \in Nat,
           DOMAIN log = 0 .. highWater - 1, Read(from, max) # {}
    PROVE  /\ Cardinality(Read(from, max)) \in Nat \ {0}
           /\ Read(from, max) = from .. from + Cardinality(Read(from, max)) - 1
<1> DEFINE tail == {o \in DOMAIN log : o >= from}
           got == IF highWater - from <= max THEN highWater - from ELSE max
<1>1. tail = from .. highWater - 1
  OBVIOUS
<1>2. ASSUME NEW o \in tail
      PROVE  Cardinality({p \in tail : p < o}) = o - from
  <2>1. {p \in tail : p < o} = from .. o - 1
    BY <1>1
  <2>2. from \in Int /\ o \in Int /\ o - 1 \in Int /\ o >= from
    OBVIOUS
  <2>3. Cardinality(from .. o - 1) = IF from > o - 1 THEN 0 ELSE (o - 1) - from + 1
    BY <2>2, FS_Interval, Zenon
  <2> HIDE DEF tail
  <2>4. (IF from > o - 1 THEN 0 ELSE (o - 1) - from + 1) = o - from
    BY <2>2
  <2> QED
    BY <2>1, <2>3, <2>4, Zenon
<1>3. Read(from, max) = {o \in from .. highWater - 1 : o - from < max}
  <2>1. Read(from, max) = {o \in tail : o - from < max}
    BY <1>2, Zenon DEF Read
  <2> QED
    BY <1>1, <2>1, Zenon
<1>4. got \in Nat \ {0} /\ Read(from, max) = from .. from + got - 1
  BY <1>3
<1>5. Cardinality(Read(from, max)) = got
  <2>1. from \in Int /\ from + got - 1 \in Int /\ from <= from + got - 1
    BY <1>4
  <2> HIDE DEF got
  <2>2. Cardinality(from .. from + got - 1) = from + got - 1 - from + 1
    BY <2>1, <1>4, FS_Interval
  <2> QED
    BY <1>4, <2>2
<1> QED
  BY <1>4, <1>5, Zenon

(***************************************************************************)
(* The due records: the one that the holder of the lock is sending.        *)
(***************************************************************************)
LEMMA DueFacts ==
    ASSUME Typed, LockInv, NEW s \in Subscription
    PROVE  /\ StreamTypes(Given(s), pump[s], sub[s], skipped[s], DueOffsets(s),
                          highWater)
           /\ DueOffsets(s) \subseteq {highWater - 1}
           /\ holder = {} => DueOffsets(s) = {}
<1> USE DEF Typed, StoreTyped, PublishTyped, StreamTyped
<1>1. DueOffsets(s) \subseteq {highWater - 1} /\ (holder = {} => DueOffsets(s) = {})
  BY Zenon DEF DueOffsets, Due, LockInv
<1>2. DueOffsets(s) \in SUBSET Nat
  BY Zenon DEF DueOffsets, Due, CallTyped
<1>3. Given(s) \in Seq(Nat)
  BY DEF Given
<1> QED
  BY <1>1, <1>2, <1>3, Zenon DEF StreamTypes

LEMMA StreamFrame ==
    ASSUME NEW s \in Subscription, Streaming(s),
           Given(s)' = Given(s), pump'[s] = pump[s], sub'[s] = sub[s],
           skipped'[s] = skipped[s], DueOffsets(s)' = DueOffsets(s),
           highWater' = highWater
    PROVE  Streaming(s)'
  BY Zenon DEF Streaming

LEMMA DueKept ==
    ASSUME UNCHANGED call
    PROVE  \A s : DueOffsets(s)' = DueOffsets(s)
  BY Zenon DEF DueOffsets, Due

(***************************************************************************)
(* The callers' steps keep every stream's promise.                         *)
(***************************************************************************)
LEMMA PublishStreams ==
    ASSUME Typed, LockInv, \A s \in Subscription : Streaming(s),
           NEW c \in Caller,
           (\E msg \in Message : PublishRetry(c, msg) \/ PublishAppend(c, msg))
                \/ PublishStep(c)
    PROVE  \A s \in Subscription : Streaming(s)'
<1>a. StoreTyped /\ PublishTyped /\ StreamTyped
  BY Zenon DEF Typed
<1>b. \A d \in Caller : d # c => call'[d] = call[d]
  BY <1>a, Zenon DEF PublishTyped, PublishRetry, PublishAppend, PublishStep, FanOut,
              PublishDone, PublishCancelled, Return
<1>c. \A d, e \in Caller : call[d].pc = "fanout" /\ call[e].pc = "fanout" => d = e
  BY Zenon DEF LockInv
<1>d. UNCHANGED <<out, pump, delivered>> /\ \A s : Given(s)' = Given(s)
  BY Zenon DEF PublishRetry, PublishAppend, PublishStep, FanOut, PublishDone,
         PublishCancelled, Return, streamVars, Given
<1> SUFFICES ASSUME NEW s \in Subscription
             PROVE  Streaming(s)'
  BY Zenon
<1>e. /\ StreamTypes(Given(s), pump[s], sub[s], skipped[s], DueOffsets(s), highWater)
      /\ DueOffsets(s) \subseteq {highWater - 1}
      /\ holder = {} => DueOffsets(s) = {}
  BY DueFacts, Zenon
<1>f. StreamOK(Given(s), pump[s], sub[s], skipped[s], DueOffsets(s), highWater)
  BY Zenon DEF Streaming
<1>1. CASE \E msg \in Message : PublishRetry(c, msg)
  <2>1. call[c].pc = "idle" /\ call'[c].pc = "returned"
    BY <1>1, <1>a DEF PublishRetry, PublishTyped
  <2>2. DueOffsets(s)' = DueOffsets(s)
    BY <1>b, <2>1 DEF DueOffsets, Due
  <2>3. UNCHANGED <<sub, skipped, highWater>>
    BY <1>1, Zenon DEF PublishRetry, streamVars, storeVars
  <2> QED
    BY <1>d, <2>2, <2>3, StreamFrame, Zenon
<1>2. CASE \E msg \in Message : PublishAppend(c, msg)
  <2>1. /\ call'[c].pc = "fanout" /\ call'[c].offset = highWater
        /\ call'[c].todo = subscribers /\ holder = {} /\ highWater' = highWater + 1
        /\ UNCHANGED <<sub, skipped>>
    BY <1>2, <1>a DEF PublishAppend, PublishTyped, streamVars
  <2>2. \A d \in Caller : d # c => ~Due(d, s)'
    <3>1. \A d \in Caller : call[d].pc # "fanout"
      BY <2>1, Zenon DEF LockInv
    <3> QED
      BY <1>b, <3>1, Zenon DEF Due
  <2>3. Due(c, s)' <=> Registered(s)
    BY <2>1, Zenon DEF Due, Registered
  <2>4. DueOffsets(s)' = {d \in {highWater} : Registered(s)}
    BY <2>1, <2>2, <2>3, Zenon DEF DueOffsets
  <2>5. \/ DueOffsets(s)' = {highWater}
        \/ DueOffsets(s)' = {} /\ pump[s].pc \in {"none", "closed"}
    BY <2>4, Zenon DEF LockInv
  <2>6. DueOffsets(s) = {}
    BY <1>e, <2>1, Zenon
  <2>7. StreamOK(Given(s), pump[s], sub[s], skipped[s], DueOffsets(s)', highWater + 1)
    BY <1>e, <1>f, <2>5, <2>6, StreamAppended, Zenon
  <2> QED
    BY <1>d, <2>1, <2>7, Zenon DEF Streaming
<1>3. CASE FanOut(c)
  <2> DEFINE todo == call[c].todo
  <2>1. /\ call[c].pc = "fanout" /\ call'[c].pc = "fanout" /\ todo # <<>>
        /\ call'[c].todo = Tail(todo) /\ call'[c].offset = call[c].offset
        /\ sub' = [sub EXCEPT ![Head(todo)] = Append(@, call[c].offset)]
        /\ UNCHANGED <<skipped, highWater>>
    BY <1>3, <1>a, Zenon DEF FanOut, PublishTyped, CallState, storeVars
  <2>2. todo \in Seq(Subscription)
    BY <1>a, Zenon DEF PublishTyped, CallState
  <2>3. /\ DOMAIN todo = 1 .. Len(todo) /\ Len(todo) \in Nat \ {0}
        /\ DOMAIN Tail(todo) = 1 .. Len(todo) - 1 /\ Head(todo) = todo[1]
        /\ \A i \in 1 .. Len(todo) - 1 : Tail(todo)[i] = todo[i + 1]
    BY <2>1, <2>2, EmptySeq
  <2>4. Distinct(todo) /\ call[c].offset = highWater - 1 /\ highWater - 1 \in Nat
    BY <2>1, <1>a, Zenon DEF LockInv, PublishTyped, CallTyped
  <2>5. \A d \in Caller : d # c => ~Due(d, s) /\ ~Due(d, s)'
    BY <1>b, <1>c, <2>1, Zenon DEF Due
  <2>6. CASE s = Head(todo)
    <3>1. Due(c, s)
      <4>1. 1 \in DOMAIN todo
        BY <2>3
      <4> QED
        BY <2>1, <2>3, <2>6, <4>1, Zenon DEF Due
    <3>2. ~Due(c, s)'
      <4>1. \A i \in 1 .. Len(todo) - 1 : todo[i + 1] # todo[1]
        BY <2>3, <2>4 DEF Distinct
      <4> QED
        BY <2>1, <2>3, <2>6, <4>1, Zenon DEF Due
    <3>3. DueOffsets(s) = {highWater - 1} /\ DueOffsets(s)' = {}
      BY <2>4, <2>5, <3>1, <3>2, Zenon DEF DueOffsets
    <3>4. pump[s].pc # "none"
      BY <2>1, <3>1, Zenon DEF LockInv, Due
    <3>5. sub'[s] = Append(sub[s], highWater - 1)
      BY <1>a, <2>1, <2>4, <2>6, Zenon DEF StreamTyped
    <3>6. StreamOK(Given(s), pump[s], Append(sub[s], highWater - 1), skipped[s], {},
                   highWater)
      <4>1. highWater - 1 < highWater
        BY <1>a DEF StoreTyped
      <4> QED
        BY <1>e, <1>f, <2>4, <3>3, <3>4, <4>1, StreamSent, Zenon
    <3> QED
      BY <1>d, <2>1, <3>3, <3>5, <3>6, Zenon DEF Streaming
  <2>7. CASE s # Head(todo)
    <3>1. Due(c, s)' <=> Due(c, s)
      <4>1. ASSUME NEW i \in DOMAIN todo, todo[i] = s
            PROVE  \E k \in DOMAIN Tail(todo) : Tail(todo)[k] = s
        <5>1. i # 1
          BY <2>3, <2>7, <4>1, Zenon
        <5>2. i - 1 \in DOMAIN Tail(todo) /\ Tail(todo)[i - 1] = s
          BY <2>3, <4>1, <5>1
        <5> QED
          BY <5>2, Zenon
      <4>2. ASSUME NEW k \in DOMAIN Tail(todo), Tail(todo)[k] = s
            PROVE  \E i \in DOMAIN todo : todo[i] = s
        <5>1. k + 1 \in DOMAIN todo /\ todo[k + 1] = s
          BY <2>3, <4>2
        <5> QED
          BY <5>1, Zenon
      <4> QED
        BY <2>1, <4>1, <4>2, Zenon DEF Due
    <3>2. DueOffsets(s)' = DueOffsets(s)
      BY <1>b, <2>1, <2>5, <3>1, Zenon DEF DueOffsets
    <3>3. sub'[s] = sub[s]
      BY <1>a, <2>1, <2>7, Zenon DEF StreamTyped
    <3> QED
      BY <1>d, <2>1, <3>2, <3>3, StreamFrame, Zenon
  <2> QED
    BY <2>6, <2>7, Zenon
<1>4. CASE PublishDone(c)
  <2>1. /\ call'[c].pc = "returned" /\ call[c].todo = <<>>
        /\ UNCHANGED <<sub, skipped, highWater>>
    BY <1>4, <1>a, Zenon DEF PublishDone, PublishTyped, CallState, streamVars, storeVars
  <2>2. ~Due(c, s)
    BY <2>1 DEF Due
  <2>3. ~Due(c, s)'
    BY <2>1, Zenon DEF Due
  <2>4. \A d \in Caller : /\ Due(d, s) <=> Due(d, s)'
                          /\ Due(d, s) => call'[d].offset = call[d].offset
    BY <1>b, <2>2, <2>3, Zenon DEF Due
  <2>5. DueOffsets(s)' = DueOffsets(s)
    BY <2>4, Zenon DEF DueOffsets
  <2> QED
    BY <1>d, <2>1, <2>5, StreamFrame, Zenon
<1>5. CASE PublishCancelled(c)
  <2>1. /\ call[c].pc = "fanout" /\ call'[c].pc = "idle"
        /\ UNCHANGED <<sub, highWater>>
        /\ skipped'[s] = IF s \in Range(call[c].todo)
                         THEN skipped[s] \union {call[c].offset} ELSE skipped[s]
    BY <1>5, <1>a, Zenon DEF PublishCancelled, PublishTyped, IdleCall, streamVars, storeVars
  <2>2. \A d \in Caller : ~Due(d, s)' /\ (d # c => ~Due(d, s))
    BY <1>b, <1>c, <2>1, Zenon DEF Due
  <2>3. Due(c, s) <=> s \in Range(call[c].todo)
    BY <2>1, Zenon DEF Due, Range
  <2>4. skipped'[s] = skipped[s] \union DueOffsets(s)
    BY <2>1, <2>2, <2>3, Zenon DEF DueOffsets
  <2>5. DueOffsets(s)' = {}
    BY <2>2, Zenon DEF DueOffsets
  <2>6. StreamOK(Given(s), pump[s], sub[s], skipped[s] \union DueOffsets(s), {},
                 highWater)
    BY <1>e, <1>f, StreamSkipped, Zenon
  <2> QED
    BY <1>d, <2>1, <2>4, <2>5, <2>6, Zenon DEF Streaming
<1>6. CASE Return(c)
  <2>1. /\ call[c].pc = "returned" /\ call'[c].pc = "idle"
        /\ UNCHANGED <<sub, skipped, highWater>>
    BY <1>6, <1>a, Zenon DEF Return, PublishTyped, IdleCall, streamVars, storeVars
  <2>2. DueOffsets(s)' = DueOffsets(s)
    BY <1>b, <2>1 DEF DueOffsets, Due
  <2> QED
    BY <1>d, <2>1, <2>2, StreamFrame, Zenon
<1> QED
  BY <1>1, <1>2, <1>3, <1>4, <1>5, <1>6, Zenon DEF PublishStep

(***************************************************************************)
(* Sending appends to what was given.                                      *)
(***************************************************************************)
LEMMA SendConcat ==
    ASSUME NEW a \in Seq(Nat), NEW b \in Seq(Nat), NEW x \in Nat
    PROVE  a \o Append(b, x) = Append(a \o b, x)
<1> DEFINE l == a \o Append(b, x)
           r == Append(a \o b, x)
<1>1. Len(b) \in Nat /\ Len(a) \in Nat
  OBVIOUS
<1>2. l \in Seq(Nat) /\ r \in Seq(Nat) /\ Len(l) = Len(a) + Len(b) + 1 /\ Len(r) = Len(l)
  BY <1>1
<1>3. ASSUME NEW i \in 1 .. Len(a) + Len(b) + 1
      PROVE  l[i] = r[i]
  BY <1>1
<1> HIDE DEF l, r
<1>4. l = r
  BY <1>2, <1>3, SeqEqual, Zenon
<1> QED
  BY <1>4, Zenon DEF l, r

(***************************************************************************)
(* What was received comes first in what was given.                        *)
(***************************************************************************)
LEMMA GivenFirst ==
    ASSUME NEW a \in Seq(Nat), NEW b \in Seq(Nat), NEW k \in 1 .. Len(a)
    PROVE  k \in DOMAIN (a \o b) /\ (a \o b)[k] = a[k]
<1>1. Len(a) \in Nat /\ Len(b) \in Nat /\ DOMAIN (a \o b) = 1 .. Len(a) + Len(b)
  OBVIOUS
<1>2. k \in 1 .. Len(a) + Len(b)
  BY <1>1
<1>3. (a \o b)[k] = a[k]
  OBVIOUS
<1> QED
  BY <1>1, <1>2, <1>3, Zenon

(***************************************************************************)
(* Receiving moves a record from the channel to what was received.         *)
(***************************************************************************)
LEMMA ReceiveConcat ==
    ASSUME NEW S, NEW a \in Seq(S), NEW b \in Seq(S), b # <<>>
    PROVE  Append(a, Head(b)) \o Tail(b) = a \o b
<1> DEFINE l == Append(a, Head(b)) \o Tail(b)
           r == a \o b
<1>1. Len(b) \in Nat \ {0} /\ Len(a) \in Nat /\ Len(Tail(b)) = Len(b) - 1
  BY EmptySeq
<1>2. l \in Seq(S) /\ r \in Seq(S) /\ Len(l) = Len(a) + Len(b) /\ Len(r) = Len(l)
  BY <1>1
<1>3. ASSUME NEW i \in 1 .. Len(a) + Len(b)
      PROVE  l[i] = r[i]
  BY <1>1
<1> HIDE DEF l, r
<1>4. l = r
  BY <1>2, <1>3, SeqEqual, Zenon
<1> QED
  BY <1>4, Zenon DEF l, r

(***************************************************************************)
(* The steps of a subscription and its pump keep the promise.              *)
(***************************************************************************)
LEMMA SubscribeStreams ==
    ASSUME Typed, LockInv, \A x \in Subscription : Streaming(x),
           NEW s \in Subscription, NEW from \in 0 .. MaxOffset, Subscribe(s, from)
    PROVE  \A x \in Subscription : Streaming(x)'
<1>a. StoreTyped /\ StreamTyped /\ from \in Nat
  BY BrokerAssumption DEF Typed
<1>1. /\ UNCHANGED <<out, delivered, sub, skipped, highWater, call>>
      /\ \A x : Given(x)' = Given(x) /\ DueOffsets(x)' = DueOffsets(x)
  BY DueKept, Zenon DEF Subscribe, publishVars, storeVars, Given
<1>2. /\ \A x \in Subscription : x # s => pump'[x] = pump[x]
      /\ pump[s].pc = "none"
      /\ pump'[s].pc = "read" /\ pump'[s].from = from /\ pump'[s].cursor = from
      /\ pump'[s].hw = highWater
  BY <1>a, Zenon DEF Subscribe, StreamTyped, NoPump
<1>3. Given(s) = <<>> /\ sub[s] = <<>>
  BY <1>2, Zenon DEF Streaming, StreamOK
<1>4. DueOffsets(s) = {}
  BY DueFacts, Zenon DEF Subscribe
<1>5. Streaming(s)'
  <2> DEFINE q == pump'[s]
  <2>1. End(<<>>, from) = from - 1 /\ Unbroken(<<>>, from, skipped[s])
    BY DEF End, Unbroken
  <2>2. InHand(q) = {} /\ q.hw .. highWater - 1 = {}
    BY <1>2, <1>a DEF InHand, StoreTyped
  <2>3. ChannelInv(q, <<>>, skipped[s], {}, highWater)
    BY <2>2 DEF ChannelInv
  <2>4. CursorInv(q, from - 1, skipped[s])
    BY <1>2, Zenon DEF CursorInv
  <2>5. StreamOK(<<>>, q, <<>>, skipped[s], {}, highWater)
    BY <1>2, <2>1, <2>3, <2>4, Zenon DEF StreamOK
  <2> QED
    BY <1>1, <1>3, <1>4, <2>5, Zenon DEF Streaming
<1> QED
  BY <1>1, <1>2, <1>5, StreamFrame, Zenon

LEMMA PumpStreams ==
    ASSUME Typed, LockInv, DOMAIN log = 0 .. highWater - 1,
           \A x \in Subscription : Streaming(x),
           NEW s \in Subscription, PumpStep(s) \/ Receive(s)
    PROVE  \A x \in Subscription : Streaming(x)'
<1>a. StoreTyped /\ StreamTyped /\ PumpTyped(pump[s])
  BY Zenon DEF Typed, StreamTyped
<1>b. /\ UNCHANGED <<skipped, highWater, call>>
      /\ \A x : DueOffsets(x)' = DueOffsets(x)
  BY DueKept, Zenon DEF PumpStep, PumpRead, PumpSend, PumpTake, PumpForward, PumpCancelled,
                 PumpExit, Receive, publishVars, storeVars
<1>c. \A x \in Subscription : x # s => /\ pump'[x] = pump[x] /\ sub'[x] = sub[x]
                                       /\ out'[x] = out[x]
                                       /\ delivered'[x] = delivered[x]
  BY <1>a, Zenon DEF StreamTyped, PumpStep, PumpRead, PumpSend, PumpTake, PumpForward,
              PumpCancelled, PumpExit, Receive
<1>d. \A x \in Subscription : x # s => Streaming(x)'
  BY <1>b, <1>c, StreamFrame, Zenon DEF Given
<1> DEFINE p == pump[s]
           q == pump'[s]
<1>e. StreamTypes(Given(s), p, sub[s], skipped[s], DueOffsets(s), highWater)
  BY DueFacts, Zenon
<1>f. StreamOK(Given(s), p, sub[s], skipped[s], DueOffsets(s), highWater)
  BY Zenon DEF Streaming
<1>g. ASSUME StreamOK(Given(s)', q, sub'[s], skipped[s], DueOffsets(s), highWater)
      PROVE  Streaming(s)'
  BY <1>b, <1>g, Zenon DEF Streaming
<1>h. /\ delivered[s] \in Seq(Nat) /\ out[s] \in Seq(Nat) /\ p \in PumpState
      /\ sub[s] \in Seq(Nat)
  BY <1>a, Zenon DEF StreamTyped
<1>i. ASSUME NEW o \in Nat
      PROVE  delivered[s] \o Append(out[s], o) = Append(delivered[s] \o out[s], o)
  BY <1>h, SendConcat, Zenon
<1>1. CASE PumpRead(s)
  <2> DEFINE recs == Read(p.cursor, CatchUpBatch)
  <2>1. Given(s)' = Given(s) /\ sub'[s] = sub[s] /\ p.pc = "read"
    BY <1>1, Zenon DEF PumpRead, Given
  <2>2. q = IF p.cursor >= p.hw THEN [p EXCEPT !.pc = "live"]
            ELSE IF s \in ended \/ recs = {} THEN [p EXCEPT !.pc = "exiting"]
            ELSE [p EXCEPT !.pc = "send", !.got = Cardinality(recs), !.hand = recs]
    BY <1>1, <1>a, Zenon DEF PumpRead, StreamTyped
  <2> HIDE DEF recs, q
  <2>3. CASE p.cursor >= p.hw
    <3>1. q.pc = "live" /\ q.from = p.from /\ q.cursor = p.cursor /\ q.hw = p.hw
      BY <1>h, <2>2, <2>3, Zenon DEF PumpState
    <3>2. StreamOK(Given(s), q, sub[s], skipped[s], DueOffsets(s), highWater)
      BY <1>e, <1>f, <2>1, <2>3, <3>1, PumpGoesLive, Zenon
    <3> QED
      BY <1>d, <1>g, <2>1, <3>2, Zenon
  <2>4. CASE ~(p.cursor >= p.hw) /\ (s \in ended \/ recs = {})
    <3>1. q.pc = "exiting" /\ q.from = p.from
      BY <1>h, <2>2, <2>4, Zenon DEF PumpState
    <3>2. StreamOK(Given(s), q, sub[s], skipped[s], DueOffsets(s), highWater)
      BY <1>f, <3>1, PumpStops
    <3> QED
      BY <1>d, <1>g, <2>1, <3>2, Zenon
  <2>5. CASE ~(p.cursor >= p.hw) /\ ~(s \in ended \/ recs = {})
    <3>1. /\ q.pc = "send" /\ q.from = p.from /\ q.cursor = p.cursor /\ q.hw = p.hw
          /\ q.got = Cardinality(recs) /\ q.hand = recs
      BY <1>h, <2>2, <2>5, Zenon DEF PumpState
    <3>2. /\ Cardinality(recs) \in Nat \ {0}
          /\ recs = p.cursor .. p.cursor + Cardinality(recs) - 1
      <4>1. p.cursor \in Nat /\ CatchUpBatch \in Nat /\ highWater \in Nat
        BY <1>a, <1>h, BrokerAssumption, Zenon DEF StoreTyped, PumpState
      <4> QED
        BY <2>5, <4>1, ReadIsInterval, Zenon DEF recs
    <3>3. StreamOK(Given(s), q, sub[s], skipped[s], DueOffsets(s), highWater)
      BY <1>e, <1>f, <2>1, <3>1, <3>2, PumpTakesBatch, Zenon
    <3> QED
      BY <1>d, <1>g, <2>1, <3>3, Zenon
  <2> QED
    BY <2>3, <2>4, <2>5, Zenon
<1>2. CASE PumpSend(s)
  <2> DEFINE rest == p.hand \ {Min(p.hand)}
             o == Min(p.hand)
  <2>1. /\ p.pc = "send" /\ sub'[s] = sub[s]
        /\ out'[s] = Append(out[s], o) /\ delivered'[s] = delivered[s]
    BY <1>2, <1>a, Zenon DEF PumpSend, StreamTyped
  <2>2. q = IF rest # {} THEN [p EXCEPT !.hand = rest]
            ELSE [p EXCEPT !.pc = "read", !.cursor = p.cursor + p.got,
                           !.hand = {}, !.got = 0]
    BY <1>2, <1>a, Zenon DEF PumpSend, StreamTyped
  <2>3. o \in Nat
    BY <1>a, <2>1, MinOfNats, Zenon DEF PumpTyped, PumpState
  <2>4. Given(s)' = Append(Given(s), o)
    BY <1>i, <2>1, <2>3, Zenon DEF Given
  <2>5. /\ q.from = p.from /\ q.hw = p.hw
        /\ \/ /\ rest # {} /\ q.pc = "send" /\ q.hand = rest
              /\ q.cursor = p.cursor /\ q.got = p.got
           \/ rest = {} /\ q.pc = "read" /\ q.cursor = p.cursor + p.got
    <3> HIDE DEF rest, q
    <3>1. CASE rest = {}
      BY <1>h, <2>1, <2>2, <3>1, Zenon DEF PumpState
    <3>2. CASE rest # {}
      BY <1>h, <2>1, <2>2, <3>2, Zenon DEF PumpState
    <3> QED
      BY <3>1, <3>2, Zenon
  <2>6. StreamOK(Append(Given(s), o), q, sub[s], skipped[s], DueOffsets(s), highWater)
    BY <1>e, <1>f, <2>1, <2>5, PumpSendsNext, Zenon
  <2> QED
    BY <1>d, <1>g, <2>1, <2>4, <2>6, Zenon
<1>3. CASE PumpTake(s)
  <2>1. /\ p.pc = "live" /\ sub[s] # <<>> /\ sub'[s] = Tail(sub[s])
        /\ Given(s)' = Given(s)
    BY <1>3, <1>a, Zenon DEF PumpTake, StreamTyped, Given
  <2>2. CASE Head(sub[s]) < p.cursor
    <3>1. q = p
      BY <1>3, <2>2, Zenon DEF PumpTake
    <3>2. StreamOK(Given(s), p, Tail(sub[s]), skipped[s], DueOffsets(s), highWater)
      BY <1>e, <1>f, <2>1, <2>2, PumpDrops, Zenon
    <3> QED
      BY <1>d, <1>g, <2>1, <3>1, <3>2, Zenon
  <2>3. CASE ~(Head(sub[s]) < p.cursor)
    <3>1. /\ q.pc = "forward" /\ q.from = p.from /\ q.cursor = p.cursor
          /\ q.hw = p.hw /\ q.hand = {Head(sub[s])}
      BY <1>3, <1>a, <1>h, <2>3, Zenon DEF PumpTake, StreamTyped, PumpState
    <3>2. Head(sub[s]) >= p.cursor
      BY <1>h, <2>1, <2>3 DEF PumpState
    <3>3. StreamOK(Given(s), q, Tail(sub[s]), skipped[s], DueOffsets(s), highWater)
      BY <1>e, <1>f, <2>1, <3>1, <3>2, PumpTakes, Zenon
    <3> QED
      BY <1>d, <1>g, <2>1, <3>3, Zenon
  <2> QED
    BY <2>2, <2>3, Zenon
<1>4. CASE PumpForward(s)
  <2> DEFINE o == Min(p.hand)
  <2>1. /\ p.pc = "forward" /\ sub'[s] = sub[s]
        /\ out'[s] = Append(out[s], o) /\ delivered'[s] = delivered[s]
    BY <1>4, <1>a, Zenon DEF PumpForward, StreamTyped
  <2>2. o \in Nat
    BY <1>a, <2>1, MinOfNats, Zenon DEF PumpTyped, PumpState
  <2>3. Given(s)' = Append(Given(s), o)
    BY <1>i, <2>1, <2>2, Zenon DEF Given
  <2>4. q.pc = "live" /\ q.from = p.from /\ q.hw = p.hw /\ q.cursor = o + 1
    <3>1. q = [p EXCEPT !.pc = "live", !.hand = {}, !.cursor = o + 1]
      BY <1>4, <1>a, Zenon DEF PumpForward, StreamTyped
    <3> HIDE DEF o, q
    <3> QED
      BY <1>h, <3>1, Zenon DEF PumpState
  <2>5. StreamOK(Append(Given(s), o), q, sub[s], skipped[s], DueOffsets(s), highWater)
    BY <1>e, <1>f, <2>1, <2>4, PumpForwards, Zenon
  <2> QED
    BY <1>d, <1>g, <2>1, <2>3, <2>5, Zenon
<1>5. CASE PumpCancelled(s) \/ PumpExit(s)
  <2>1. /\ q.pc \in {"exiting", "closed"} /\ q.from = p.from
        /\ sub'[s] = sub[s] /\ Given(s)' = Given(s)
    <3>1. q.pc \in {"exiting", "closed"}
      BY <1>5, <1>a, <1>h DEF PumpCancelled, PumpExit, StreamTyped, PumpState
    <3>2. q.from = p.from
      BY <1>5, <1>a, <1>h DEF PumpCancelled, PumpExit, StreamTyped, PumpState
    <3>3. sub'[s] = sub[s] /\ Given(s)' = Given(s)
      BY <1>5, Zenon DEF PumpCancelled, PumpExit, Given
    <3> QED
      BY <3>1, <3>2, <3>3, Zenon
  <2>2. StreamOK(Given(s), q, sub[s], skipped[s], DueOffsets(s), highWater)
    BY <1>f, <2>1, PumpStops
  <2> QED
    BY <1>d, <1>g, <2>1, <2>2, Zenon
<1>6. CASE Receive(s)
  <2>1. /\ q = p /\ sub'[s] = sub[s] /\ out[s] # <<>> /\ out'[s] = Tail(out[s])
        /\ delivered'[s] = Append(delivered[s], Head(out[s]))
    BY <1>6, <1>a, Zenon DEF Receive, StreamTyped
  <2>2. Given(s)' = Given(s)
    BY <1>h, <2>1, ReceiveConcat, Zenon DEF Given
  <2> QED
    BY <1>d, <1>f, <1>g, <2>1, <2>2, Zenon
<1> QED
  BY <1>1, <1>2, <1>3, <1>4, <1>5, <1>6, Zenon DEF PumpStep

(***************************************************************************)
(* A subscription that has not been made.                                  *)
(***************************************************************************)
LEMMA FreshStream ==
    ASSUME NEW next \in Nat
    PROVE  StreamOK(<<>>, NoPump, <<>>, {}, {}, next)
<1>1. Unbroken(<<>>, NoPump.from, {})
  BY DEF Unbroken
<1>2. CursorInv(NoPump, End(<<>>, NoPump.from), {})
  BY Zenon DEF CursorInv, NoPump
<1>3. ChannelInv(NoPump, <<>>, {}, {}, next)
  BY Zenon DEF ChannelInv, NoPump
<1> QED
  BY <1>1, <1>2, <1>3, Zenon DEF StreamOK

LEMMA StreamInit == Init => StreamInv
<1> SUFFICES ASSUME Init, NEW s \in Subscription
             PROVE  DOMAIN log = 0 .. highWater - 1 /\ Streaming(s)
  BY DEF StreamInv, Init
<1>1. DOMAIN log = 0 .. highWater - 1
  BY DEF Init
<1>2. Given(s) = <<>>
  BY DEF Init, Given
<1>3. DueOffsets(s) = {}
  BY Zenon DEF Init, DueOffsets, Due, IdleCall
<1>4. pump[s] = NoPump /\ sub[s] = <<>> /\ skipped[s] = {} /\ highWater = 0
  BY Zenon DEF Init
<1> QED
  BY <1>1, <1>2, <1>3, <1>4, FreshStream, Zenon DEF Streaming

LEMMA StreamNext == Typed /\ LockInv /\ StreamInv /\ [Next \/ Kill]_vars => StreamInv'
<1> SUFFICES ASSUME Typed, LockInv, StreamInv, [Next \/ Kill]_vars
             PROVE  StreamInv'
  BY Zenon
<1>a. reclaims \in Nat /\ highWater \in Nat
  BY DEF Typed, StoreTyped
<1>b. reclaims = 0 => DOMAIN log = 0 .. highWater - 1 /\ \A x \in Subscription : Streaming(x)
  BY Zenon DEF StreamInv
<1>1. ASSUME NEW c \in Caller,
             \/ \E msg \in Message : PublishRetry(c, msg) \/ PublishAppend(c, msg)
             \/ PublishStep(c)
      PROVE  StreamInv'
  <2>1. reclaims' = reclaims
    BY <1>1, Zenon DEF PublishRetry, PublishAppend, PublishStep, FanOut, PublishDone,
                PublishCancelled, Return, storeVars
  <2>2. DOMAIN log = 0 .. highWater - 1 => DOMAIN log' = 0 .. highWater' - 1
    <3>1. CASE UNCHANGED <<log, highWater>>
      BY <3>1, Zenon
    <3>2. CASE \E msg \in Message : PublishAppend(c, msg)
      BY <3>2, <1>a DEF PublishAppend
    <3> QED
      BY <1>1, <3>1, <3>2, Zenon DEF PublishRetry, PublishStep, FanOut, PublishDone,
                              PublishCancelled, Return, storeVars
  <2> QED
    BY <1>1, <1>b, <2>1, <2>2, PublishStreams, Zenon DEF StreamInv
<1>2. ASSUME NEW s \in Subscription, NEW from \in 0 .. MaxOffset, Subscribe(s, from)
      PROVE  StreamInv'
  <2>1. UNCHANGED <<log, highWater, reclaims>>
    BY <1>2, Zenon DEF Subscribe, storeVars
  <2> QED
    BY <1>2, <1>b, <2>1, SubscribeStreams, Zenon DEF StreamInv
<1>3. ASSUME NEW s \in Subscription, PumpStep(s) \/ Receive(s)
      PROVE  StreamInv'
  <2>1. UNCHANGED <<log, highWater, reclaims>>
    BY <1>3, Zenon DEF PumpStep, PumpRead, PumpSend, PumpTake, PumpForward, PumpCancelled,
                PumpExit, Receive, storeVars
  <2> QED
    BY <1>3, <1>b, <2>1, PumpStreams, Zenon DEF StreamInv
<1>4. ASSUME \/ \E s \in Subscription : Unsubscribe(s)
             \/ \E p \in Producer : CheckpointAges(p)
             \/ UNCHANGED vars
      PROVE  StreamInv'
  <2>1. UNCHANGED <<log, highWater, reclaims, call, skipped, sub, out, pump, delivered>>
    BY <1>4, Zenon DEF Unsubscribe, CheckpointAges, vars, storeVars, publishVars, streamVars
  <2>2. \A x : Given(x)' = Given(x) /\ DueOffsets(x)' = DueOffsets(x)
    BY <2>1, DueKept, Zenon DEF Given
  <2> QED
    BY <1>b, <2>1, <2>2, StreamFrame, Zenon DEF StreamInv
<1>5. ASSUME NEW gone, Reclaim(gone)
      PROVE  StreamInv'
  BY <1>5, <1>a DEF Reclaim, StreamInv
<1>6. ASSUME NEW n \in 0 .. highWater, NEW m \in 0 .. Len(persisted), Restart(n, m)
      PROVE  StreamInv'
  <2>1. reclaims' = reclaims /\ highWater' = n /\ n \in Nat
    BY <1>6, <1>a DEF Restart
  <2>2. DOMAIN log = 0 .. highWater - 1 => DOMAIN log' = 0 .. highWater' - 1
    BY <1>6, <1>a, <2>1 DEF Restart
  <2>3. ASSUME NEW s \in Subscription
        PROVE  Streaming(s)'
    <3>1. Given(s)' = <<>>
      BY <1>6 DEF Restart, Given
    <3>2. DueOffsets(s)' = {}
      BY <1>6, Zenon DEF Restart, DueOffsets, Due, IdleCall
    <3>3. pump'[s] = NoPump /\ sub'[s] = <<>> /\ skipped'[s] = {}
      BY <1>6, Zenon DEF Restart
    <3> QED
      BY <2>1, <3>1, <3>2, <3>3, FreshStream, Zenon DEF Streaming
  <2> QED
    BY <1>b, <2>1, <2>2, <2>3, Zenon DEF StreamInv
<1>7. highWater \in 0 .. highWater /\ Len(persisted) \in 0 .. Len(persisted)
  BY <1>a DEF Typed, DedupTyped
<1> QED
  BY <1>1, <1>2, <1>3, <1>4, <1>5, <1>6, <1>7, Zenon DEF Next, Kill, CleanRestart

-----------------------------------------------------------------------------
LEMMA StreamsHold == CrashSpec => [](Typed /\ LockInv /\ StreamInv)
<1>1. Init => Typed /\ LockInv /\ StreamInv
  BY TypedInit, LockInit, StreamInit, Zenon
<1>2. Typed /\ LockInv /\ StreamInv /\ [Next \/ Kill]_vars
            => (Typed /\ LockInv /\ StreamInv)'
  BY TypedNext, LockNext, StreamNext, Zenon
<1> QED
  BY <1>1, <1>2, PTL DEF CrashSpec

(***************************************************************************)
(* The promise of Subscribe: a subscriber receives the log from its start  *)
(* offset on, in order and without a repetition, and misses only records   *)
(* whose Publish was cancelled, across the hand-over from catch-up to the  *)
(* live tail, for any number of publishers and subscribers and any buffer  *)
(* and batch size, as long as retention and compaction take nothing away.  *)
(***************************************************************************)
THEOREM StreamsAreTheLog == CrashSpec => []DeliveredIsTheLog
<1>1. Typed /\ StreamInv => DeliveredIsTheLog
  <2> SUFFICES ASSUME Typed, StreamInv, NEW s \in Subscription,
                      NEW i \in DOMAIN delivered[s], reclaims = 0
               PROVE  LET before == IF i = 1 THEN pump[s].from - 1
                                    ELSE delivered[s][i - 1]
                      IN  /\ delivered[s][i] > before
                          /\ before + 1 .. delivered[s][i] - 1 \subseteq skipped[s]
    BY Zenon DEF DeliveredIsTheLog
  <2>1. delivered[s] \in Seq(Nat) /\ out[s] \in Seq(Nat)
    BY Zenon DEF Typed, StreamTyped
  <2>2. /\ i \in DOMAIN Given(s) /\ Given(s)[i] = delivered[s][i]
        /\ i # 1 => Given(s)[i - 1] = delivered[s][i - 1]
    <3>1. i \in 1 .. Len(delivered[s]) /\ (i # 1 => i - 1 \in 1 .. Len(delivered[s]))
      BY <2>1
    <3> QED
      BY <2>1, <3>1, GivenFirst, Zenon DEF Given
  <2>3. Unbroken(Given(s), pump[s].from, skipped[s])
    BY Zenon DEF StreamInv, Streaming, StreamOK
  <2> QED
    BY <2>2, <2>3, Zenon DEF Unbroken
<1> QED
  BY <1>1, StreamsHold, PTL

=============================================================================
