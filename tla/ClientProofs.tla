---------------------------- MODULE ClientProofs ----------------------------
(***************************************************************************)
(* Theorems about clients of the broker: the answers of calls that share   *)
(* connections and the connections a closed transport leaves (Transport),  *)
(* and the goroutines a stopped connect worker leaves (ConnectWorker), for *)
(* any number of callers, brokers, breaks, elections and mounts.           *)
(***************************************************************************)
EXTENDS Transport, ConnectWorker, TLAPS

-----------------------------------------------------------------------------
Answer == Everyone \X {"ok", "notLeader"} \X (Node \union {NoAddress})

Connection ==
    [node : Node, open : BOOLEAN, holder : Everyone \union {"nobody"},
     requests : Seq(Everyone), answers : Seq(Answer)]

CallState ==
    [pc : {"idle", "conn", "dialled", "call", "reading", "failed", "returned"},
     attempt : Nat, conn : Nat, answer : {<<>>, Failure} \union Answer]

HasConn == {"dialled", "call", "reading", "failed"}

LinkTypeOK ==
    /\ addr \in Node /\ leader \in Node
    /\ conns \in Seq(Connection)
    /\ shared \in [rpc : 0 .. Len(conns), hb : 0 .. Len(conns)]
    /\ calls \in [Everyone -> CallState]
    /\ \A c \in Everyone :
        calls[c].pc \in HasConn => calls[c].conn \in 1 .. Len(conns)

(***************************************************************************)
(* An open connection carries nothing, or the request of the call that     *)
(* holds its mutex, or the answer to it.                                   *)
(***************************************************************************)
QueueOK(k) ==
    \/ k.requests = <<>> /\ k.answers = <<>>
    \/ /\ k.holder \in Everyone
       /\ k.requests = <<k.holder>> /\ k.answers = <<>>
    \/ /\ k.holder \in Everyone
       /\ k.requests = <<>>
       /\ \E a \in Answer : k.answers = <<a>> /\ a[1] = k.holder

MutexInv ==
    /\ \A n \in 1 .. Len(conns) : conns[n].open => QueueOK(conns[n])
    /\ \A c \in Everyone :
        calls[c].pc = "reading" => conns[calls[c].conn].holder = c

(***************************************************************************)
(* An open connection is shared, or the call that dialled it has yet to    *)
(* look at the transport again.                                            *)
(***************************************************************************)
HeldInv ==
    \A n \in 1 .. Len(conns) :
        conns[n].open => \/ shared.rpc = n \/ shared.hb = n
                         \/ \E c \in Everyone :
                                calls[c].pc = "dialled" /\ calls[c].conn = n

ClosedInv == transportClosed => shared.rpc = 0 /\ shared.hb = 0

LinkInv ==
    LinkTypeOK /\ MutexInv /\ HeldInv /\ ClosedInv /\ AnswersMatchCalls

LEMMA LinkInit == TransportInit => LinkInv
<1> SUFFICES ASSUME TransportInit PROVE LinkInv
  BY Zenon
<1>1. conns = <<>> /\ conns \in Seq(Connection) /\ Len(conns) = 0
  BY DEF TransportInit
<1>2. NotCalled \in CallState /\ NotCalled.pc = "idle"
  BY Zenon DEF NotCalled, CallState, None
<1>3. calls \in [Everyone -> CallState] /\ \A c \in Everyone : calls[c].pc = "idle"
  BY <1>2, Zenon DEF TransportInit
<1>4. shared = [rpc |-> 0, hb |-> 0] /\ addr \in Node /\ leader \in Node
  BY Zenon DEF TransportInit, None
<1>5. LinkTypeOK
  BY <1>1, <1>3, <1>4 DEF LinkTypeOK, HasConn
<1> QED BY <1>1, <1>3, <1>4, <1>5 DEF LinkInv, MutexInv, HeldInv, ClosedInv,
                                      AnswersMatchCalls

LEMMA SlotsTyped ==
    ASSUME LinkInv
    PROVE  /\ shared.rpc \in 0 .. Len(conns) /\ shared.hb \in 0 .. Len(conns)
           /\ shared = [rpc |-> shared.rpc, hb |-> shared.hb]
           /\ \A c : shared[Slot(c)] \in 0 .. Len(conns)
           /\ conns \in Seq(Connection) /\ Len(conns) \in Nat
           /\ \A n : [shared EXCEPT !.rpc = n] = [rpc |-> n, hb |-> shared.hb]
           /\ \A n : [shared EXCEPT !.hb = n] = [rpc |-> shared.rpc, hb |-> n]
  BY DEF LinkInv, LinkTypeOK, Slot

(***************************************************************************)
(* Connections of cs have been closed in ds, and nothing else has changed. *)
(***************************************************************************)
Fades(cs, ds) ==
    /\ ds \in Seq(Connection) /\ Len(ds) = Len(cs)
    /\ \A n \in 1 .. Len(cs) : /\ ds[n].holder = cs[n].holder
                               /\ ds[n].open => ds[n] = cs[n]

LEMMA ClosedConns ==
    ASSUME NEW cs \in Seq(Connection), NEW n \in 0 .. Len(cs)
    PROVE  /\ Fades(cs, Closed(cs, n))
           /\ n # 0 => ~Closed(cs, n)[n].open
<1>1. CASE n = 0
  BY <1>1, Zenon DEF Closed, None, Fades
<1>2. CASE n # 0
  <2>1. n \in 1 .. Len(cs) /\ cs[n] \in Connection
    BY <1>2
  <2>2. PICK k : k = [cs[n] EXCEPT !.open = FALSE]
    BY Zenon
  <2>3. k \in Connection /\ ~k.open /\ k.holder = cs[n].holder
    BY <2>1, <2>2, Zenon DEF Connection
  <2>4. Closed(cs, n) = [cs EXCEPT ![n] = k]
    BY <1>2, <2>1, <2>2, Zenon DEF Closed, None
  <2> QED BY <2>1, <2>3, <2>4 DEF Fades
<1> QED BY <1>1, <1>2, Zenon

(***************************************************************************)
(* A step of one call, which may take or release a mutex.                  *)
(***************************************************************************)
CallStep(c, k) ==
    /\ calls' = [calls EXCEPT ![c] = k]
    /\ addr' \in Node /\ leader' \in Node /\ conns' \in Seq(Connection)
    /\ shared' \in [rpc : 0 .. Len(conns'), hb : 0 .. Len(conns')]
    /\ Len(conns) <= Len(conns')
    /\ k.pc \in HasConn => k.conn \in 1 .. Len(conns')
    /\ k.pc = "reading" => conns'[k.conn].holder = c
    /\ k.pc = "returned" /\ k.answer # Failure => k.answer[1] = c
    /\ \A n \in 1 .. Len(conns) :
        conns'[n].holder = conns[n].holder \/ conns[n].holder \in {"nobody", c}
    /\ \A n \in 1 .. Len(conns') : conns'[n].open => QueueOK(conns'[n])
    /\ \A n \in 1 .. Len(conns') : conns'[n].open =>
        \/ shared'.rpc = n \/ shared'.hb = n
        \/ k.pc = "dialled" /\ k.conn = n
        \/ \E d \in Everyone \ {c} : calls[d].pc = "dialled" /\ calls[d].conn = n
    /\ ClosedInv'

LEMMA LinkStep ==
    ASSUME LinkInv, NEW c \in Everyone, NEW k \in CallState,
           CallStep(c, k)
    PROVE  LinkInv'
<1> USE DEF CallStep
<1>1. \A d \in Everyone : calls'[d] = IF d = c THEN k ELSE calls[d]
  BY DEF LinkInv, LinkTypeOK
<1>2. LinkTypeOK'
  <2>1. calls' \in [Everyone -> CallState]
    BY Zenon DEF LinkInv, LinkTypeOK
  <2>2. Len(conns) \in Nat /\ Len(conns') \in Nat
    BY DEF LinkInv, LinkTypeOK
  <2>3. \A d \in Everyone :
            calls'[d].pc \in HasConn => calls'[d].conn \in 1 .. Len(conns')
    BY <1>1, <2>2 DEF LinkInv, LinkTypeOK
  <2> QED BY <2>1, <2>3, Zenon DEF LinkTypeOK
<1>3. MutexInv'
  <2>1. ASSUME NEW d \in Everyone, calls'[d].pc = "reading"
        PROVE  conns'[calls'[d].conn].holder = d
    <3>1. CASE d = c
      BY <1>1, <2>1, <3>1, Zenon
    <3>2. CASE d # c
      <4>1. calls[d].conn \in 1 .. Len(conns) /\ conns[calls[d].conn].holder = d
        BY <1>1, <2>1, <3>2 DEF LinkInv, LinkTypeOK, MutexInv, HasConn
      <4>2. d \notin {"nobody", c}
        BY <3>2, CallersAreNamed, Zenon
      <4> QED BY <1>1, <3>2, <4>1, <4>2
    <3> QED BY <3>1, <3>2, Zenon
  <2> QED BY <2>1, Zenon DEF MutexInv
<1>4. HeldInv'
  BY <1>1 DEF HeldInv
<1>5. (AnswersMatchCalls)'
  BY <1>1 DEF LinkInv, AnswersMatchCalls
<1> QED BY <1>2, <1>3, <1>4, <1>5, Zenon DEF LinkInv

(***************************************************************************)
(* A step of the network, or one that closes connections: no call moves.   *)
(***************************************************************************)
LEMMA LinkEnv ==
    ASSUME LinkInv, UNCHANGED calls,
           addr' \in Node, leader' \in Node, conns' \in Seq(Connection),
           shared' \in [rpc : 0 .. Len(conns'), hb : 0 .. Len(conns')],
           Len(conns') = Len(conns),
           \A n \in 1 .. Len(conns) : conns'[n].holder = conns[n].holder,
           \A n \in 1 .. Len(conns) : conns'[n].open => QueueOK(conns'[n]),
           \A n \in 1 .. Len(conns) : conns'[n].open =>
               \/ shared'.rpc = n \/ shared'.hb = n
               \/ \E d \in Everyone :
                      calls[d].pc = "dialled" /\ calls[d].conn = n,
           ClosedInv'
    PROVE  LinkInv'
<1>1. LinkTypeOK'
  BY Zenon DEF LinkInv, LinkTypeOK
<1>2. MutexInv'
  <2>1. ASSUME NEW d \in Everyone, calls[d].pc = "reading"
        PROVE  conns'[calls[d].conn].holder = d
    BY <2>1, Zenon DEF LinkInv, LinkTypeOK, MutexInv, HasConn
  <2> QED BY <2>1, Zenon DEF MutexInv
<1>3. HeldInv' /\ (AnswersMatchCalls)'
  BY Zenon DEF LinkInv, HeldInv, AnswersMatchCalls
<1> QED BY <1>1, <1>2, <1>3, Zenon DEF LinkInv

(***************************************************************************)
(* A step that leaves connections and slots alone: a call moves to a state *)
(* where it reads nothing and has dialled nothing.                         *)
(***************************************************************************)
LEMMA CallOnly ==
    ASSUME LinkInv, NEW c \in Everyone, NEW k \in CallState,
           calls' = [calls EXCEPT ![c] = k], calls[c].pc # "dialled",
           UNCHANGED <<addr, transportClosed, shared, conns, leader>>,
           k.pc \in {"conn", "call", "failed", "returned"},
           k.pc \in HasConn => k.conn \in 1 .. Len(conns),
           k.pc = "returned" => k.answer = Failure
    PROVE  LinkInv'
<1>1. \A n \in 1 .. Len(conns) : conns[n].open =>
          \/ shared.rpc = n \/ shared.hb = n
          \/ \E d \in Everyone \ {c} : calls[d].pc = "dialled" /\ calls[d].conn = n
  BY Zenon DEF LinkInv, HeldInv
<1>2. /\ addr \in Node /\ leader \in Node /\ conns \in Seq(Connection)
      /\ shared \in [rpc : 0 .. Len(conns), hb : 0 .. Len(conns)]
      /\ \A n \in 1 .. Len(conns) : conns[n].open => QueueOK(conns[n])
      /\ ClosedInv'
  BY Zenon DEF LinkInv, LinkTypeOK, MutexInv, ClosedInv
<1>3. CallStep(c, k)
  BY <1>1, <1>2 DEF CallStep
<1> QED BY <1>3, LinkStep, Zenon

LEMMA StartKeeps ==
    ASSUME LinkInv, NEW c \in Everyone,
           BeginCall(c) \/ rpcConn(c) \/ DialFails(c)
    PROVE  LinkInv'
<1>0. calls[c] \in CallState
  BY Zenon DEF LinkInv, LinkTypeOK
<1>1. CASE BeginCall(c)
  <2> DEFINE k == IF transportClosed THEN [calls[c] EXCEPT !.pc = "returned", !.answer = Failure]
                  ELSE [calls[c] EXCEPT !.pc = "conn"]
  <2>1. calls' = [calls EXCEPT ![c] = k]
    BY <1>1, Zenon DEF BeginCall, Returned, LinkInv, LinkTypeOK
  <2>2. /\ k \in CallState /\ k.pc \in {"conn", "returned"}
        /\ k.pc = "returned" => k.answer = Failure
    BY <1>0, Zenon DEF CallState
  <2> HIDE DEF k
  <2> QED BY <1>1, <2>1, <2>2, CallOnly, Zenon DEF BeginCall, HasConn
<1>2. CASE rpcConn(c)
  <2>1. PICK n : n = shared[Slot(c)]
    BY Zenon
  <2>2. n \in 1 .. Len(conns) /\ n \in Nat
    BY <1>2, <2>1, SlotsTyped DEF rpcConn, Slot, None
  <2> DEFINE k == [calls[c] EXCEPT !.pc = "call", !.conn = n]
  <2>3. calls' = [calls EXCEPT ![c] = k]
    BY <1>2, <2>1, Zenon DEF rpcConn, LinkInv, LinkTypeOK
  <2>4. k \in CallState /\ k.pc = "call" /\ k.conn = n
    BY <1>0, <2>2, Zenon DEF CallState
  <2> HIDE DEF k
  <2> QED BY <1>2, <2>2, <2>3, <2>4, CallOnly, Zenon DEF rpcConn
<1>3. CASE DialFails(c)
  <2> DEFINE k == [calls[c] EXCEPT !.pc = "returned", !.answer = Failure]
  <2>1. calls' = [calls EXCEPT ![c] = k]
    BY <1>3, Zenon DEF DialFails, Returned, LinkInv, LinkTypeOK
  <2>2. k \in CallState /\ k.pc = "returned" /\ k.answer = Failure
    BY <1>0, Zenon DEF CallState
  <2> HIDE DEF k
  <2> QED BY <1>3, <2>1, <2>2, CallOnly, Zenon DEF DialFails, HasConn
<1> QED BY <1>1, <1>2, <1>3, Zenon

LEMMA DialKeeps ==
    ASSUME LinkInv, NEW c \in Everyone, dialAndHandshake(c)
    PROVE  LinkInv'
<1>0. calls[c] \in CallState /\ Len(conns) \in Nat /\ conns \in Seq(Connection)
  BY DEF LinkInv, LinkTypeOK
<1>1. PICK new : new = [node |-> addr, open |-> TRUE, holder |-> "nobody",
                        requests |-> <<>>, answers |-> <<>>]
  BY Zenon
<1>2. new \in Connection /\ QueueOK(new)
  BY <1>1 DEF Connection, QueueOK, LinkInv, LinkTypeOK
<1>3. conns' = Append(conns, new)
  BY <1>1, Zenon DEF dialAndHandshake
<1>4. /\ conns' \in Seq(Connection) /\ Len(conns') = Len(conns) + 1
      /\ \A n \in 1 .. Len(conns) : conns'[n] = conns[n]
      /\ conns'[Len(conns) + 1] = new
  BY <1>0, <1>2, <1>3
<1>5. PICK m \in Nat : m = Len(conns) + 1
  BY <1>0
<1> DEFINE k == [calls[c] EXCEPT !.pc = "dialled", !.conn = m]
<1>6. calls' = [calls EXCEPT ![c] = k]
  BY <1>5, Zenon DEF dialAndHandshake, LinkInv, LinkTypeOK
<1>7. k \in CallState /\ k.pc = "dialled" /\ k.conn = m
  BY <1>0, Zenon DEF CallState
<1>8. calls[c].pc = "conn" /\ UNCHANGED <<addr, transportClosed, shared, leader>>
  BY Zenon DEF dialAndHandshake
<1>9. \A n \in 1 .. Len(conns') : n \in 1 .. Len(conns) \/ n = Len(conns) + 1
  BY <1>0, <1>4
<1>10. \A n \in 1 .. Len(conns') : conns'[n].open => QueueOK(conns'[n])
  BY <1>2, <1>4, <1>9, Zenon DEF LinkInv, MutexInv
<1>11. \A n \in 1 .. Len(conns') : conns'[n].open =>
          \/ shared'.rpc = n \/ shared'.hb = n
          \/ k.pc = "dialled" /\ k.conn = n
          \/ \E d \in Everyone \ {c} : calls[d].pc = "dialled" /\ calls[d].conn = n
  BY <1>4, <1>7, <1>5, <1>8, <1>9, Zenon DEF LinkInv, HeldInv
<1>12. /\ addr' \in Node /\ leader' \in Node
       /\ shared' \in [rpc : 0 .. Len(conns'), hb : 0 .. Len(conns')]
       /\ ClosedInv'
  BY <1>0, <1>4, <1>8 DEF LinkInv, LinkTypeOK, ClosedInv
<1>13. k.pc \in HasConn => k.conn \in 1 .. Len(conns')
  BY <1>0, <1>4, <1>7, <1>5
<1> HIDE DEF k
<1>14. /\ Len(conns) <= Len(conns') /\ conns' \in Seq(Connection)
       /\ \A n \in 1 .. Len(conns) : conns'[n].holder = conns[n].holder
  BY <1>0, <1>4
<1>15. CallStep(c, k)
  BY <1>6, <1>7, <1>10, <1>11, <1>12, <1>13, <1>14, Zenon DEF CallStep
<1> QED BY <1>7, <1>15, LinkStep, Zenon

(***************************************************************************)
(* A step of a call that closes connections on its way.                    *)
(***************************************************************************)
LEMMA FadeStep ==
    ASSUME LinkInv, NEW c \in Everyone, NEW k \in CallState,
           calls' = [calls EXCEPT ![c] = k], Fades(conns, conns'),
           addr' \in Node, leader' = leader,
           shared' \in [rpc : 0 .. Len(conns), hb : 0 .. Len(conns)],
           k.pc \in {"conn", "call", "returned"},
           k.pc = "call" => k.conn \in 1 .. Len(conns),
           k.pc = "returned" => k.answer = Failure,
           \A n \in 1 .. Len(conns) : conns'[n].open =>
               \/ shared'.rpc = n \/ shared'.hb = n
               \/ \E d \in Everyone \ {c} :
                      calls[d].pc = "dialled" /\ calls[d].conn = n,
           ClosedInv'
    PROVE  LinkInv'
<1>1. conns' \in Seq(Connection) /\ Len(conns') = Len(conns) /\ Len(conns) \in Nat
  BY DEF Fades, LinkInv, LinkTypeOK
<1>2. \A n \in 1 .. Len(conns) : conns'[n].open => QueueOK(conns'[n])
  BY Zenon DEF Fades, LinkInv, MutexInv
<1>3. \A n \in 1 .. Len(conns) : conns'[n].holder = conns[n].holder
  BY Zenon DEF Fades
<1>4. leader' \in Node
  BY Zenon DEF LinkInv, LinkTypeOK
<1>5. CallStep(c, k)
  BY <1>1, <1>2, <1>3, <1>4 DEF CallStep, HasConn
<1> QED BY <1>5, LinkStep, Zenon

LEMMA KeepKeeps ==
    ASSUME LinkInv, NEW c \in Everyone, KeepOrClose(c)
    PROVE  LinkInv'
<1>0. /\ calls[c] \in CallState /\ calls[c].pc = "dialled"
      /\ calls[c].conn \in 1 .. Len(conns)
  BY Zenon DEF LinkInv, LinkTypeOK, KeepOrClose, KeepUnchecked, HasConn
<1>1. PICK own : own = calls[c].conn
  BY Zenon
<1>2. \A n \in 1 .. Len(conns) : conns[n].open =>
          \/ shared.rpc = n \/ shared.hb = n \/ n = own
          \/ \E d \in Everyone \ {c} : calls[d].pc = "dialled" /\ calls[d].conn = n
  BY <1>1, Zenon DEF LinkInv, HeldInv
<1>3. UNCHANGED <<addr, transportClosed, leader>> /\ addr \in Node
  BY Zenon DEF KeepOrClose, KeepUnchecked, LinkInv, LinkTypeOK
<1>4. Fades(conns, conns)
  BY SlotsTyped, Zenon DEF Fades
<1>5. CASE transportClosed
  <2> DEFINE k == [calls[c] EXCEPT !.pc = "returned", !.answer = Failure]
  <2>1. /\ conns' = Closed(conns, own) /\ shared' = shared
        /\ calls' = [calls EXCEPT ![c] = k]
    BY <1>1, <1>5, Zenon DEF KeepOrClose, Returned, LinkInv, LinkTypeOK
  <2>2. k \in CallState /\ k.pc = "returned" /\ k.answer = Failure
    BY <1>0, Zenon DEF CallState
  <2> HIDE DEF k
  <2>3. Fades(conns, conns') /\ ~conns'[own].open
    BY <1>0, <1>1, <2>1, SlotsTyped, ClosedConns
  <2>4. \A n \in 1 .. Len(conns) : conns'[n].open =>
          \/ shared'.rpc = n \/ shared'.hb = n
          \/ \E d \in Everyone \ {c} : calls[d].pc = "dialled" /\ calls[d].conn = n
    BY <1>2, <2>1, <2>3, Zenon DEF Fades
  <2>5. ClosedInv' /\ shared' \in [rpc : 0 .. Len(conns), hb : 0 .. Len(conns)]
    BY <1>3, <2>1, Zenon DEF LinkInv, LinkTypeOK, ClosedInv
  <2> QED BY <1>3, <2>1, <2>2, <2>3, <2>4, <2>5, FadeStep, Zenon
<1>6. CASE ~transportClosed
  <2>1. KeepUnchecked(c)
    BY <1>6, Zenon DEF KeepOrClose
  <2>2. PICK n : n = IF shared[Slot(c)] = 0 THEN own ELSE shared[Slot(c)]
    BY Zenon
  <2>3. n \in 1 .. Len(conns) /\ n \in Nat
    BY <1>0, <1>1, <2>2, SlotsTyped
  <2> DEFINE k == [calls[c] EXCEPT !.pc = "call", !.conn = n]
  <2>4. calls' = [calls EXCEPT ![c] = k]
    BY <1>1, <2>1, <2>2, Zenon DEF KeepUnchecked, None, LinkInv, LinkTypeOK
  <2>5. k \in CallState /\ k.pc = "call" /\ k.conn = n
    BY <1>0, <2>3, Zenon DEF CallState
  <2> HIDE DEF k
  <2>6. shared' = [shared EXCEPT ![Slot(c)] = n]
    BY <1>1, <2>1, <2>2, Zenon DEF KeepUnchecked, None
  <2>7. /\ shared'.rpc \in {shared.rpc, n} /\ shared'.hb \in {shared.hb, n}
        /\ shared' \in [rpc : 0 .. Len(conns), hb : 0 .. Len(conns)]
        /\ n = own => own \in {shared'.rpc, shared'.hb}
    BY <2>3, <2>6 DEF Slot, LinkInv, LinkTypeOK
  <2>8. \A m \in 1 .. Len(conns) : shared.rpc = m \/ shared.hb = m =>
            shared'.rpc = m \/ shared'.hb = m
    BY <2>2, <2>6, SlotsTyped DEF Slot, LinkInv, LinkTypeOK
  <2>9. conns' = IF shared[Slot(c)] = 0 THEN conns ELSE Closed(conns, own)
    BY <1>1, <2>1, Zenon DEF KeepUnchecked, None
  <2>10. Fades(conns, conns') /\ (~conns'[own].open \/ n = own)
    BY <1>0, <1>1, <1>4, <2>2, <2>9, SlotsTyped, ClosedConns
  <2>11. \A m \in 1 .. Len(conns) : conns'[m].open =>
          \/ shared'.rpc = m \/ shared'.hb = m
          \/ \E d \in Everyone \ {c} : calls[d].pc = "dialled" /\ calls[d].conn = m
    BY <1>2, <2>7, <2>8, <2>10, Zenon DEF Fades
  <2>12. ClosedInv'
    BY <1>3, <1>6, Zenon DEF ClosedInv
  <2> QED BY <1>3, <2>3, <2>4, <2>5, <2>7, <2>10, <2>11, <2>12, FadeStep, Zenon
<1> QED BY <1>5, <1>6, Zenon

(***************************************************************************)
(* A step that changes one connection, which nobody or call c holds.       *)
(***************************************************************************)
LEMMA ConnStep ==
    ASSUME LinkInv, NEW c \in Everyone, NEW k \in CallState,
           NEW n \in 1 .. Len(conns), NEW r \in Connection,
           calls' = [calls EXCEPT ![c] = k], conns' = [conns EXCEPT ![n] = r],
           calls[c].pc # "dialled", UNCHANGED <<addr, transportClosed, shared, leader>>,
           conns[n].holder \in {"nobody", c},
           r.open => conns[n].open /\ QueueOK(r),
           k.pc \in {"reading", "failed", "returned"}, k.conn = n,
           k.pc = "reading" => r.holder = c,
           k.pc = "returned" /\ k.answer # Failure => k.answer[1] = c
    PROVE  LinkInv'
<1>1. /\ conns' \in Seq(Connection) /\ Len(conns') = Len(conns) /\ Len(conns) \in Nat
      /\ \A m \in 1 .. Len(conns) : conns'[m] = IF m = n THEN r ELSE conns[m]
  BY DEF LinkInv, LinkTypeOK
<1>2. \A m \in 1 .. Len(conns) : conns'[m].open => conns[m].open /\ QueueOK(conns'[m])
  BY <1>1 DEF LinkInv, MutexInv
<1>3. \A m \in 1 .. Len(conns) : conns'[m].open =>
          \/ shared'.rpc = m \/ shared'.hb = m
          \/ \E d \in Everyone \ {c} : calls[d].pc = "dialled" /\ calls[d].conn = m
  BY <1>2, Zenon DEF LinkInv, HeldInv
<1>4. /\ addr' \in Node /\ leader' \in Node /\ ClosedInv'
      /\ shared' \in [rpc : 0 .. Len(conns'), hb : 0 .. Len(conns')]
  BY <1>1, Zenon DEF LinkInv, LinkTypeOK, ClosedInv
<1>5. \A m \in 1 .. Len(conns) :
          conns'[m].holder = conns[m].holder \/ conns[m].holder \in {"nobody", c}
  BY <1>1, Zenon
<1>6. k.pc = "reading" => conns'[k.conn].holder = c
  BY <1>1, Zenon
<1>7. CallStep(c, k)
  BY <1>1, <1>2, <1>3, <1>4, <1>5, <1>6 DEF CallStep
<1> QED BY <1>7, LinkStep, Zenon

LEMMA WriteKeeps ==
    ASSUME LinkInv, NEW c \in Everyone, WriteRequest(c)
    PROVE  LinkInv'
<1>0. /\ calls[c] \in CallState /\ calls[c].pc = "call"
      /\ calls[c].conn \in 1 .. Len(conns)
  BY Zenon DEF LinkInv, LinkTypeOK, WriteRequest, Written, HasConn
<1>1. PICK n \in 1 .. Len(conns) : n = calls[c].conn
  BY <1>0, Zenon
<1>2. /\ UNCHANGED <<addr, transportClosed, shared, leader>> /\ conns[n].holder = "nobody"
      /\ conns[n] \in Connection
  BY <1>1 DEF WriteRequest, Written, LinkInv, LinkTypeOK
<1>3. CASE conns[n].open
  <2>0. conns[n].requests = <<>> /\ conns[n].answers = <<>>
    BY <1>2, <1>3, CallersAreNamed, Zenon DEF LinkInv, MutexInv, QueueOK
  <2>1. PICK q : q = <<c>>
    BY Zenon
  <2>q. q \in Seq(Everyone) /\ Append(conns[n].requests, c) = q
    BY <2>0, <2>1
  <2> DEFINE r == [conns[n] EXCEPT !.holder = c, !.requests = q]
             k == [calls[c] EXCEPT !.pc = "reading"]
  <2>2. r \in Connection /\ r.holder = c /\ r.requests = <<c>> /\ r.answers = <<>>
    BY <1>2, <2>0, <2>1, <2>q, Zenon DEF Connection
  <2>3. k \in CallState /\ k.pc = "reading" /\ k.conn = n
    BY <1>0, <1>1, Zenon DEF CallState
  <2>4. calls' = [calls EXCEPT ![c] = k]
    BY <1>1, <1>3, Zenon DEF WriteRequest, Written, LinkInv, LinkTypeOK
  <2>5. conns' = [conns EXCEPT ![n] = r]
    BY <1>1, <1>3, <2>q, Zenon DEF WriteRequest, Written, LinkInv, LinkTypeOK
  <2> HIDE DEF r, k
  <2>6. QueueOK(r)
    BY <2>2, Zenon DEF QueueOK
  <2> QED BY <1>0, <1>2, <1>3, <2>2, <2>3, <2>4, <2>5, <2>6, ConnStep, Zenon
<1>4. CASE ~conns[n].open
  <2> DEFINE k == [calls[c] EXCEPT !.pc = "failed"]
  <2>1. k \in CallState /\ k.pc = "failed" /\ k.conn = n
    BY <1>0, <1>1, Zenon DEF CallState
  <2>2. calls' = [calls EXCEPT ![c] = k] /\ conns' = conns
    BY <1>1, <1>4, Zenon DEF WriteRequest, Written, LinkInv, LinkTypeOK
  <2> HIDE DEF k
  <2> QED BY <1>0, <1>1, <1>2, <2>1, <2>2, CallOnly, Zenon
<1> QED BY <1>3, <1>4, Zenon

LEMMA ReadFailsKeeps ==
    ASSUME LinkInv, NEW c \in Everyone, ReadFails(c)
    PROVE  LinkInv'
<1>0. /\ calls[c] \in CallState /\ calls[c].pc = "reading"
      /\ calls[c].conn \in 1 .. Len(conns)
  BY Zenon DEF LinkInv, LinkTypeOK, ReadFails, HasConn
<1>1. PICK n \in 1 .. Len(conns) : n = calls[c].conn
  BY <1>0, Zenon
<1>2. /\ UNCHANGED <<addr, transportClosed, shared, leader>> /\ conns[n].holder = c
      /\ conns[n] \in Connection /\ ~conns[n].open
  BY <1>0, <1>1 DEF ReadFails, LinkInv, LinkTypeOK, MutexInv
<1> DEFINE r == [conns[n] EXCEPT !.holder = "nobody"]
           k == [calls[c] EXCEPT !.pc = "failed"]
<1>3. r \in Connection /\ ~r.open
  BY <1>2, Zenon DEF Connection
<1>4. k \in CallState /\ k.pc = "failed" /\ k.conn = n
  BY <1>0, <1>1, Zenon DEF CallState
<1>5. calls' = [calls EXCEPT ![c] = k]
  BY Zenon DEF ReadFails, LinkInv, LinkTypeOK
<1>6. conns' = [conns EXCEPT ![n] = r]
  BY <1>1, Zenon DEF ReadFails, LinkInv, LinkTypeOK
<1> HIDE DEF r, k
<1> QED BY <1>0, <1>2, <1>3, <1>4, <1>5, <1>6, ConnStep, Zenon

(***************************************************************************)
(* What do does with a call after a redirect or an error: one more attempt,*)
(* or the end of it.                                                       *)
(***************************************************************************)
LEMMA RetryMoves ==
    ASSUME LinkInv, NEW c \in Everyone,
           IF calls[c].attempt + 1 < Tries
           THEN calls' = [calls EXCEPT ![c].pc = "conn", ![c].attempt = @ + 1]
           ELSE Returned(c, Failure)
    PROVE  \E k \in CallState :
              /\ calls' = [calls EXCEPT ![c] = k]
              /\ k.pc \in {"conn", "returned"}
              /\ k.pc = "returned" => k.answer = Failure
<1>0. calls[c] \in CallState
  BY Zenon DEF LinkInv, LinkTypeOK
<1>1. CASE calls[c].attempt + 1 < Tries
  <2>0. PICK m \in Nat : m = calls[c].attempt + 1
    BY <1>0 DEF CallState
  <2> DEFINE k == [calls[c] EXCEPT !.pc = "conn", !.attempt = m]
  <2>1. k \in CallState /\ k.pc = "conn"
    BY <1>0, Zenon DEF CallState
  <2>2. calls' = [calls EXCEPT ![c] = k]
    BY <1>1, <2>0, Zenon DEF LinkInv, LinkTypeOK
  <2> HIDE DEF k
  <2> QED BY <2>1, <2>2, Zenon
<1>2. CASE ~(calls[c].attempt + 1 < Tries)
  <2> DEFINE k == [calls[c] EXCEPT !.pc = "returned", !.answer = Failure]
  <2>1. k \in CallState /\ k.pc = "returned" /\ k.answer = Failure
    BY <1>0, Zenon DEF CallState
  <2>2. calls' = [calls EXCEPT ![c] = k]
    BY <1>2, Zenon DEF Returned, LinkInv, LinkTypeOK
  <2> HIDE DEF k
  <2> QED BY <2>1, <2>2, Zenon
<1> QED BY <1>1, <1>2, Zenon

LEMMA ReadKeeps ==
    ASSUME LinkInv, NEW c \in Everyone, ReadAnswer(c)
    PROVE  LinkInv'
<1>0. /\ calls[c] \in CallState /\ calls[c].pc = "reading"
      /\ calls[c].conn \in 1 .. Len(conns)
  BY Zenon DEF LinkInv, LinkTypeOK, ReadAnswer, HasConn
<1>1. PICK n \in 1 .. Len(conns) : n = calls[c].conn
  BY <1>0, Zenon
<1>2. /\ UNCHANGED <<transportClosed, leader>> /\ conns[n].holder = c
      /\ conns[n] \in Connection /\ conns[n].open /\ conns[n].answers # <<>>
  BY <1>0, <1>1 DEF ReadAnswer, LinkInv, LinkTypeOK, MutexInv
<1>3. PICK a \in Answer : conns[n].answers = <<a>> /\ a[1] = c
  BY <1>2, Zenon DEF LinkInv, MutexInv, QueueOK
<1>4. conns[n].requests = <<>>
  BY <1>2, Zenon DEF LinkInv, MutexInv, QueueOK
<1>5. Head(conns[n].answers) = a
  BY <1>3
<1>p. PICK q : q = Tail(conns[n].answers)
  BY Zenon
<1>q. q \in Seq(Answer) /\ q = <<>> /\ q = Tail(conns[n].answers)
  BY <1>3, <1>p
<1> DEFINE r == [conns[n] EXCEPT !.holder = "nobody", !.answers = q]
           read == [conns EXCEPT ![n] = r]
<1>6. r \in Connection /\ r.open /\ r.requests = <<>> /\ r.answers = <<>>
  BY <1>2, <1>4, <1>q, Zenon DEF Connection
<1>7. read = [conns EXCEPT ![n].holder = "nobody", ![n].answers = Tail(@)]
  BY <1>q, Zenon DEF LinkInv, LinkTypeOK
<1> HIDE DEF r
<1>8. QueueOK(r)
  BY <1>6, Zenon DEF QueueOK
<1>9. /\ read \in Seq(Connection) /\ Len(read) = Len(conns) /\ Len(conns) \in Nat
      /\ \A m \in 1 .. Len(conns) : read[m] = IF m = n THEN r ELSE conns[m]
  BY <1>6 DEF LinkInv, LinkTypeOK
<1> HIDE DEF read
<1>10. CASE c \in Goroutine /\ a[2] = "notLeader" /\ a[3] # NoAddress
  <2>1. /\ addr' = a[3] /\ shared' = [shared EXCEPT !.rpc = 0]
        /\ conns' = Closed(read, shared.rpc)
    BY <1>1, <1>5, <1>7, <1>10, Zenon DEF ReadAnswer, None
  <2>2. PICK k \in CallState :
              /\ calls' = [calls EXCEPT ![c] = k]
              /\ k.pc \in {"conn", "returned"}
              /\ k.pc = "returned" => k.answer = Failure
    BY <1>1, <1>5, <1>10, RetryMoves, Zenon DEF ReadAnswer
  <2>3. Fades(read, conns') /\ (shared.rpc # 0 => ~conns'[shared.rpc].open)
    BY <1>9, <2>1, SlotsTyped, ClosedConns, Zenon
  <2>4. /\ shared'.rpc = 0 /\ shared'.hb = shared.hb
        /\ shared' \in [rpc : 0 .. Len(conns), hb : 0 .. Len(conns)]
    BY <2>1, SlotsTyped
  <2>5. \A m \in 1 .. Len(conns) : conns'[m].open => conns[m].open /\ m # shared.rpc
    BY <1>2, <1>9, <2>3 DEF Fades
  <2>6. \A m \in 1 .. Len(conns) : conns'[m].open =>
          \/ shared'.rpc = m \/ shared'.hb = m
          \/ \E d \in Everyone \ {c} : calls[d].pc = "dialled" /\ calls[d].conn = m
    BY <1>0, <2>4, <2>5, Zenon DEF LinkInv, HeldInv
  <2>7. \A m \in 1 .. Len(conns) : conns'[m].open => QueueOK(conns'[m])
    BY <1>8, <1>9, <2>3, <2>5 DEF Fades, LinkInv, MutexInv
  <2>8. \A m \in 1 .. Len(conns) :
          conns'[m].holder = conns[m].holder \/ conns[m].holder \in {"nobody", c}
    BY <1>2, <1>9, <2>3, Zenon DEF Fades
  <2>9. addr' \in Node /\ leader' \in Node /\ ClosedInv'
    BY <1>2, <1>10, <2>1, <2>4, Zenon DEF Answer, LinkInv, LinkTypeOK, ClosedInv
  <2>10. conns' \in Seq(Connection) /\ Len(conns') = Len(conns)
    BY <1>9, <2>3, Zenon DEF Fades
  <2>11. k.pc \notin HasConn /\ k.pc # "reading" /\ Len(conns) <= Len(conns')
    BY <1>9, <2>2, <2>10 DEF HasConn
  <2>12. CallStep(c, k)
    BY <2>2, <2>4, <2>6, <2>7, <2>8, <2>9, <2>10, <2>11, Zenon DEF CallStep
  <2> QED BY <2>2, <2>12, LinkStep, Zenon
<1>11. CASE ~(c \in Goroutine /\ a[2] = "notLeader" /\ a[3] # NoAddress)
  <2> DEFINE k == [calls[c] EXCEPT !.pc = "returned", !.answer = a]
  <2>1. conns' = [conns EXCEPT ![n] = r] /\ UNCHANGED <<addr, shared>>
    BY <1>1, <1>5, <1>7, <1>11, Zenon DEF ReadAnswer, read
  <2>2. calls' = [calls EXCEPT ![c] = k]
    BY <1>1, <1>5, <1>11, Zenon DEF ReadAnswer, Returned, LinkInv, LinkTypeOK
  <2>3. k \in CallState /\ k.pc = "returned" /\ k.answer = a /\ k.conn = n
    BY <1>0, <1>1, Zenon DEF CallState
  <2> HIDE DEF k
  <2> QED BY <1>0, <1>2, <1>3, <1>6, <1>8, <2>1, <2>2, <2>3, ConnStep, Zenon
<1> QED BY <1>10, <1>11, Zenon

LEMMA DropKeeps ==
    ASSUME LinkInv, NEW c \in Everyone,
           dropRPC(c) \/ dropHeartbeat(c)
    PROVE  LinkInv'
<1>0. /\ calls[c] \in CallState /\ calls[c].pc = "failed"
      /\ calls[c].conn \in 1 .. Len(conns)
  BY Zenon DEF LinkInv, LinkTypeOK, dropRPC, dropHeartbeat, HasConn
<1>1. /\ UNCHANGED <<addr, transportClosed, leader>> /\ addr' \in Node
  BY Zenon DEF dropRPC, dropHeartbeat, LinkInv, LinkTypeOK
<1>2. PICK n \in 0 .. Len(conns) :
        /\ conns' = Closed(conns, n)
        /\ shared' \in [rpc : {shared.rpc, 0}, hb : {shared.hb, 0}]
        /\ shared'.rpc # shared.rpc => shared.rpc = n
        /\ shared'.hb # shared.hb => shared.hb = n
  <2>1. CASE dropRPC(c)
    <3>1. conns' = Closed(conns, shared.rpc) /\ shared' = [rpc |-> 0, hb |-> shared.hb]
      BY <2>1, SlotsTyped, Zenon DEF dropRPC, None
    <3> QED BY <3>1, SlotsTyped, Zenon
  <2>2. CASE dropHeartbeat(c)
    <3>1. PICK h : h = IF shared.hb = calls[c].conn THEN 0 ELSE shared.hb
      BY Zenon
    <3>2. conns' = Closed(conns, calls[c].conn) /\ shared' = [rpc |-> shared.rpc, hb |-> h]
      BY <2>2, <3>1, SlotsTyped, Zenon DEF dropHeartbeat, None
    <3> QED BY <1>0, <3>1, <3>2, SlotsTyped
  <2> QED BY <2>1, <2>2, Zenon
<1>3. PICK k \in CallState :
              /\ calls' = [calls EXCEPT ![c] = k]
              /\ k.pc \in {"conn", "returned"}
              /\ k.pc = "returned" => k.answer = Failure
  <2>1. CASE dropRPC(c)
    BY <2>1, RetryMoves, Zenon DEF dropRPC
  <2>2. CASE dropHeartbeat(c)
    <3> DEFINE k == [calls[c] EXCEPT !.pc = "returned", !.answer = Failure]
    <3>1. k \in CallState /\ k.pc = "returned" /\ k.answer = Failure
      BY <1>0, Zenon DEF CallState
    <3>2. calls' = [calls EXCEPT ![c] = k]
      BY <2>2, Zenon DEF dropHeartbeat, Returned, LinkInv, LinkTypeOK
    <3> HIDE DEF k
    <3> QED BY <3>1, <3>2, Zenon
  <2> QED BY <2>1, <2>2, Zenon
<1>4. Fades(conns, conns') /\ (n # 0 => ~conns'[n].open)
  BY <1>2, SlotsTyped, ClosedConns, Zenon
<1>5. shared' \in [rpc : 0 .. Len(conns), hb : 0 .. Len(conns)]
  BY <1>2, SlotsTyped
<1>6. \A m \in 1 .. Len(conns) : conns'[m].open =>
          \/ shared'.rpc = m \/ shared'.hb = m
          \/ \E d \in Everyone \ {c} : calls[d].pc = "dialled" /\ calls[d].conn = m
  <2>1. \A m \in 1 .. Len(conns) : conns'[m].open => conns[m].open /\ m # n
    BY <1>4 DEF Fades
  <2> QED BY <1>0, <1>2, <2>1, ZenonT(40) DEF LinkInv, HeldInv
<1>7. ClosedInv'
  BY <1>1, <1>2, Zenon DEF LinkInv, ClosedInv
<1> QED BY <1>1, <1>3, <1>4, <1>5, <1>6, <1>7, FadeStep, Zenon

(***************************************************************************)
(* Steps of nobody's call that close connections.                          *)
(***************************************************************************)
LEMMA FadeEnv ==
    ASSUME LinkInv, UNCHANGED <<calls, addr>>, leader' \in Node, Fades(conns, conns'),
           shared' \in [rpc : {shared.rpc, 0}, hb : {shared.hb, 0}],
           shared'.rpc # shared.rpc => ~conns'[shared.rpc].open,
           shared'.hb # shared.hb => ~conns'[shared.hb].open,
           ClosedInv'
    PROVE  LinkInv'
<1>1. conns' \in Seq(Connection) /\ Len(conns') = Len(conns) /\ Len(conns) \in Nat
  BY SlotsTyped, Zenon DEF Fades
<1>2. shared' \in [rpc : 0 .. Len(conns'), hb : 0 .. Len(conns')]
  BY <1>1, SlotsTyped
<1>3. \A n \in 1 .. Len(conns) : conns'[n].holder = conns[n].holder
  BY Zenon DEF Fades
<1>4. \A n \in 1 .. Len(conns) : conns'[n].open => QueueOK(conns'[n]) /\ conns[n].open
  BY Zenon DEF Fades, LinkInv, MutexInv
<1>5. \A n \in 1 .. Len(conns) : conns'[n].open =>
          \/ shared'.rpc = n \/ shared'.hb = n
          \/ \E d \in Everyone : calls[d].pc = "dialled" /\ calls[d].conn = n
  BY <1>4, Zenon DEF LinkInv, HeldInv
<1>6. addr' \in Node
  BY Zenon DEF LinkInv, LinkTypeOK
<1> QED BY <1>1, <1>2, <1>3, <1>4, <1>5, <1>6, LinkEnv, Zenon

LEMMA CancelKeeps ==
    ASSUME LinkInv, NEW c \in Everyone, HeartbeatCancelled(c)
    PROVE  LinkInv'
<1>1. PICK n \in 1 .. Len(conns) : n = calls[c].conn
  BY Zenon DEF LinkInv, LinkTypeOK, HeartbeatCancelled, HasConn
<1>2. PICK h : h = IF shared.hb = n THEN 0 ELSE shared.hb
  BY Zenon
<1>3. /\ conns' = Closed(conns, n) /\ shared' = [rpc |-> shared.rpc, hb |-> h]
      /\ UNCHANGED <<calls, addr, leader, transportClosed>>
  BY <1>1, <1>2, SlotsTyped, Zenon DEF HeartbeatCancelled, None
<1>4. Fades(conns, conns') /\ ~conns'[n].open
  BY <1>3, SlotsTyped, ClosedConns
<1>5. leader' \in Node /\ ClosedInv'
  BY <1>2, <1>3, Zenon DEF LinkInv, LinkTypeOK, ClosedInv
<1> QED BY <1>2, <1>3, <1>4, <1>5, SlotsTyped, FadeEnv, Zenon

LEMMA CloseKeeps ==
    ASSUME LinkInv, CloseTransport
    PROVE  LinkInv'
<1>1. PICK cs : cs = Closed(conns, shared.rpc)
  BY Zenon
<1>2. /\ conns' = Closed(cs, shared.hb) /\ shared' = [rpc |-> 0, hb |-> 0]
      /\ UNCHANGED <<calls, addr, leader>>
  BY <1>1, Zenon DEF CloseTransport, None
<1>3. Fades(conns, cs) /\ (shared.rpc # 0 => ~cs[shared.rpc].open)
  BY <1>1, SlotsTyped, ClosedConns, Zenon
<1>4. cs \in Seq(Connection) /\ Len(cs) = Len(conns)
  BY <1>3, Zenon DEF Fades
<1>5. Fades(cs, conns') /\ (shared.hb # 0 => ~conns'[shared.hb].open)
  BY <1>2, <1>4, SlotsTyped, ClosedConns, Zenon
<1>6. Fades(conns, conns')
  BY <1>3, <1>5, Zenon DEF Fades
<1>7. shared.rpc # 0 => ~conns'[shared.rpc].open
  BY <1>3, <1>4, <1>5, SlotsTyped DEF Fades
<1>8. leader' \in Node /\ ClosedInv'
  BY <1>2, Zenon DEF LinkInv, LinkTypeOK, ClosedInv
<1> QED BY <1>2, <1>5, <1>6, <1>7, <1>8, FadeEnv, Zenon

LEMMA ServeLinkKeeps ==
    ASSUME LinkInv, NEW n \in 1 .. Len(conns), NodeServes(n)
    PROVE  LinkInv'
<1>0. conns[n] \in Connection
  BY SlotsTyped
<1>1. conns[n].requests # <<>> /\ leader \in Node
  BY Zenon DEF NodeServes, LinkInv, LinkTypeOK
<1>t. conns[n].requests \in Seq(Everyone) /\ conns[n].answers \in Seq(Answer)
  BY <1>0, Zenon DEF Connection
<1>2. PICK c : c = Head(conns[n].requests)
  BY Zenon
<1>3. c \in Everyone
  BY <1>1, <1>2, <1>t
<1>4. PICK a : /\ a \in {<<c, "ok", "">>, <<c, "notLeader", leader>>,
                         <<c, "notLeader", NoAddress>>}
               /\ conns' = [conns EXCEPT ![n].requests = Tail(@), ![n].answers = Append(@, a)]
  BY <1>2, Zenon DEF NodeServes
<1>5. a \in Answer /\ a[1] = c
  <2>1. \A x \in {"ok", "notLeader"}, y \in Node \union {NoAddress} :
            <<c, x, y>> \in Answer /\ <<c, x, y>>[1] = c
    BY <1>3, Zenon DEF Answer
  <2> QED BY <1>1, <1>4, <2>1, Zenon DEF NoAddress
<1>p. PICK q, p : q = Tail(conns[n].requests) /\ p = Append(conns[n].answers, a)
  BY Zenon
<1>q. /\ q \in Seq(Everyone) /\ p \in Seq(Answer)
      /\ q = Tail(conns[n].requests) /\ p = Append(conns[n].answers, a)
  BY <1>1, <1>5, <1>p, <1>t
<1> DEFINE r == [conns[n] EXCEPT !.requests = q, !.answers = p]
<1>6. conns' = [conns EXCEPT ![n] = r]
  BY <1>4, <1>q, Zenon DEF LinkInv, LinkTypeOK
<1>7. /\ r \in Connection /\ r.open = conns[n].open /\ r.holder = conns[n].holder
      /\ r.requests = Tail(conns[n].requests) /\ r.answers = Append(conns[n].answers, a)
  BY <1>0, <1>q, Zenon DEF Connection
<1> HIDE DEF r
<1>8. r.open => QueueOK(r)
  <2> SUFFICES ASSUME r.open PROVE QueueOK(r)
    BY Zenon
  <2>1. conns[n].requests = <<conns[n].holder>> /\ conns[n].answers = <<>>
    BY <1>1, <1>7, Zenon DEF LinkInv, MutexInv, QueueOK
  <2>2. c = r.holder /\ r.requests = <<>> /\ r.answers = <<a>>
    BY <1>2, <1>7, <2>1
  <2> QED BY <1>3, <1>5, <2>2, Zenon DEF QueueOK
<1>9. /\ conns' \in Seq(Connection) /\ Len(conns') = Len(conns) /\ Len(conns) \in Nat
      /\ \A m \in 1 .. Len(conns) : conns'[m] = IF m = n THEN r ELSE conns[m]
  BY <1>6, <1>7 DEF LinkInv, LinkTypeOK
<1>10. /\ UNCHANGED <<addr, transportClosed, shared, calls, leader>>
       /\ addr' \in Node /\ leader' \in Node /\ ClosedInv'
       /\ shared' \in [rpc : 0 .. Len(conns'), hb : 0 .. Len(conns')]
  BY <1>9, Zenon DEF NodeServes, LinkInv, LinkTypeOK, ClosedInv
<1>11. \A m \in 1 .. Len(conns) : /\ conns'[m].holder = conns[m].holder
                                  /\ conns'[m].open = conns[m].open
  BY <1>7, <1>9, Zenon
<1>12. \A m \in 1 .. Len(conns) : conns'[m].open => QueueOK(conns'[m])
  BY <1>8, <1>9, Zenon DEF LinkInv, MutexInv
<1>13. \A m \in 1 .. Len(conns) : conns'[m].open =>
          \/ shared'.rpc = m \/ shared'.hb = m
          \/ \E d \in Everyone : calls[d].pc = "dialled" /\ calls[d].conn = m
  BY <1>10, <1>11, Zenon DEF LinkInv, HeldInv
<1> QED BY <1>9, <1>10, <1>11, <1>12, <1>13, LinkEnv, Zenon

LEMMA BreakKeeps ==
    ASSUME LinkInv, NEW n \in 1 .. Len(conns), Break(n)
    PROVE  LinkInv'
<1>1. PICK lost \in BOOLEAN :
          conns' = [conns EXCEPT ![n].open = FALSE,
                                 ![n].requests = IF lost THEN <<>> ELSE @]
  BY Zenon DEF Break
<1> DEFINE q == IF lost THEN <<>> ELSE conns[n].requests
           r == [conns[n] EXCEPT !.open = FALSE, !.requests = q]
<1>0. conns[n] \in Connection
  BY SlotsTyped
<1>2. q \in Seq(Everyone)
  BY <1>0 DEF Connection
<1>3. conns' = [conns EXCEPT ![n] = r]
  BY <1>1, Zenon DEF LinkInv, LinkTypeOK
<1> HIDE DEF q
<1>4. r \in Connection /\ ~r.open /\ r.holder = conns[n].holder
  BY <1>0, <1>2, Zenon DEF Connection
<1> HIDE DEF r
<1>5. Fades(conns, conns')
  BY <1>3, <1>4, SlotsTyped DEF Fades
<1>6. UNCHANGED <<addr, transportClosed, shared, calls, leader>> /\ leader' \in Node /\ ClosedInv'
  BY Zenon DEF Break, LinkInv, LinkTypeOK, ClosedInv
<1> QED BY <1>5, <1>6, SlotsTyped, FadeEnv, Zenon

LEMMA LinkNext == LinkInv /\ [TransportNext]_transportVars => LinkInv'
<1> SUFFICES ASSUME LinkInv, [TransportNext]_transportVars PROVE LinkInv'
  BY Zenon
<1>0. Fades(conns, conns)
  BY SlotsTyped, Zenon DEF Fades
<1>1. ASSUME NEW c \in Everyone,
             \/ BeginCall(c) \/ rpcConn(c) \/ dialAndHandshake(c)
             \/ DialFails(c) \/ KeepOrClose(c)
      PROVE  LinkInv'
  BY <1>1, StartKeeps, DialKeeps, KeepKeeps, Zenon
<1>2. ASSUME NEW c \in Everyone,
             \/ WriteRequest(c) \/ ReadAnswer(c) \/ ReadFails(c)
             \/ dropRPC(c) \/ dropHeartbeat(c) \/ HeartbeatCancelled(c)
      PROVE  LinkInv'
  BY <1>2, WriteKeeps, ReadKeeps, ReadFailsKeeps, DropKeeps, CancelKeeps, Zenon
<1>3. CASE CloseTransport
  BY <1>3, CloseKeeps, Zenon
<1>4. ASSUME NEW n \in DOMAIN conns, NodeServes(n) \/ Break(n) PROVE LinkInv'
  <2>1. n \in 1 .. Len(conns)
    BY SlotsTyped
  <2> QED BY <1>4, <2>1, ServeLinkKeeps, BreakKeeps, Zenon
<1>5. CASE Election
  <2>1. UNCHANGED <<addr, transportClosed, shared, conns, calls>> /\ leader' \in Node
    BY <1>5, Zenon DEF Election
  <2>2. ClosedInv'
    BY <2>1, Zenon DEF LinkInv, ClosedInv
  <2> QED BY <1>0, <2>1, <2>2, SlotsTyped, FadeEnv, Zenon
<1>6. CASE UNCHANGED transportVars
  <2>1. UNCHANGED <<addr, transportClosed, shared, conns, calls, leader>>
    BY <1>6, Zenon DEF transportVars
  <2>2. ClosedInv' /\ leader' \in Node
    BY <2>1, Zenon DEF LinkInv, LinkTypeOK, ClosedInv
  <2> QED BY <1>0, <2>1, <2>2, SlotsTyped, FadeEnv, Zenon
<1> QED BY <1>1, <1>2, <1>3, <1>4, <1>5, <1>6, Zenon DEF TransportNext

(***************************************************************************)
(* An answer goes to the call it answers, for any number of calls sharing  *)
(* the connections, whichever of them break, are dropped under a call or   *)
(* dialled again, and whoever leads: a connection is open only while it    *)
(* carries at most the one exchange of the call that holds its mutex.      *)
(***************************************************************************)
THEOREM AnswersReachTheirCalls == TransportSpec => []AnswersMatchCalls
<1>1. LinkInv => AnswersMatchCalls
  BY Zenon DEF LinkInv
<1> QED BY LinkInit, LinkNext, <1>1, PTL DEF TransportSpec

(***************************************************************************)
(* A closed transport whose calls have returned has closed every           *)
(* connection it ever dialled, those of dials and of errors that overlapped*)
(* Close included.                                                         *)
(***************************************************************************)
THEOREM CloseLeavesNoConnection == TransportSpec => []ClosedLeavesNothing
<1>1. LinkInv => ClosedLeavesNothing
  <2> SUFFICES ASSUME LinkInv, transportClosed,
                      \A c \in Everyone : calls[c].pc \in {"idle", "returned"}
               PROVE  /\ shared = [rpc |-> 0, hb |-> 0]
                      /\ \A n \in DOMAIN conns : ~conns[n].open
    BY Zenon DEF ClosedLeavesNothing, None
  <2>1. shared.rpc = 0 /\ shared.hb = 0
    BY Zenon DEF LinkInv, ClosedInv
  <2>2. \A n \in 1 .. Len(conns) : ~conns[n].open
    BY <2>1 DEF LinkInv, HeldInv
  <2> QED BY <2>1, <2>2, SlotsTyped
<1> QED BY LinkInit, LinkNext, <1>1, PTL DEF TransportSpec

-----------------------------------------------------------------------------
(***************************************************************************)
(* The worker: every run is cancelled, is the one that the next Stop       *)
(* cancels, or a Stop has it in hand.                                      *)
(***************************************************************************)
Tracked(r) ==
    \/ r \in cancelledRuns
    \/ running /\ stopFunc = r
    \/ \E c \in Caller : call[c].pc = "stop" /\ call[c].run = r

Call == [pc : {"idle", "panic", "spawn", "producer", "init", "stop", "wait"},
         run : Nat, todo : Seq(Key), starting : BOOLEAN, scope : Nat]

Scopes == [key : Key, run : Nat, cancelled : BOOLEAN]

(***************************************************************************)
(* A call that spawns has a mount left to spawn.                           *)
(***************************************************************************)
CallOK(k, scopes) ==
    /\ k \in Call
    /\ k.pc \in {"spawn", "init"} => k.todo # <<>>
    /\ k.pc = "init" => k.scope \in scopes

WorkerTypeOK ==
    /\ stopFunc \in Nat /\ runs \in Nat /\ runCtx \in Nat
    /\ sources \in Seq(SourceName)
    /\ sinks \in Seq(SinkName)
    /\ mountCancels \in [Key -> Nat]
    /\ scope \in Seq(Scopes)
    /\ call \in [Caller -> Call]
    /\ \A c \in Caller : CallOK(call[c], DOMAIN scope)

(***************************************************************************)
(* A list of mounts without one of them is a list of mounts.               *)
(***************************************************************************)
LEMMA WithoutType ==
    ASSUME NEW T, NEW s \in Seq(T), NEW i \in DOMAIN s
    PROVE  Without(s, i) \in Seq(T)
<1>1. i \in 1 .. Len(s) /\ Len(s) \in Nat
  OBVIOUS
<1>2. SubSeq(s, 1, i - 1) \in Seq(T) /\ SubSeq(s, i + 1, Len(s)) \in Seq(T)
  BY <1>1
<1> QED BY <1>2 DEF Without

-----------------------------------------------------------------------------
LEMMA IdleCall == Idle \in Call /\ Idle.pc = "idle"
<1>1. <<>> \in Seq(Key)
  OBVIOUS
<1> QED BY <1>1, Zenon DEF Idle, Call

LEMMA WorkerTypesInit == Init => WorkerTypeOK
<1> SUFFICES ASSUME Init PROVE WorkerTypeOK
  BY Zenon
<1>1. call \in [Caller -> Call] /\ \A c \in Caller : CallOK(call[c], DOMAIN scope)
  BY IdleCall, Zenon DEF Init, CallOK
<1>2. sources \in Seq(SourceName) /\ sinks \in Seq(SinkName) /\ scope \in Seq(Scopes)
  BY DEF Init
<1>3. mountCancels \in [Key -> Nat]
  BY Zenon DEF Init
<1>4. runs \in Nat /\ runCtx \in Nat /\ stopFunc \in Nat
  BY Zenon DEF Init
<1> QED BY <1>1, <1>2, <1>3, <1>4, Zenon DEF WorkerTypeOK

(***************************************************************************)
(* A step that moves one call keeps the others as they were.               *)
(***************************************************************************)
LEMMA CallTypes ==
    ASSUME WorkerTypeOK, NEW c \in Caller, NEW k, CallOK(k, DOMAIN scope'),
           call' = [call EXCEPT ![c] = k], DOMAIN scope \subseteq DOMAIN scope'
    PROVE  /\ call' \in [Caller -> Call]
           /\ \A d \in Caller : CallOK(call'[d], DOMAIN scope')
  BY Zenon DEF WorkerTypeOK, CallOK

LEMMA CancelScope ==
    ASSUME NEW s \in Scopes
    PROVE  /\ [s EXCEPT !.cancelled = TRUE] \in Scopes
           /\ [s EXCEPT !.cancelled = TRUE].run = s.run
           /\ [s EXCEPT !.cancelled = TRUE].cancelled
  BY Zenon DEF Scopes

LEMMA KeysOfNames ==
    ASSUME NEW kind, NEW N, NEW names \in Seq(N), {kind} \X N \subseteq Key
    PROVE  Keys(kind, names) \in Seq(Key)
<1>1. \A i \in 1 .. Len(names) : <<kind, names[i]>> \in Key
  OBVIOUS
<1>2. Keys(kind, names) \in [1 .. Len(names) -> Key] /\ Len(names) \in Nat
  BY <1>1 DEF Keys
<1> QED BY <1>2

LEMMA TypesNext == WorkerTypeOK /\ [Next]_vars => WorkerTypeOK'
<1> SUFFICES ASSUME WorkerTypeOK, [Next]_vars PROVE WorkerTypeOK'
  BY Zenon
<1> USE DEF worker, contexts
<1>1. ASSUME NEW c \in Caller, NEW n \in SourceName, AddSource(c, n) PROVE WorkerTypeOK'
  BY <1>1 DEF AddSource, WorkerTypeOK
<1>2. ASSUME NEW c \in Caller, NEW n \in SinkName, AddSink(c, n) PROVE WorkerTypeOK'
  BY <1>2 DEF AddSink, WorkerTypeOK
<1>3. ASSUME NEW c \in Caller, NEW k \in Key, AddLive(c, k),
             sources' \in Seq(SourceName), sinks' \in Seq(SinkName)
      PROVE  WorkerTypeOK'
  <2> DEFINE new == [Idle EXCEPT !.pc = IF runCtx = 0 THEN "panic" ELSE "spawn",
                                 !.run = runCtx, !.todo = <<k>>]
  <2>1. <<k>> \in Seq(Key) /\ <<k>> # <<>> /\ runCtx \in Nat
    BY DEF WorkerTypeOK
  <2>2. new \in Call /\ new.pc # "init" /\ new.todo = <<k>>
    BY <2>1, IdleCall, Zenon DEF Call
  <2>3. CallOK(new, DOMAIN scope') /\ call' = [call EXCEPT ![c] = new]
    BY <1>3, <2>1, <2>2, Zenon DEF AddLive, CallOK
  <2> HIDE DEF new
  <2> QED BY <1>3, <2>3, CallTypes, Zenon DEF AddLive, WorkerTypeOK
<1>4. ASSUME NEW c \in Caller, NEW n \in SourceName, AddSourceLive(c, n)
      PROVE  WorkerTypeOK'
  <2>1. <<"source", n>> \in Key
    BY Zenon DEF Key
  <2> QED BY <1>3, <1>4, <2>1 DEF AddSourceLive, WorkerTypeOK
<1>5. ASSUME NEW c \in Caller, NEW n \in SinkName, AddSinkLive(c, n)
      PROVE  WorkerTypeOK'
  <2>1. <<"sink", n>> \in Key
    BY Zenon DEF Key
  <2> QED BY <1>3, <1>5, <2>1 DEF AddSinkLive, WorkerTypeOK
<1>6. ASSUME NEW k \in Key, Uncouple(k)
      PROVE  /\ scope' \in Seq(Scopes) /\ DOMAIN scope' = DOMAIN scope
             /\ mountCancels' \in [Key -> Nat]
  <2>1. \A g \in 1 .. Len(scope) :
            scope[g] \in Scopes /\ [scope[g] EXCEPT !.cancelled = TRUE] \in Scopes
    BY CancelScope DEF WorkerTypeOK
  <2>2. scope' \in [1 .. Len(scope) -> Scopes] /\ Len(scope) \in Nat
    BY <1>6, <2>1 DEF Uncouple, WorkerTypeOK
  <2> QED BY <1>6, <2>2 DEF Uncouple, WorkerTypeOK
<1>7. ASSUME NEW c \in Caller, NEW n \in SourceName, RemoveSource(c, n)
      PROVE  WorkerTypeOK'
  <2>1. <<"source", n>> \in Key
    BY Zenon DEF Key
  <2>2. sources' \in Seq(SourceName)
    BY <1>7, WithoutType, Zenon DEF RemoveSource, WorkerTypeOK
  <2> QED BY <1>6, <1>7, <2>1, <2>2, Zenon DEF RemoveSource, WorkerTypeOK
<1>8. ASSUME NEW c \in Caller, NEW n \in SinkName, RemoveSink(c, n)
      PROVE  WorkerTypeOK'
  <2>1. <<"sink", n>> \in Key
    BY Zenon DEF Key
  <2>2. sinks' \in Seq(SinkName)
    BY <1>8, WithoutType, Zenon DEF RemoveSink, WorkerTypeOK
  <2> QED BY <1>6, <1>8, <2>1, <2>2, Zenon DEF RemoveSink, WorkerTypeOK
<1>9. ASSUME NEW c \in Caller, Start(c) PROVE WorkerTypeOK'
  <2>1. PICK mounts : mounts = Keys("source", sources) \o Keys("sink", sinks)
    BY Zenon
  <2>2. {"source"} \X SourceName \subseteq Key /\ {"sink"} \X SinkName \subseteq Key
    BY Zenon DEF Key
  <2>3. Keys("source", sources) \in Seq(Key) /\ Keys("sink", sinks) \in Seq(Key)
    BY <2>2, KeysOfNames, Zenon DEF WorkerTypeOK
  <2>4. mounts \in Seq(Key) /\ runs + 1 \in Nat /\ runs' = runs + 1
    BY <1>9, <2>1, <2>3 DEF Start, WorkerTypeOK
  <2> DEFINE new == [Idle EXCEPT !.pc = "producer", !.run = runs + 1, !.starting = TRUE,
                                 !.todo = mounts]
  <2>5. new \in Call /\ new.pc = "producer"
    BY <2>4, IdleCall, Zenon DEF Call
  <2>6. call' = [call EXCEPT ![c] = new]
    BY <1>9, <2>1, <2>4, Zenon DEF Start
  <2>7. CallOK(new, DOMAIN scope')
    BY <2>5, Zenon DEF CallOK
  <2> HIDE DEF new
  <2> QED BY <1>9, <2>4, <2>6, <2>7, CallTypes, Zenon DEF Start, WorkerTypeOK
<1>10. ASSUME NEW c \in Caller, SetProducer(c) PROVE WorkerTypeOK'
  <2> DEFINE new == IF call[c].todo = <<>> THEN Idle ELSE [call[c] EXCEPT !.pc = "spawn"]
  <2>1. CallOK(new, DOMAIN scope') /\ call' = [call EXCEPT ![c] = new]
    BY <1>10, IdleCall, Zenon DEF SetProducer, WorkerTypeOK, Call, CallOK
  <2> HIDE DEF new
  <2>2. runCtx' \in Nat
    BY <1>10, Zenon DEF SetProducer, WorkerTypeOK, Call
  <2> QED BY <1>10, <2>1, <2>2, CallTypes, Zenon DEF SetProducer, WorkerTypeOK
<1>11. ASSUME NEW c \in Caller, ProducerFails(c) PROVE WorkerTypeOK'
  BY <1>11, IdleCall, Zenon DEF ProducerFails, WorkerTypeOK, CallOK
<1>12. ASSUME NEW c \in Caller, RegisterCancel(c) PROVE WorkerTypeOK'
  <2>1. call[c] \in Call /\ call[c].todo # <<>> /\ call[c].pc = "spawn"
    BY <1>12, Zenon DEF RegisterCancel, WorkerTypeOK, CallOK
  <2>2. PICK k \in Key : k = Head(call[c].todo)
    BY <2>1 DEF Call
  <2>3. call[c].run \in Nat
    BY <2>1, Zenon DEF Call
  <2>4. NewScope(k, call[c].run) \in Scopes
    BY <2>3, Zenon DEF NewScope, Scopes
  <2>5. /\ scope' = Append(scope, NewScope(k, call[c].run))
        /\ mountCancels' = [mountCancels EXCEPT ![k] = Len(scope')]
        /\ call' = [call EXCEPT ![c].pc = "init", ![c].scope = Len(scope')]
    BY <1>12, <2>2, Zenon DEF RegisterCancel
  <2>6. /\ scope' \in Seq(Scopes) /\ Len(scope') \in Nat
        /\ Len(scope') \in DOMAIN scope' /\ DOMAIN scope \subseteq DOMAIN scope'
    BY <2>4, <2>5 DEF WorkerTypeOK
  <2>7. PICK m : m = Len(scope')
    BY Zenon
  <2> DEFINE new == [call[c] EXCEPT !.pc = "init", !.scope = m]
  <2>8. CallOK(new, DOMAIN scope')
    BY <2>1, <2>6, <2>7, Zenon DEF CallOK, Call
  <2>9. call' = [call EXCEPT ![c] = new]
    BY <2>5, <2>7, Zenon DEF WorkerTypeOK
  <2>10. mountCancels' \in [Key -> Nat]
    BY <2>5, <2>6, Zenon DEF WorkerTypeOK
  <2> HIDE DEF new
  <2> QED BY <1>12, <2>6, <2>8, <2>9, <2>10, CallTypes, Zenon DEF RegisterCancel, WorkerTypeOK
<1>13. ASSUME NEW c \in Caller, StartTasks(c) PROVE WorkerTypeOK'
  <2>1. CASE UNCHANGED call
    BY <1>13, <2>1, Zenon DEF StartTasks, WorkerTypeOK
  <2>2. CASE ~ UNCHANGED call
    <3> DEFINE new == IF Tail(call[c].todo) = <<>> THEN Idle
                      ELSE [call[c] EXCEPT !.pc = "spawn", !.todo = Tail(call[c].todo)]
    <3>1. call[c] \in Call /\ call[c].todo # <<>>
      BY <1>13, Zenon DEF StartTasks, WorkerTypeOK, CallOK
    <3>2. Tail(call[c].todo) \in Seq(Key)
      BY <3>1 DEF Call
    <3>3. CallOK(new, DOMAIN scope')
      BY <3>1, <3>2, IdleCall, Zenon DEF CallOK, Call
    <3>4. call' = [call EXCEPT ![c] = new]
      BY <1>13, <2>2, Zenon DEF StartTasks
    <3> HIDE DEF new
    <3> QED BY <1>13, <3>3, <3>4, CallTypes, Zenon DEF StartTasks, WorkerTypeOK
  <2> QED BY <2>1, <2>2, Zenon
<1>14. ASSUME NEW c \in Caller, SpawnFails(c) PROVE WorkerTypeOK'
  <2>1. PICK g \in DOMAIN scope : g = call[c].scope
    BY <1>14, Zenon DEF SpawnFails, WorkerTypeOK, CallOK
  <2>2. scope' = [scope EXCEPT ![g] = [scope[g] EXCEPT !.cancelled = TRUE]]
    BY <1>14, <2>1, Zenon DEF SpawnFails, WorkerTypeOK
  <2>3. scope' \in Seq(Scopes) /\ DOMAIN scope' = DOMAIN scope
    BY <2>2, CancelScope DEF WorkerTypeOK
  <2>4. CallOK(Idle, DOMAIN scope') /\ call' = [call EXCEPT ![c] = Idle]
    BY <1>14, IdleCall, Zenon DEF SpawnFails, CallOK
  <2>5. mountCancels' \in [Key -> Nat]
    BY <1>14, Zenon DEF SpawnFails, WorkerTypeOK
  <2> QED BY <1>14, <2>3, <2>4, <2>5, CallTypes, Zenon DEF SpawnFails, WorkerTypeOK
<1>15. ASSUME NEW c \in Caller, Stop(c) PROVE WorkerTypeOK'
  <2> DEFINE new == [Idle EXCEPT !.pc = "stop", !.run = stopFunc]
  <2>1. CallOK(new, DOMAIN scope') /\ call' = [call EXCEPT ![c] = new]
    BY <1>15, IdleCall, Zenon DEF Stop, WorkerTypeOK, Call, CallOK
  <2> HIDE DEF new
  <2> QED BY <1>15, <2>1, CallTypes, Zenon DEF Stop, WorkerTypeOK
<1>16. ASSUME NEW c \in Caller, StopCancels(c) PROVE WorkerTypeOK'
  BY <1>16, ZenonT(40) DEF StopCancels, Call, WorkerTypeOK, CallOK
<1>17. ASSUME NEW c \in Caller, StopReturns(c) PROVE WorkerTypeOK'
  BY <1>17, IdleCall, Zenon DEF StopReturns, WorkerTypeOK, CallOK
<1>18. ASSUME NEW g \in live, TasksEnd(g) PROVE WorkerTypeOK'
  BY <1>18, Zenon DEF TasksEnd, WorkerTypeOK
<1>19. CASE UNCHANGED vars
  BY <1>19, Zenon DEF vars, WorkerTypeOK
<1> QED BY Zenon, <1>1, <1>2, <1>4, <1>5, <1>7, <1>8, <1>9, <1>10, <1>11, <1>12, <1>13,
           <1>14, <1>15, <1>16, <1>17, <1>18, <1>19 DEF Next

(***************************************************************************)
(* A run stays tracked as long as cancellations last, the worker keeps its *)
(* stopFunc and no Stop lets go of it.                                     *)
(***************************************************************************)
LEMMA TrackedKept ==
    ASSUME NEW r, Tracked(r), cancelledRuns \subseteq cancelledRuns',
           running => running' /\ stopFunc' = stopFunc,
           \A d \in Caller : call[d].pc = "stop" =>
               call'[d].pc = "stop" /\ call'[d].run = call[d].run
    PROVE  Tracked(r)'
<1>1. CASE r \in cancelledRuns
  BY <1>1, Zenon DEF Tracked
<1>2. CASE running /\ stopFunc = r
  BY <1>2, Zenon DEF Tracked
<1>3. CASE \E c \in Caller : call[c].pc = "stop" /\ call[c].run = r
  BY <1>3, Zenon DEF Tracked
<1> QED BY <1>1, <1>2, <1>3, Zenon DEF Tracked

(***************************************************************************)
(* What NoOrphan rests on: goroutines have a scope, the run of a scope or  *)
(* of a call that spawns is one that was started, and every run started is *)
(* tracked.                                                                *)
(***************************************************************************)
RunsOK ==
    /\ runCtx <= runs
    /\ live \subseteq DOMAIN scope
    /\ \A g \in DOMAIN scope : scope[g].run \in 1 .. runs
    /\ \A c \in Caller :
        call[c].pc \in {"spawn", "producer", "init"} => call[c].run \in 1 .. runs
    /\ \A r \in 1 .. runs : Tracked(r)

LEMMA WorkerInit == Init => WorkerTypeOK /\ RunsOK
<1> SUFFICES ASSUME Init PROVE RunsOK
  BY WorkerTypesInit, Zenon
<1>1. \A c \in Caller : call[c].pc = "idle"
  BY IdleCall, Zenon DEF Init
<1>2. runs = 0 /\ runCtx = 0 /\ live = {} /\ scope = <<>>
  BY Zenon DEF Init
<1> QED BY <1>1, <1>2 DEF RunsOK

(***************************************************************************)
(* A step of call c that starts no run and stops none.                     *)
(***************************************************************************)
LEMMA RunsFrame ==
    ASSUME WorkerTypeOK, RunsOK, NEW c \in Caller, NEW k,
           call' = [call EXCEPT ![c] = k], call[c].pc # "stop",
           k.pc \in {"spawn", "producer", "init"} => k.run \in 1 .. runs,
           cancelledRuns \subseteq cancelledRuns',
           UNCHANGED <<runs, running, stopFunc>>
    PROVE  /\ \A d \in Caller :
                call'[d].pc \in {"spawn", "producer", "init"} =>
                    call'[d].run \in 1 .. runs'
           /\ \A r \in 1 .. runs' : Tracked(r)'
<1>1. \A d \in Caller : call'[d] = IF d = c THEN k ELSE call[d]
  BY Zenon DEF WorkerTypeOK
<1>2. \A d \in Caller : call'[d].pc \in {"spawn", "producer", "init"} =>
                            call'[d].run \in 1 .. runs'
  BY <1>1, Zenon DEF RunsOK
<1>3. \A d \in Caller : call[d].pc = "stop" =>
          call'[d].pc = "stop" /\ call'[d].run = call[d].run
  BY <1>1, Zenon
<1>4. \A r \in 1 .. runs' : Tracked(r)'
  BY <1>3, TrackedKept, Zenon DEF RunsOK
<1> QED BY <1>2, <1>4, Zenon

LEMMA RunsNext == WorkerTypeOK /\ RunsOK /\ [Next]_vars => RunsOK'
<1> SUFFICES ASSUME WorkerTypeOK, RunsOK, [Next]_vars PROVE RunsOK'
  BY Zenon
<1> USE DEF worker, contexts
<1>0. ASSUME UNCHANGED <<running, stopFunc, runCtx, cancelledRuns, runs, scope, call>>,
             live' \subseteq live
      PROVE  RunsOK'
  BY <1>0, Zenon DEF RunsOK, Tracked
<1>1. ASSUME NEW c \in Caller, NEW n, AddSource(c, n) \/ AddSink(c, n) PROVE RunsOK'
  BY <1>0, <1>1, Zenon DEF AddSource, AddSink
<1>2. ASSUME NEW c \in Caller, NEW k, AddLive(c, k) PROVE RunsOK'
  <2> DEFINE new == [Idle EXCEPT !.pc = IF runCtx = 0 THEN "panic" ELSE "spawn",
                                 !.run = runCtx, !.todo = <<k>>]
  <2>1. new.pc \in {"spawn", "producer", "init"} => new.run \in 1 .. runs
    BY DEF Idle, RunsOK, WorkerTypeOK
  <2>2. call' = [call EXCEPT ![c] = new] /\ call[c].pc # "stop"
    BY <1>2, Zenon DEF AddLive
  <2> HIDE DEF new
  <2> QED BY <1>2, <2>1, <2>2, RunsFrame, Zenon DEF AddLive, RunsOK
<1>3. ASSUME NEW k, Uncouple(k)
      PROVE  /\ DOMAIN scope' = DOMAIN scope
             /\ \A g \in DOMAIN scope' : scope'[g].run = scope[g].run
  <2>1. \A g \in DOMAIN scope : scope[g] \in Scopes
    BY DEF WorkerTypeOK
  <2> QED BY <1>3, <2>1, CancelScope, Zenon DEF Uncouple
<1>4. ASSUME NEW c \in Caller, NEW n, RemoveSource(c, n) \/ RemoveSink(c, n)
      PROVE  RunsOK'
  <2>1. UNCHANGED <<running, stopFunc, runCtx, cancelledRuns, runs, live, call>>
    BY <1>4, Zenon DEF RemoveSource, RemoveSink
  <2>2. \E k : Uncouple(k)
    BY <1>4, Zenon DEF RemoveSource, RemoveSink
  <2> QED BY <1>3, <2>1, <2>2, Zenon DEF RunsOK, Tracked
<1>5. ASSUME NEW c \in Caller, Start(c) PROVE RunsOK'
  <2>1. /\ runs' = runs + 1 /\ stopFunc' = runs + 1 /\ running' /\ ~running
        /\ UNCHANGED <<runCtx, cancelledRuns, scope, live>>
    BY <1>5, Zenon DEF Start
  <2>2. /\ \A d \in Caller \ {c} : call'[d] = call[d]
        /\ call[c].pc = "idle" /\ call'[c].pc = "producer" /\ call'[c].run = runs + 1
    BY <1>5, <2>1, Zenon DEF Start, WorkerTypeOK, Idle
  <2>3. \A r \in 1 .. runs : Tracked(r)'
    BY <2>1, <2>2, TrackedKept, Zenon DEF RunsOK
  <2>4. PICK n : n = runs + 1
    BY Zenon
  <2>5. Tracked(n)'
    BY <2>1, <2>4, Zenon DEF Tracked
  <2>6. \A r \in 1 .. runs' : r \in 1 .. runs \/ r = n
    BY <2>1, <2>4 DEF WorkerTypeOK
  <2>7. \A r \in 1 .. runs' : Tracked(r)'
    BY <2>3, <2>5, <2>6, Zenon
  <2>8. /\ runCtx' <= runs' /\ \A r \in 1 .. runs : r \in 1 .. runs'
        /\ runs + 1 \in 1 .. runs'
    BY <2>1 DEF RunsOK, WorkerTypeOK
  <2> QED BY <2>1, <2>2, <2>7, <2>8, Zenon DEF RunsOK
<1>6. ASSUME NEW c \in Caller, SetProducer(c) PROVE RunsOK'
  <2> DEFINE new == IF call[c].todo = <<>> THEN Idle ELSE [call[c] EXCEPT !.pc = "spawn"]
  <2>1. call[c].pc = "producer" /\ call[c].run \in 1 .. runs
    BY <1>6, Zenon DEF SetProducer, RunsOK
  <2>2. new.pc \in {"spawn", "producer", "init"} => new.run \in 1 .. runs
    BY <2>1, IdleCall, Zenon DEF WorkerTypeOK, Call
  <2>3. call' = [call EXCEPT ![c] = new]
    BY <1>6, Zenon DEF SetProducer
  <2> HIDE DEF new
  <2>4. runCtx' <= runs'
    BY <1>6, <2>1 DEF SetProducer, WorkerTypeOK
  <2> QED BY <1>6, <2>1, <2>2, <2>3, <2>4, RunsFrame, Zenon DEF SetProducer, RunsOK
<1>7. ASSUME NEW c \in Caller, ProducerFails(c) PROVE RunsOK'
  BY <1>7, IdleCall, RunsFrame, Zenon DEF ProducerFails, RunsOK
<1>8. ASSUME NEW c \in Caller, RegisterCancel(c) PROVE RunsOK'
  <2>1. PICK k, m : k = Head(call[c].todo) /\ m = Len(scope')
    BY Zenon
  <2> DEFINE new == [call[c] EXCEPT !.pc = "init", !.scope = m]
  <2>2. call[c].pc = "spawn" /\ call[c].run \in 1 .. runs
    BY <1>8, Zenon DEF RegisterCancel, RunsOK
  <2>3. call' = [call EXCEPT ![c] = new] /\ new.run = call[c].run
    BY <1>8, <2>1, Zenon DEF RegisterCancel, WorkerTypeOK, Call
  <2>4. scope' = Append(scope, NewScope(k, call[c].run))
    BY <1>8, <2>1, Zenon DEF RegisterCancel
  <2>5. \A g \in DOMAIN scope' : scope'[g].run \in 1 .. runs
    BY <2>2, <2>4 DEF NewScope, RunsOK, WorkerTypeOK
  <2>6. DOMAIN scope \subseteq DOMAIN scope'
    BY <2>4 DEF WorkerTypeOK
  <2> HIDE DEF new
  <2> QED BY <1>8, <2>2, <2>3, <2>5, <2>6, RunsFrame, Zenon DEF RegisterCancel, RunsOK
<1>9. ASSUME NEW c \in Caller, StartTasks(c) PROVE RunsOK'
  <2>1. call[c].pc = "init" /\ call[c].run \in 1 .. runs /\ call[c].scope \in DOMAIN scope
    BY <1>9, Zenon DEF StartTasks, RunsOK, WorkerTypeOK, CallOK
  <2>2. live' \subseteq DOMAIN scope' /\ UNCHANGED <<worker, cancelledRuns, runs, scope>>
    BY <1>9, <2>1, Zenon DEF StartTasks, RunsOK
  <2>3. CASE UNCHANGED call
    BY <2>2, <2>3, Zenon DEF RunsOK, Tracked
  <2>4. CASE ~ UNCHANGED call
    <3> DEFINE new == IF Tail(call[c].todo) = <<>> THEN Idle
                      ELSE [call[c] EXCEPT !.pc = "spawn", !.todo = Tail(call[c].todo)]
    <3>1. new.pc \in {"spawn", "producer", "init"} => new.run \in 1 .. runs
      BY <2>1, IdleCall, Zenon DEF WorkerTypeOK, Call
    <3>2. call' = [call EXCEPT ![c] = new]
      BY <1>9, <2>4, Zenon DEF StartTasks
    <3> HIDE DEF new
    <3> QED BY <2>1, <2>2, <3>1, <3>2, RunsFrame, Zenon DEF RunsOK
  <2> QED BY <2>3, <2>4, Zenon
<1>10. ASSUME NEW c \in Caller, SpawnFails(c) PROVE RunsOK'
  <2>1. PICK g \in DOMAIN scope : g = call[c].scope
    BY <1>10, Zenon DEF SpawnFails, WorkerTypeOK, CallOK
  <2>2. scope' = [scope EXCEPT ![g] = [scope[g] EXCEPT !.cancelled = TRUE]]
    BY <1>10, <2>1, Zenon DEF SpawnFails, WorkerTypeOK
  <2>3. /\ DOMAIN scope' = DOMAIN scope
        /\ \A h \in DOMAIN scope : scope'[h].run = scope[h].run
    BY <2>2, CancelScope DEF WorkerTypeOK
  <2>4. call' = [call EXCEPT ![c] = Idle] /\ call[c].pc = "init"
    BY <1>10, Zenon DEF SpawnFails
  <2>5. cancelledRuns \subseteq cancelledRuns' /\ UNCHANGED <<running, stopFunc, runCtx, runs, live>>
    BY <1>10, Zenon DEF SpawnFails
  <2> QED BY <2>3, <2>4, <2>5, IdleCall, RunsFrame, Zenon DEF RunsOK
<1>11. ASSUME NEW c \in Caller, Stop(c) PROVE RunsOK'
  <2>1. /\ running /\ ~running' /\ call[c].pc = "idle"
        /\ UNCHANGED <<runCtx, cancelledRuns, runs, scope, live>>
    BY <1>11, Zenon DEF Stop
  <2>2. /\ \A d \in Caller \ {c} : call'[d] = call[d]
        /\ call'[c].pc = "stop" /\ call'[c].run = stopFunc
    BY <1>11, Zenon DEF Stop, WorkerTypeOK, Idle
  <2>3. \A r \in 1 .. runs : Tracked(r) => Tracked(r)'
    BY <2>1, <2>2, Zenon DEF Tracked
  <2> QED BY <2>1, <2>2, <2>3, Zenon DEF RunsOK
<1>12. ASSUME NEW c \in Caller, StopCancels(c) PROVE RunsOK'
  <2>1. /\ call[c].pc = "stop" /\ cancelledRuns' = cancelledRuns \union {call[c].run}
        /\ UNCHANGED <<worker, runs, scope, live>>
    BY <1>12, Zenon DEF StopCancels
  <2>2. /\ \A d \in Caller \ {c} : call'[d] = call[d]
        /\ call'[c].pc = "wait"
    BY <1>12, Zenon DEF StopCancels, WorkerTypeOK, Call
  <2>3. \A r \in 1 .. runs : Tracked(r) => Tracked(r)'
    BY <2>1, <2>2, Zenon DEF Tracked
  <2> QED BY <2>1, <2>2, <2>3, Zenon DEF RunsOK
<1>13. ASSUME NEW c \in Caller, StopReturns(c) PROVE RunsOK'
  BY <1>13, IdleCall, RunsFrame, Zenon DEF StopReturns, RunsOK
<1>14. ASSUME NEW g \in live, TasksEnd(g) PROVE RunsOK'
  BY <1>0, <1>14, Zenon DEF TasksEnd
<1>15. CASE UNCHANGED vars
  BY <1>0, <1>15, Zenon DEF vars
<1> QED BY Zenon, <1>1, <1>2, <1>4, <1>5, <1>6, <1>7, <1>8, <1>9, <1>10, <1>11, <1>12,
           <1>13, <1>14, <1>15 DEF Next, AddSourceLive, AddSinkLive

(***************************************************************************)
(* Nothing escapes Stop: whatever calls of the worker overlap and whatever *)
(* spawns fail half way, goroutines whose context is not cancelled belong  *)
(* to the run that the next Stop cancels, or that a Stop is about to       *)
(* cancel.                                                                 *)
(***************************************************************************)
THEOREM NothingEscapesStop == Spec => []NoOrphan
<1> DEFINE Inv == WorkerTypeOK /\ RunsOK
<1>1. Init => Inv
  BY WorkerInit, Zenon
<1>2. Inv /\ [Next]_vars => Inv'
  BY TypesNext, RunsNext, Zenon
<1>3. Inv => NoOrphan
  <2> SUFFICES ASSUME Inv, NEW g \in live
               PROVE  \/ Cancelled(g)
                      \/ running /\ stopFunc = scope[g].run
                      \/ \E c \in Caller : call[c].pc = "stop" /\ call[c].run = scope[g].run
    BY Zenon DEF NoOrphan
  <2>1. Tracked(scope[g].run)
    BY Zenon DEF RunsOK
  <2> QED BY <2>1, Zenon DEF Tracked, Cancelled
<1> QED BY <1>1, <1>2, <1>3, PTL DEF Spec

=============================================================================
