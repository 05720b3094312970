----------------------------- MODULE Transport ------------------------------
(***************************************************************************)
(* The network transport (sdk/net/transport.go): calls that share one      *)
(* connection for unary requests, and one for heartbeats, both dialled     *)
(* when first needed, dropped on errors and redirected to the leader.      *)
(*                                                                         *)
(* A connection carries requests to its node and answers back, in order.   *)
(* The node applies what reaches it if it leads; the connection may break  *)
(* between any two of these steps.  A connection that redirectTo, dropRPC  *)
(* or heartbeatCall takes out of its slot is closed right after the        *)
(* transport's lock is released; what another caller does on it in between *)
(* it could have done just before, so both are one step here.              *)
(***************************************************************************)
EXTENDS Integers, Sequences

CONSTANTS
    Goroutine,      \* those that call through do
    Heart,          \* those that call through heartbeatCall
    Node,           \* the brokers' addresses
    Tries,          \* attempts of do, 4 in the code
    MaxConn, MaxElection, MaxBreak

None == 0
NoAddress == ""     \* a node that knows no leader
Everyone == Goroutine \cup Heart

\* No goroutine is called "nobody", the holder of a mutex that is free.
ASSUME CallersAreNamed == "nobody" \notin Everyone

Slot(c) == IF c \in Goroutine THEN "rpc" ELSE "hb"

VARIABLES
    addr, transportClosed,  \* Transport.addr and closed
    shared,         \* Transport.rpc and hb: a connection's number or None
    conns,          \* every connection dialled
    calls,          \* the goroutines
    leader,
    applied,        \* [Caller -> Nat]: times a caller's request was applied
    elections, breaks

transportVars ==
    <<addr, transportClosed, shared, conns, calls, leader, applied, elections, breaks>>

NotCalled == [pc |-> "idle", attempt |-> 0, conn |-> None, answer |-> <<>>]

TransportInit ==
    /\ addr \in Node
    /\ transportClosed = FALSE
    /\ shared = [rpc |-> None, hb |-> None]
    /\ conns = <<>>
    /\ calls = [c \in Everyone |-> NotCalled]
    /\ leader \in Node
    /\ applied = [c \in Everyone |-> 0]
    /\ elections = 0
    /\ breaks = 0

(***************************************************************************)
(* close: the requests already on the connection may still reach the node. *)
(***************************************************************************)
Closed(cs, n) == IF n = None THEN cs ELSE [cs EXCEPT ![n].open = FALSE]

Returned(c, answer) ==
    calls' = [calls EXCEPT ![c].pc = "returned", ![c].answer = answer]

Failure == <<"error">>

-----------------------------------------------------------------------------
(***************************************************************************)
(* The checks at the top of do and heartbeatCall, and the shared           *)
(* connection when there is one.                                           *)
(***************************************************************************)
BeginCall(c) ==
    /\ calls[c].pc = "idle"
    /\ IF transportClosed THEN Returned(c, Failure)
       ELSE calls' = [calls EXCEPT ![c].pc = "conn"]
    /\ UNCHANGED <<addr, transportClosed, shared, conns, leader, applied, elections, breaks>>

rpcConn(c) ==
    /\ calls[c].pc = "conn"
    /\ shared[Slot(c)] # None
    /\ calls' = [calls EXCEPT ![c].pc = "call", ![c].conn = shared[Slot(c)]]
    /\ UNCHANGED <<addr, transportClosed, shared, conns, leader, applied, elections, breaks>>

(***************************************************************************)
(* dialAndHandshake, outside the lock, at the address of that moment.      *)
(***************************************************************************)
dialAndHandshake(c) ==
    /\ calls[c].pc = "conn"
    /\ shared[Slot(c)] = None
    /\ Len(conns) < MaxConn
    /\ conns' = Append(conns, [node |-> addr, open |-> TRUE, holder |-> "nobody",
                               requests |-> <<>>, answers |-> <<>>])
    /\ calls' = [calls EXCEPT ![c].pc = "dialled", ![c].conn = Len(conns) + 1]
    /\ UNCHANGED <<addr, transportClosed, shared, leader, applied, elections, breaks>>

DialFails(c) ==
    /\ calls[c].pc = "conn"
    /\ shared[Slot(c)] = None
    /\ Returned(c, Failure)
    /\ UNCHANGED <<addr, transportClosed, shared, conns, leader, applied, elections, breaks>>

(***************************************************************************)
(* Back under the lock: a transport closed meanwhile keeps nothing, and    *)
(* the loser of a race of dials uses the winner's connection.              *)
(* Mutation: the second look at closed is left out.                        *)
(***************************************************************************)
KeepUnchecked(c) ==
    /\ calls[c].pc = "dialled"
    /\ LET won == shared[Slot(c)] = None
           n == IF won THEN calls[c].conn ELSE shared[Slot(c)]
       IN /\ shared' = [shared EXCEPT ![Slot(c)] = n]
          /\ conns' = IF won THEN conns ELSE Closed(conns, calls[c].conn)
          /\ calls' = [calls EXCEPT ![c].pc = "call", ![c].conn = n]
    /\ UNCHANGED <<addr, transportClosed, leader, applied, elections, breaks>>

KeepOrClose(c) ==
    \/ ~transportClosed /\ KeepUnchecked(c)
    \/ /\ calls[c].pc = "dialled"
       /\ transportClosed
       /\ conns' = Closed(conns, calls[c].conn)
       /\ Returned(c, Failure)
       /\ UNCHANGED <<addr, transportClosed, shared, leader, applied, elections, breaks>>

-----------------------------------------------------------------------------
(***************************************************************************)
(* call: with the connection's mutex held, a request is written and the    *)
(* next answer read.                                                       *)
(* Mutation: the mutex covers the write alone.                             *)
(***************************************************************************)
Written(c, holder) ==
    LET n == calls[c].conn IN
    /\ calls[c].pc = "call"
    /\ conns[n].holder = "nobody"
    /\ IF conns[n].open
       THEN /\ conns' = [conns EXCEPT ![n].holder = holder,
                                      ![n].requests = Append(@, c)]
            /\ calls' = [calls EXCEPT ![c].pc = "reading"]
       ELSE /\ calls' = [calls EXCEPT ![c].pc = "failed"]
            /\ UNCHANGED conns
    /\ UNCHANGED <<addr, transportClosed, shared, leader, applied, elections, breaks>>

WriteUnlocks(c) == Written(c, "nobody")
WriteRequest(c) == Written(c, c)

(***************************************************************************)
(* The answer decides: a value is returned; NotLeader with an address      *)
(* redirects and counts as an attempt; in heartbeatCall, and without an    *)
(* address, the refusal is returned.                                       *)
(***************************************************************************)
ReadAnswer(c) ==
    LET n == calls[c].conn
        answer == Head(conns[n].answers)
        read == [conns EXCEPT ![n].holder = "nobody", ![n].answers = Tail(@)]
        redirected == c \in Goroutine /\ answer[2] = "notLeader" /\ answer[3] # NoAddress
    IN /\ calls[c].pc = "reading"
       /\ conns[n].open
       /\ conns[n].answers # <<>>
       /\ IF redirected
          THEN /\ addr' = answer[3]
               /\ shared' = [shared EXCEPT !.rpc = None]
               /\ conns' = Closed(read, shared.rpc)
               /\ IF calls[c].attempt + 1 < Tries
                  THEN calls' = [calls EXCEPT ![c].pc = "conn", ![c].attempt = @ + 1]
                  ELSE Returned(c, Failure)
          ELSE /\ conns' = read
               /\ Returned(c, answer)
               /\ UNCHANGED <<addr, shared>>
       /\ UNCHANGED <<transportClosed, leader, applied, elections, breaks>>

ReadFails(c) ==
    LET n == calls[c].conn IN
    /\ calls[c].pc = "reading"
    /\ ~conns[n].open
    /\ conns' = [conns EXCEPT ![n].holder = "nobody"]
    /\ calls' = [calls EXCEPT ![c].pc = "failed"]
    /\ UNCHANGED <<addr, transportClosed, shared, leader, applied, elections, breaks>>

(***************************************************************************)
(* After a transport error: do drops whatever connection is shared by now  *)
(* and tries again; heartbeatCall drops its own and gives up.              *)
(***************************************************************************)
dropRPC(c) ==
    /\ calls[c].pc = "failed"
    /\ c \in Goroutine
    /\ shared' = [shared EXCEPT !.rpc = None]
    /\ conns' = Closed(conns, shared.rpc)
    /\ IF calls[c].attempt + 1 < Tries
       THEN calls' = [calls EXCEPT ![c].pc = "conn", ![c].attempt = @ + 1]
       ELSE Returned(c, Failure)
    /\ UNCHANGED <<addr, transportClosed, leader, applied, elections, breaks>>

dropHeartbeat(c) ==
    /\ calls[c].pc = "failed"
    /\ c \in Heart
    /\ shared' = [shared EXCEPT !.hb = IF @ = calls[c].conn THEN None ELSE @]
    /\ conns' = Closed(conns, calls[c].conn)
    /\ Returned(c, Failure)
    /\ UNCHANGED <<addr, transportClosed, leader, applied, elections, breaks>>

(***************************************************************************)
(* The watcher of heartbeatCall: the call's context ends, by its deadline  *)
(* or its consumer's Close, while it waits for the mutex or an answer.     *)
(***************************************************************************)
HeartbeatCancelled(c) ==
    LET n == calls[c].conn IN
    /\ c \in Heart
    /\ calls[c].pc \in {"call", "reading"}
    /\ conns[n].open
    /\ shared' = [shared EXCEPT !.hb = IF @ = n THEN None ELSE @]
    /\ conns' = Closed(conns, n)
    /\ UNCHANGED <<addr, transportClosed, calls, leader, applied, elections, breaks>>

CloseTransport ==
    /\ ~transportClosed
    /\ transportClosed' = TRUE
    /\ shared' = [rpc |-> None, hb |-> None]
    /\ conns' = Closed(Closed(conns, shared.rpc), shared.hb)
    /\ UNCHANGED <<addr, calls, leader, applied, elections, breaks>>

-----------------------------------------------------------------------------
(***************************************************************************)
(* External: the brokers and the network.  A request reaches its node even *)
(* when the client has closed the connection behind it, or is lost with    *)
(* it.  A node that does not lead names the leader if it knows one.        *)
(***************************************************************************)
NodeServes(n) ==
    LET c == Head(conns[n].requests)
        leads == conns[n].node = leader
    IN /\ conns[n].requests # <<>>
       /\ \E answer \in IF leads THEN {<<c, "ok", "">>}
                        ELSE {<<c, "notLeader", leader>>, <<c, "notLeader", NoAddress>>} :
              conns' = [conns EXCEPT ![n].requests = Tail(@), ![n].answers = Append(@, answer)]
       /\ applied' = [applied EXCEPT ![c] = IF leads THEN @ + 1 ELSE @]
       /\ UNCHANGED <<addr, transportClosed, shared, calls, leader, elections, breaks>>

Break(n) ==
    /\ breaks < MaxBreak
    /\ conns[n].open
    /\ \E lost \in BOOLEAN :
           conns' = [conns EXCEPT ![n].open = FALSE,
                                  ![n].requests = IF lost THEN <<>> ELSE @]
    /\ breaks' = breaks + 1
    /\ UNCHANGED <<addr, transportClosed, shared, calls, leader, applied, elections>>

Election ==
    /\ elections < MaxElection
    /\ \E n \in Node \ {leader} : leader' = n
    /\ elections' = elections + 1
    /\ UNCHANGED <<addr, transportClosed, shared, conns, calls, applied, breaks>>

TransportNext ==
    \/ \E c \in Everyone :
           \/ BeginCall(c) \/ rpcConn(c) \/ dialAndHandshake(c) \/ DialFails(c)
           \/ KeepOrClose(c) \/ WriteRequest(c) \/ ReadAnswer(c) \/ ReadFails(c)
           \/ dropRPC(c) \/ dropHeartbeat(c) \/ HeartbeatCancelled(c)
    \/ CloseTransport
    \/ \E n \in DOMAIN conns : NodeServes(n) \/ Break(n)
    \/ Election

TransportSpec == TransportInit /\ [][TransportNext]_transportVars

-----------------------------------------------------------------------------
(***************************************************************************)
(* An answer goes to the call it answers, whichever calls share the        *)
(* connection and however often it was dropped and dialled again: nothing  *)
(* in a response but its opcode tells whose it is, so this rests on the    *)
(* mutex of connection.call (transport.go:875-885).                        *)
(***************************************************************************)
AnswersMatchCalls ==
    \A c \in Everyone :
        calls[c].pc = "returned" /\ calls[c].answer # Failure => calls[c].answer[1] = c

(***************************************************************************)
(* Once the transport is closed and its calls have returned, every         *)
(* connection ever dialled is closed, those whose dial was under way when  *)
(* Close ran included (transport.go:782-786, 610-614).                     *)
(***************************************************************************)
ClosedLeavesNothing ==
    transportClosed /\ (\A c \in Everyone : calls[c].pc \in {"idle", "returned"}) =>
        /\ shared = [rpc |-> None, hb |-> None]
        /\ \A n \in DOMAIN conns : ~conns[n].open

(***************************************************************************)
(* Not kept: a transport error is retried once (transport.go:749).  There  *)
(* are four attempts, and each may have been applied before its connection *)
(* broke.                                                                  *)
(***************************************************************************)
RetriedOnce == \A c \in Goroutine : applied[c] <= 2

(***************************************************************************)
(* Not kept: a call closes only the connection it failed on.  dropRPC      *)
(* takes the one shared by now, under another caller's request.            *)
(***************************************************************************)
DropsItsOwn ==
    [][\A c \in Goroutine :
           calls[c].pc = "failed" /\ calls'[c].pc # "failed" =>
               \A n \in DOMAIN conns \ {calls[c].conn} :
                   conns'[n].open = conns[n].open]_transportVars

=============================================================================
