------------------------------- MODULE Server -------------------------------
(***************************************************************************)
(* The life of a listening broker: embed.Listen and embed.Close            *)
(* (broker/embed/embed.go), the accept loop, the goroutine that serves     *)
(* each connection and Close of the server                                 *)
(* (broker/internal/server/server.go), and the retention loop that uses    *)
(* the same store.  What requests do is in Requests; here a request is     *)
(* short, a long-poll fetch or a long-poll heartbeat.                      *)
(***************************************************************************)
EXTENDS Naturals, FiniteSets

CONSTANTS
    Conn,           \* connections clients may open
    ListenRaces,    \* may Close be called before Listen has returned?
    MaxRequest      \* requests per connection

VARIABLES
    brokerClosed,   \* Broker.closed
    listening,      \* embed.Listen: "no", "reserved" (b.srv set), "yes"
    listener,       \* "none", "open", "closed"
    accept, accepted, \* acceptLoop and the connection it holds
    conn, open, peer, \* the connections: handler, our end, the client's end
    asked,          \* requests read, per connection
    late,           \* connections whose fetch deadline has passed
    naps,           \* fetches gone back to sleep after the context ended
    registered,     \* Server.conns
    closing, ctxDone,
    snapshot,       \* the connections Close of the server has to close
    closer,         \* embed.Close
    retention,      \* runRetention
    storeClosed

server == <<listening, listener, accept, accepted, registered>>
handlers == <<conn, open, peer, asked, late, naps>>
ending == <<brokerClosed, closing, ctxDone, snapshot, closer, retention, storeClosed>>
serverVars == <<server, handlers, ending>>

Nobody == "nobody"

ServerInit ==
    /\ brokerClosed = FALSE
    /\ listening = "no"
    /\ listener = "none"
    /\ accept = "off"
    /\ accepted = Nobody
    /\ conn = [c \in Conn |-> "away"]
    /\ open = [c \in Conn |-> FALSE]
    /\ peer = [c \in Conn |-> FALSE]
    /\ asked = [c \in Conn |-> 0]
    /\ late = {}
    /\ naps = {}
    /\ registered = {}
    /\ closing = FALSE
    /\ ctxDone = FALSE
    /\ snapshot = {}
    /\ closer = "idle"
    /\ retention \in {"off", "idle"}
    /\ storeClosed = FALSE

-----------------------------------------------------------------------------
(***************************************************************************)
(* embed.Listen reserves b.srv under the broker's lock and binds after     *)
(* releasing it.                                                           *)
(***************************************************************************)
Reserve ==
    /\ listening = "no"
    /\ ~brokerClosed
    /\ listening' = "reserved"
    /\ UNCHANGED <<listener, accept, accepted, registered, handlers, ending>>

Listen ==
    /\ listening = "reserved"
    /\ listening' = "yes"
    /\ listener' = "open"
    /\ accept' = "accepting"
    /\ UNCHANGED <<accepted, registered, handlers, ending>>

ListenFails ==
    /\ listening = "reserved"
    /\ listening' = "no"
    /\ UNCHANGED <<listener, accept, accepted, registered, handlers, ending>>

(***************************************************************************)
(* External: clients connect, and go away whenever they like.              *)
(***************************************************************************)
Connect(c) ==
    /\ conn[c] = "away"
    /\ listener = "open"
    /\ conn' = [conn EXCEPT ![c] = "dialled"]
    /\ peer' = [peer EXCEPT ![c] = TRUE]
    /\ UNCHANGED <<server, open, asked, late, naps, ending>>

Disconnect(c) ==
    /\ peer[c]
    /\ peer' = [peer EXCEPT ![c] = FALSE]
    /\ UNCHANGED <<server, conn, open, asked, late, naps, ending>>

(***************************************************************************)
(* acceptLoop: accept, register under the lock unless closing, and start   *)
(* the connection's goroutine, which the wait group counts.                *)
(***************************************************************************)
Accept(c) ==
    /\ accept = "accepting"
    /\ listener = "open"
    /\ conn[c] = "dialled"
    /\ accept' = "accepted"
    /\ accepted' = c
    /\ open' = [open EXCEPT ![c] = TRUE]
    /\ UNCHANGED <<listening, listener, registered, conn, peer, asked, late, naps, ending>>

AcceptFails ==
    /\ accept = "accepting"
    /\ listener = "closed"
    /\ accept' = "returned"
    /\ UNCHANGED <<listening, listener, accepted, registered, handlers, ending>>

(***************************************************************************)
(* Mutation: the loop does not look at closing again.                      *)
(***************************************************************************)
RegisterUnchecked ==
    /\ accept = "accepted"
    /\ registered' = registered \cup {accepted}
    /\ accept' = "registered"
    /\ UNCHANGED <<listening, listener, accepted, handlers, ending>>

Register ==
    \/ ~closing /\ RegisterUnchecked
    \/ /\ accept = "accepted"
       /\ closing
       /\ open' = [open EXCEPT ![accepted] = FALSE]
       /\ conn' = [conn EXCEPT ![accepted] = "ended"]
       /\ accept' = "returned"
       /\ UNCHANGED <<listening, listener, accepted, registered, peer, asked, late, naps,
                      ending>>

Spawn ==
    /\ accept = "registered"
    /\ conn' = [conn EXCEPT ![accepted] = "handshake"]
    /\ accept' = "accepting"
    /\ UNCHANGED <<listening, listener, accepted, registered, open, peer, asked, late, naps,
                   ending>>

-----------------------------------------------------------------------------
(***************************************************************************)
(* serveConn.  End is what its deferred calls do.                          *)
(***************************************************************************)
End(c) ==
    /\ conn' = [conn EXCEPT ![c] = "ended"]
    /\ open' = [open EXCEPT ![c] = FALSE]
    /\ registered' = registered \ {c}

Alive(c) == open[c] /\ peer[c]

(***************************************************************************)
(* The client's first frame is accepted, refused or never comes whole.     *)
(***************************************************************************)
handshake(c) ==
    /\ conn[c] = "handshake"
    /\ Alive(c)
    /\ \/ /\ conn' = [conn EXCEPT ![c] = "reading"]
          /\ UNCHANGED <<open, registered>>
       \/ End(c)
    /\ UNCHANGED <<listening, listener, accept, accepted, peer, asked, late, naps, ending>>

ReadFrame(c) ==
    /\ conn[c] = "reading"
    /\ Alive(c)
    /\ asked[c] < MaxRequest
    /\ \E kind \in {"short", "fetch", "heartbeat"} : conn' = [conn EXCEPT ![c] = kind]
    /\ asked' = [asked EXCEPT ![c] = @ + 1]
    /\ late' = late \ {c}
    /\ UNCHANGED <<server, open, peer, naps, ending>>

ReadFails(c) ==
    /\ conn[c] \in {"handshake", "reading"}
    /\ ~Alive(c)
    /\ End(c)
    /\ UNCHANGED <<listening, listener, accept, accepted, peer, asked, late, naps, ending>>

(***************************************************************************)
(* dispatch returns and the answer is flushed, or cannot be.               *)
(***************************************************************************)
Answered(c) ==
    IF open[c] THEN conn' = [conn EXCEPT ![c] = "reading"] /\ UNCHANGED <<open, registered>>
    ELSE End(c)

Handled(c) ==
    /\ conn[c] = "short"
    /\ Answered(c)
    /\ UNCHANGED <<listening, listener, accept, accepted, peer, asked, late, naps, ending>>

(***************************************************************************)
(* handleFetch: it answers when a poll finds records (ready) or the        *)
(* deadline has passed, and sleeps between polls.  It does not look at the *)
(* server's context.  MaxWaitMs is the client's; it is never capped.       *)
(***************************************************************************)
handleFetch(c, ready) ==
    /\ conn[c] = "fetch"
    /\ ready \/ c \in late
    /\ Answered(c)
    /\ UNCHANGED <<listening, listener, accept, accepted, peer, asked, late, naps, ending>>

FetchSleeps(c) ==
    /\ conn[c] = "fetch"
    /\ c \notin late
    /\ ctxDone /\ c \notin naps
    /\ naps' = naps \cup {c}
    /\ UNCHANGED <<server, conn, open, peer, asked, late, ending>>

DeadlinePasses(c) ==
    /\ conn[c] = "fetch"
    /\ c \notin late
    /\ late' = late \cup {c}
    /\ UNCHANGED <<server, conn, open, peer, asked, naps, ending>>

(***************************************************************************)
(* handleHeartbeat: HeartbeatWait ends with a rebalance, the capped wait   *)
(* or the server's context.                                                *)
(***************************************************************************)
handleHeartbeat(c) ==
    /\ conn[c] = "heartbeat"
    /\ Answered(c)
    /\ UNCHANGED <<listening, listener, accept, accepted, peer, asked, late, naps, ending>>

-----------------------------------------------------------------------------
(***************************************************************************)
(* runRetention: a tick works on the store.                                *)
(***************************************************************************)
RetentionTick ==
    /\ retention = "idle"
    /\ retention' = "working"
    /\ UNCHANGED <<server, handlers, brokerClosed, closing, ctxDone, snapshot, closer, storeClosed>>

RetentionDone ==
    /\ retention \in {"working", "cancelled"}
    /\ retention' = IF retention = "working" THEN "idle" ELSE "off"
    /\ UNCHANGED <<server, handlers, brokerClosed, closing, ctxDone, snapshot, closer, storeClosed>>

(***************************************************************************)
(* embed.Close: stop the retention loop and wait for it, close the server  *)
(* and wait for its goroutines, then the store.                            *)
(***************************************************************************)
Close ==
    /\ ~brokerClosed
    /\ ListenRaces \/ listening # "reserved"
    /\ brokerClosed' = TRUE
    /\ retention' = IF retention = "off" THEN "off" ELSE "cancelled"
    /\ closer' = "retention"
    /\ UNCHANGED <<server, handlers, closing, ctxDone, snapshot, storeClosed>>

(***************************************************************************)
(* Server.Close: mark it closing and take the connections, under the lock. *)
(***************************************************************************)
CloseServer ==
    /\ closer = "retention"
    /\ retention = "off"
    /\ IF listening = "no"
       THEN closer' = "store" /\ UNCHANGED <<closing, snapshot>>
       ELSE closer' = "cancel" /\ closing' = TRUE /\ snapshot' = registered
    /\ UNCHANGED <<server, handlers, brokerClosed, ctxDone, retention, storeClosed>>

CloseConnections ==
    /\ closer = "cancel"
    /\ ctxDone' = TRUE
    /\ listener' = IF listener = "open" THEN "closed" ELSE listener
    /\ open' = [c \in Conn |-> open[c] /\ c \notin snapshot]
    /\ closer' = "wait"
    /\ UNCHANGED <<listening, accept, accepted, registered, conn, peer, asked, late, naps,
                   brokerClosed, closing, snapshot, retention, storeClosed>>

(***************************************************************************)
(* s.wg.Wait: the accept loop and every connection's goroutine.            *)
(* Mutation: Close does not wait for the connections' goroutines.          *)
(***************************************************************************)
Running == {c \in Conn : conn[c] \in {"handshake", "reading", "short", "fetch", "heartbeat"}}

WaitForAccept ==
    /\ closer = "wait"
    /\ accept \in {"off", "returned"}
    /\ closer' = "store"
    /\ UNCHANGED <<server, handlers, brokerClosed, closing, ctxDone, snapshot, retention,
                   storeClosed>>

Wait == Running = {} /\ WaitForAccept

CloseStore ==
    /\ closer = "store"
    /\ storeClosed' = TRUE
    /\ closer' = "returned"
    /\ UNCHANGED <<server, handlers, brokerClosed, closing, ctxDone, snapshot, retention>>

-----------------------------------------------------------------------------
Acceptor == (\E c \in Conn : Accept(c)) \/ AcceptFails \/ Register \/ Spawn

serveConn(c) == ReadFails(c) \/ Handled(c) \/ handleHeartbeat(c) \/ handleFetch(c, FALSE)

Closer == CloseServer \/ CloseConnections \/ Wait \/ CloseStore

ServerNext ==
    \/ Reserve \/ Listen \/ ListenFails \/ Acceptor \/ RetentionTick \/ RetentionDone
    \/ Close \/ Closer
    \/ \E c \in Conn :
           \/ Connect(c) \/ Disconnect(c) \/ handshake(c) \/ ReadFrame(c) \/ serveConn(c)
           \/ handleFetch(c, TRUE) \/ FetchSleeps(c) \/ DeadlinePasses(c)

ServerSpec == ServerInit /\ [][ServerNext]_serverVars

(***************************************************************************)
(* Every goroutine runs on, and time passes.  Clients owe nothing.         *)
(***************************************************************************)
ServerFairness ==
    /\ WF_serverVars(Listen \/ ListenFails)
    /\ WF_serverVars(Acceptor)
    /\ WF_serverVars(Closer)
    /\ WF_serverVars(RetentionDone)
    /\ \A c \in Conn : WF_serverVars(serveConn(c)) /\ WF_serverVars(DeadlinePasses(c))

ServerFairSpec == ServerSpec /\ ServerFairness

-----------------------------------------------------------------------------
(***************************************************************************)
(* The store is closed only when nothing uses it any more: no handler is   *)
(* in a request and no retention pass is at work (embed.go:560-601).       *)
(***************************************************************************)
StoreOutlivesItsUsers ==
    storeClosed =>
        /\ \A c \in Conn : conn[c] \notin {"short", "fetch", "heartbeat"}
        /\ retention \notin {"working", "cancelled"}

(***************************************************************************)
(* Close returns, whatever the clients do: connections accepted while it   *)
(* runs are not left serving a client that says nothing                    *)
(* (server.go:280-287).                                                    *)
(***************************************************************************)
CloseReturns == brokerClosed ~> closer = "returned"

(***************************************************************************)
(* Not kept: long-poll handlers unblock as soon as the server's context is *)
(* cancelled (server.go:60-62, 293-296).  A fetch sleeps on to its         *)
(* deadline.                                                               *)
(***************************************************************************)
LongPollsUnblock == naps = {}

=============================================================================
