------------------------------ MODULE Requests ------------------------------
(***************************************************************************)
(* The request handlers of the server (broker/internal/server/server.go)   *)
(* with authorization by scope (broker/internal/auth) and the token        *)
(* buckets of the quotas (quota.go).  Each connection handles one request  *)
(* at a time; the connections interleave between the calls a handler       *)
(* makes.  One topic of one partition, one group, one subject whose        *)
(* connections share its buckets; every record value is one byte.  The     *)
(* broker below the handlers is the state they read and change, over a     *)
(* file store; in a cluster, leadership may move between any two calls.    *)
(* Topics, Cluster and Groups model what the calls do inside, Server how   *)
(* connections come and go.                                                *)
(***************************************************************************)
EXTENDS Integers, SequencesExt

CONSTANTS
    Conn,
    Scopes,         \* [Conn -> set of scopes of the connection's principal]
    Ops,            \* the opcodes tried, a subset of Handlers
    Clustered, Grouped, \* values of: is there a cluster, a group manager?
    BatchSize,      \* records in a ProduceBatchRequest
    Rate, Capacity, \* of the two buckets
    Ticks,          \* clock ticks per second
    MaxClock, MaxRequest, MaxMove

Topic == <<"o", "r", "d">>
Everything == [verb |-> "produce", pattern |-> <<>>, wildcard |-> TRUE]

VARIABLES
    clustered, grouped,
    exists,         \* is the topic registered?
    epoch,          \* times it was deleted
    log,            \* its records: <<connection, request, index>>
    leads, moves,   \* does this node lead?
    voters, members, committed,
    bucket,         \* tokenBucket: tokens and last
    clock,
    produced,       \* records ever appended
    conn            \* the connections' handlers

broker == <<clustered, grouped, exists, epoch, log, leads, voters, members, committed, produced>>
vars == <<broker, moves, bucket, clock, conn>>

Ready == [pc |-> "ready", op |-> "none", request |-> 0, next |-> 1, base |-> 0,
          epoch |-> 0, status |-> "none"]

Init ==
    /\ clustered \in Clustered
    /\ grouped \in Grouped
    /\ exists \in BOOLEAN
    /\ epoch = 0
    /\ log = <<>>
    /\ leads \in IF clustered THEN BOOLEAN ELSE {TRUE}
    /\ moves = 0
    /\ voters = {}
    /\ members = {}
    /\ committed = FALSE
    /\ bucket = [k \in {"produce", "fetch"} |-> [tokens |-> Capacity, last |-> 0]]
    /\ clock = 0
    /\ produced = 0
    /\ conn = [c \in Conn |-> Ready]

-----------------------------------------------------------------------------
(***************************************************************************)
(* Scope.Matches and ScopeAuthorizer.Authorize.  A resource and a pattern  *)
(* are sequences of characters.                                            *)
(***************************************************************************)
Matches(s, action, resource) ==
    /\ s.verb = action
    /\ IF s.wildcard THEN IsPrefix(s.pattern, resource) ELSE resource = s.pattern

authorize(c, action, resource) == \E s \in Scopes[c] : Matches(s, action, resource)

(***************************************************************************)
(* What each handler asks authorization for, if anything, and whether it   *)
(* asks before it decodes the request.                                     *)
(***************************************************************************)
Gate(op) ==
    CASE op \in {"Produce", "ProduceBatch"} -> [action |-> "produce", resource |-> Topic]
      [] op = "Fetch" -> [action |-> "consume", resource |-> Topic]
      [] op \in {"CreateTopic", "UpdateTopicConfig", "DeleteTopic"} ->
            [action |-> "admin", resource |-> Topic]
      [] op \in {"AddVoter", "RemoveVoter"} -> [action |-> "admin", resource |-> <<>>]
      [] OTHER -> [action |-> "none", resource |-> <<>>]

Handlers == {"Produce", "ProduceBatch", "Fetch", "CreateTopic", "UpdateTopicConfig",
    "DeleteTopic", "AddVoter", "RemoveVoter", "Commit", "JoinGroup", "LeaveGroup",
    "DeleteGroup", "Heartbeat", "Metadata", "HighWater", "Sync", "ListSegments",
    "DescribeGroup", "ListGroupOffsets", "ClusterMembers"}

Admission(c, op, wellFormed) ==
    LET gate == Gate(op)
        allowed == gate.action = "none" \/ authorize(c, gate.action, gate.resource)
    IN CASE op \in {"AddVoter", "RemoveVoter"} /\ ~allowed -> "forbidden"
         [] ~wellFormed -> "invalidRequest"
         [] ~allowed -> "forbidden"
         [] OTHER -> "ok"

(***************************************************************************)
(* dispatch: a request arrives, well formed or not, and its handler        *)
(* answers or goes on.                                                     *)
(***************************************************************************)
Answered(h, status) == [h EXCEPT !.pc = "ready", !.status = status]

dispatch(c, op, wellFormed) ==
    LET verdict == Admission(c, op, wellFormed)
        h == [Ready EXCEPT !.op = op, !.request = conn[c].request + 1, !.epoch = epoch]
    IN /\ conn[c].pc = "ready"
       /\ conn[c].request < MaxRequest
       /\ conn' = [conn EXCEPT ![c] =
              IF verdict # "ok" THEN Answered(h, verdict)
              ELSE [h EXCEPT !.pc = IF op \in {"Produce", "ProduceBatch"} THEN "quota"
                                    ELSE "call"]]
       /\ UNCHANGED <<broker, moves, bucket, clock>>

(***************************************************************************)
(* tokenBucket.take: the bucket is refilled for the time since the last    *)
(* call, rounded down to whole tokens, and that call is the last one       *)
(* whether or not it gets its tokens.                                      *)
(***************************************************************************)
Refilled(b) ==
    LET tokens == b.tokens + ((clock - b.last) * Rate) \div Ticks IN
    IF tokens < Capacity THEN tokens ELSE Capacity

take(b, n) ==
    IF n <= 0 THEN [ok |-> TRUE, b |-> b]
    ELSE IF Refilled(b) < n THEN [ok |-> FALSE, b |-> [tokens |-> Refilled(b), last |-> clock]]
    ELSE [ok |-> TRUE, b |-> [tokens |-> Refilled(b) - n, last |-> clock]]

Count(c) == IF conn[c].op = "Produce" THEN 1 ELSE BatchSize

(***************************************************************************)
(* The limiter of handleProduce and handleProduceBatch: a request pays for *)
(* all its records before the first is published.                          *)
(* Mutation: a batch pays for one record.                                  *)
(***************************************************************************)
ChargeOne(c) == 1

Charge(c) == Count(c)

Limit(c) ==
    LET t == take(bucket["produce"], Charge(c)) IN
    /\ conn[c].pc = "quota"
    /\ bucket' = [bucket EXCEPT !["produce"] = t.b]
    /\ conn' = [conn EXCEPT ![c] = IF t.ok THEN [@ EXCEPT !.pc = "call"]
                                   ELSE Answered(@, "rateLimited")]
    /\ UNCHANGED <<broker, moves, clock>>

Calls(c, op) == conn[c].pc = "call" /\ conn[c].op = op

Respond(c, status) == conn' = [conn EXCEPT ![c] = Answered(@, status)]

(***************************************************************************)
(* What comes of a call that changes the broker.  In a cluster the leader  *)
(* hands it to Raft, which may fail: the call is then answered with an     *)
(* internal error, whether or not its entry is applied after all           *)
(* (Cluster.Apply).                                                        *)
(***************************************************************************)
Outcomes == IF clustered /\ leads THEN {"applied", "lost", "late"} ELSE {"applied"}

Status(o) == IF o = "applied" THEN "ok" ELSE "internal"

-----------------------------------------------------------------------------
(***************************************************************************)
(* handleProduce, and handleProduceBatch, which publishes its records one  *)
(* by one: the first failure is the answer and leaves those before it in   *)
(* the log.  The failures are those of Broker.Publish: an unknown topic, a *)
(* follower, Raft.                                                         *)
(* Mutation: the loop goes on after a record that fails.                   *)
(***************************************************************************)
Refusal == CASE ~exists -> "unknownTopic" [] exists /\ ~leads -> "notLeader" [] OTHER -> "ok"

Published(c, o) == IF Refusal # "ok" THEN Refusal ELSE Status(o)

GoOn(h, n) == IF h.next = n THEN Answered(h, "ok") ELSE [h EXCEPT !.next = @ + 1]

PublishOr(c, o, Fails(_)) ==
    LET h == conn[c]
        first == IF h.next = 1 THEN [h EXCEPT !.base = Len(log)] ELSE h
    IN /\ h.pc = "call"
       /\ h.op \in {"Produce", "ProduceBatch"}
       /\ IF Refusal = "ok" /\ o # "lost"
          THEN log' = Append(log, <<c, h.request, h.next>>) /\ produced' = produced + 1
          ELSE UNCHANGED <<log, produced>>
       /\ conn' = [conn EXCEPT ![c] =
              IF Published(c, o) = "ok" THEN GoOn(first, Count(c)) ELSE Fails(h)]
       /\ UNCHANGED <<clustered, grouped, exists, epoch, leads, voters, members, committed,
                      moves, bucket, clock>>

PublishSkips(c, o) == PublishOr(c, o, LAMBDA h : GoOn(h, Count(c)))

Publish(c, o) == PublishOr(c, o, LAMBDA h : Answered(h, Published(c, o)))

(***************************************************************************)
(* handleFetch charges what it read, after reading it.                     *)
(***************************************************************************)
handleFetch(c) ==
    LET t == take(bucket["fetch"], Len(log)) IN
    /\ Calls(c, "Fetch")
    /\ IF ~exists THEN Respond(c, "unknownTopic") /\ UNCHANGED bucket
       ELSE /\ bucket' = [bucket EXCEPT !["fetch"] = t.b]
            /\ Respond(c, IF t.ok THEN "ok" ELSE "rateLimited")
    /\ UNCHANGED <<broker, moves, clock>>

(***************************************************************************)
(* handleCreateTopic, handleDeleteTopic: creating what exists and deleting *)
(* what does not are errors of a broker on its own, and nothing in a       *)
(* cluster.                                                                *)
(***************************************************************************)
handleCreateTopic(c, o) ==
    LET status == CASE ~leads -> "notLeader" [] ~clustered /\ exists -> "topicExists"
                    [] OTHER -> Status(o)
    IN /\ Calls(c, "CreateTopic")
       /\ exists' = (exists \/ (leads /\ o # "lost"))
       /\ Respond(c, status)
       /\ UNCHANGED <<clustered, grouped, epoch, log, leads, voters, members, committed,
                      produced, moves, bucket, clock>>

handleDeleteTopic(c, o) ==
    LET status == CASE ~leads -> "notLeader" [] ~clustered /\ ~exists -> "unknownTopic"
                    [] OTHER -> Status(o)
    IN /\ Calls(c, "DeleteTopic")
       /\ IF leads /\ exists /\ o # "lost"
          THEN exists' = FALSE /\ epoch' = epoch + 1 /\ log' = <<>>
          ELSE UNCHANGED <<exists, epoch, log>>
       /\ Respond(c, status)
       /\ UNCHANGED <<clustered, grouped, leads, voters, members, committed, produced, moves,
                      bucket, clock>>

(***************************************************************************)
(* handleAddVoter and handleRemoveVoter.                                   *)
(***************************************************************************)
handleVoter(c, o) ==
    LET status == CASE ~clustered -> "invalidRequest" [] clustered /\ ~leads -> "notLeader"
                    [] OTHER -> Status(o)
    IN /\ conn[c].pc = "call"
       /\ conn[c].op \in {"AddVoter", "RemoveVoter"}
       /\ voters' = CASE ~(clustered /\ leads) \/ o = "lost" -> voters
                      [] conn[c].op = "AddVoter" -> voters \cup {"v"}
                      [] OTHER -> voters \ {"v"}
       /\ Respond(c, status)
       /\ UNCHANGED <<clustered, grouped, exists, epoch, log, leads, members, committed,
                      produced, moves, bucket, clock>>

(***************************************************************************)
(* handleCommit, handleJoinGroup, handleLeaveGroup and handleDeleteGroup,  *)
(* each with its own answer when the server has no group manager.  A join  *)
(* that cannot assign the topic's partitions fails and leaves the member   *)
(* in the group; a member that returns may be answered without assigning.  *)
(***************************************************************************)
GroupCall(c, op, status, joined, kept) ==
    /\ Calls(c, op)
    /\ Respond(c, status)
    /\ members' = IF grouped THEN joined ELSE members
    /\ committed' = (IF grouped THEN kept ELSE committed)
    /\ UNCHANGED <<clustered, grouped, exists, epoch, log, leads, voters, produced, moves,
                   bucket, clock>>

handleCommit(c) == GroupCall(c, "Commit", "ok", members, TRUE)

handleJoinGroup(c, assigns) ==
    /\ c \in members \/ assigns
    /\ GroupCall(c, "JoinGroup",
                 CASE ~grouped -> "invalidRequest"
                   [] grouped /\ ~exists /\ assigns -> "unknownTopic" [] OTHER -> "ok",
                 members \cup {c}, committed)

handleLeaveGroup(c) == GroupCall(c, "LeaveGroup", "ok", members \ {c}, committed)

handleDeleteGroup(c) ==
    GroupCall(c, "DeleteGroup",
              IF ~grouped \/ (members = {} /\ ~committed) THEN "unknownMember" ELSE "ok",
              {}, FALSE)

(***************************************************************************)
(* The handlers that change nothing here: their answers.                   *)
(***************************************************************************)
Look(c, o) ==
    LET op == conn[c].op
        status ==
            CASE op \in {"Metadata", "HighWater", "ListSegments", "Sync"} ->
                    IF exists THEN "ok" ELSE "unknownTopic"
              [] op = "UpdateTopicConfig" ->
                    CASE ~leads -> "notLeader" [] leads /\ ~exists -> "unknownTopic"
                      [] OTHER -> Status(o)
              [] op = "DescribeGroup" -> IF grouped /\ members # {} THEN "ok" ELSE "unknownMember"
              [] op = "Heartbeat" ->
                    CASE ~grouped -> "invalidRequest"
                      [] grouped /\ c \notin members -> "unknownMember" [] OTHER -> "ok"
              [] OTHER -> "ok"
    IN /\ conn[c].pc = "call"
       /\ op \in {"Metadata", "HighWater", "ListSegments", "Sync", "UpdateTopicConfig",
                  "DescribeGroup", "Heartbeat", "ListGroupOffsets", "ClusterMembers"}
       /\ o = "applied" \/ op = "UpdateTopicConfig"
       /\ Respond(c, status)
       /\ UNCHANGED <<broker, moves, bucket, clock>>

-----------------------------------------------------------------------------
Tick ==
    /\ clock < MaxClock
    /\ clock' = clock + 1
    /\ UNCHANGED <<broker, moves, bucket, conn>>

LeaderMoves ==
    /\ clustered
    /\ moves < MaxMove
    /\ leads' = ~leads
    /\ moves' = moves + 1
    /\ UNCHANGED <<clustered, grouped, exists, epoch, log, voters, members, committed, produced,
                   bucket, clock, conn>>

Next ==
    \/ \E c \in Conn :
           \/ \E op \in Ops, wellFormed \in BOOLEAN : dispatch(c, op, wellFormed)
           \/ Limit(c) \/ handleFetch(c) \/ handleCommit(c) \/ handleLeaveGroup(c)
           \/ handleDeleteGroup(c)
           \/ \E assigns \in BOOLEAN : handleJoinGroup(c, assigns)
           \/ \E o \in Outcomes : \/ Publish(c, o) \/ handleCreateTopic(c, o)
                                  \/ handleDeleteTopic(c, o) \/ handleVoter(c, o) \/ Look(c, o)
    \/ Tick
    \/ LeaderMoves

Spec == Init /\ [][Next]_vars

-----------------------------------------------------------------------------
Indices(c) ==
    LET own == SelectSeq(log, LAMBDA r : r[1] = c /\ r[2] = conn[c].request) IN
    [i \in DOMAIN own |-> own[i][3]]

(***************************************************************************)
(* However the batches of several connections mix with each other, with    *)
(* quota refusals and with leadership moving, a batch leaves in the log a  *)
(* prefix of its records in order, all of them if it is acknowledged, and  *)
(* its base offset is the first one's (handleProduceBatch).                *)
(***************************************************************************)
BatchLeavesAPrefix ==
    \A c \in Conn :
        LET h == conn[c] IN
        h.op \in {"Produce", "ProduceBatch"} /\ h.epoch = epoch =>
            /\ \A i \in DOMAIN Indices(c) : Indices(c)[i] = i
            /\ h.pc = "ready" /\ h.status = "ok" =>
                   /\ Len(Indices(c)) = Count(c)
                   /\ log[h.base + 1] = <<c, h.request, 1>>

(***************************************************************************)
(* The quota holds across connections and batches: never more is appended  *)
(* than a full bucket and what its rate yields since (quota.go take).      *)
(***************************************************************************)
QuotaIsKept == produced <= Capacity + (clock * Rate) \div Ticks

(***************************************************************************)
(* Not kept: the records of a batch have contiguous offsets                *)
(* (sdk/transport.go:21-22; sdk/batcher.go:152 and sdk/producer.go:494     *)
(* hand out base + i).  Each is published on its own, and another          *)
(* connection's may come between.                                          *)
(***************************************************************************)
BatchIsContiguous ==
    \A c \in Conn :
        LET h == conn[c] IN
        h.op = "ProduceBatch" /\ h.pc = "ready" /\ h.status = "ok" /\ h.epoch = epoch =>
            \A i \in 1 .. BatchSize : log[h.base + i] = <<c, h.request, i>>

(***************************************************************************)
(* Not kept: a refused take does not modify the bucket (quota.go:41-42).   *)
(* It restarts the clock and keeps only whole tokens, so a client that     *)
(* retries faster than one token comes back never gets one.                *)
(***************************************************************************)
RefusedTakeIsHarmless ==
    [][\A c \in Conn :
           conn[c].pc = "quota" /\ conn'[c].status = "rateLimited" => bucket' = bucket]_vars

=============================================================================
