----------------------------- MODULE NodeProofs -----------------------------
(***************************************************************************)
(* Theorems about one broker process: the records its topics hold through  *)
(* deletes and restarts (Topics), and the goroutines of a listening broker *)
(* around its store (Server), for any number of topics, records, callers   *)
(* and connections.                                                        *)
(***************************************************************************)
EXTENDS Topics, Server, TLAPS

-----------------------------------------------------------------------------
(***************************************************************************)
(* Topics: a call in progress is the only one on its topic, the handle a   *)
(* topic has in the map is open and has what the directory has, and the    *)
(* store holds the records of the creation in the registry unless a delete *)
(* is under way.                                                           *)
(***************************************************************************)
CallState == [pc : {"idle", "forget", "remove", "open", "append"},
              topic : Topic \union {""}, creation : Nat, handle : Nat]

HandleState == [recs : Seq(Nat), linked : BOOLEAN, closed : BOOLEAN]

TopicsTypeOK ==
    /\ kind \in {"file", "memory"}
    /\ registry \in [Topic -> Nat] /\ file \in [Topic -> Nat]
    /\ created \in Nat
    /\ logs \in [Topic -> Nat]
    /\ handle \in Seq(HandleState)
    /\ disk \in [Topic -> Seq(Nat)]
    /\ acked \in [Topic -> SUBSET (Nat \X Nat)]
    /\ topicCall \in [TopicCaller -> CallState]
    /\ \A c \in TopicCaller : topicCall[c].pc # "idle" => topicCall[c].topic \in Topic

On(c, t) == topicCall[c].pc # "idle" /\ topicCall[c].topic = t

Deleting(t) ==
    \E c \in TopicCaller : topicCall[c].pc \in {"forget", "remove"} /\ topicCall[c].topic = t

Acked(t) == {o \in Nat : <<registry[t], o>> \in acked[t]}

CallsOK ==
    /\ \A c, d \in TopicCaller : topicCall[c].pc # "idle" /\ On(d, topicCall[c].topic) => c = d
    /\ \A c \in TopicCaller :
        LET t == topicCall[c].topic IN
        /\ topicCall[c].pc = "remove" => logs[t] = 0 /\ kind = "file"
        /\ topicCall[c].pc \in {"open", "append"} => topicCall[c].creation = registry[t] /\ registry[t] # 0
        /\ topicCall[c].pc = "append" => topicCall[c].handle = logs[t] /\ logs[t] # 0

HandlesOK ==
    /\ kind = "memory" => \A t \in Topic : disk[t] = <<>>
    /\ \A t \in Topic : logs[t] # 0 =>
        /\ logs[t] \in DOMAIN handle
        /\ ~handle[logs[t]].closed
        /\ handle[logs[t]].linked <=> kind = "file"
        /\ kind = "file" => handle[logs[t]].recs = disk[t]
    /\ \A t, u \in Topic : logs[t] # 0 /\ logs[t] = logs[u] => t = u

RecordsOf(t) ==
    /\ registry[t] <= created
    /\ \A r \in acked[t] : r[1] <= created /\ r[1] # 0
    /\ Deleting(t) => Acked(t) = {}
    /\ ~Deleting(t) =>
        /\ \A i \in DOMAIN Readable(t) : Readable(t)[i] = registry[t]
        /\ Len(Readable(t)) <= MaxRecord
        /\ Acked(t) = 1 .. Len(Readable(t))
        /\ registry[t] = 0 => Readable(t) = <<>>

Undisturbed == ~raced /\ ~unsaved

StoresAgree ==
    /\ TopicsTypeOK
    /\ registry = file
    /\ CallsOK
    /\ HandlesOK
    /\ \A t \in Topic : RecordsOf(t)

TopicsInv == Undisturbed => StoresAgree

LEMMA NoCallType == NoCall \in CallState /\ NoCall.pc = "idle"
  BY Zenon DEF NoCall, CallState

LEMMA TopicsInvInit == TopicsInit => TopicsInv
<1> SUFFICES ASSUME TopicsInit
             PROVE  StoresAgree
  BY Zenon DEF TopicsInv
<1>1. NoCall \in CallState /\ NoCall.pc = "idle"
  BY NoCallType, Zenon
<1>2. TopicsTypeOK
  BY <1>1, TopicsAssumption DEF TopicsInit, TopicsTypeOK
<1>3. CallsOK /\ HandlesOK
  BY <1>1, Zenon DEF TopicsInit, CallsOK, HandlesOK, On
<1>4. ASSUME NEW t \in Topic
      PROVE  RecordsOf(t)
  <2>1. registry[t] = 0 /\ acked[t] = {} /\ Readable(t) = <<>> /\ created = 0 /\ ~Deleting(t)
    BY <1>1, Zenon DEF TopicsInit, Readable, Deleting
  <2>2. Acked(t) = {} /\ Len(Readable(t)) = 0 /\ DOMAIN Readable(t) = {}
    BY <2>1 DEF Acked
  <2> QED
    BY <2>1, <2>2, TopicsAssumption DEF RecordsOf
<1> QED
  BY <1>2, <1>3, <1>4, Zenon DEF StoresAgree, TopicsInit

(***************************************************************************)
(* One call changes: the others are as they were, and so are the deletes   *)
(* of topics that this call is not about.                                  *)
(***************************************************************************)
LEMMA CallMoves ==
    ASSUME TopicsTypeOK, NEW c \in TopicCaller, NEW w \in CallState,
           topicCall' = [topicCall EXCEPT ![c] = w],
           w.pc # "idle" => w.topic \in Topic
    PROVE  /\ topicCall' \in [TopicCaller -> CallState]
           /\ topicCall'[c] = w
           /\ \A d \in TopicCaller : d # c => topicCall'[d] = topicCall[d]
           /\ \A d \in TopicCaller : topicCall'[d].pc # "idle" => topicCall'[d].topic \in Topic
           /\ \A u \in Topic : ~On(c, u) /\ ~(w.pc # "idle" /\ w.topic = u) =>
                (Deleting(u)' <=> Deleting(u))
<1>1. topicCall \in [TopicCaller -> CallState]
  BY Zenon DEF TopicsTypeOK
<1>2. /\ topicCall' \in [TopicCaller -> CallState] /\ topicCall'[c] = w
      /\ \A d \in TopicCaller : d # c => topicCall'[d] = topicCall[d]
  BY <1>1, Zenon
<1>3. \A d \in TopicCaller : topicCall'[d].pc # "idle" => topicCall'[d].topic \in Topic
  BY <1>2, Zenon DEF TopicsTypeOK
<1>4. ASSUME NEW u \in Topic, ~On(c, u), ~(w.pc # "idle" /\ w.topic = u)
      PROVE  Deleting(u)' <=> Deleting(u)
  <2>1. \A d \in TopicCaller :
            (topicCall'[d].pc \in {"forget", "remove"} /\ topicCall'[d].topic = u)
                <=> (topicCall[d].pc \in {"forget", "remove"} /\ topicCall[d].topic = u)
    BY <1>2, <1>4, Zenon DEF On
  <2> QED
    BY <2>1, Zenon DEF Deleting
<1> QED
  BY <1>2, <1>3, <1>4, Zenon

(***************************************************************************)
(* A topic whose registration, records and deletes stay as they were.      *)
(***************************************************************************)
LEMMA RecordsFrame ==
    ASSUME NEW t, RecordsOf(t), registry'[t] = registry[t], acked'[t] = acked[t],
           created \in Nat, created' \in Nat, created <= created', registry[t] \in Nat,
           acked[t] \subseteq Nat \X Nat,
           Deleting(t)' <=> Deleting(t), Readable(t)' = Readable(t)
    PROVE  RecordsOf(t)'
<1>1. Acked(t)' = Acked(t)
  BY Zenon DEF Acked
<1>2. registry'[t] <= created' /\ \A r \in acked'[t] : r[1] <= created' /\ r[1] # 0
  BY DEF RecordsOf
<1> QED
  BY <1>1, <1>2, Zenon DEF RecordsOf

LEMMA CreateTopicKeeps ==
    ASSUME StoresAgree, Undisturbed', NEW t \in Topic, NEW ok \in BOOLEAN, CreateTopic(t, ok)
    PROVE  StoresAgree'
<1>1. ok /\ file' = registry'
  BY Zenon DEF Undisturbed, CreateTopic, Persist
<1>2. /\ registry[t] = 0 /\ created' = created + 1 /\ registry' = [registry EXCEPT ![t] = created']
      /\ UNCHANGED <<kind, logs, handle, disk, acked, topicCall>>
  BY Zenon DEF CreateTopic, store
<1>3. TopicsTypeOK
  BY Zenon DEF StoresAgree
<1>4. /\ registry' \in [Topic -> Nat] /\ registry'[t] = created + 1 /\ created \in Nat
      /\ \A u \in Topic : u # t => registry'[u] = registry[u]
  BY <1>2, <1>3 DEF TopicsTypeOK
<1>5. TopicsTypeOK'
  BY <1>1, <1>2, <1>3, <1>4 DEF TopicsTypeOK
<1>6. CallsOK'
  <2>1. \A c \in TopicCaller : topicCall[c].pc \in {"open", "append"} =>
            registry'[topicCall[c].topic] = registry[topicCall[c].topic]
    BY <1>2, <1>3, <1>4, Zenon DEF StoresAgree, CallsOK, TopicsTypeOK
  <2> QED
    BY <1>2, <2>1 DEF StoresAgree, CallsOK, On
<1>7. HandlesOK'
  BY <1>2, Zenon DEF StoresAgree, HandlesOK
<1>8. ASSUME NEW u \in Topic
      PROVE  RecordsOf(u)'
  <2>1. /\ RecordsOf(u) /\ registry[u] \in Nat /\ acked[u] \subseteq Nat \X Nat
        /\ Readable(u)' = Readable(u) /\ (Deleting(u)' <=> Deleting(u))
    BY <1>2, <1>3, Zenon DEF StoresAgree, TopicsTypeOK, Readable, Deleting
  <2>2. CASE u # t
    BY <1>2, <1>4, <2>1, <2>2, RecordsFrame
  <2>3. CASE u = t
    <3>1. Acked(t)' = {}
      BY <1>2, <1>4, <2>1, <2>3 DEF Acked, RecordsOf
    <3>2. ~Deleting(t) => Readable(t) = <<>>
      BY <1>2, <2>1, <2>3, Zenon DEF RecordsOf
    <3>3. /\ registry'[t] <= created'
          /\ \A r \in acked'[t] : r[1] <= created' /\ r[1] # 0
      BY <1>2, <1>4, <2>1, <2>3 DEF RecordsOf
    <3>4. Readable(t) = <<>> => Len(Readable(t)) = 0 /\ DOMAIN Readable(t) = {} /\ 1 .. 0 = {}
      OBVIOUS
    <3> QED
      BY <2>1, <2>3, <3>1, <3>2, <3>3, <3>4, TopicsAssumption, Zenon DEF RecordsOf
  <2> QED
    BY <2>2, <2>3, Zenon
<1> QED
  BY <1>1, <1>5, <1>6, <1>7, <1>8, Zenon DEF StoresAgree

LEMMA DeleteTopicKeeps ==
    ASSUME StoresAgree, Undisturbed', NEW c \in TopicCaller, NEW t \in Topic,
           NEW ok \in BOOLEAN, DeleteTopic(c, t, ok)
    PROVE  StoresAgree'
<1>1. ok /\ file' = registry' /\ ~Busy(t)
  BY Zenon DEF Undisturbed, DeleteTopic, Persist
<1>2. PICK w : w = [NoCall EXCEPT !.pc = "forget", !.topic = t]
  BY Zenon
<1>3. w \in CallState /\ w.pc = "forget" /\ w.topic = t
  BY <1>2, Zenon DEF NoCall, CallState
<1>4. /\ topicCall[c].pc = "idle" /\ registry' = [registry EXCEPT ![t] = 0]
      /\ UNCHANGED <<kind, created, logs, handle, disk, acked>>
      /\ topicCall' = [topicCall EXCEPT ![c] = w]
  BY <1>1, <1>2, NoCallType, Zenon DEF DeleteTopic, store
<1>5. TopicsTypeOK
  BY Zenon DEF StoresAgree
<1>6. /\ registry' \in [Topic -> Nat] /\ registry'[t] = 0
      /\ \A u \in Topic : u # t => registry'[u] = registry[u]
  BY <1>4, <1>5, Zenon DEF TopicsTypeOK
<1>7. /\ topicCall' \in [TopicCaller -> CallState] /\ topicCall'[c] = w
      /\ \A d \in TopicCaller : d # c => topicCall'[d] = topicCall[d]
      /\ \A d \in TopicCaller : topicCall'[d].pc # "idle" => topicCall'[d].topic \in Topic
      /\ \A u \in Topic : ~On(c, u) /\ ~(w.pc # "idle" /\ w.topic = u) =>
            (Deleting(u)' <=> Deleting(u))
  BY <1>3, <1>4, <1>5, CallMoves, Zenon
<1>8. TopicsTypeOK'
  BY <1>1, <1>4, <1>5, <1>6, <1>7, Zenon DEF TopicsTypeOK
<1>9. \A d \in TopicCaller : topicCall[d].pc # "idle" => topicCall[d].topic # t
  BY <1>1, Zenon DEF Busy
<1>10. CallsOK'
  <2>1. \A d \in TopicCaller : d # c /\ topicCall'[d].pc # "idle" =>
            topicCall'[d].topic # t /\ registry'[topicCall'[d].topic] = registry[topicCall[d].topic]
    BY <1>5, <1>6, <1>7, <1>9, ZenonT(40) DEF TopicsTypeOK
  <2>2. \A d, e \in TopicCaller : topicCall'[d].pc # "idle" /\ topicCall'[e].pc # "idle"
            /\ topicCall'[e].topic = topicCall'[d].topic => d = e
    BY <1>3, <1>7, <2>1 DEF StoresAgree, CallsOK, On
  <2> QED
    BY <1>3, <1>4, <1>7, <2>1, <2>2 DEF StoresAgree, CallsOK, On
<1>11. HandlesOK'
  BY <1>4, Zenon DEF StoresAgree, HandlesOK
<1>12. ASSUME NEW u \in Topic
       PROVE  RecordsOf(u)'
  <2>1. /\ RecordsOf(u) /\ registry[u] \in Nat /\ acked[u] \subseteq Nat \X Nat /\ created \in Nat
        /\ Readable(u)' = Readable(u)
    BY <1>4, <1>5, Zenon DEF StoresAgree, TopicsTypeOK, Readable
  <2>2. CASE u # t
    <3>1. Deleting(u)' <=> Deleting(u)
      BY <1>3, <1>4, <1>7, <2>2, Zenon DEF On
    <3> QED
      BY <1>4, <1>6, <2>1, <2>2, <3>1, RecordsFrame
  <2>3. CASE u = t
    <3>1. Deleting(t)'
      BY <1>3, <1>7, Zenon DEF Deleting
    <3>2. Acked(t)' = {}
      BY <1>4, <1>6, <2>1, <2>3, Zenon DEF Acked, RecordsOf
    <3> QED
      BY <1>4, <1>6, <2>1, <2>3, <3>1, <3>2 DEF RecordsOf
  <2> QED
    BY <2>2, <2>3, Zenon
<1> QED
  BY <1>1, <1>8, <1>10, <1>11, <1>12, Zenon DEF StoresAgree

LEMMA ForgetLogKeeps ==
    ASSUME StoresAgree, NEW c \in TopicCaller, ForgetLog(c),
           UNCHANGED <<registry, file, created, acked, disk, kind>>
    PROVE  StoresAgree'
<1>1. PICK t : t = topicCall[c].topic
  BY Zenon
<1>2. PICK w : w = IF kind = "file" THEN [topicCall[c] EXCEPT !.pc = "remove"] ELSE NoCall
  BY Zenon
<1>3. /\ topicCall[c].pc = "forget" /\ logs' = [logs EXCEPT ![t] = 0]
      /\ handle' = [h \in DOMAIN handle |-> IF h = logs[t] /\ kind = "file"
                        THEN [handle[h] EXCEPT !.closed = TRUE] ELSE handle[h]]
      /\ topicCall' = [topicCall EXCEPT ![c] = w]
  BY <1>1, <1>2, Zenon DEF ForgetLog
<1>4. /\ TopicsTypeOK /\ CallsOK /\ HandlesOK /\ t \in Topic /\ topicCall[c] \in CallState
      /\ kind \in {"file", "memory"} /\ logs \in [Topic -> Nat] /\ On(c, t)
  BY <1>1, <1>3, Zenon DEF StoresAgree, TopicsTypeOK, On
<1>5. /\ w \in CallState
      /\ kind = "file" => w.pc = "remove" /\ w.topic = t
      /\ kind = "memory" => w.pc = "idle"
  BY <1>1, <1>2, <1>4, NoCallType, Zenon DEF CallState
<1>6. /\ topicCall' \in [TopicCaller -> CallState] /\ topicCall'[c] = w
      /\ \A d \in TopicCaller : d # c => topicCall'[d] = topicCall[d]
      /\ \A d \in TopicCaller : topicCall'[d].pc # "idle" => topicCall'[d].topic \in Topic
      /\ \A u \in Topic : ~On(c, u) /\ ~(w.pc # "idle" /\ w.topic = u) =>
            (Deleting(u)' <=> Deleting(u))
  BY <1>3, <1>4, <1>5, CallMoves, Zenon
<1>7. /\ logs' \in [Topic -> Nat] /\ logs'[t] = 0
      /\ \A u \in Topic : u # t => logs'[u] = logs[u]
  BY <1>3, <1>4, Zenon
<1>8. /\ handle' \in Seq(HandleState) /\ DOMAIN handle' = DOMAIN handle
      /\ \A h \in DOMAIN handle : h # logs[t] => handle'[h] = handle[h]
  <2>1. handle \in Seq(HandleState)
    BY <1>4, Zenon DEF TopicsTypeOK
  <2>2. ASSUME NEW h \in DOMAIN handle
        PROVE  [handle[h] EXCEPT !.closed = TRUE] \in HandleState
    <3>1. handle[h] \in HandleState
      BY <2>1
    <3> QED
      BY <3>1, Zenon DEF HandleState
  <2> QED
    BY <1>3, <2>1, <2>2
<1>9. \A d \in TopicCaller : d # c /\ topicCall[d].pc # "idle" => topicCall[d].topic \in Topic \ {t}
  BY <1>3, <1>4, Zenon DEF CallsOK, On, TopicsTypeOK
<1>10. TopicsTypeOK'
  BY <1>4, <1>6, <1>7, <1>8, Zenon DEF TopicsTypeOK
<1>11. CallsOK'
  <2>1. \A d, e \in TopicCaller : topicCall'[d].pc # "idle" /\ topicCall'[e].pc # "idle"
            /\ topicCall'[e].topic = topicCall'[d].topic => d = e
    BY <1>4, <1>5, <1>6, <1>9 DEF CallsOK, On
  <2> QED
    BY <1>4, <1>5, <1>6, <1>7, <1>9, <2>1 DEF CallsOK, On
<1>12. HandlesOK' /\ \A u \in Topic : u # t => Readable(u)' = Readable(u)
  <2>1. \A u \in Topic : logs'[u] # 0 => /\ logs'[u] = logs[u] /\ u # t
                                         /\ handle'[logs[u]] = handle[logs[u]]
    BY <1>4, <1>7, <1>8, Zenon DEF HandlesOK
  <2>2. \A u \in Topic : u # t => Readable(u)' = Readable(u)
    BY <1>7, <2>1, Zenon DEF Readable
  <2> QED
    BY <1>4, <1>8, <2>1, <2>2 DEF HandlesOK
<1>13. ASSUME NEW u \in Topic
       PROVE  RecordsOf(u)'
  <2>1. RecordsOf(u) /\ registry[u] \in Nat /\ acked[u] \subseteq Nat \X Nat /\ created \in Nat
    BY <1>4, Zenon DEF StoresAgree, TopicsTypeOK
  <2>2. CASE u # t
    <3>1. Deleting(u)' <=> Deleting(u)
      BY <1>1, <1>4, <1>5, <1>6, <2>2, Zenon DEF On
    <3> QED
      BY <1>12, <2>1, <2>2, <3>1, RecordsFrame
  <2>3. CASE u = t
    <3>1. Acked(u)' = {} /\ Acked(u) = {}
      BY <1>1, <1>3, <2>1, <2>3, Zenon DEF RecordsOf, Deleting, Acked
    <3>2. ~Deleting(u)' => Readable(u)' = <<>>
      BY <1>4, <1>5, <1>6, <1>7, <2>3, Zenon DEF Deleting, Readable, HandlesOK
    <3>3. Readable(u)' = <<>> => Len(Readable(u)') = 0 /\ DOMAIN Readable(u)' = {} /\ 1 .. 0 = {}
      OBVIOUS
    <3> QED
      BY <2>1, <3>1, <3>2, <3>3, TopicsAssumption DEF RecordsOf
  <2> QED
    BY <2>2, <2>3, Zenon
<1> QED
  BY <1>10, <1>11, <1>12, <1>13, Zenon DEF StoresAgree

LEMMA RemoveAllKeeps ==
    ASSUME StoresAgree, NEW c \in TopicCaller, RemoveAll(c),
           UNCHANGED <<registry, file, created, acked, logs, kind>>
    PROVE  StoresAgree'
<1>1. PICK t : t = topicCall[c].topic
  BY Zenon
<1>2. /\ topicCall[c].pc = "remove" /\ disk' = [disk EXCEPT ![t] = <<>>]
      /\ handle' = [h \in DOMAIN handle |-> IF h = logs[t]
                        THEN [handle[h] EXCEPT !.linked = FALSE] ELSE handle[h]]
      /\ topicCall' = [topicCall EXCEPT ![c] = NoCall]
  BY <1>1, Zenon DEF RemoveAll
<1>3. /\ TopicsTypeOK /\ CallsOK /\ HandlesOK /\ t \in Topic /\ logs[t] = 0 /\ On(c, t)
      /\ kind = "file" /\ handle \in Seq(HandleState) /\ disk \in [Topic -> Seq(Nat)]
  BY <1>1, <1>2, Zenon DEF StoresAgree, TopicsTypeOK, CallsOK, On
<1>4. handle' = handle
  BY <1>2, <1>3
<1>5. /\ disk' \in [Topic -> Seq(Nat)] /\ disk'[t] = <<>>
      /\ \A u \in Topic : u # t => disk'[u] = disk[u]
  BY <1>2, <1>3
<1>6. /\ topicCall' \in [TopicCaller -> CallState] /\ topicCall'[c].pc = "idle"
      /\ \A d \in TopicCaller : d # c => topicCall'[d] = topicCall[d]
      /\ \A d \in TopicCaller : topicCall'[d].pc # "idle" => topicCall'[d].topic \in Topic
      /\ \A u \in Topic : ~On(c, u) => (Deleting(u)' <=> Deleting(u))
  BY <1>2, <1>3, NoCallType, CallMoves, Zenon
<1>7. TopicsTypeOK'
  BY <1>3, <1>4, <1>5, <1>6, Zenon DEF TopicsTypeOK
<1>8. CallsOK'
  <2>1. \A d \in TopicCaller : topicCall'[d].pc # "idle" => topicCall'[d] = topicCall[d]
    BY <1>6, Zenon
  <2>2. (\A d, e \in TopicCaller : topicCall[d].pc # "idle" /\ On(e, topicCall[d].topic) => d = e)'
    BY <1>3, <2>1 DEF CallsOK, On
  <2> QED
    BY <1>3, <2>1, <2>2, Zenon DEF CallsOK
<1>9. HandlesOK' /\ \A u \in Topic : u # t => Readable(u)' = Readable(u)
  BY <1>3, <1>4, <1>5, Zenon DEF HandlesOK, Readable
<1>10. ASSUME NEW u \in Topic
       PROVE  RecordsOf(u)'
  <2>1. RecordsOf(u) /\ registry[u] \in Nat /\ acked[u] \subseteq Nat \X Nat /\ created \in Nat
    BY <1>3, Zenon DEF StoresAgree, TopicsTypeOK
  <2>2. CASE u # t
    <3>1. Deleting(u)' <=> Deleting(u)
      BY <1>1, <1>6, <2>2, Zenon DEF On
    <3> QED
      BY <1>9, <2>1, <2>2, <3>1, RecordsFrame
  <2>3. CASE u = t
    <3>1. Acked(u)' = {} /\ Acked(u) = {}
      BY <1>1, <1>2, <2>1, <2>3, Zenon DEF RecordsOf, Deleting, Acked
    <3>2. Readable(u)' = <<>>
      BY <1>3, <1>5, <2>3, Zenon DEF Readable
    <3>3. Len(Readable(u)') = 0 /\ DOMAIN Readable(u)' = {} /\ 1 .. 0 = {}
      BY <3>2
    <3> QED
      BY <2>1, <3>1, <3>2, <3>3, TopicsAssumption DEF RecordsOf
  <2> QED
    BY <2>2, <2>3, Zenon
<1> QED
  BY <1>7, <1>8, <1>9, <1>10, Zenon DEF StoresAgree

LEMMA PublishKeeps ==
    ASSUME StoresAgree, Undisturbed', NEW c \in TopicCaller, NEW t \in Topic, Publish(c, t)
    PROVE  StoresAgree'
<1>1. ~Busy(t)
  BY Zenon DEF Undisturbed, Publish
<1>2. PICK w : w = [NoCall EXCEPT !.pc = "open", !.topic = t, !.creation = registry[t]]
  BY Zenon
<1>3. /\ registry[t] # 0 /\ UNCHANGED <<registry, file, kind, created, logs, handle, disk, acked>>
      /\ topicCall' = [topicCall EXCEPT ![c] = w] /\ topicCall[c].pc = "idle"
  BY <1>2, NoCallType, Zenon DEF Publish, store
<1>4. TopicsTypeOK /\ CallsOK /\ registry[t] \in Nat
  BY Zenon DEF StoresAgree, TopicsTypeOK
<1>5. w \in CallState /\ w.pc = "open" /\ w.topic = t /\ w.creation = registry[t]
  BY <1>2, <1>4, Zenon DEF NoCall, CallState
<1>6. /\ topicCall' \in [TopicCaller -> CallState] /\ topicCall'[c] = w
      /\ \A d \in TopicCaller : d # c => topicCall'[d] = topicCall[d]
      /\ \A d \in TopicCaller : topicCall'[d].pc # "idle" => topicCall'[d].topic \in Topic
  BY <1>3, <1>4, <1>5, CallMoves, Zenon
<1>7. TopicsTypeOK'
  BY <1>3, <1>4, <1>6, Zenon DEF TopicsTypeOK
<1>8. CallsOK'
  <2>1. (\A d, e \in TopicCaller : topicCall[d].pc # "idle" /\ On(e, topicCall[d].topic) => d = e)'
    BY <1>1, <1>4, <1>5, <1>6 DEF CallsOK, On, Busy
  <2> QED
    BY <1>3, <1>4, <1>5, <1>6, <2>1, Zenon DEF CallsOK
<1>9. HandlesOK'
  BY <1>3, Zenon DEF StoresAgree, HandlesOK
<1>10. ASSUME NEW u \in Topic
       PROVE  RecordsOf(u)'
  <2>1. /\ RecordsOf(u) /\ registry[u] \in Nat /\ acked[u] \subseteq Nat \X Nat /\ created \in Nat
        /\ Readable(u)' = Readable(u)
    BY <1>3, <1>4, Zenon DEF StoresAgree, TopicsTypeOK, Readable
  <2>2. Deleting(u)' <=> Deleting(u)
    BY <1>3, <1>5, <1>6, Zenon DEF Deleting
  <2> QED
    BY <1>3, <2>1, <2>2, RecordsFrame
<1> QED
  BY <1>3, <1>7, <1>8, <1>9, <1>10, Zenon DEF StoresAgree

LEMMA OpenLogKeeps ==
    ASSUME StoresAgree, NEW c \in TopicCaller, openLog(c)
    PROVE  StoresAgree'
<1>1. PICK t : t = topicCall[c].topic
  BY Zenon
<1>2. PICK w : w = [topicCall[c] EXCEPT !.pc = "append", !.handle = logs'[t]]
  BY Zenon
<1>3. /\ topicCall[c].pc = "open" /\ topicCall' = [topicCall EXCEPT ![c] = w]
      /\ UNCHANGED <<registry, file, kind, created, disk, acked>>
      /\ \/ logs[t] # 0 /\ logs' = logs /\ handle' = handle
         \/ /\ logs[t] = 0
            /\ handle' = Append(handle, [recs |-> disk[t], linked |-> kind = "file", closed |-> FALSE])
            /\ logs' = [logs EXCEPT ![t] = Len(handle')]
  BY <1>1, <1>2, Zenon DEF openLog
<1>4. /\ TopicsTypeOK /\ CallsOK /\ HandlesOK /\ t \in Topic /\ On(c, t)
      /\ topicCall[c] \in CallState /\ handle \in Seq(HandleState) /\ disk \in [Topic -> Seq(Nat)]
      /\ logs \in [Topic -> Nat]
  BY <1>1, <1>3, Zenon DEF StoresAgree, TopicsTypeOK, On
<1>5. /\ logs' \in [Topic -> Nat] /\ handle' \in Seq(HandleState) /\ logs'[t] # 0
      /\ \A u \in Topic : u # t => logs'[u] = logs[u]
      /\ \A h \in DOMAIN handle : h \in DOMAIN handle' /\ handle'[h] = handle[h]
      /\ \/ logs'[t] = logs[t]
         \/ /\ logs[t] = 0 /\ logs'[t] \in DOMAIN handle' /\ logs'[t] \notin DOMAIN handle
            /\ handle'[logs'[t]].recs = disk[t] /\ ~handle'[logs'[t]].closed
            /\ (handle'[logs'[t]].linked <=> kind = "file")
  <2>1. CASE logs[t] # 0 /\ logs' = logs /\ handle' = handle
    BY <1>4, <2>1, Zenon
  <2>2. CASE /\ logs[t] = 0
             /\ handle' = Append(handle, [recs |-> disk[t], linked |-> kind = "file", closed |-> FALSE])
             /\ logs' = [logs EXCEPT ![t] = Len(handle')]
    <3>1. PICK h : h = [recs |-> disk[t], linked |-> kind = "file", closed |-> FALSE]
      BY Zenon
    <3>2. h \in HandleState /\ h.recs = disk[t] /\ ~h.closed /\ (h.linked <=> kind = "file")
      BY <1>4, <3>1, Zenon DEF HandleState
    <3>3. /\ handle' \in Seq(HandleState) /\ Len(handle') = Len(handle) + 1
          /\ Len(handle) \in Nat /\ DOMAIN handle = 1 .. Len(handle)
          /\ DOMAIN handle' = 1 .. Len(handle) + 1 /\ handle'[Len(handle) + 1] = h
          /\ \A g \in DOMAIN handle : handle'[g] = handle[g]
      BY <1>4, <2>2, <3>1, <3>2
    <3>4. /\ logs' \in [Topic -> Nat] /\ logs'[t] = Len(handle) + 1
          /\ \A u \in Topic : u # t => logs'[u] = logs[u]
      BY <1>4, <2>2, <3>3
    <3> QED
      BY <2>2, <3>2, <3>3, <3>4
  <2> QED
    BY <1>3, <2>1, <2>2, Zenon
<1>6. w \in CallState /\ w.pc = "append" /\ w.topic = t /\ w.creation = topicCall[c].creation
      /\ w.handle = logs'[t]
  BY <1>1, <1>2, <1>4, <1>5, Zenon DEF CallState
<1>7. /\ topicCall' \in [TopicCaller -> CallState] /\ topicCall'[c] = w
      /\ \A d \in TopicCaller : d # c => topicCall'[d] = topicCall[d]
      /\ \A d \in TopicCaller : topicCall'[d].pc # "idle" => topicCall'[d].topic \in Topic
  BY <1>3, <1>4, <1>6, CallMoves, Zenon
<1>8. TopicsTypeOK'
  BY <1>3, <1>4, <1>5, <1>7, Zenon DEF TopicsTypeOK
<1>9. CallsOK'
  <2>1. (\A d, e \in TopicCaller : topicCall[d].pc # "idle" /\ On(e, topicCall[d].topic) => d = e)'
    BY <1>1, <1>3, <1>4, <1>6, <1>7 DEF CallsOK, On
  <2>2. \A d \in TopicCaller : d # c /\ topicCall[d].pc # "idle" => topicCall[d].topic \in Topic \ {t}
    BY <1>4, Zenon DEF CallsOK, On, TopicsTypeOK
  <2>3. /\ topicCall'[c].pc = "append" /\ topicCall'[c].creation = registry'[t]
        /\ registry'[t] # 0 /\ topicCall'[c].handle = logs'[t] /\ topicCall'[c].topic = t
    BY <1>1, <1>3, <1>4, <1>6, <1>7, Zenon DEF CallsOK
  <2>4. \A d \in TopicCaller : d # c /\ topicCall[d].pc # "idle" =>
            /\ topicCall'[d] = topicCall[d]
            /\ logs'[topicCall[d].topic] = logs[topicCall[d].topic]
    BY <1>5, <1>7, <2>2, Zenon
  <2>5. ASSUME NEW d \in TopicCaller, d # c, topicCall'[d].pc # "idle"
        PROVE  LET u == topicCall'[d].topic IN
               /\ topicCall'[d].pc = "remove" => logs'[u] = 0 /\ kind' = "file"
               /\ topicCall'[d].pc \in {"open", "append"} =>
                      topicCall'[d].creation = registry'[u] /\ registry'[u] # 0
               /\ topicCall'[d].pc = "append" => topicCall'[d].handle = logs'[u] /\ logs'[u] # 0
    BY <1>3, <1>4, <1>7, <2>4, <2>5 DEF CallsOK
  <2> QED
    BY <1>5, <2>1, <2>3, <2>5, Zenon DEF CallsOK
<1>10. HandlesOK' /\ \A u \in Topic : Readable(u)' = Readable(u)
  <2>1. \A u \in Topic : u # t /\ logs[u] # 0 => logs[u] \in DOMAIN handle
                                              /\ handle'[logs'[u]] = handle[logs[u]]
    BY <1>4, <1>5, Zenon DEF HandlesOK
  <2>2. \A u \in Topic : Readable(u)' = Readable(u)
    <3> SUFFICES ASSUME NEW u \in Topic
                 PROVE  Readable(u)' = Readable(u)
      BY Zenon
    <3>1. CASE u # t
      BY <1>3, <1>5, <2>1, <3>1, Zenon DEF Readable
    <3>2. CASE u = t
      <4>1. CASE logs[t] # 0
        BY <1>3, <1>4, <1>5, <3>2, <4>1, Zenon DEF HandlesOK, Readable
      <4>2. CASE logs[t] = 0
        BY <1>3, <1>4, <1>5, <3>2, <4>2, Zenon DEF Readable
      <4> QED
        BY <4>1, <4>2, Zenon
    <3> QED
      BY <3>1, <3>2, Zenon
  <2>3. \A u, v \in Topic : logs'[u] # 0 /\ logs'[u] = logs'[v] => u = v
    <3>1. \A u \in Topic : u # t /\ logs[u] # 0 => logs'[u] # logs'[t]
      <4>1. CASE logs'[t] = logs[t]
        BY <1>4, <1>5, <4>1 DEF HandlesOK
      <4>2. CASE logs'[t] \notin DOMAIN handle
        BY <2>1, <1>5, <4>2, Zenon
      <4> QED
        BY <1>5, <4>1, <4>2, Zenon
    <3>2. ASSUME NEW u \in Topic, NEW v \in Topic, logs'[u] # 0, logs'[u] = logs'[v], u # v
          PROVE  FALSE
      <4>1. CASE u = t
        BY <1>5, <3>1, <3>2, <4>1, Zenon
      <4>2. CASE v = t
        BY <1>5, <3>1, <3>2, <4>2, Zenon
      <4>3. CASE u # t /\ v # t
        <5>1. logs[u] # 0 /\ logs[u] = logs[v]
          BY <1>5, <3>2, <4>3
        <5> QED
          BY <1>4, <3>2, <5>1, Zenon DEF HandlesOK
      <4> QED
        BY <4>1, <4>2, <4>3, Zenon
    <3> QED
      BY <3>2, Zenon
  <2>4. ASSUME NEW u \in Topic, logs'[u] # 0
        PROVE  /\ logs'[u] \in DOMAIN handle'
               /\ ~handle'[logs'[u]].closed
               /\ handle'[logs'[u]].linked <=> kind' = "file"
               /\ kind' = "file" => handle'[logs'[u]].recs = disk'[u]
    <3>1. CASE logs'[u] = logs[u]
      <4>1. logs[u] \in DOMAIN handle /\ handle'[logs'[u]] = handle[logs[u]]
            /\ logs'[u] \in DOMAIN handle'
        BY <1>4, <1>5, <2>4, <3>1, Zenon DEF HandlesOK
      <4> QED
        BY <1>3, <1>4, <2>4, <3>1, <4>1, Zenon DEF HandlesOK
    <3>2. CASE logs'[u] # logs[u]
      BY <1>3, <1>5, <3>2, Zenon
    <3> QED
      BY <3>1, <3>2, Zenon
  <2>5. kind' = "memory" => \A u \in Topic : disk'[u] = <<>>
    BY <1>3, <1>4, Zenon DEF HandlesOK
  <2> QED
    BY <2>2, <2>3, <2>4, <2>5, Zenon DEF HandlesOK
<1>11. ASSUME NEW u \in Topic
       PROVE  RecordsOf(u)'
  <2>1. RecordsOf(u) /\ registry[u] \in Nat /\ acked[u] \subseteq Nat \X Nat /\ created \in Nat
    BY <1>4, Zenon DEF StoresAgree, TopicsTypeOK
  <2>2. Deleting(u)' <=> Deleting(u)
    BY <1>3, <1>6, <1>7, Zenon DEF Deleting
  <2> QED
    BY <1>3, <1>10, <2>1, <2>2, RecordsFrame
<1> QED
  BY <1>3, <1>8, <1>9, <1>10, <1>11, Zenon DEF StoresAgree

LEMMA AppendRecordKeeps ==
    ASSUME StoresAgree, NEW c \in TopicCaller, AppendRecord(c)
    PROVE  StoresAgree'
<1>1. PICK t : t = topicCall[c].topic
  BY Zenon
<1>2. PICK h : h = logs[t]
  BY Zenon
<1>3. /\ topicCall[c].pc = "append" /\ topicCall' = [topicCall EXCEPT ![c] = NoCall]
      /\ UNCHANGED <<registry, file, kind, created, logs>>
  BY Zenon DEF AppendRecord
<1>4. /\ TopicsTypeOK /\ CallsOK /\ HandlesOK /\ t \in Topic /\ On(c, t)
      /\ handle \in Seq(HandleState) /\ disk \in [Topic -> Seq(Nat)] /\ logs \in [Topic -> Nat]
      /\ acked \in [Topic -> SUBSET (Nat \X Nat)]
  BY <1>1, <1>3, Zenon DEF StoresAgree, TopicsTypeOK, On
<1>5. /\ topicCall[c].handle = h /\ h # 0 /\ topicCall[c].creation = registry[t] /\ registry[t] # 0
      /\ h \in DOMAIN handle /\ ~handle[h].closed /\ (handle[h].linked <=> kind = "file")
      /\ kind = "file" => handle[h].recs = disk[t]
  BY <1>1, <1>2, <1>3, <1>4, Zenon DEF CallsOK, HandlesOK
<1>6. PICK recs : recs = Append(handle[h].recs, registry[t])
  BY Zenon
<1>7. /\ Len(handle[h].recs) < MaxRecord
      /\ handle' = [handle EXCEPT ![h].recs = recs]
      /\ disk' = IF handle[h].linked THEN [disk EXCEPT ![t] = recs] ELSE disk
      /\ acked' = [acked EXCEPT ![t] = @ \union {<<registry[t], Len(recs)>>}]
  BY <1>1, <1>5, <1>6, Zenon DEF AppendRecord
<1>8. /\ handle[h].recs \in Seq(Nat) /\ registry[t] \in Nat /\ handle[h] \in HandleState
      /\ recs \in Seq(Nat) /\ Len(recs) = Len(handle[h].recs) + 1 /\ Len(handle[h].recs) \in Nat
      /\ \A i \in 1 .. Len(recs) : recs[i] = IF i = Len(recs) THEN registry[t] ELSE handle[h].recs[i]
  <2>1. handle[h].recs \in Seq(Nat) /\ registry[t] \in Nat /\ handle[h] \in HandleState
    <3>1. handle[h] \in HandleState
      BY <1>4, <1>5
    <3> QED
      BY <1>4, <3>1, Zenon DEF HandleState, TopicsTypeOK
  <2>2. \A s \in Seq(Nat), x \in Nat :
            /\ Append(s, x) \in Seq(Nat) /\ Len(Append(s, x)) = Len(s) + 1 /\ Len(s) \in Nat
            /\ \A i \in 1 .. Len(s) + 1 :
                   Append(s, x)[i] = IF i = Len(s) + 1 THEN x ELSE s[i]
    OBVIOUS
  <2> QED
    BY <1>6, <2>1, <2>2
<1>9. PICK g : g = [handle[h] EXCEPT !.recs = recs]
  BY Zenon
<1>10. /\ g \in HandleState /\ g.recs = recs /\ g.linked = handle[h].linked /\ g.closed = handle[h].closed
  BY <1>8, <1>9, Zenon DEF HandleState
<1>11. /\ handle' \in Seq(HandleState) /\ DOMAIN handle' = DOMAIN handle /\ handle'[h] = g
       /\ \A k \in DOMAIN handle : k # h => handle'[k] = handle[k]
  <2>1. handle' = [handle EXCEPT ![h] = g]
    BY <1>7, <1>9, Zenon
  <2> QED
    BY <1>4, <1>5, <1>10, <2>1
<1>12. /\ disk' \in [Topic -> Seq(Nat)]
       /\ kind = "file" => disk'[t] = recs
       /\ kind = "memory" => disk' = disk
       /\ \A u \in Topic : u # t => disk'[u] = disk[u]
  BY <1>4, <1>5, <1>7, <1>8, Zenon
<1>13. /\ acked' \in [Topic -> SUBSET (Nat \X Nat)]
       /\ acked'[t] = acked[t] \union {<<registry[t], Len(recs)>>}
       /\ \A u \in Topic : u # t => acked'[u] = acked[u]
  BY <1>4, <1>7, <1>8
<1>14. /\ topicCall' \in [TopicCaller -> CallState] /\ topicCall'[c].pc = "idle"
       /\ \A d \in TopicCaller : d # c => topicCall'[d] = topicCall[d]
       /\ \A d \in TopicCaller : topicCall'[d].pc # "idle" => topicCall'[d].topic \in Topic
  BY <1>3, <1>4, NoCallType, CallMoves, Zenon
<1>15. TopicsTypeOK'
  BY <1>3, <1>4, <1>11, <1>12, <1>13, <1>14, Zenon DEF TopicsTypeOK
<1>16. CallsOK'
  <2>1. \A d \in TopicCaller : topicCall'[d].pc # "idle" => topicCall'[d] = topicCall[d]
    BY <1>14, Zenon
  <2>2. (\A d, e \in TopicCaller : topicCall[d].pc # "idle" /\ On(e, topicCall[d].topic) => d = e)'
    BY <1>4, <2>1 DEF CallsOK, On
  <2> QED
    BY <1>3, <1>4, <2>1, <2>2 DEF CallsOK
<1>17. \A u \in Topic : u # t /\ logs[u] # 0 => handle'[logs[u]] = handle[logs[u]]
  BY <1>2, <1>4, <1>5, <1>11 DEF HandlesOK
<1>18. HandlesOK'
  <2>1. ASSUME NEW u \in Topic, logs[u] # 0
        PROVE  /\ logs[u] \in DOMAIN handle'
               /\ ~handle'[logs[u]].closed
               /\ handle'[logs[u]].linked <=> kind = "file"
               /\ kind = "file" => handle'[logs[u]].recs = disk'[u]
    <3>1. CASE u = t
      BY <1>2, <1>5, <1>10, <1>11, <1>12, <3>1, Zenon
    <3>2. CASE u # t
      BY <1>4, <1>11, <1>12, <1>17, <2>1, <3>2, Zenon DEF HandlesOK
    <3> QED
      BY <3>1, <3>2, Zenon
  <2> QED
    BY <1>3, <1>4, <1>12, <2>1, Zenon DEF HandlesOK
<1>19. ASSUME NEW u \in Topic
       PROVE  RecordsOf(u)'
  <2>1. RecordsOf(u) /\ registry[u] \in Nat /\ acked[u] \subseteq Nat \X Nat /\ created \in Nat
    BY <1>4, Zenon DEF StoresAgree, TopicsTypeOK
  <2>2. Deleting(u)' <=> Deleting(u)
    BY <1>3, <1>14, Zenon DEF Deleting
  <2>3. CASE u # t
    <3>1. Readable(u)' = Readable(u)
      BY <1>3, <1>12, <1>17, <2>3, Zenon DEF Readable
    <3> QED
      BY <1>3, <1>13, <2>1, <2>2, <2>3, <3>1, RecordsFrame
  <2>4. CASE u = t
    <3>1. Readable(t) = handle[h].recs /\ Readable(t)' = recs
      BY <1>2, <1>3, <1>5, <1>10, <1>11, Zenon DEF Readable
    <3>2. ~Deleting(t)
      BY <1>3, <1>4, Zenon DEF Deleting, CallsOK, On
    <3>3. Acked(t)' = 1 .. Len(recs)
      <4>1. Acked(t) = 1 .. Len(handle[h].recs)
        BY <2>1, <2>4, <3>1, <3>2, Zenon DEF RecordsOf
      <4>2. Acked(t)' = Acked(t) \union {Len(recs)}
        BY <1>3, <1>8, <1>13 DEF Acked
      <4>3. \A n \in Nat : (1 .. n) \union {n + 1} = 1 .. n + 1
        OBVIOUS
      <4> QED
        BY <1>8, <4>1, <4>2, <4>3, Zenon
    <3>4. \A i \in DOMAIN recs : recs[i] = registry[t]
      <4>1. \A i \in 1 .. Len(handle[h].recs) : handle[h].recs[i] = registry[t]
        BY <1>8, <2>1, <2>4, <3>1, <3>2 DEF RecordsOf
      <4>2. PICK n : n = Len(handle[h].recs)
        BY Zenon
      <4>3. DOMAIN recs = 1 .. n + 1 /\ n \in Nat /\ recs[n + 1] = registry[t]
            /\ \A i \in 1 .. n : recs[i] = registry[t]
        <5>1. n \in Nat /\ Len(recs) = n + 1 /\ DOMAIN recs = 1 .. n + 1
          BY <1>8, <4>2
        <5>2. \A i \in 1 .. n : i \in 1 .. n + 1 /\ i # n + 1
          BY <5>1
        <5>3. recs[n + 1] = registry[t]
          BY <1>8, <5>1
        <5>4. \A i \in 1 .. n : recs[i] = handle[h].recs[i]
          BY <1>8, <5>1, <5>2, Zenon
        <5> QED
          BY <4>1, <4>2, <5>1, <5>3, <5>4, Zenon
      <4>4. \A i \in 1 .. n + 1 : i \in 1 .. n \/ i = n + 1
        BY <4>3
      <4> QED
        BY <4>3, <4>4, Zenon
    <3>5. \A r \in acked'[t] : r[1] <= created /\ r[1] # 0
      BY <1>5, <1>13, <2>1, <2>4 DEF RecordsOf
    <3>6. Len(recs) <= MaxRecord
      BY <1>7, <1>8, TopicsAssumption
    <3> QED
      BY <1>3, <1>5, <2>1, <2>2, <2>4, <3>1, <3>2, <3>3, <3>4, <3>5, <3>6, Zenon DEF RecordsOf
  <2> QED
    BY <2>3, <2>4, Zenon
<1> QED
  BY <1>3, <1>15, <1>16, <1>18, <1>19, Zenon DEF StoresAgree

LEMMA ReopenKeeps ==
    ASSUME StoresAgree, Undisturbed', Reopen
    PROVE  StoresAgree'
<1>1. /\ kind = "file" /\ registry' = file /\ logs' = [t \in Topic |-> 0] /\ handle' = <<>>
      /\ topicCall' = [c \in TopicCaller |-> NoCall]
      /\ UNCHANGED <<kind, file, created, disk, acked>>
  BY Zenon DEF Reopen
<1>2. \A t \in Topic : ~Deleting(t)
  BY Zenon DEF Undisturbed, Reopen, Deleting
<1>3. TopicsTypeOK /\ HandlesOK /\ registry' = registry
  BY <1>1, Zenon DEF StoresAgree
<1>4. TopicsTypeOK'
  BY <1>1, <1>3, NoCallType DEF TopicsTypeOK
<1>5. CallsOK' /\ HandlesOK' /\ \A t \in Topic : ~Deleting(t)'
  BY <1>1, NoCallType, Zenon DEF CallsOK, HandlesOK, Deleting, On
<1>6. ASSUME NEW t \in Topic
      PROVE  RecordsOf(t)'
  <2>1. RecordsOf(t) /\ registry[t] \in Nat /\ acked[t] \subseteq Nat \X Nat /\ created \in Nat
    BY <1>3, Zenon DEF StoresAgree, TopicsTypeOK
  <2>2. Readable(t)' = Readable(t)
    BY <1>1, <1>3, Zenon DEF Readable, HandlesOK
  <2> QED
    BY <1>1, <1>2, <1>3, <1>5, <2>1, <2>2, RecordsFrame
<1> QED
  BY <1>1, <1>3, <1>4, <1>5, <1>6, Zenon DEF StoresAgree

LEMMA StoreUnchanged ==
    ASSUME StoresAgree,
           UNCHANGED <<kind, registry, file, created, logs, handle, disk, acked, topicCall>>
    PROVE  StoresAgree'
<1>1. \A t \in Topic : /\ (Deleting(t)' <=> Deleting(t)) /\ Readable(t)' = Readable(t)
                       /\ Acked(t)' = Acked(t)
  BY Zenon DEF Deleting, Readable, Acked
<1>2. TopicsTypeOK' /\ CallsOK' /\ HandlesOK'
  BY Zenon DEF StoresAgree, TopicsTypeOK, CallsOK, HandlesOK, On
<1>3. \A t \in Topic : RecordsOf(t)'
  BY <1>1, Zenon DEF StoresAgree, RecordsOf
<1> QED
  BY <1>2, <1>3, Zenon DEF StoresAgree

LEMMA TopicsInvNext == TopicsInv /\ [TopicsNext]_topicVars => TopicsInv'
<1> SUFFICES ASSUME TopicsInv, [TopicsNext]_topicVars, Undisturbed'
             PROVE  StoresAgree'
  BY Zenon DEF TopicsInv
<1>1. StoresAgree
  BY Zenon DEF TopicsInv, Undisturbed, TopicsNext, topicVars, CreateTopic, DeleteTopic, Persist,
     ForgetLog, RemoveAll, Publish, openLog, AppendRecord, Commit, Reopen
<1>2. ASSUME NEW t \in Topic, NEW ok \in BOOLEAN, CreateTopic(t, ok) PROVE StoresAgree'
  BY <1>1, <1>2, CreateTopicKeeps, Zenon
<1>3. ASSUME NEW c \in TopicCaller, NEW t \in Topic, NEW ok \in BOOLEAN, DeleteTopic(c, t, ok)
      PROVE  StoresAgree'
  BY <1>1, <1>3, DeleteTopicKeeps, Zenon
<1>4. ASSUME NEW c \in TopicCaller, ForgetLog(c) PROVE StoresAgree'
  BY <1>1, <1>4, ForgetLogKeeps, Zenon DEF ForgetLog
<1>5. ASSUME NEW c \in TopicCaller, RemoveAll(c) PROVE StoresAgree'
  BY <1>1, <1>5, RemoveAllKeeps, Zenon DEF RemoveAll
<1>6. ASSUME NEW c \in TopicCaller, openLog(c) PROVE StoresAgree'
  BY <1>1, <1>6, OpenLogKeeps, Zenon
<1>7. ASSUME NEW c \in TopicCaller, AppendRecord(c) PROVE StoresAgree'
  BY <1>1, <1>7, AppendRecordKeeps, Zenon
<1>8. ASSUME NEW c \in TopicCaller, NEW t \in Topic, Publish(c, t) PROVE StoresAgree'
  BY <1>1, <1>8, PublishKeeps, Zenon
<1>9. ASSUME NEW t \in Topic, Commit(t) PROVE StoresAgree'
  BY <1>1, <1>9, StoreUnchanged, Zenon DEF Commit, store
<1>10. CASE Reopen
  BY <1>1, <1>10, ReopenKeeps, Zenon
<1>11. CASE UNCHANGED topicVars
  BY <1>1, <1>11, StoreUnchanged, Zenon DEF topicVars, store
<1> QED
  BY <1>2, <1>3, <1>4, <1>5, <1>6, <1>7, <1>8, <1>9, <1>10, <1>11, Zenon DEF TopicsNext

(***************************************************************************)
(* Broker.CreateTopic, DeleteTopic and Publish over the registry and the   *)
(* store: as long as no delete overlaps another call or ends half way, a   *)
(* topic has exactly the records acknowledged since its creation, at their *)
(* offsets, whatever was deleted, created again and restarted before.      *)
(***************************************************************************)
THEOREM TopicsHoldTheirRecords == TopicsSpec => []TopicHasItsRecords
<1>1. TopicsInit => TopicsInv
  BY TopicsInvInit, Zenon
<1>2. TopicsInv /\ [TopicsNext]_topicVars => TopicsInv'
  BY TopicsInvNext, Zenon
<1>3. TopicsInv => TopicHasItsRecords
  <2> SUFFICES ASSUME StoresAgree, NEW t \in Topic, registry[t] # 0, ~Busy(t)
               PROVE  /\ \A i \in DOMAIN Readable(t) : Readable(t)[i] = registry[t]
                      /\ DOMAIN Readable(t) = {o \in 1 .. MaxRecord : <<registry[t], o>> \in acked[t]}
    BY Zenon DEF TopicsInv, Undisturbed, TopicHasItsRecords
  <2>1. ~Deleting(t)
    BY Zenon DEF Busy, Deleting
  <2>2. Readable(t) \in Seq(Nat)
    <3>1. /\ disk[t] \in Seq(Nat) /\ handle \in Seq(HandleState)
          /\ logs[t] # 0 => logs[t] \in DOMAIN handle
      BY Zenon DEF StoresAgree, TopicsTypeOK, HandlesOK
    <3>2. logs[t] # 0 => handle[logs[t]] \in HandleState
      BY <3>1
    <3> QED
      BY <3>1, <3>2, Zenon DEF HandleState, Readable
  <2>3. /\ \A i \in DOMAIN Readable(t) : Readable(t)[i] = registry[t]
        /\ Len(Readable(t)) <= MaxRecord /\ Acked(t) = 1 .. Len(Readable(t))
    BY <2>1, Zenon DEF StoresAgree, RecordsOf
  <2> QED
    <3>1. \A o \in Nat : <<registry[t], o>> \in acked[t] <=> o \in 1 .. Len(Readable(t))
      BY <2>3, Zenon DEF Acked
    <3>2. PICK n : n = Len(Readable(t))
      BY Zenon
    <3>3. n \in Nat /\ n <= MaxRecord /\ DOMAIN Readable(t) = 1 .. n
      BY <2>2, <2>3, <3>2
    <3>4. \A o \in 1 .. MaxRecord : <<registry[t], o>> \in acked[t] <=> o \in 1 .. n
      BY <3>1, <3>2
    <3>5. 1 .. n \subseteq 1 .. MaxRecord
      BY <3>3, TopicsAssumption
    <3>6. 1 .. n = {o \in 1 .. MaxRecord : <<registry[t], o>> \in acked[t]}
      BY <3>4, <3>5, Zenon
    <3> QED
      BY <2>3, <3>3, <3>6, Zenon
<1> QED
  BY <1>1, <1>2, <1>3, PTL DEF TopicsSpec

-----------------------------------------------------------------------------
(***************************************************************************)
(* The listening broker.  Close runs through its stages only after the     *)
(* broker is marked closed, waits for the goroutines before it goes on to  *)
(* the store, and from then on none can start: the accept loop turns away  *)
(* what it still accepts, or there never was one.                          *)
(***************************************************************************)
ConnState == {"away", "dialled", "handshake", "reading", "short", "fetch",
              "heartbeat", "ended"}

StopsInOrder ==
    /\ closer # "idle" => brokerClosed
    /\ brokerClosed => retention \in {"off", "cancelled"}
    /\ closer \in {"cancel", "wait", "store", "returned"} => retention = "off"
    /\ closer \in {"cancel", "wait"} => closing
    /\ storeClosed => closer = "returned"

NoneCanStart ==
    closer \in {"store", "returned"} =>
        /\ Running = {}
        /\ accept # "registered"
        /\ closing \/ listening = "no"

ServerInv ==
    /\ conn \in [Conn -> ConnState]
    /\ accept = "off" <=> listening # "yes"
    /\ accept = "off" => Running = {}
    /\ StopsInOrder
    /\ NoneCanStart

LEMMA ServerInvInit == ServerInit => ServerInv
  BY Zenon DEF ServerInit, ServerInv, StopsInOrder, NoneCanStart, Running, ConnState

(***************************************************************************)
(* Steps of the clients and of serving goroutines: no other goroutine      *)
(* starts.                                                                 *)
(***************************************************************************)
LEMMA HandlersKeep ==
    ASSUME ServerInv, conn' \in [Conn -> ConnState], Running' \subseteq Running,
           UNCHANGED <<listening, accept, brokerClosed, closing, closer, retention,
                       storeClosed>>
    PROVE  ServerInv'
  BY Zenon DEF ServerInv, StopsInOrder, NoneCanStart

LEMMA ServeKeeps ==
    ASSUME ServerInv, NEW c \in Conn, c \in Running, NEW k \in ConnState,
           conn' = [conn EXCEPT ![c] = k]
    PROVE  conn' \in [Conn -> ConnState] /\ Running' \subseteq Running
  BY Zenon DEF ServerInv, Running

LEMMA ServerInvNext == ServerInv /\ [ServerNext]_serverVars => ServerInv'
<1> SUFFICES ASSUME ServerInv, [ServerNext]_serverVars PROVE ServerInv'
  BY Zenon
<1> USE DEF server, handlers, ending
<1>1. CASE Reserve \/ Listen \/ ListenFails
  BY <1>1 DEF Reserve, Listen, ListenFails, ServerInv, StopsInOrder,
              NoneCanStart, Running
<1>2. CASE Acceptor
  <2>1. ASSUME NEW c \in Conn, Accept(c) PROVE ServerInv'
    BY <2>1, Zenon DEF Accept, ServerInv, StopsInOrder, NoneCanStart, Running
  <2>2. CASE AcceptFails
    BY <2>2, Zenon DEF AcceptFails, ServerInv, StopsInOrder, NoneCanStart, Running
  <2>3. CASE Register
    <3>1. CASE ~closing /\ RegisterUnchecked
      BY <3>1, Zenon DEF RegisterUnchecked, ServerInv, StopsInOrder, NoneCanStart, Running
    <3>2. CASE closing
      BY <2>3, <3>2 DEF Register, ServerInv, StopsInOrder, NoneCanStart, Running,
                        ConnState
    <3> QED BY <2>3, <3>1, <3>2, Zenon DEF Register
  <2>4. CASE Spawn
    BY <2>4, Zenon DEF Spawn, ServerInv, StopsInOrder, NoneCanStart, Running, ConnState
  <2> QED BY <1>2, <2>1, <2>2, <2>3, <2>4, Zenon DEF Acceptor
<1>3. CASE RetentionTick \/ RetentionDone
  BY <1>3 DEF RetentionTick, RetentionDone, ServerInv, StopsInOrder, NoneCanStart,
              Running
<1>4. CASE Close
  BY <1>4, Zenon DEF Close, ServerInv, StopsInOrder, NoneCanStart, Running
<1>5. CASE Closer
  <2>1. CASE CloseServer
    BY <2>1, Zenon DEF CloseServer, ServerInv, StopsInOrder, NoneCanStart, Running
  <2>2. CASE CloseConnections
    BY <2>2, Zenon DEF CloseConnections, ServerInv, StopsInOrder, NoneCanStart, Running
  <2>3. CASE Wait
    BY <2>3, Zenon DEF Wait, WaitForAccept, ServerInv, StopsInOrder, NoneCanStart,
                Running
  <2>4. CASE CloseStore
    BY <2>4, Zenon DEF CloseStore, ServerInv, StopsInOrder, NoneCanStart, Running
  <2> QED BY <1>5, <2>1, <2>2, <2>3, <2>4, Zenon DEF Closer
<1>6. ASSUME NEW c \in Conn,
             \/ Connect(c) \/ Disconnect(c) \/ FetchSleeps(c)
             \/ DeadlinePasses(c)
      PROVE  ServerInv'
  <2>1. conn' \in [Conn -> ConnState] /\ Running' \subseteq Running
    BY <1>6, Zenon DEF Connect, Disconnect, FetchSleeps, DeadlinePasses,
                ServerInv, Running, ConnState
  <2>2. UNCHANGED <<listening, accept, brokerClosed, closing, closer, retention,
                    storeClosed>>
    BY <1>6, Zenon DEF Connect, Disconnect, FetchSleeps, DeadlinePasses
  <2> QED BY <2>1, <2>2, HandlersKeep, Zenon
<1>7. ASSUME NEW c \in Conn,
             \/ handshake(c) \/ ReadFrame(c) \/ serveConn(c)
             \/ handleFetch(c, TRUE)
      PROVE  ServerInv'
  <2>1. c \in Running
    BY <1>7, Zenon DEF handshake, ReadFrame, serveConn, ReadFails, Handled,
                handleHeartbeat, handleFetch, Running
  <2>2. \E k \in ConnState : conn' = [conn EXCEPT ![c] = k]
    BY <1>7, Zenon DEF handshake, ReadFrame, serveConn, ReadFails, Handled,
                handleHeartbeat, handleFetch, Answered, End, ConnState
  <2>3. UNCHANGED <<listening, accept, brokerClosed, closing, closer, retention,
                    storeClosed>>
    BY <1>7, Zenon DEF handshake, ReadFrame, serveConn, ReadFails, Handled,
                handleHeartbeat, handleFetch
  <2> QED BY <2>1, <2>2, <2>3, ServeKeeps, HandlersKeep, Zenon
<1>8. CASE UNCHANGED serverVars
  <2>1. conn' = conn /\ Running' = Running
    BY <1>8, Zenon DEF serverVars, Running
  <2>2. UNCHANGED <<listening, accept, brokerClosed, closing, closer, retention,
                    storeClosed>>
    BY <1>8, Zenon DEF serverVars
  <2> QED BY <2>1, <2>2, HandlersKeep, Zenon DEF ServerInv
<1> QED BY <1>1, <1>2, <1>3, <1>4, <1>5, <1>6, <1>7, <1>8, Zenon DEF ServerNext

(***************************************************************************)
(* embed.Close closes the store only when nothing uses it any more, however*)
(* many connections there are, whatever clients do while it runs, and also *)
(* if Close overtakes a Listen that has not returned.                      *)
(***************************************************************************)
THEOREM StoreIsClosedLast == ServerSpec => []StoreOutlivesItsUsers
<1>1. ServerInv => StoreOutlivesItsUsers
  BY Zenon DEF ServerInv, StopsInOrder, NoneCanStart, StoreOutlivesItsUsers, Running
<1> QED BY ServerInvInit, ServerInvNext, <1>1, PTL DEF ServerSpec

=============================================================================
