--------------------------- MODULE SchemaRegistry ---------------------------
(***************************************************************************)
(* The schema registry (registry/registry.go): services that keep their    *)
(* tables in memory, write every change to the topic __holocron_schemas    *)
(* and rebuild the tables from it on Start.  A call reads the tables under *)
(* the service's lock, sends its record without it, and then changes the   *)
(* tables itself; a running service does not read the topic.  A schema     *)
(* text is the set of fields it requires.                                  *)
(***************************************************************************)
EXTENDS Integers, SequencesExt

CONSTANTS
    Service,      \* registry instances that share the topic
    Caller,       \* concurrent requests
    Subject,
    Text,         \* schema texts, as sets of required fields
    Mode,         \* the compatibility modes in use
    Bounded,      \* whether the transport reports the high water
    MaxRecords,   \* bound: records on the topic
    MaxStart      \* bound: times a service is started again

VARIABLES
    schemas,      \* the records of the topic; the offset is the index - 1
    byID,         \* s.byID of each service
    bySubject,    \* s.bySubject
    compats,      \* s.compats
    replayed,     \* records a starting service has applied
    target,       \* the high water its replay aims at, -1 once it serves
    req,          \* each request
    starts,       \* restarts so far
    mixed         \* history: (service, subject) pairs with overlapping calls,
                  \* peers' records or a gap in the versions

tables == <<byID, bySubject, compats>>
vars == <<schemas, tables, replayed, target, req, starts, mixed>>

NONE == "NONE"
BACKWARD == "BACKWARD"
FORWARD == "FORWARD"
FULL == "FULL"

Schema(id, version, text) == [id |-> id, version |-> version, text |-> text]

Record(op, subject, text, version, mode) ==
    [op |-> op, subject |-> subject, text |-> text, version |-> version,
     mode |-> mode]

NoTables == [byID |-> <<>>, bySubject |-> [s \in Subject |-> <<>>],
             compats |-> [s \in Subject |-> NONE]]

TablesOf(n) == [byID |-> byID[n], bySubject |-> bySubject[n],
                compats |-> compats[n]]

SetTables(n, t) ==
    /\ byID' = [byID EXCEPT ![n] = t.byID]
    /\ bySubject' = [bySubject EXCEPT ![n] = t.bySubject]
    /\ compats' = [compats EXCEPT ![n] = t.compats]

Idle == [pc |-> "idle", at |-> CHOOSE n \in Service : TRUE,
         rec |-> Record("none", CHOOSE s \in Subject : TRUE, {}, 0, NONE),
         offset |-> -1]

Init ==
    /\ schemas = <<>>
    /\ byID = [n \in Service |-> NoTables.byID]
    /\ bySubject = [n \in Service |-> NoTables.bySubject]
    /\ compats = [n \in Service |-> NoTables.compats]
    /\ replayed = [n \in Service |-> 0]
    /\ target = [n \in Service |-> -1]
    /\ req = [c \in Caller |-> Idle]
    /\ starts = 0
    /\ mixed = {}

-----------------------------------------------------------------------------
(***************************************************************************)
(* The tables after each kind of change.                                   *)
(***************************************************************************)
WithID(t, id, sc) ==
    [i \in DOMAIN t.byID \union {id} |-> IF i = id THEN sc ELSE t.byID[i]]

(***************************************************************************)
(* appendByVersion: an equal version is replaced, a smaller one inserted.  *)
(***************************************************************************)
appendByVersion(versions, sc) ==
    LET i == SelectInSeq(versions, LAMBDA v : v.version >= sc.version) IN
    CASE i = 0 -> Append(versions, sc)
      [] i # 0 /\ versions[i].version = sc.version ->
            [versions EXCEPT ![i] = sc]
      [] OTHER -> InsertAt(versions, i, sc)

applyLocked(t, subject, sc) ==
    [t EXCEPT !.byID = WithID(t, sc.id, sc),
              !.bySubject[subject] = appendByVersion(@, sc)]

Without(t, ids) == [i \in DOMAIN t.byID \ ids |-> t.byID[i]]

applyTombstoneLocked(t, subject) ==
    [t EXCEPT !.byID = Without(t, {v.id : v \in Range(t.bySubject[subject])}),
              !.bySubject[subject] = <<>>]

applyDeleteVersionLocked(t, subject, version) ==
    LET versions == t.bySubject[subject]
        i == SelectInSeq(versions, LAMBDA v : v.version = version)
    IN  IF i = 0 THEN t
        ELSE [t EXCEPT !.byID = Without(t, {versions[i].id}),
                       !.bySubject[subject] = RemoveAt(@, i)]

applyConfigLocked(t, subject, mode) == [t EXCEPT !.compats[subject] = mode]

(***************************************************************************)
(* Mutation: replay numbers the schemas itself instead of using offsets.   *)
(***************************************************************************)
applyRecordOwnIds(t, r, offset) ==
    IF r.op = "schema"
    THEN applyLocked(t, r.subject,
             Schema(Cardinality(DOMAIN t.byID),
                    Len(t.bySubject[r.subject]) + 1, r.text))
    ELSE t

(***************************************************************************)
(* applyRecord: the ID is the record's offset, the version is counted, and *)
(* a record that repeats the latest text becomes another ID of it.         *)
(***************************************************************************)
applyRecord(t, r, offset) ==
    LET versions == t.bySubject[r.subject]
        sc == Schema(offset, Len(versions) + 1, r.text)
    IN
    CASE r.op = "deleteVersion" ->
            applyDeleteVersionLocked(t, r.subject, r.version)
      [] r.op = "config" -> applyConfigLocked(t, r.subject, r.mode)
      [] r.op = "tombstone" -> applyTombstoneLocked(t, r.subject)
      [] OTHER ->
            IF versions # <<>> /\ Last(versions).text = r.text
            THEN [t EXCEPT !.byID = WithID(t, offset, Last(versions))]
            ELSE [t EXCEPT !.byID = WithID(t, offset, sc),
                           !.bySubject[r.subject] = Append(versions, sc)]

(***************************************************************************)
(* CheckCompatibility of a text with the latest version of the subject.    *)
(***************************************************************************)
CheckCompatibility(t, subject, text, mode) ==
    LET latest == Last(t.bySubject[subject]).text IN
    \/ mode = NONE
    \/ t.bySubject[subject] = <<>>
    \/ /\ mode \in {BACKWARD, FULL} => text \subseteq latest
       /\ mode \in {FORWARD, FULL} => latest \subseteq text

-----------------------------------------------------------------------------
Serving(c, n) == req[c].pc = "idle" /\ target[n] = -1

Overlaps(c, s) ==
    \E d \in Caller \ {c} : req[d].pc # "idle" /\ req[d].rec.subject = s

Issue(c, n, pc, rec) ==
    /\ req' = [req EXCEPT ![c] =
                  [pc |-> pc, at |-> n, rec |-> rec, offset |-> -1]]
    /\ mixed' = mixed \union
                    (IF Overlaps(c, rec.subject) THEN Service \X {rec.subject}
                     ELSE {})
    /\ UNCHANGED <<schemas, tables, replayed, target, starts>>

(***************************************************************************)
(* Register reads the versions; the text of the latest one needs nothing.  *)
(***************************************************************************)
Register(c, n, s, text) ==
    LET versions == bySubject[n][s] IN
    /\ Serving(c, n)
    /\ ~(versions # <<>> /\ Last(versions).text = text)
    /\ Issue(c, n, "check", Record("schema", s, text, Len(versions) + 1, NONE))

(***************************************************************************)
(* GetCompatibility and CheckCompatibility, after the lock was released.   *)
(***************************************************************************)
RegisterCheck(c) ==
    LET n == req[c].at
        s == req[c].rec.subject
    IN
    /\ req[c].pc = "check"
    /\ req' = [req EXCEPT ![c] =
                  IF CheckCompatibility(TablesOf(n), s, req[c].rec.text,
                                        compats[n][s])
                  THEN [@ EXCEPT !.pc = "send"] ELSE Idle]
    /\ UNCHANGED <<schemas, tables, replayed, target, starts, mixed>>

DeleteSubject(c, n, s) ==
    /\ Serving(c, n)
    /\ bySubject[n][s] # <<>>
    /\ Issue(c, n, "send", Record("tombstone", s, {}, 0, NONE))

SetCompatibility(c, n, s, mode) ==
    /\ Serving(c, n)
    /\ Issue(c, n, "send", Record("config", s, {}, 0, mode))

(***************************************************************************)
(* DeleteVersion checks that the version is there before it sends.         *)
(* DeleteByID has looked the subject and the version up before, under the  *)
(* lock it then released.                                                  *)
(***************************************************************************)
DeleteVersion(c, n, s, version) ==
    /\ Serving(c, n)
    /\ Issue(c, n, "find", Record("deleteVersion", s, {}, version, NONE))

SubjectOf(n, id) ==
    CHOOSE s \in Subject : id < Len(schemas) /\ schemas[id + 1].subject = s

DeleteByID(c, n, id) ==
    /\ Serving(c, n)
    /\ id \in DOMAIN byID[n]
    /\ Issue(c, n, "find", Record("deleteVersion", SubjectOf(n, id), {},
                                  byID[n][id].version, NONE))

FindVersion(c) ==
    LET n == req[c].at
        s == req[c].rec.subject
        found == \E v \in Range(bySubject[n][s]) :
                     v.version = req[c].rec.version
    IN
    /\ req[c].pc = "find"
    /\ req' = [req EXCEPT ![c] = IF found THEN [@ EXCEPT !.pc = "send"]
                                 ELSE Idle]
    /\ mixed' = IF found /\ req[c].rec.version # Last(bySubject[n][s]).version
                THEN mixed \union (Service \X {s}) ELSE mixed
    /\ UNCHANGED <<schemas, tables, replayed, target, starts>>

(***************************************************************************)
(* producer.Send: the record is on the topic; or it fails, and the request *)
(* with it.                                                                *)
(***************************************************************************)
Send(c) ==
    /\ req[c].pc = "send"
    /\ Len(schemas) < MaxRecords
    /\ schemas' = Append(schemas, req[c].rec)
    /\ req' = [req EXCEPT ![c].pc = "apply", ![c].offset = Len(schemas)]
    /\ mixed' = mixed \union ((Service \ {req[c].at}) \X {req[c].rec.subject})
    /\ UNCHANGED <<tables, replayed, target, starts>>

SendFails(c) ==
    /\ req[c].pc = "send"
    /\ req' = [req EXCEPT ![c] = Idle]
    /\ UNCHANGED <<schemas, tables, replayed, target, starts, mixed>>

(***************************************************************************)
(* The request's own change of the tables: Register keeps the version it   *)
(* computed at first.                                                      *)
(***************************************************************************)
Apply(c) ==
    LET r == req[c].rec
        t == TablesOf(req[c].at)
    IN
    /\ req[c].pc = "apply"
    /\ SetTables(req[c].at,
          CASE r.op = "schema" -> applyLocked(t, r.subject,
                                      Schema(req[c].offset, r.version, r.text))
            [] r.op = "tombstone" -> applyTombstoneLocked(t, r.subject)
            [] r.op = "config" -> applyConfigLocked(t, r.subject, r.mode)
            [] OTHER -> applyDeleteVersionLocked(t, r.subject, r.version))
    /\ req' = [req EXCEPT ![c] = Idle]
    /\ UNCHANGED <<schemas, replayed, target, starts, mixed>>

-----------------------------------------------------------------------------
(***************************************************************************)
(* A service ends, its requests with it, and Start begins the replay.      *)
(***************************************************************************)
Start(n) ==
    /\ starts < MaxStart
    /\ starts' = starts + 1
    /\ SetTables(n, NoTables)
    /\ replayed' = [replayed EXCEPT ![n] = 0]
    /\ target' = [target EXCEPT ![n] = Len(schemas)]
    /\ req' = [c \in Caller |-> IF req[c].at = n THEN Idle ELSE req[c]]
    /\ mixed' = {p \in mixed : p[1] # n}
    /\ UNCHANGED schemas

(***************************************************************************)
(* One record of replay.  With the high water, replay stops when that many *)
(* records have been applied, or later, with the batch that holds the last *)
(* of them; without it, replay stops at any time: 200 ms are over.         *)
(***************************************************************************)
ReplayRecord(n) ==
    /\ target[n] # -1
    /\ replayed[n] < Len(schemas)
    /\ SetTables(n, applyRecord(TablesOf(n), schemas[replayed[n] + 1],
                                replayed[n]))
    /\ replayed' = [replayed EXCEPT ![n] = @ + 1]
    /\ UNCHANGED <<schemas, target, req, starts, mixed>>

ReplayDone(n) ==
    /\ target[n] # -1
    /\ Bounded => replayed[n] >= target[n]
    /\ target' = [target EXCEPT ![n] = -1]
    /\ mixed' = IF replayed[n] = Len(schemas) THEN mixed
                ELSE mixed \union ({n} \X Subject)
    /\ UNCHANGED <<schemas, tables, replayed, req, starts>>

Next ==
    \/ \E c \in Caller, n \in Service, s \in Subject :
          \/ \E text \in Text : Register(c, n, s, text)
          \/ DeleteSubject(c, n, s)
          \/ \E mode \in Mode : SetCompatibility(c, n, s, mode)
          \/ \E v \in 1 .. MaxRecords : DeleteVersion(c, n, s, v)
    \/ \E c \in Caller, n \in Service, id \in 0 .. MaxRecords - 1 :
          DeleteByID(c, n, id)
    \/ \E c \in Caller :
          \/ RegisterCheck(c)
          \/ FindVersion(c)
          \/ Send(c)
          \/ SendFails(c)
          \/ Apply(c)
    \/ \E n \in Service :
          \/ Start(n)
          \/ ReplayRecord(n)
          \/ ReplayDone(n)

Spec == Init /\ [][Next]_vars

-----------------------------------------------------------------------------
(***************************************************************************)
(* A schema ID means the same schema on every service for ever: GetByID    *)
(* never answers with another text than the one whose registration got     *)
(* that offset, whichever service registered it, through concurrent        *)
(* requests, deletions, re-registrations and replays.                      *)
(***************************************************************************)
IdsResolve ==
    \A n \in Service : \A id \in DOMAIN byID[n] :
        /\ id < Len(schemas)
        /\ schemas[id + 1].op = "schema"
        /\ schemas[id + 1].text = byID[n][id].text

(***************************************************************************)
(* What a fresh service would rebuild from the topic.                      *)
(***************************************************************************)
Rebuilt ==
    LET Step(t, i) == applyRecord(t, schemas[i], i - 1)
    IN  FoldLeft(Step, NoTables, [i \in 1 .. Len(schemas) |-> i])

Quiet(n, s) ==
    /\ target[n] = -1
    /\ <<n, s>> \notin mixed
    /\ \A c \in Caller : req[c].pc # "idle" => req[c].rec.subject # s

(***************************************************************************)
(* A service answers what a fresh service would answer after its replay,   *)
(* for each subject whose requests came one at a time to this service and  *)
(* left no gap in its versions.                                            *)
(***************************************************************************)
ReplayAgrees ==
    LET rebuilt == Rebuilt IN
    \A n \in Service, s \in Subject : Quiet(n, s) =>
        /\ bySubject[n][s] = rebuilt.bySubject[s]
        /\ compats[n][s] = rebuilt.compats[s]

(***************************************************************************)
(* "GetLatest returns the most recently registered schema for the subject" *)
(* (registry.go:620).                                                      *)
(***************************************************************************)
LatestIsMostRecent ==
    (/\ schemas # <<>> /\ Last(schemas).op = "schema"
     /\ \A c \in Caller : req[c].pc = "idle") =>
        \A n \in Service : target[n] = -1 =>
            LET known == bySubject[n][Last(schemas).subject] IN
            known # <<>> /\ Last(known).text = Last(schemas).text

=============================================================================
