----------------------------- MODULE StateStores -----------------------------
(***************************************************************************)
(* A materialized table of a streams topology (streams/ktable.go, or the   *)
(* pipeline of ToTable) on one partition, its state store in memory        *)
(* (streams/store.go) or behind a changelog topic (streams/changelog.go),  *)
(* across restarts of the process.  The store's other writer, such as a    *)
(* punctuator, is modelled as a second caller of Put and Delete.           *)
(*                                                                         *)
(* The topics survive a crash; the map of the store does not.  A value of  *)
(* length 0 is stored and sent like no value: the wire format and the log  *)
(* both decode it to nil.                                                  *)
(***************************************************************************)
EXTENDS Integers, SequencesExt, Functions

CONSTANTS
    Key, Value,
    Kinds,        \* of "memory", "changelog"
    Writers,      \* callers of the store besides the table's loop
    MaxSource, MaxLog, MaxStart \* bounds: records, changelog, starts

Nil == "nil"
Empty == "empty"

VARIABLES
    kind,
    source,       \* the source topic: [key, value]
    changelog,    \* the changelog topic: [key, value]
    entries,      \* the map of the store
    loop,         \* the table's loop: its state, next offset to apply
    put,          \* callers between the map and the Publish: what they send
    committed,    \* the group's committed offset
    starts,
    ahead, cut, failed, raced, others \* history: see the actions that set them

topics == <<source, changelog>>
history == <<ahead, cut, failed, raced, others>>
vars == <<kind, topics, entries, loop, put, committed, starts, history>>

NoEntries == [k \in {} |-> Nil]
Table == "table"
NoPut == [busy |-> FALSE, key |-> Nil, value |-> Nil]

Init ==
    /\ kind \in Kinds
    /\ source = <<>>
    /\ changelog = <<>>
    /\ entries = NoEntries
    /\ loop = [state |-> "down", at |-> 0]
    /\ put = [w \in Writers \union {Table} |-> NoPut]
    /\ committed = 0
    /\ starts = 0
    /\ ahead = FALSE /\ cut = FALSE /\ failed = FALSE /\ raced = FALSE /\ others = FALSE

(***************************************************************************)
(* What a reader of a topic gets for a value that was published.           *)
(***************************************************************************)
Stored(v) == IF v = Empty THEN Nil ELSE v

Applied(e, r) ==
    IF Stored(r.value) = Nil THEN Restrict(e, DOMAIN e \ {r.key})
    ELSE [k \in DOMAIN e \union {r.key} |-> IF k = r.key THEN r.value ELSE e[k]]

Latest(records) == FoldLeft(Applied, NoEntries, records)

-----------------------------------------------------------------------------
Produce(k, v) ==
    /\ Len(source) < MaxSource
    /\ source' = Append(source, [key |-> k, value |-> v])
    /\ UNCHANGED <<kind, changelog, entries, loop, put, committed, starts, history>>

(***************************************************************************)
(* Start: openStoreLocked replays the changelog partition; the drain ends  *)
(* with the deadline, whatever is left.  runTable then subscribes from the *)
(* committed offset.                                                       *)
(***************************************************************************)
Start(n) ==
    /\ loop.state = "down" /\ starts < MaxStart
    /\ n \in 0 .. Len(changelog)
    /\ entries' = IF kind = "memory" THEN NoEntries
                  ELSE Latest(SubSeq(changelog, 1, n))
    /\ cut' = (cut \/ (kind = "changelog" /\ n < Len(changelog)))
    /\ loop' = [state |-> "up", at |-> committed]
    /\ starts' = starts + 1
    /\ UNCHANGED <<kind, topics, put, committed, ahead, failed, raced, others>>

(***************************************************************************)
(* Put and Delete of a store: the map under the lock ...                   *)
(***************************************************************************)
Write(w, k, v) ==
    /\ loop.state = "up" /\ ~put[w].busy
    /\ Len(changelog) < MaxLog
    /\ entries' = IF v = Nil THEN Restrict(entries, DOMAIN entries \ {k})
                  ELSE [x \in DOMAIN entries \union {k} |->
                           IF x = k THEN v ELSE entries[x]]
    /\ raced' = (raced \/ \E x \in DOMAIN put \ {w} : put[x].busy /\ put[x].key = k)
    /\ IF kind = "changelog"
       THEN put' = [put EXCEPT ![w] = [busy |-> TRUE, key |-> k, value |-> v]]
       ELSE UNCHANGED put

(***************************************************************************)
(* ... then the Publish, without it.                                       *)
(***************************************************************************)
Publish(w) ==
    /\ put[w].busy
    /\ changelog' = Append(changelog, [key |-> put[w].key,
                                       value |-> put[w].value])
    /\ put' = [put EXCEPT ![w] = NoPut]
    /\ UNCHANGED <<kind, source, entries, loop, committed, starts, history>>

(***************************************************************************)
(* Publish fails; the error is dropped.                                    *)
(***************************************************************************)
PublishFails(w) ==
    /\ put[w].busy
    /\ put' = [put EXCEPT ![w] = NoPut]
    /\ failed' = TRUE
    /\ UNCHANGED <<kind, topics, entries, loop, committed, starts, ahead, cut, raced, others>>

(***************************************************************************)
(* runTable applies the next record: nil deletes, anything else is put.    *)
(***************************************************************************)
ApplyRecord ==
    /\ loop.at < Len(source)
    /\ Write(Table, source[loop.at + 1].key, Stored(source[loop.at + 1].value))
    /\ loop' = [loop EXCEPT !.at = @ + 1]
    /\ UNCHANGED <<kind, topics, committed, starts, ahead, cut, failed, others>>

(***************************************************************************)
(* The other writer puts or deletes.                                       *)
(***************************************************************************)
OtherWrite(w, k, v) ==
    /\ Write(w, k, v)
    /\ others' = TRUE
    /\ UNCHANGED <<kind, topics, loop, committed, starts, ahead, cut, failed>>

(***************************************************************************)
(* Mutation: the commit does not wait for the changelog.                   *)
(***************************************************************************)
CommitEarly(n) ==
    /\ loop.state = "up"
    /\ n \in loop.at .. Len(source)
    /\ committed' = n
    /\ ahead' = (ahead \/ n > loop.at)
    /\ UNCHANGED <<kind, topics, entries, loop, put, starts, cut, failed, raced, others>>

(***************************************************************************)
(* The commit after a batch: LatestOffsets, which is ahead of the loop     *)
(* when a pump has received more.                                          *)
(***************************************************************************)
Commit(n) ==
    /\ loop.state = "up" /\ ~put[Table].busy
    /\ n \in loop.at .. Len(source)
    /\ committed' = n
    /\ ahead' = (ahead \/ n > loop.at)
    /\ UNCHANGED <<kind, topics, entries, loop, put, starts, cut, failed, raced, others>>

Crash ==
    /\ loop.state = "up"
    /\ loop' = [state |-> "down", at |-> 0]
    /\ entries' = NoEntries
    /\ put' = [w \in DOMAIN put |-> NoPut]
    /\ UNCHANGED <<kind, topics, committed, starts, history>>

Next ==
    \/ \E k \in Key, v \in Value \union {Empty, Nil} : Produce(k, v)
    \/ \E n \in 0 .. Len(changelog) : Start(n)
    \/ \E w \in DOMAIN put : Publish(w) \/ PublishFails(w)
    \/ ApplyRecord
    \/ \E w \in Writers, k \in Key, v \in Value \union {Empty, Nil} :
          OtherWrite(w, k, v)
    \/ \E n \in 0 .. MaxSource : Commit(n)
    \/ Crash

Spec == Init /\ [][Next]_vars

-----------------------------------------------------------------------------
CaughtUp == loop.state = "up" /\ loop.at = Len(source)

(***************************************************************************)
(* "a materialized view of a topic, last-value-wins by key" (ktable.go:12) *)
(* survives crashes on a changelog store: a table that has caught up holds *)
(* the latest values, whenever the process died between the map, the       *)
(* changelog and the commit.  It takes a complete replay, a changelog      *)
(* that took every record, commits that do not run ahead, and no other     *)
(* writer.                                                                 *)
(***************************************************************************)
TableIsLatest ==
    kind = "changelog" /\ ~others /\ CaughtUp /\ ~ahead /\ ~cut /\ ~failed =>
        entries = Latest(source)

(***************************************************************************)
(* The same claim for every store.                                         *)
(***************************************************************************)
AnyTableIsLatest == ~others /\ CaughtUp => entries = Latest(source)

(***************************************************************************)
(* "On Open, the store replays just its own partition from offset 0 to     *)
(* rebuild in-memory state" (changelog.go:23-24): what a complete replay   *)
(* would give is the map, once the callers are done.                       *)
(***************************************************************************)
ReplayRebuilds ==
    kind = "changelog" /\ loop.state = "up" /\ ~failed /\ ~cut
            /\ (\A w \in DOMAIN put : ~put[w].busy)
        => Latest(changelog) = entries

(***************************************************************************)
(* ReplayRebuilds for callers that neither overlap on a key nor put an     *)
(* empty value.                                                            *)
(***************************************************************************)
ReplayRebuildsUnraced ==
    ~raced /\ (\A k \in DOMAIN entries : entries[k] # Empty) => ReplayRebuilds

=============================================================================
