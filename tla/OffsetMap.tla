----------------------------- MODULE OffsetMap ------------------------------
(***************************************************************************)
(* What an OffsetStore promises (groups.OffsetStore): one map from the     *)
(* committed slots to offsets, which changes only by what a call of Commit *)
(* or DeleteGroup that is under way is to write, and by that once.  A      *)
(* restart, a replay or a compaction changes nothing.  A call that fails   *)
(* or is cut off may have written a part.                                  *)
(***************************************************************************)
EXTENDS Integers

CONSTANTS
    Slot,         \* (group, topic, partition) triples
    Offsets,      \* the offsets committed for each slot
    Caller        \* goroutines that commit and delete

VARIABLES
    committed,    \* the offset of each slot
    pending       \* what each caller is still to write: offsets by slot

NoOffset == -1

Nothing == [k \in {} |-> NoOffset]

Init ==
    /\ committed = [k \in Slot |-> NoOffset]
    /\ pending = [c \in Caller |-> Nothing]

(***************************************************************************)
(* A call begins: Commit asks for one offset, DeleteGroup for the removal  *)
(* of several.                                                             *)
(***************************************************************************)
Begin(c, writes) ==
    /\ pending[c] = Nothing
    /\ pending' = [pending EXCEPT ![c] = writes]
    /\ UNCHANGED committed

Commit(c, k, v) == Begin(c, [l \in {k} |-> v])

DeleteGroup(c, slots) == Begin(c, [l \in slots |-> NoOffset])

Write(c, k) ==
    /\ k \in DOMAIN pending[c]
    /\ committed' = [committed EXCEPT ![k] = pending[c][k]]
    /\ pending' = [pending EXCEPT ![c] =
           [l \in DOMAIN pending[c] \ {k} |-> pending[c][l]]]

GiveUp(callers) ==
    /\ pending' = [c \in Caller |-> IF c \in callers THEN Nothing ELSE pending[c]]
    /\ UNCHANGED committed

Next ==
    \/ \E callers \in SUBSET Caller : GiveUp(callers)
    \/ \E c \in Caller, k \in Slot : \E v \in Offsets[k] : Commit(c, k, v)
    \/ \E c \in Caller, slots \in SUBSET Slot : DeleteGroup(c, slots)
    \/ \E c \in Caller, k \in Slot : Write(c, k)

Spec == Init /\ [][Next]_<<committed, pending>>

=============================================================================
