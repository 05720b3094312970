------------------------------- MODULE MCLog -------------------------------
(***************************************************************************)
(* A partition's storage: its segments (PartitionLog) and, below them, the *)
(* file, buffer and descriptor of one segment (SegmentFile).  They share   *)
(* no state; each behaviour runs the one that focus names, the other stays *)
(* as it was opened.  Keys are only compared for equality, so they are     *)
(* interchangeable.                                                        *)
(***************************************************************************)
EXTENDS PartitionLog

CONSTANT Reader

VARIABLES focus, file, pos, appendMode, buf, highWater, reading, opens

File == INSTANCE SegmentFile WITH ReadAhead <- 2, MaxOffset <- 7, MaxOpen <- 0

fileState == <<file, pos, appendMode, buf, highWater, reading, opens>>

MCInit ==
    /\ focus \in {"log", "file"}
    /\ Init
    /\ File!Init

MCNext ==
    \/ focus = "log" /\ Next /\ UNCHANGED <<focus, fileState>>
    \/ focus = "file" /\ File!Next /\ UNCHANGED <<focus, vars>>

MCSpec == MCInit /\ [][MCNext]_<<focus, vars, fileState>>

KeySymmetry == Permutations(Key)

(***************************************************************************)
(* See SegmentFile: the file and the buffer hold the log in order.         *)
(***************************************************************************)
FileHoldsLog == focus = "file" => File!FileHoldsLog

(***************************************************************************)
(* See SegmentFile: a read returns the records it was asked for.           *)
(***************************************************************************)
ReadsAreExact == focus = "file" => File!ReadsAreExact

=============================================================================
