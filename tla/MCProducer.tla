----------------------------- MODULE MCProducer -----------------------------
(***************************************************************************)
(* Values for Producer's constants that a configuration cannot write.      *)
(***************************************************************************)
EXTENDS Producer

CONSTANT o1

MCAlone == Rpc \X (1 .. Attempts)

MCWithOther == MCAlone \union {o1}

=============================================================================
