------------------------- MODULE MCEQStreamFactory -------------------------
(* Instances of EQStreamFactory for TLC. *)
EXTENDS EQStreamFactory

CONSTANT a1

Peer1 == {a1}
=============================================================================
