--------------------------- MODULE MCEQTransport ---------------------------
(* Instances of EQTransport for TLC: the constants are numbers, given in the *)
(* configurations.                                                           *)
EXTENDS EQTransport
=============================================================================
