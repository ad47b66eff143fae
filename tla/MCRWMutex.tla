----------------------------- MODULE MCRWMutex -----------------------------
(* An instance of RWMutex for TLC. *)
EXTENDS RWMutex

CONSTANTS t1, t2, t3

Threads == {t1, t2, t3}
=============================================================================
