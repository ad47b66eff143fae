------------------------------ MODULE MCLogin ------------------------------
(* Instances of Login for TLC. *)
EXTENDS Login

\* The third connection is made with a program of another version.
TwoVersions == <<1, 1, 2>>
=============================================================================
