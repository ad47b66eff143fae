-------------------------- MODULE ReliableChannel --------------------------
(***************************************************************************)
(* What EQStream promises the two servers' code for the packets one        *)
(* endpoint pushes: the other endpoint's application gets each of them     *)
(* exactly once and in the order of the pushes.                            *)
(***************************************************************************)
EXTENDS Naturals, Sequences

CONSTANT First   \* the number of packets exchanged before

VARIABLES
  pushed,      \* how many packets have been pushed
  delivered    \* the packets handed to the application, oldest first

vars == <<pushed, delivered>>

Init ==
  /\ pushed = First
  /\ delivered = <<>>

Push ==
  /\ pushed' = pushed + 1
  /\ UNCHANGED delivered

Deliver ==
  /\ First + Len(delivered) < pushed
  /\ delivered' = Append(delivered, First + Len(delivered) + 1)
  /\ UNCHANGED pushed

Next == Push \/ Deliver

Spec == Init /\ [][Next]_vars
=============================================================================
