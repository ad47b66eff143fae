---------------------------- MODULE WriteBehind ----------------------------
(***************************************************************************)
(* What the server's threads are promised of an asynchronous query: it is  *)
(* not run before it has been submitted, nor more than once.  AsyncQuery   *)
(* keeps the promise.                                                      *)
(***************************************************************************)
EXTENDS Naturals

CONSTANTS Queries

VARIABLES submitted, applied

TypeOK ==
  /\ submitted \subseteq Queries
  /\ applied \in [Queries -> Nat]

Init ==
  /\ submitted = {}
  /\ applied = [q \in Queries |-> 0]

Submit(q) ==
  /\ q \notin submitted
  /\ submitted' = submitted \cup {q}
  /\ UNCHANGED applied

Apply(q) ==
  /\ q \in submitted
  /\ applied[q] = 0
  /\ applied' = [applied EXCEPT ![q] = 1]
  /\ UNCHANGED submitted

Next == \E q \in Queries : Submit(q) \/ Apply(q)

Spec == Init /\ [][Next]_<<submitted, applied>>
=============================================================================
