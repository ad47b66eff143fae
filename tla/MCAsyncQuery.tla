---------------------------- MODULE MCAsyncQuery ----------------------------
(* Instances of AsyncQuery for TLC. *)
EXTENDS AsyncQuery, TLC

CONSTANTS c1, c2, p1, p2, q1, q2, q3

\* One thread writes three queries of one character.
Three == {q1, q2, q3}
OfOne == q1 :> c1 @@ q2 :> c1 @@ q3 :> c1
ByOne == q1 :> p1 @@ q2 :> p1 @@ q3 :> p1

\* Two threads write a query of the same character each.
Two == {q1, q2}
SharedByTwo == q1 :> c1 @@ q2 :> c1
ByTwo == q1 :> p1 @@ q2 :> p2
=============================================================================
