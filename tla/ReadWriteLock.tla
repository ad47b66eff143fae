--------------------------- MODULE ReadWriteLock ---------------------------
(***************************************************************************)
(* What a Mutex promises whoever guards a container with it: any number of *)
(* read sections, nested or of several threads, or one write section.      *)
(* Sections begin and end in one step.                                     *)
(***************************************************************************)
EXTENDS Naturals

CONSTANTS Thread, None

VARIABLES
  share,    \* the read sections each thread is in
  writer    \* the thread in its write section, or None

vars == <<share, writer>>

Init ==
  /\ share = [t \in Thread |-> 0]
  /\ writer = None

BeginRead(t) ==
  /\ writer = None
  /\ share' = [share EXCEPT ![t] = @ + 1]
  /\ UNCHANGED writer

EndRead(t) ==
  /\ share[t] > 0
  /\ share' = [share EXCEPT ![t] = @ - 1]
  /\ UNCHANGED writer

BeginWrite(t) ==
  /\ writer = None
  /\ \A u \in Thread : share[u] = 0
  /\ writer' = t
  /\ UNCHANGED share

EndWrite ==
  /\ writer # None
  /\ writer' = None
  /\ UNCHANGED share

Next == EndWrite \/ \E t \in Thread : BeginRead(t) \/ EndRead(t) \/ BeginWrite(t)

Spec == Init /\ [][Next]_vars
=============================================================================
