----------------------------- MODULE EQSequence -----------------------------
(***************************************************************************)
(* The sequence numbers of an EQStream (source/common/EQStream.cpp): the   *)
(* arithmetic of uint16 counters and CompareSequence, which decides        *)
(* whether a number lies before, at or after the expected one.             *)
(***************************************************************************)
EXTENDS Integers

CONSTANTS
  Modulus,        \* 2^16: the range of a uint16
  MaxWindowSize   \* EQStream::MaxWindowSize, 2048

ASSUME SequenceAssumption ==
  /\ Modulus \in Nat \ {0}
  /\ MaxWindowSize \in Nat \ {0}
  /\ 2 * MaxWindowSize <= Modulus

Seq16 == 0..(Modulus - 1)

\* Variant: a counter wider than 16 bits.
AdvanceWide(seq, k) == seq + k

\* What a uint16 holds after `seq + k' is assigned to it.
Advance(seq, k) == (seq + k) % Modulus

\* uint16(to - from): how many increments lead from one number to the other.
Distance(from, to) == (to - from) % Modulus

\* The number NextOutSeq, starting from 0, gives to the n-th packet of a session.
SeqOf(n) == (n - 1) % Modulus

SeqOrder == {"SeqPast", "SeqInOrder", "SeqFuture"}

\* Variant: every smaller number is taken for one that wrapped.
LaterIfSmaller(expected, seq) ==
  \/ seq > expected /\ seq < expected + MaxWindowSize
  \/ seq < expected

\* The operands are promoted to int: neither comparison wraps, and the second
\* is false while the expected number is below the window.
Later(expected, seq) ==
  \/ seq > expected /\ seq < expected + MaxWindowSize
  \/ seq < expected - MaxWindowSize

CompareSequence(expected, seq) ==
  IF seq = expected THEN "SeqInOrder"
  ELSE IF Later(expected, seq) THEN "SeqFuture" ELSE "SeqPast"
=============================================================================
