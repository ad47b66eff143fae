------------------------- MODULE EQTransportProofs -------------------------
(***************************************************************************)
(* EQTransport delivers every packet once and in order, for every modulus, *)
(* window, number of packets, network capacity and combining limit, as     *)
(* long as packets stay within a window (WithinWindow).                    *)
(*                                                                         *)
(* The argument: every sequence number anywhere is the one its packet was  *)
(* pushed with, the packets the reader looks at are between a window late  *)
(* and a window early, so CompareSequence tells their true order           *)
(* (WindowExact), and what is kept for later is later.                     *)
(* The same holds of acknowledgements at the pushing endpoint: one that is *)
(* compared as past does nothing, and any other releases or marks nothing  *)
(* beyond the packet it answers, which was delivered (AckInv).             *)
(***************************************************************************)
EXTENDS EQTransport, SequenceTheorems, TLAPS

-----------------------------------------------------------------------------
(* The uint16 arithmetic, for every modulus and window that fit together *)

\* Division with remainder.
LEMMA DivMod ==
  ASSUME NEW a \in Int
  PROVE  /\ a % Modulus \in Seq16
         /\ a \div Modulus \in Int
         /\ a = Modulus * (a \div Modulus) + (a % Modulus)
BY SequenceAssumption DEF Seq16

\* Quotient and remainder are unique.
LEMMA DivModUnique ==
  ASSUME NEW q \in Int, NEW p \in Int, NEW r \in Seq16, NEW s \in Seq16,
         Modulus * q + r = Modulus * p + s
  PROVE  q = p /\ r = s
<1> USE SequenceAssumption DEF Seq16
<1>1. Modulus * (q - p) = s - r
  OBVIOUS
<1>2. CASE q - p >= 1
  <2>1. Modulus * (q - p) >= Modulus
    BY <1>2
  <2>. QED  BY <2>1, <1>1
<1>3. CASE q - p <= -1
  <2>1. Modulus * (q - p) <= -Modulus
    BY <1>3
  <2>. QED  BY <2>1, <1>1
<1>. QED  BY <1>1, <1>2, <1>3

\* A number written as a multiple of the modulus and a remainder.
LEMMA ModOf ==
  ASSUME NEW q \in Int, NEW r \in Seq16, NEW a \in Int, a = Modulus * q + r
  PROVE  a % Modulus = r
BY DivMod, DivModUnique, SequenceAssumption DEF Seq16

\* A uint16 counter may be reduced at every increment or once at the end.
LEMMA ModAdd ==
  ASSUME NEW a \in Int, NEW b \in Int
  PROVE  ((a % Modulus) + b) % Modulus = (a + b) % Modulus
<1> DEFINE q == a \div Modulus
           r == a % Modulus
           p == (r + b) \div Modulus
           s == (r + b) % Modulus
<1>1. a = Modulus * q + r /\ q \in Int /\ r \in Seq16
  BY DivMod
<1>2. r + b \in Int
  BY <1>1, SequenceAssumption DEF Seq16
<1>3. r + b = Modulus * p + s /\ p \in Int /\ s \in Seq16
  BY <1>2, DivMod
<1> HIDE DEF q, r, p, s
<1>4. Modulus * (q + p) = Modulus * q + Modulus * p /\ q + p \in Int
  BY <1>1, <1>3, SequenceAssumption
<1>5. a + b = Modulus * (q + p) + s
  BY <1>1, <1>2, <1>3, <1>4, SequenceAssumption DEF Seq16
<1>6. (a + b) % Modulus = s
  <2>1. a + b \in Int
    OBVIOUS
  <2>. QED  BY <2>1, <1>3, <1>4, <1>5, ModOf
<1>. QED  BY <1>6 DEF s, r

\* Every number a counter can hold is one.
LEMMA SeqOfType ==
  ASSUME NEW n \in Int
  PROVE  SeqOf(n) \in Seq16
BY DivMod DEF SeqOf

LEMMA AdvanceType ==
  ASSUME NEW s \in Seq16, NEW k \in Int
  PROVE  Advance(s, k) \in Seq16
<1>1. s + k \in Int
  BY SequenceAssumption DEF Seq16
<1>. QED  BY <1>1, DivMod DEF Advance

\* k increments after the n-th packet comes the number of the (n + k)-th.
LEMMA AdvanceSeqOf ==
  ASSUME NEW n \in Int, NEW k \in Int
  PROVE  Advance(SeqOf(n), k) = SeqOf(n + k)
<1>1. n - 1 \in Int /\ (n - 1) + k = (n + k) - 1
  OBVIOUS
<1>2. (((n - 1) % Modulus) + k) % Modulus = ((n - 1) + k) % Modulus
  BY <1>1, ModAdd
<1>. QED  BY <1>1, <1>2 DEF Advance, SeqOf

\* The distance between two numbers is what leads from one to the other.
LEMMA AdvanceDistance ==
  ASSUME NEW from \in Seq16, NEW to \in Seq16
  PROVE  Distance(from, to) \in Seq16 /\ Advance(from, Distance(from, to)) = to
<1>1. from \in Int /\ to \in Int /\ to - from \in Int
  BY SequenceAssumption DEF Seq16
<1>2. Distance(from, to) \in Seq16
  BY <1>1, DivMod DEF Distance
<1>3. (((to - from) % Modulus) + from) % Modulus = ((to - from) + from) % Modulus
  BY <1>1, ModAdd
<1>4. to % Modulus = to
  <2>1. to = Modulus * 0 + to
    BY <1>1, SequenceAssumption
  <2>. QED  BY <1>1, <2>1, ModOf
<1>5. (to - from) + from = to
  BY <1>1
<1>6. Distance(from, to) + from = from + Distance(from, to)
  BY <1>1, <1>2, SequenceAssumption DEF Seq16
<1>. QED  BY <1>2, <1>3, <1>4, <1>5, <1>6 DEF Advance, Distance

\* CompareSequence, between the packet expected (the n-th) and one that is at
\* most MaxWindowSize behind it or less than MaxWindowSize ahead of it (the
\* k-th), says which comes first, wherever the numbers wrap.
THEOREM WindowExact ==
  ASSUME NEW n \in Int, NEW k \in Int,
         k - n >= -MaxWindowSize, k - n < MaxWindowSize
  PROVE  /\ CompareSequence(SeqOf(n), SeqOf(k)) = "SeqInOrder" <=> k = n
         /\ CompareSequence(SeqOf(n), SeqOf(k)) = "SeqFuture" <=> k > n
         /\ CompareSequence(SeqOf(n), SeqOf(k)) = "SeqPast" <=> k < n
<1> DEFINE q == (n - 1) \div Modulus
           e == (n - 1) % Modulus
           p == (k - 1) \div Modulus
           s == (k - 1) % Modulus
<1>0. n - 1 \in Int /\ k - 1 \in Int
  OBVIOUS
<1>1. n - 1 = Modulus * q + e /\ q \in Int /\ e \in Seq16
  BY <1>0, DivMod
<1>2. k - 1 = Modulus * p + s /\ p \in Int /\ s \in Seq16
  BY <1>0, DivMod
<1> HIDE DEF q, e, p, s
<1>3. Modulus * (p - q) = (k - n) - (s - e) /\ p - q \in Int
  BY <1>1, <1>2, SequenceAssumption DEF Seq16
<1>4. p - q \in {-1, 0, 1}
  <2>1. CASE p - q >= 2
    <3>1. Modulus * (p - q) >= 2 * Modulus
      BY <2>1, <1>3, SequenceAssumption
    <3>. QED  BY <3>1, <1>1, <1>2, <1>3, SequenceAssumption DEF Seq16
  <2>2. CASE p - q <= -2
    <3>1. Modulus * (p - q) <= -(2 * Modulus)
      BY <2>2, <1>3, SequenceAssumption
    <3>. QED  BY <3>1, <1>1, <1>2, <1>3, SequenceAssumption DEF Seq16
  <2>. QED  BY <2>1, <2>2, <1>3
<1>5. k - n = (s - e) \/ k - n = (s - e) + Modulus \/ k - n = (s - e) - Modulus
  BY <1>1, <1>2, <1>3, <1>4, SequenceAssumption DEF Seq16
<1>6. /\ s = e <=> k = n
      /\ s # e => (Later(e, s) <=> k > n)
  BY <1>1, <1>2, <1>5, SequenceAssumption DEF Seq16, Later
<1>7. SeqOf(n) = e /\ SeqOf(k) = s
  BY DEF SeqOf, e, s
<1>. QED  BY <1>6, <1>7 DEF CompareSequence

-----------------------------------------------------------------------------
(* The invariant *)

\* The three counters hold the number of the packet they stand for, and nothing
\* is acknowledged before something arrived.
Numbered ==
  /\ nextOutSeq = SeqOf(pushed + 1)
  /\ sequencedBase = SeqOf(Oldest)
  /\ nextInSeq = SeqOf(LastDelivered + 1)
  /\ nextAckToSend = -1 => lastAckSent = -1

\* The queue holds the last packets pushed, in order.
QueueIds ==
  /\ Len(queue) <= pushed - Exchanged
  /\ \A i \in 1..Len(queue) : queue[i].id = Oldest + i - 1

\* The receiver is behind the pushing side, by MaxAhead at most.
Ahead == LastDelivered <= pushed /\ pushed - LastDelivered <= MaxAhead

\* A run of neighbouring packets, as Write combines them.
Run(d) ==
  \A i \in 1..Len(d) :
    /\ d[i].seq = SeqOf(d[i].id)
    /\ d[i].id <= pushed
    /\ d[i].id = d[1].id + i - 1

NetRuns == \A d \in toReceiver : Run(d)

InboxRun == Run(inbox) /\ FreshData(inbox)

\* What is kept is numbered right, is later than everything delivered and was
\* pushed.
Kept ==
  \A s \in DOMAIN outOfOrder :
    /\ s = SeqOf(outOfOrder[s])
    /\ LastDelivered < outOfOrder[s]
    /\ outOfOrder[s] <= pushed

IInv ==
  /\ TypeOK
  /\ Numbered
  /\ QueueIds
  /\ Ahead
  /\ NetRuns
  /\ InboxRun
  /\ Kept
  /\ InOrderOnce

-----------------------------------------------------------------------------
\* The numbers packets and counters take are integers.
LEMMA Integral ==
  ASSUME TypeOK
  PROVE  /\ pushed \in Nat /\ Len(queue) \in Nat /\ Len(delivered) \in Nat
         /\ Oldest \in Int /\ LastDelivered \in Nat
         /\ Id \subseteq Nat
         /\ Seq16 \subseteq Nat
BY TransportAssumption, SequenceAssumption
   DEF TypeOK, Oldest, LastDelivered, Id, Seq16

\* So are the numbers of packets under way and kept.
LEMMA PacketType ==
  ASSUME TypeOK
  PROVE  /\ \A d \in toReceiver : \A i \in 1..Len(d) : d[i] \in DataPacket /\ d[i].id \in Nat
         /\ \A i \in 1..Len(inbox) : inbox[i] \in DataPacket /\ inbox[i].id \in Nat
         /\ \A s \in DOMAIN outOfOrder : outOfOrder[s] \in Nat
<1>1. \A p \in DataPacket : p.id \in Nat
  BY Integral DEF DataPacket
<1>2. ASSUME NEW d \in Seq(DataPacket), NEW i \in 1..Len(d)
      PROVE  d[i] \in DataPacket
  OBVIOUS
<1>3. \A d \in toReceiver : d \in Seq(DataPacket)
  BY DEF TypeOK
<1>4. inbox \in Seq(DataPacket)
  BY DEF TypeOK
<1>5. \A s \in DOMAIN outOfOrder : outOfOrder[s] \in Nat
  BY Integral DEF TypeOK
<1>. QED  BY <1>1, <1>2, <1>3, <1>4, <1>5

\* A function on the positions of a queue is a queue of the same length.
LEMMA Positions ==
  ASSUME NEW S, NEW n \in Nat, NEW f \in [1..n -> S]
  PROVE  f \in Seq(S) /\ Len(f) = n
OBVIOUS

\* Marking packets of the queue neither moves nor renames them.
LEMMA MarkQueue ==
  ASSUME TypeOK, QueueIds, pushed' = pushed,
         DOMAIN queue' = DOMAIN queue, queue' \in [DOMAIN queue -> Entry],
         \A i \in DOMAIN queue : queue'[i].id = queue[i].id
  PROVE  queue' \in Seq(Entry) /\ Len(queue') = Len(queue) /\ Oldest' = Oldest /\ QueueIds'
<1>1. DOMAIN queue = 1..Len(queue) /\ Len(queue) \in Nat
  BY DEF TypeOK
<1>2. queue' \in Seq(Entry) /\ Len(queue') = Len(queue)
  BY <1>1, Positions
<1>. QED  BY <1>1, <1>2 DEF QueueIds, Oldest

LEMMA FlagEntries ==
  ASSUME TypeOK, NEW positions
  PROVE  /\ Flag(queue, positions) \in [DOMAIN queue -> Entry]
         /\ \A i \in DOMAIN queue : Flag(queue, positions)[i].id = queue[i].id
<1>1. \A i \in DOMAIN queue : queue[i] \in Entry
  BY DEF TypeOK
<1>. QED  BY <1>1 DEF Flag, Entry

-----------------------------------------------------------------------------
\* The initial session.
LEMMA InitIInv == Init => IInv
<1> SUFFICES ASSUME Init PROVE IInv
  OBVIOUS
<1> USE TransportAssumption, SequenceAssumption
<1>1. SeqOf(Exchanged + 1) \in Seq16 /\ SeqOf(Exchanged) \in Seq16
  BY SeqOfType
<1>2. TypeOK
  BY <1>1 DEF Init, TypeOK, Seq16
<1>3. Oldest = Exchanged + 1 /\ LastDelivered = Exchanged
  BY DEF Init, Oldest, LastDelivered
<1>. QED
  BY <1>1, <1>2, <1>3 DEF Init, IInv, Numbered, QueueIds, Ahead, NetRuns, InboxRun, Run,
     FreshData, Kept, InOrderOnce

\* SequencedPush appends the next packet.
LEMMA PushStep == ASSUME IInv, SequencedPush PROVE IInv'
<1> USE TransportAssumption, SequenceAssumption
<1> DEFINE e == [id |-> pushed + 1, sent |-> FALSE, acked |-> FALSE]
<1>0. /\ pushed \in Nat /\ Len(queue) \in Nat /\ LastDelivered \in Nat /\ Oldest \in Int
      /\ queue \in Seq(Entry)
  BY Integral DEF IInv, TypeOK
<1>1. e \in Entry
  BY <1>0 DEF SequencedPush, Entry, Id, IInv, TypeOK
<1>2. /\ queue' = Append(queue, e) /\ pushed' = pushed + 1
      /\ UNCHANGED <<sequencedBase, delivered, nextInSeq, outOfOrder, inbox, nextAckToSend,
                     lastAckSent, toReceiver, toSender>>
  BY DEF SequencedPush, receiver
<1>3. queue' \in Seq(Entry) /\ Len(queue') = Len(queue) + 1
  BY <1>0, <1>1, <1>2
<1>4. nextOutSeq' = SeqOf(pushed' + 1) /\ nextOutSeq' \in Seq16
  BY <1>0, <1>2, AdvanceSeqOf, SeqOfType DEF SequencedPush, IInv, Numbered
<1>5. LastDelivered' = LastDelivered /\ Oldest' = Oldest
  BY <1>0, <1>2, <1>3 DEF LastDelivered, Oldest
<1>6. TypeOK'
  BY <1>0, <1>2, <1>3, <1>4 DEF IInv, TypeOK, SequencedPush
<1>7. QueueIds'
  <2>1. \A i \in 1..Len(queue) : queue'[i] = queue[i]
    BY <1>0, <1>1, <1>2
  <2>2. queue'[Len(queue) + 1].id = pushed + 1
    BY <1>0, <1>1, <1>2
  <2>3. pushed + 1 = Oldest + (Len(queue) + 1) - 1
    BY <1>0 DEF Oldest
  <2>4. ASSUME NEW i \in 1..Len(queue') PROVE queue'[i].id = Oldest + i - 1
    <3>1. CASE i \in 1..Len(queue)
      BY <3>1, <2>1 DEF IInv, QueueIds
    <3>2. CASE i = Len(queue) + 1
      BY <3>2, <2>2, <2>3
    <3>. QED  BY <1>0, <1>3, <3>1, <3>2
  <2>5. Len(queue') <= pushed' - Exchanged
    BY <1>0, <1>2, <1>3 DEF IInv, QueueIds
  <2>. QED  BY <1>5, <2>4, <2>5 DEF QueueIds
<1>8. Numbered' /\ Ahead'
  BY <1>0, <1>2, <1>4, <1>5 DEF IInv, Numbered, Ahead, SequencedPush
<1>9. NetRuns' /\ InboxRun' /\ Kept' /\ InOrderOnce'
  <2>1. NetRuns'
    BY <1>0, <1>2, PacketType DEF IInv, NetRuns, Run
  <2>2. InboxRun'
    BY <1>0, <1>2, <1>5, PacketType DEF IInv, InboxRun, Run, FreshData
  <2>3. Kept'
    BY <1>0, <1>2, <1>5, PacketType DEF IInv, Kept
  <2>4. InOrderOnce'
    BY <1>2 DEF IInv, InOrderOnce
  <2>. QED  BY <2>1, <2>2, <2>3, <2>4
<1>. QED  BY <1>6, <1>7, <1>8, <1>9 DEF IInv

\* Steps that mark packets of the queue and touch nothing else of the endpoint.
LEMMA MarkStep ==
  ASSUME IInv, UNCHANGED <<pushed, sequencedBase, nextOutSeq>>, UNCHANGED receiver,
         DOMAIN queue' = DOMAIN queue, queue' \in [DOMAIN queue -> Entry],
         \A i \in DOMAIN queue : queue'[i].id = queue[i].id
  PROVE  /\ queue' \in Seq(Entry)
         /\ Numbered' /\ QueueIds' /\ Ahead' /\ InboxRun' /\ Kept' /\ InOrderOnce'
<1>1. queue' \in Seq(Entry) /\ Oldest' = Oldest /\ QueueIds'
  BY MarkQueue DEF IInv
<1>2. LastDelivered' = LastDelivered
  BY DEF LastDelivered, receiver
<1>3. Numbered' /\ Ahead'
  BY <1>1, <1>2 DEF IInv, Numbered, Ahead, receiver
<1>4. InboxRun'
  BY <1>2 DEF IInv, InboxRun, Run, FreshData, receiver
<1>5. Kept' /\ InOrderOnce'
  BY <1>2 DEF IInv, Kept, InOrderOnce, receiver
<1>. QED  BY <1>1, <1>3, <1>4, <1>5

\* Write sends a run of packets of the queue.
LEMMA WriteStep ==
  ASSUME IInv, NEW first \in DOMAIN queue, NEW last \in DOMAIN queue, first <= last,
         Write(first, last)
  PROVE  IInv'
<1> USE TransportAssumption, SequenceAssumption
<1> DEFINE n == last - first + 1
           d == [i \in 1..n |->
                   [seq |-> Advance(sequencedBase, first + i - 2), id |-> queue[first + i - 1].id]]
<1>0. /\ pushed \in Nat /\ Len(queue) \in Nat /\ Oldest \in Int
      /\ queue \in Seq(Entry) /\ DOMAIN queue = 1..Len(queue)
  BY Integral DEF IInv, TypeOK
<1>1. \A i \in DOMAIN queue : queue[i] \in Entry
  BY <1>0
<1>2. /\ DOMAIN queue' = DOMAIN queue
      /\ queue' \in [DOMAIN queue -> Entry]
      /\ \A i \in DOMAIN queue : queue'[i].id = queue[i].id
  BY <1>1 DEF Write, Entry
<1>3. /\ UNCHANGED <<pushed, sequencedBase, nextOutSeq, toSender>> /\ UNCHANGED receiver
      /\ toReceiver' = toReceiver \cup {d}
  BY DEF Write
<1>4. /\ queue' \in Seq(Entry)
      /\ Numbered' /\ QueueIds' /\ Ahead' /\ InboxRun' /\ Kept' /\ InOrderOnce'
  BY <1>2, <1>3, MarkStep
<1>5. n \in Nat \ {0} /\ first \in Nat
  BY <1>0
<1>a. ASSUME NEW i \in 1..n
      PROVE  d[i] = [seq |-> Advance(sequencedBase, first + i - 2), id |-> queue[first + i - 1].id]
  OBVIOUS
<1> HIDE DEF d
<1>6. ASSUME NEW i \in 1..n
      PROVE  /\ d[i] \in DataPacket
             /\ d[i].id = Oldest + first + i - 2
             /\ d[i].seq = SeqOf(d[i].id)
             /\ d[i].id <= pushed
  <2>0. i \in Int /\ first + i - 2 \in Int
    BY <1>5
  <2>1. first + i - 1 \in 1..Len(queue)
    BY <1>0, <1>5
  <2>2. queue[first + i - 1].id = Oldest + (first + i - 1) - 1 /\ queue[first + i - 1].id \in Id
    BY <1>0, <1>1, <2>1 DEF IInv, QueueIds, Entry
  <2>3. Advance(sequencedBase, first + i - 2) = SeqOf(Oldest + (first + i - 2))
    BY <1>0, <2>0, AdvanceSeqOf DEF IInv, Numbered
  <2>4. SeqOf(Oldest + (first + i - 2)) \in Seq16
    BY <1>0, <1>5, SeqOfType
  <2>5. Oldest + (first + i - 1) - 1 = Oldest + (first + i - 2)
    BY <1>0, <1>5
  <2>6. queue[first + i - 1].id <= pushed
    BY <1>0, <1>5, <2>1, <2>2 DEF Oldest
  <2>a. d[i] = [seq |-> Advance(sequencedBase, first + i - 2), id |-> queue[first + i - 1].id]
    BY <1>a
  <2>7. d[i].id = queue[first + i - 1].id /\ d[i].seq = Advance(sequencedBase, first + i - 2)
    BY <2>a
  <2>8. d[i].id = Oldest + first + i - 2
    BY <1>0, <1>5, <2>0, <2>2, <2>7
  <2>9. d[i].seq = SeqOf(d[i].id)
    BY <2>2, <2>3, <2>5, <2>7
  <2>10. d[i] \in DataPacket
    BY <2>a, <2>2, <2>3, <2>4 DEF DataPacket
  <2>. QED  BY <2>6, <2>7, <2>8, <2>9, <2>10
<1>7. d \in Seq(DataPacket) /\ Len(d) = n
  <2>1. d \in [1..n -> DataPacket]
    BY <1>6 DEF d
  <2> HIDE DEF n
  <2>. QED  BY <1>5, <2>1, Positions
<1>8. Run(d)
  <2>1. 1 \in 1..n
    BY <1>5
  <2>2. d[1].id = Oldest + first + 1 - 2
    BY <1>6, <2>1
  <2>3. ASSUME NEW i \in 1..n PROVE d[i].id = d[1].id + i - 1
    BY <1>0, <1>5, <1>6, <2>2
  <2>. QED  BY <1>6, <1>7, <2>3 DEF Run
<1>9. NetRuns'
  BY <1>3, <1>8 DEF IInv, NetRuns, Run
<1>10. TypeOK'
  <2>1. d # <<>>
    BY <1>5, <1>7
  <2>. QED  BY <1>3, <1>4, <1>7, <2>1 DEF IInv, TypeOK, receiver
<1>. QED  BY <1>4, <1>9, <1>10 DEF IInv

\* Decay flags packets of the queue.
LEMMA DecayStep == ASSUME IInv, NEW positions, Decay(positions) PROVE IInv'
<1>1. /\ UNCHANGED <<pushed, sequencedBase, nextOutSeq, toReceiver, toSender>>
      /\ UNCHANGED receiver
      /\ queue' = Flag(queue, positions)
  BY DEF Decay
<1>2. /\ DOMAIN queue' = DOMAIN queue
      /\ queue' \in [DOMAIN queue -> Entry]
      /\ \A i \in DOMAIN queue : queue'[i].id = queue[i].id
  BY <1>1, FlagEntries DEF IInv, Flag
<1>3. /\ queue' \in Seq(Entry)
      /\ Numbered' /\ QueueIds' /\ Ahead' /\ InboxRun' /\ Kept' /\ InOrderOnce'
  BY <1>1, <1>2, MarkStep
<1>4. NetRuns'
  BY <1>1 DEF IInv, NetRuns, Run
<1>5. TypeOK'
  BY <1>1, <1>3 DEF IInv, TypeOK, receiver
<1>. QED  BY <1>3, <1>4, <1>5 DEF IInv

\* OP_OutOfOrderAck marks one packet and flags others.
LEMMA OutOfOrderAckStep == ASSUME IInv, NEW m \in toSender, ReceiveOutOfOrderAck(m) PROVE IInv'
<1> DEFINE index == Distance(sequencedBase, m.seq) + 1
<1>1. /\ UNCHANGED <<pushed, sequencedBase, nextOutSeq, toReceiver>>
      /\ UNCHANGED receiver
      /\ toSender' \subseteq toSender
  BY DEF ReceiveOutOfOrderAck, Received
<1>2. /\ DOMAIN queue' = DOMAIN queue
      /\ queue' \in [DOMAIN queue -> Entry]
      /\ \A i \in DOMAIN queue : queue'[i].id = queue[i].id
  <2>1. CASE UNCHANGED queue
    <3>1. queue \in [DOMAIN queue -> Entry]
      BY DEF IInv, TypeOK
    <3>. QED  BY <2>1, <3>1
  <2>2. ASSUME NEW positions,
               queue' = [Flag(queue, positions) EXCEPT ![index].acked = TRUE]
        PROVE  /\ DOMAIN queue' = DOMAIN queue
               /\ queue' \in [DOMAIN queue -> Entry]
               /\ \A i \in DOMAIN queue : queue'[i].id = queue[i].id
    <3> DEFINE f == Flag(queue, positions)
    <3>1. f \in [DOMAIN queue -> Entry] /\ \A i \in DOMAIN queue : f[i].id = queue[i].id
      BY FlagEntries DEF IInv
    <3>2. queue' = [f EXCEPT ![index].acked = TRUE]
      BY <2>2
    <3> HIDE DEF f, index
    <3>. QED  BY <3>1, <3>2 DEF Entry
  <2>. QED  BY <2>1, <2>2 DEF ReceiveOutOfOrderAck
<1>3. /\ queue' \in Seq(Entry)
      /\ Numbered' /\ QueueIds' /\ Ahead' /\ InboxRun' /\ Kept' /\ InOrderOnce'
  BY <1>1, <1>2, MarkStep
<1>4. NetRuns'
  BY <1>1 DEF IInv, NetRuns, Run
<1>5. TypeOK'
  BY <1>1, <1>3 DEF IInv, TypeOK, receiver
<1>. QED  BY <1>3, <1>4, <1>5 DEF IInv

\* AckPackets releases packets from the front, whatever the ack says.
LEMMA AckStep == ASSUME IInv, NEW m \in toSender, ReceiveAck(m) PROVE IInv'
<1> USE TransportAssumption, SequenceAssumption
<1>0. /\ pushed \in Nat /\ Len(queue) \in Nat /\ Oldest \in Int
      /\ queue \in Seq(Entry) /\ sequencedBase \in Seq16 /\ m.seq \in Seq16
  BY Integral DEF IInv, TypeOK, Reply
<1>1. /\ UNCHANGED <<pushed, nextOutSeq, toReceiver>>
      /\ UNCHANGED receiver
      /\ toSender' \subseteq toSender
      /\ AckPackets(m.seq)
  BY DEF ReceiveAck, Received
<1>2. LastDelivered' = LastDelivered
  BY <1>1 DEF LastDelivered, receiver
<1>3. queue' \in Seq(Entry) /\ QueueIds' /\ sequencedBase' = SeqOf(Oldest')
  <2>1. CASE UNCHANGED <<queue, sequencedBase>>
    BY <1>0, <1>1, <2>1 DEF IInv, QueueIds, Numbered, Oldest
  <2>2. CASE Release(m.seq)
    <3> DEFINE c == Distance(sequencedBase, m.seq) + 1
    <3>0. c \in Nat \ {0} /\ Advance(sequencedBase, c - 1) = m.seq
      <4>1. Distance(sequencedBase, m.seq) \in Seq16
        BY <1>0, AdvanceDistance
      <4>2. Distance(sequencedBase, m.seq) \in Nat
        BY <4>1 DEF Seq16
      <4>. QED  BY <1>0, <4>2, AdvanceDistance
    <3>a. \/ /\ c <= Len(queue)
             /\ queue' = SubSeq(queue, c + 1, Len(queue))
             /\ sequencedBase' = Advance(m.seq, 1)
          \/ /\ c > Len(queue)
             /\ queue' = <<>>
             /\ sequencedBase' = nextOutSeq
      BY <2>2 DEF Release
    <3> HIDE DEF c
    <3>1. CASE c <= Len(queue)
      <4>1. /\ queue' \in Seq(Entry) /\ Len(queue') = Len(queue) - c
            /\ \A i \in 1..Len(queue') : queue'[i] = queue[i + c]
        <5>1. /\ c + 1 \in 1..(Len(queue) + 1)
              /\ Len(queue) \in c..Len(queue)
              /\ queue' = SubSeq(queue, c + 1, Len(queue))
          BY <1>0, <3>0, <3>a, <3>1
        <5>2. /\ queue' \in Seq(Entry)
              /\ Len(queue') = IF c + 1 <= Len(queue) THEN Len(queue) - (c + 1) + 1 ELSE 0
              /\ \A i \in 1..(Len(queue) - (c + 1) + 1) : queue'[i] = queue[(c + 1) + i - 1]
          BY <1>0, <3>0, <3>1, <5>1, SubSeqProperties
        <5>3. Len(queue') = Len(queue) - c
          BY <1>0, <3>0, <3>1, <5>2
        <5>4. ASSUME NEW i \in 1..Len(queue') PROVE queue'[i] = queue[i + c]
          <6>1. i \in 1..(Len(queue) - (c + 1) + 1) /\ (c + 1) + i - 1 = i + c
            BY <1>0, <3>0, <5>3
          <6>. QED  BY <5>2, <6>1
        <5>. QED  BY <5>2, <5>3, <5>4
      <4>2. Oldest' = Oldest + c
        BY <1>0, <1>1, <3>0, <4>1 DEF Oldest
      <4>3. m.seq = SeqOf(Oldest + (c - 1))
        BY <1>0, <3>0, AdvanceSeqOf DEF IInv, Numbered
      <4>4. Advance(m.seq, 1) = SeqOf(Oldest + (c - 1) + 1)
        BY <1>0, <3>0, <4>3, AdvanceSeqOf
      <4>5. sequencedBase' = SeqOf(Oldest')
        BY <1>0, <3>0, <3>a, <3>1, <4>2, <4>4
      <4>6. ASSUME NEW i \in 1..Len(queue') PROVE queue'[i].id = Oldest' + i - 1
        <5>1. i + c \in 1..Len(queue) /\ i \in Int
          BY <1>0, <3>0, <3>1, <4>1
        <5>2. queue[i + c].id = Oldest + (i + c) - 1
          BY <5>1 DEF IInv, QueueIds
        <5>. QED  BY <1>0, <3>0, <4>1, <4>2, <5>1, <5>2
      <4>7. Len(queue') <= pushed' - Exchanged
        BY <1>0, <1>1, <3>0, <4>1 DEF IInv, QueueIds
      <4>. QED  BY <4>1, <4>5, <4>6, <4>7 DEF QueueIds
    <3>2. CASE c > Len(queue)
      <4>1. queue' = <<>> /\ sequencedBase' = nextOutSeq
        BY <1>0, <3>0, <3>a, <3>2
      <4>2. Oldest' = pushed + 1
        BY <1>0, <1>1, <4>1 DEF Oldest
      <4>3. pushed' - Exchanged >= 0
        BY <1>0, <1>1 DEF IInv, TypeOK
      <4>. QED  BY <4>1, <4>2, <4>3 DEF IInv, Numbered, QueueIds
    <3>. QED  BY <1>0, <3>0, <3>1, <3>2
  <2>. QED  BY <1>1, <2>1, <2>2 DEF AckPackets
<1>4. sequencedBase' \in Seq16
  BY <1>0, <1>1, AdvanceType DEF AckPackets, Release, IInv, TypeOK
<1>5. Numbered' /\ Ahead'
  BY <1>1, <1>2, <1>3 DEF IInv, Numbered, Ahead, receiver
<1>6. NetRuns' /\ InboxRun' /\ Kept' /\ InOrderOnce'
  BY <1>1, <1>2 DEF IInv, NetRuns, InboxRun, Run, FreshData, Kept, InOrderOnce, receiver
<1>7. TypeOK'
  BY <1>1, <1>3, <1>4 DEF IInv, TypeOK, receiver
<1>. QED  BY <1>3, <1>5, <1>6, <1>7 DEF IInv

-----------------------------------------------------------------------------
\* A packet that is at most a window late and was pushed: CompareSequence
\* compares it rightly with the one expected.
LEMMA OrderOfPacket ==
  ASSUME WithinWindow, IInv, NEW p \in DataPacket,
         p.seq = SeqOf(p.id), p.id <= pushed, LastDelivered + 1 - p.id <= Lifetime
  PROVE  /\ CompareSequence(nextInSeq, p.seq) = "SeqInOrder" => p.id = LastDelivered + 1
         /\ CompareSequence(nextInSeq, p.seq) = "SeqFuture" => p.id > LastDelivered + 1
         /\ CompareSequence(nextInSeq, p.seq) = "SeqPast" => p.id <= LastDelivered
<1> USE TransportAssumption, SequenceAssumption
<1> DEFINE k == p.id
           n == LastDelivered
<1>1. /\ k \in Int /\ n \in Int /\ n + 1 \in Int /\ pushed \in Int
      /\ MaxAhead \in Int /\ Lifetime \in Int /\ MaxWindowSize \in Int
  BY Integral DEF IInv, DataPacket
<1>2. /\ k <= pushed /\ n + 1 - k <= Lifetime /\ pushed - n <= MaxAhead
      /\ MaxAhead <= MaxWindowSize /\ Lifetime <= MaxWindowSize
  BY DEF WithinWindow, IInv, Ahead
<1>3. p.seq = SeqOf(k) /\ nextInSeq = SeqOf(n + 1)
  BY DEF IInv, Numbered
<1> HIDE DEF k, n
<1>4. k - (n + 1) >= -MaxWindowSize /\ k - (n + 1) < MaxWindowSize
  BY <1>1, <1>2
<1>5. /\ CompareSequence(nextInSeq, p.seq) = "SeqInOrder" => k = n + 1
      /\ CompareSequence(nextInSeq, p.seq) = "SeqFuture" => k > n + 1
      /\ CompareSequence(nextInSeq, p.seq) = "SeqPast" => k <= n
  BY <1>1, <1>3, <1>4, WindowExact
<1>. QED  BY <1>5 DEF k, n

\* What processing one packet does to the receiving endpoint.
LEMMA PacketStep ==
  ASSUME WithinWindow, IInv, NEW p \in DataPacket,
         p.seq = SeqOf(p.id), p.id <= pushed, LastDelivered + 1 - p.id <= Lifetime,
         ProcessPacket(p), pushed' = pushed
  PROVE  /\ delivered' \in Seq(Id) /\ InOrderOnce'
         /\ nextInSeq' \in Seq16 /\ nextInSeq' = SeqOf(LastDelivered' + 1)
         /\ DOMAIN outOfOrder' \subseteq Seq16 /\ (\A s \in DOMAIN outOfOrder' : outOfOrder'[s] \in Id)
         /\ Kept' /\ Ahead'
         /\ nextAckToSend' \in -1..(Modulus - 1)
         /\ nextAckToSend' = -1 => lastAckSent = -1
         /\ toSender' \subseteq Reply
         /\ \/ UNCHANGED delivered /\ LastDelivered' = LastDelivered
            \/ /\ delivered' = Append(delivered, LastDelivered + 1)
               /\ LastDelivered < pushed
               /\ LastDelivered' = p.id /\ p.id = LastDelivered + 1
<1> USE TransportAssumption, SequenceAssumption
<1>0. /\ p.id \in Id /\ p.id \in Nat /\ p.seq \in Seq16
      /\ LastDelivered \in Nat /\ pushed \in Nat /\ Len(delivered) \in Nat
      /\ delivered \in Seq(Id) /\ nextInSeq \in Seq16
  BY Integral DEF IInv, TypeOK, DataPacket
<1>1. CASE CompareSequence(nextInSeq, p.seq) = "SeqFuture" /\ Keep(p)
  <2>1. p.id > LastDelivered + 1
    BY <1>1, OrderOfPacket
  <2>2. /\ UNCHANGED <<nextAckToSend, nextInSeq, delivered, toSender>>
        /\ DOMAIN outOfOrder' = DOMAIN outOfOrder \cup {p.seq}
        /\ \A s \in DOMAIN outOfOrder' : outOfOrder'[s] = IF s = p.seq THEN p.id ELSE outOfOrder[s]
    BY <1>1 DEF Keep
  <2>3. LastDelivered' = LastDelivered
    BY <2>2 DEF LastDelivered
  <2>4. Kept'
    BY <1>0, <2>1, <2>2, <2>3 DEF IInv, Kept
  <2>5. DOMAIN outOfOrder' \subseteq Seq16 /\ \A s \in DOMAIN outOfOrder' : outOfOrder'[s] \in Id
    BY <1>0, <2>2 DEF IInv, TypeOK
  <2>. QED  BY <2>2, <2>3, <2>4, <2>5 DEF IInv, TypeOK, Numbered, Ahead, InOrderOnce
<1>2. CASE CompareSequence(nextInSeq, p.seq) = "SeqPast" /\ Repeat(p)
  <2>1. /\ UNCHANGED <<outOfOrder, nextAckToSend, nextInSeq, delivered>>
        /\ toSender' = toSender \cup {[type |-> "OutOfOrderAck", seq |-> p.seq, id |-> p.id]}
    BY <1>2 DEF Repeat
  <2>2. LastDelivered' = LastDelivered
    BY <2>1 DEF LastDelivered
  <2>3. toSender' \subseteq Reply
    BY <1>0, <2>1 DEF IInv, TypeOK, Reply
  <2>. QED  BY <2>1, <2>2, <2>3 DEF IInv, TypeOK, Numbered, Ahead, InOrderOnce, Kept
<1>3. CASE CompareSequence(nextInSeq, p.seq) = "SeqInOrder" /\ Accept(p)
  <2>1. p.id = LastDelivered + 1
    BY <1>3, OrderOfPacket
  <2>2. /\ delivered' = Append(delivered, p.id)
        /\ nextInSeq' = Advance(nextInSeq, 1)
        /\ nextAckToSend' = p.seq
        /\ UNCHANGED toSender
        /\ DOMAIN outOfOrder' = DOMAIN outOfOrder \ {p.seq}
        /\ \A s \in DOMAIN outOfOrder' : outOfOrder'[s] = outOfOrder[s]
    BY <1>3 DEF Accept, Without
  <2>3. /\ delivered' \in Seq(Id) /\ Len(delivered') = Len(delivered) + 1
        /\ LastDelivered' = p.id
    BY <1>0, <2>1, <2>2 DEF LastDelivered
  <2>4. InOrderOnce'
    <3>1. DOMAIN delivered' = 1..(Len(delivered) + 1) /\ DOMAIN delivered = 1..Len(delivered)
      BY <1>0, <2>2
    <3>2. \A i \in 1..Len(delivered) : delivered'[i] = delivered[i]
      BY <1>0, <2>2
    <3>3. delivered'[Len(delivered) + 1] = p.id
      BY <1>0, <2>2
    <3>. QED  BY <1>0, <2>1, <3>1, <3>2, <3>3 DEF IInv, InOrderOnce, LastDelivered
  <2>5. nextInSeq' = SeqOf(LastDelivered' + 1) /\ nextInSeq' \in Seq16
    <3>1. Advance(SeqOf(LastDelivered + 1), 1) = SeqOf((LastDelivered + 1) + 1)
      BY <1>0, AdvanceSeqOf
    <3>2. nextInSeq' = SeqOf(LastDelivered' + 1)
      BY <2>1, <2>2, <2>3, <3>1 DEF IInv, Numbered
    <3>. QED  BY <1>0, <2>3, <3>2, SeqOfType
  <2>6. Kept'
    <3>1. ASSUME NEW s \in DOMAIN outOfOrder'
          PROVE  s = SeqOf(outOfOrder'[s]) /\ LastDelivered' < outOfOrder'[s] /\ outOfOrder'[s] <= pushed'
      <4>1. /\ s \in DOMAIN outOfOrder /\ s # p.seq /\ outOfOrder'[s] = outOfOrder[s]
            /\ outOfOrder[s] \in Nat
        BY <2>2, PacketType DEF IInv
      <4>2. s = SeqOf(outOfOrder[s]) /\ LastDelivered < outOfOrder[s] /\ outOfOrder[s] <= pushed
        BY <4>1 DEF IInv, Kept
      <4>3. outOfOrder[s] # p.id
        BY <4>1, <4>2
      <4>. QED  BY <1>0, <2>1, <2>3, <4>1, <4>2, <4>3
    <3>. QED  BY <3>1 DEF Kept
  <2>7. Ahead'
    BY <1>0, <2>1, <2>3 DEF IInv, Ahead
  <2>8. nextAckToSend' \in -1..(Modulus - 1) /\ nextAckToSend' # -1
    BY <1>0, <2>2 DEF Seq16
  <2>9. DOMAIN outOfOrder' \subseteq Seq16 /\ \A s \in DOMAIN outOfOrder' : outOfOrder'[s] \in Id
    BY <2>2 DEF IInv, TypeOK
  <2>10. delivered' = Append(delivered, LastDelivered + 1) /\ LastDelivered < pushed
    BY <1>0, <2>1, <2>2
  <2>. QED  BY <2>1, <2>2, <2>3, <2>4, <2>5, <2>6, <2>7, <2>8, <2>9, <2>10 DEF IInv, TypeOK
<1>. QED  BY <1>1, <1>2, <1>3 DEF ProcessPacket

\* What the actions of the reader change, and what they leave to PacketStep.
LEMMA ReaderStep ==
  ASSUME WithinWindow, IInv, NEW p \in DataPacket,
         p.seq = SeqOf(p.id), p.id <= pushed, LastDelivered + 1 - p.id <= Lifetime,
         ProcessPacket(p), UNCHANGED sender, UNCHANGED lastAckSent,
         toReceiver' \subseteq toReceiver, inbox' \in Seq(DataPacket), InboxRun'
  PROVE  IInv'
<1>1. pushed' = pushed
  BY DEF sender
<1>2. /\ delivered' \in Seq(Id) /\ InOrderOnce'
      /\ nextInSeq' \in Seq16 /\ nextInSeq' = SeqOf(LastDelivered' + 1)
      /\ DOMAIN outOfOrder' \subseteq Seq16 /\ (\A s \in DOMAIN outOfOrder' : outOfOrder'[s] \in Id)
      /\ Kept' /\ Ahead'
      /\ nextAckToSend' \in -1..(Modulus - 1)
      /\ nextAckToSend' = -1 => lastAckSent = -1
      /\ toSender' \subseteq Reply
  BY <1>1, PacketStep
<1>3. TypeOK'
  BY <1>2 DEF IInv, TypeOK, sender
<1>4. Numbered' /\ QueueIds'
  BY <1>2 DEF IInv, Numbered, QueueIds, Oldest, sender
<1>5. NetRuns'
  BY DEF IInv, NetRuns, Run, sender
<1>. QED  BY <1>2, <1>3, <1>4, <1>5 DEF IInv

\* Once the first packet of a run is processed, the others are still fresh:
\* if it was the one expected, its neighbour is the next.
LEMMA RestOfRun ==
  ASSUME WithinWindow, IInv, NEW d \in Seq(DataPacket), d # <<>>, Run(d), FreshData(d),
         ProcessPacket(Head(d)), pushed' = pushed, inbox' = Tail(d)
  PROVE  /\ Head(d) \in DataPacket /\ Head(d).seq = SeqOf(Head(d).id) /\ Head(d).id <= pushed
         /\ LastDelivered + 1 - Head(d).id <= Lifetime
         /\ inbox' \in Seq(DataPacket) /\ InboxRun'
<1> USE TransportAssumption, SequenceAssumption
<1> DEFINE p == Head(d)
<1>0. /\ Len(d) \in Nat \ {0} /\ DOMAIN d = 1..Len(d) /\ 1 \in 1..Len(d)
      /\ p = d[1] /\ p \in DataPacket /\ LastDelivered \in Nat
  BY Integral DEF IInv
<1>1. p.seq = SeqOf(p.id) /\ p.id <= pushed
  BY <1>0 DEF Run
<1>2. LastDelivered + 1 - p.id <= Lifetime
  BY <1>0 DEF FreshData
<1>3. LastDelivered' = LastDelivered \/ (LastDelivered' = p.id /\ p.id = LastDelivered + 1)
  BY <1>0, <1>1, <1>2, PacketStep
<1>4. /\ inbox' \in Seq(DataPacket) /\ Len(inbox') = Len(d) - 1
      /\ \A i \in 1..Len(inbox') : inbox'[i] = d[i + 1]
  BY HeadTailProperties
<1> HIDE DEF p
<1>5. ASSUME NEW i \in 1..Len(inbox')
      PROVE  /\ inbox'[i].seq = SeqOf(inbox'[i].id)
             /\ inbox'[i].id <= pushed'
             /\ inbox'[i].id = inbox'[1].id + i - 1
             /\ LastDelivered' + 1 - inbox'[i].id <= Lifetime
  <2>1. i + 1 \in 1..Len(d) /\ 1 \in 1..Len(inbox') /\ 2 \in 1..Len(d) /\ i \in Int
    BY <1>0, <1>4
  <2>2. inbox'[i] = d[i + 1] /\ inbox'[1] = d[2]
    BY <1>4, <2>1
  <2>3. /\ d[i + 1].seq = SeqOf(d[i + 1].id)
        /\ d[i + 1].id <= pushed
        /\ d[i + 1].id = d[1].id + (i + 1) - 1
        /\ d[2].id = d[1].id + 2 - 1
    BY <2>1 DEF Run
  <2>4. d[1].id \in Nat
    BY <1>0, Integral DEF IInv, DataPacket
  <2>5. LastDelivered + 1 - d[i + 1].id <= Lifetime
    BY <1>0, <2>1 DEF FreshData
  <2>6. LastDelivered' + 1 - d[i + 1].id <= Lifetime
    BY <1>0, <1>3, <2>1, <2>3, <2>4, <2>5
  <2>7. inbox'[i].id = inbox'[1].id + i - 1
    <3>1. d[i + 1].id = d[2].id + i - 1
      BY <2>1, <2>3, <2>4
    <3>. QED  BY <2>2, <3>1
  <2>8. inbox'[i].seq = SeqOf(inbox'[i].id) /\ inbox'[i].id <= pushed'
    BY <1>0, <2>2, <2>3
  <2>. QED  BY <2>2, <2>6, <2>7, <2>8
<1>6. InboxRun'
  <2>1. DOMAIN inbox' = 1..Len(inbox')
    BY <1>4
  <2>. QED  BY <1>5, <2>1 DEF InboxRun, Run, FreshData
<1>. QED  BY <1>0, <1>1, <1>2, <1>4, <1>6 DEF p

LEMMA ProcessStep ==
  ASSUME WithinWindow, IInv, NEW d \in toReceiver, Process(d)
  PROVE  IInv'
<1>1. d \in Seq(DataPacket) /\ d # <<>> /\ Run(d)
  BY DEF IInv, TypeOK, NetRuns
<1>2. /\ FreshData(d) /\ ProcessPacket(Head(d)) /\ inbox' = Tail(d)
      /\ UNCHANGED sender /\ UNCHANGED lastAckSent /\ toReceiver' \subseteq toReceiver
  BY DEF Process, Received
<1>3. pushed' = pushed
  BY <1>2 DEF sender
<1>. QED  BY <1>1, <1>2, <1>3, RestOfRun, ReaderStep

LEMMA ProcessCombinedStep == ASSUME WithinWindow, IInv, ProcessCombined PROVE IInv'
<1>1. inbox \in Seq(DataPacket) /\ inbox # <<>> /\ Run(inbox) /\ FreshData(inbox)
  BY DEF IInv, TypeOK, InboxRun, ProcessCombined
<1>2. /\ ProcessPacket(Head(inbox)) /\ inbox' = Tail(inbox)
      /\ UNCHANGED sender /\ UNCHANGED lastAckSent /\ toReceiver' = toReceiver
  BY DEF ProcessCombined
<1>3. pushed' = pushed
  BY <1>2 DEF sender
<1>. QED  BY <1>1, <1>2, <1>3, RestOfRun, ReaderStep

LEMMA ProcessQueueStep == ASSUME WithinWindow, IInv, ProcessQueue PROVE IInv'
<1> USE TransportAssumption, SequenceAssumption
<1> DEFINE p == [seq |-> nextInSeq, id |-> outOfOrder[nextInSeq]]
<1>1. nextInSeq \in DOMAIN outOfOrder /\ inbox = <<>>
  BY DEF ProcessQueue, Drained
<1>2. p \in DataPacket /\ p.id \in Nat /\ LastDelivered \in Nat
  BY <1>1, Integral DEF IInv, TypeOK, DataPacket
<1>3. p.seq = SeqOf(p.id) /\ LastDelivered < p.id /\ p.id <= pushed
  BY <1>1 DEF IInv, Kept
<1>4. LastDelivered + 1 - p.id <= Lifetime
  BY <1>2, <1>3
<1>5. /\ ProcessPacket(p) /\ UNCHANGED sender /\ UNCHANGED lastAckSent
      /\ inbox' = inbox /\ toReceiver' = toReceiver
  BY DEF ProcessQueue
<1>6. inbox' \in Seq(DataPacket) /\ InboxRun'
  BY <1>1, <1>5 DEF InboxRun, Run, FreshData
<1> HIDE DEF p
<1>. QED  BY <1>2, <1>3, <1>4, <1>5, <1>6, ReaderStep

LEMMA SendAckStep == ASSUME IInv, SendAck PROVE IInv'
<1>1. LastDelivered \in Nat
  BY Integral DEF IInv
<1>2. UNCHANGED <<pushed, queue, sequencedBase, nextOutSeq, delivered, nextInSeq, outOfOrder,
                  inbox, nextAckToSend, toReceiver>>
  BY DEF SendAck, sender
<1>3. LastDelivered' = LastDelivered /\ Oldest' = Oldest
  BY <1>2 DEF LastDelivered, Oldest
<1>4. TypeOK'
  <2>1. nextAckToSend \in Seq16
    BY SequenceAssumption DEF SendAck, AckDue, IInv, Numbered, TypeOK, Seq16
  <2>2. toSender' \subseteq Reply
    BY <1>1, <2>1 DEF SendAck, IInv, TypeOK, Reply
  <2>3. lastAckSent' \in -1..(Modulus - 1)
    BY DEF SendAck, IInv, TypeOK
  <2>. QED  BY <1>2, <2>2, <2>3 DEF IInv, TypeOK
<1>5. Numbered' /\ QueueIds' /\ Ahead' /\ NetRuns' /\ InboxRun' /\ Kept' /\ InOrderOnce'
  BY <1>2, <1>3
     DEF IInv, Numbered, QueueIds, Ahead, NetRuns, InboxRun, Run, FreshData, Kept, InOrderOnce,
         SendAck
<1>. QED  BY <1>4, <1>5 DEF IInv

\* Steps that at most lose datagrams.
LEMMA LoseStep ==
  ASSUME IInv, UNCHANGED <<sender, receiver>>,
         toReceiver' \subseteq toReceiver, toSender' \subseteq toSender
  PROVE  IInv'
<1>1. LastDelivered' = LastDelivered /\ Oldest' = Oldest
  BY DEF LastDelivered, Oldest, sender, receiver
<1>2. TypeOK'
  BY DEF IInv, TypeOK, sender, receiver
<1>3. Numbered' /\ QueueIds' /\ Ahead' /\ NetRuns' /\ InboxRun' /\ Kept' /\ InOrderOnce'
  BY <1>1
     DEF IInv, Numbered, QueueIds, Ahead, NetRuns, InboxRun, Run, FreshData, Kept, InOrderOnce,
         sender, receiver
<1>. QED  BY <1>2, <1>3 DEF IInv

-----------------------------------------------------------------------------
\* Every step keeps the strengthening.
LEMMA NextIInv == ASSUME WithinWindow PROVE IInv /\ [Next]_vars => IInv'
<1> SUFFICES ASSUME IInv, [Next]_vars PROVE IInv'
  OBVIOUS
<1>1. CASE SequencedPush
  BY <1>1, PushStep
<1>2. CASE WriteSome
  BY <1>2, WriteStep DEF WriteSome
<1>3. CASE DecaySome
  BY <1>3, DecayStep DEF DecaySome
<1>4. CASE \E m \in toSender : ReceiveAck(m) \/ ReceiveOutOfOrderAck(m)
  BY <1>4, AckStep, OutOfOrderAckStep
<1>5. CASE \E d \in toReceiver : Process(d)
  BY <1>5, ProcessStep
<1>6. CASE ProcessCombined
  BY <1>6, ProcessCombinedStep
<1>7. CASE ProcessQueue
  BY <1>7, ProcessQueueStep
<1>8. CASE SendAck
  BY <1>8, SendAckStep
<1>9. CASE Lose
  <2>1. UNCHANGED <<sender, receiver>> /\ toReceiver' \subseteq toReceiver /\ toSender' \subseteq toSender
    BY <1>9 DEF Lose
  <2>. QED  BY <2>1, LoseStep
<1>10. CASE UNCHANGED vars
  <2>1. UNCHANGED <<sender, receiver>> /\ toReceiver' \subseteq toReceiver /\ toSender' \subseteq toSender
    BY <1>10 DEF vars
  <2>. QED  BY <2>1, LoseStep
<1>. QED
  BY <1>1, <1>2, <1>3, <1>4, <1>5, <1>6, <1>7, <1>8, <1>9, <1>10 DEF Next

THEOREM InvariantHolds == ASSUME WithinWindow PROVE Spec => []IInv
BY InitIInv, NextIInv, PTL DEF Spec

\* Type correctness of the two endpoints and the network.
THEOREM TypeCorrect == ASSUME WithinWindow PROVE Spec => []TypeOK
BY InvariantHolds, PTL DEF IInv

\* EQStream delivers the packets pushed once and in order, for every modulus
\* and window that fit together and whatever the network loses or repeats.
THEOREM InOrderDelivery == ASSUME WithinWindow PROVE Spec => []InOrderOnce
BY InvariantHolds, PTL DEF IInv

\* No packet from the past is kept in OutOfOrderpackets.
THEOREM KeepsOnlyLater == ASSUME WithinWindow PROVE Spec => []KeptIsLater
<1>1. IInv => KeptIsLater
  BY DEF IInv, Kept, KeptIsLater
<1>. QED  BY <1>1, InvariantHolds, PTL

\* The bookkeeping the code logs as broken never is.
THEOREM QueueNumbers == ASSUME WithinWindow PROVE Spec => []QueueConsistent
<1>1. IInv => QueueConsistent
  <2> SUFFICES ASSUME IInv PROVE QueueConsistent
    OBVIOUS
  <2>1. Oldest \in Int /\ Len(queue) \in Int /\ pushed \in Int
    BY Integral DEF IInv
  <2>2. Advance(SeqOf(Oldest), Len(queue)) = SeqOf(Oldest + Len(queue))
    BY <2>1, AdvanceSeqOf
  <2>3. Oldest + Len(queue) = pushed + 1
    BY <2>1 DEF Oldest
  <2>. QED  BY <2>2, <2>3 DEF IInv, Numbered, QueueConsistent
<1>. QED  BY <1>1, InvariantHolds, PTL

-----------------------------------------------------------------------------
\* Processing a packet delivers the next one pushed or nothing.
LEMMA DeliverStep ==
  ASSUME WithinWindow, IInv, NEW p \in DataPacket,
         p.seq = SeqOf(p.id), p.id <= pushed, LastDelivered + 1 - p.id <= Lifetime,
         ProcessPacket(p), pushed' = pushed
  PROVE  Channel!Deliver \/ UNCHANGED Channel!vars
<1>1. \/ UNCHANGED delivered
      \/ delivered' = Append(delivered, LastDelivered + 1) /\ LastDelivered < pushed
  BY PacketStep
<1>. QED  BY <1>1 DEF Channel!Deliver, Channel!vars, LastDelivered

\* Every step of the transport is a step of the channel or none.
LEMMA StepSimulation ==
  ASSUME WithinWindow PROVE IInv /\ [Next]_vars => [Channel!Next]_(Channel!vars)
<1> SUFFICES ASSUME IInv, [Next]_vars PROVE Channel!Next \/ UNCHANGED Channel!vars
  OBVIOUS
<1> DEFINE Still == UNCHANGED <<pushed, delivered>>
<1>a. ASSUME Still PROVE UNCHANGED Channel!vars
  BY <1>a DEF Channel!vars
<1>1. CASE SequencedPush
  BY <1>1 DEF SequencedPush, receiver, Channel!Next, Channel!Push
<1>2. CASE WriteSome
  BY <1>2, <1>a DEF WriteSome, Write, receiver
<1>3. CASE DecaySome
  BY <1>3, <1>a DEF DecaySome, Decay, receiver
<1>4. CASE \E m \in toSender : ReceiveAck(m) \/ ReceiveOutOfOrderAck(m)
  BY <1>4, <1>a DEF ReceiveAck, ReceiveOutOfOrderAck, receiver
<1>5. ASSUME NEW d \in toReceiver, Process(d) PROVE Channel!Next \/ UNCHANGED Channel!vars
  <2>1. d \in Seq(DataPacket) /\ d # <<>> /\ Run(d)
    BY DEF IInv, TypeOK, NetRuns
  <2>2. /\ FreshData(d) /\ ProcessPacket(Head(d)) /\ inbox' = Tail(d) /\ pushed' = pushed
    BY <1>5 DEF Process, sender
  <2>. QED  BY <2>1, <2>2, RestOfRun, DeliverStep DEF Channel!Next
<1>6. CASE ProcessCombined
  <2>1. inbox \in Seq(DataPacket) /\ inbox # <<>> /\ Run(inbox) /\ FreshData(inbox)
    BY <1>6 DEF IInv, TypeOK, InboxRun, ProcessCombined
  <2>2. /\ ProcessPacket(Head(inbox)) /\ inbox' = Tail(inbox) /\ pushed' = pushed
    BY <1>6 DEF ProcessCombined, sender
  <2>. QED  BY <2>1, <2>2, RestOfRun, DeliverStep DEF Channel!Next
<1>7. CASE ProcessQueue
  <2> DEFINE p == [seq |-> nextInSeq, id |-> outOfOrder[nextInSeq]]
  <2>1. nextInSeq \in DOMAIN outOfOrder
    BY <1>7 DEF ProcessQueue, Drained
  <2>2. p \in DataPacket /\ p.id \in Nat /\ LastDelivered \in Nat
    BY <2>1, Integral DEF IInv, TypeOK, DataPacket
  <2>3. p.seq = SeqOf(p.id) /\ LastDelivered < p.id /\ p.id <= pushed
    BY <2>1 DEF IInv, Kept
  <2>4. LastDelivered + 1 - p.id <= Lifetime
    BY <2>2, <2>3, TransportAssumption
  <2>5. ProcessPacket(p) /\ pushed' = pushed
    BY <1>7 DEF ProcessQueue, sender
  <2> HIDE DEF p
  <2>. QED  BY <2>2, <2>3, <2>4, <2>5, DeliverStep DEF Channel!Next
<1>8. CASE SendAck
  BY <1>8, <1>a DEF SendAck, sender
<1>9. CASE Lose
  BY <1>9, <1>a DEF Lose, sender, receiver
<1>10. CASE UNCHANGED vars
  BY <1>10, <1>a DEF vars, sender, receiver
<1>. QED
  BY <1>1, <1>2, <1>3, <1>4, <1>5, <1>6, <1>7, <1>8, <1>9, <1>10 DEF Next

\* The transport implements the reliable channel.
THEOREM ImplementsChannel == ASSUME WithinWindow PROVE Spec => ChannelSpec
<1>1. Init => Channel!Init
  BY DEF Init, Channel!Init
<1>2. ASSUME WithinWindow PROVE IInv /\ [Next]_vars => [Channel!Next]_(Channel!vars)
  BY StepSimulation
<1>. QED  BY <1>1, <1>2, InvariantHolds, PTL DEF Spec, ChannelSpec, Channel!Spec

-----------------------------------------------------------------------------
(* Nothing is forgotten that was not received *)

\* Every acknowledgement under way, and the one to be sent next, answers a packet
\* the application already has.
Answered ==
  /\ nextAckToSend # -1 => nextAckToSend = SeqOf(LastDelivered)
  /\ \A m \in toSender : m.seq = SeqOf(m.id) /\ m.id <= LastDelivered

\* The packets released were delivered ...
ReleasedDelivered == Oldest <= LastDelivered + 1

\* ... and so were those marked.
MarkedDelivered == \A i \in 1..Len(queue) : queue[i].acked => queue[i].id <= LastDelivered

AckInv == Answered /\ ReleasedDelivered /\ MarkedDelivered

\* The uint16 distance from one packet to a later one never overshoots it.
LEMMA DistanceBound ==
  ASSUME NEW a \in Int, NEW b \in Int, a <= b
  PROVE  Distance(SeqOf(a), SeqOf(b)) \in Nat /\ Distance(SeqOf(a), SeqOf(b)) <= b - a
<1> USE SequenceAssumption
<1> DEFINE q == (a - 1) \div Modulus
           e == (a - 1) % Modulus
           p == (b - 1) \div Modulus
           s == (b - 1) % Modulus
           t == (s - e) \div Modulus
           r == (s - e) % Modulus
<1>1. a - 1 = Modulus * q + e /\ q \in Int /\ e \in Seq16
  BY DivMod
<1>2. b - 1 = Modulus * p + s /\ p \in Int /\ s \in Seq16
  BY DivMod
<1>3. e \in Int /\ s \in Int /\ s - e \in Int
  BY <1>1, <1>2 DEF Seq16
<1>4. s - e = Modulus * t + r /\ t \in Int /\ r \in Seq16
  BY <1>3, DivMod
<1>5. Distance(SeqOf(a), SeqOf(b)) = r
  BY DEF Distance, SeqOf
<1> HIDE DEF q, e, p, s, t, r
<1>6. r \in Int /\ 0 <= r /\ r < Modulus
  BY <1>4 DEF Seq16
<1>7. Modulus * (p - q + t) = Modulus * p - Modulus * q + Modulus * t /\ p - q + t \in Int
  BY <1>1, <1>2, <1>4
<1>8. b - a = Modulus * (p - q + t) + r
  BY <1>1, <1>2, <1>3, <1>4, <1>6, <1>7
<1>9. p - q + t >= 0
  <2> SUFFICES ASSUME p - q + t <= -1 PROVE FALSE
    BY <1>7
  <2>1. Modulus * (p - q + t) <= -Modulus
    BY <1>7
  <2>. QED  BY <2>1, <1>6, <1>7, <1>8
<1>10. Modulus * (p - q + t) >= 0
  BY <1>7, <1>9
<1>. QED  BY <1>5, <1>6, <1>7, <1>8, <1>10

LEMMA InitAckInv == Init => AckInv
<1> SUFFICES ASSUME Init PROVE AckInv
  OBVIOUS
<1> USE TransportAssumption
<1>1. Oldest = Exchanged + 1 /\ LastDelivered = Exchanged /\ Len(queue) = 0
  BY DEF Init, Oldest, LastDelivered
<1>. QED
  BY <1>1 DEF Init, AckInv, Answered, ReleasedDelivered, MarkedDelivered

\* An acknowledgement that is at most a window old is compared rightly with the
\* oldest packet queued, and its distance never passes the packet it answers.
LEMMA AckReach ==
  ASSUME WithinWindow, IInv, AckInv, NEW m \in toSender, FreshReply(m)
  PROVE  /\ m.id \in Nat /\ m.id <= LastDelivered
         /\ m.id < Oldest => CompareSequence(sequencedBase, m.seq) = "SeqPast"
         /\ m.id >= Oldest => /\ Distance(sequencedBase, m.seq) \in Nat
                              /\ Oldest + Distance(sequencedBase, m.seq) <= m.id
<1> USE TransportAssumption, SequenceAssumption
<1> DEFINE k == m.id
           n == Oldest
<1>1. k \in Nat /\ n \in Int /\ Lifetime \in Int /\ MaxWindowSize \in Int
  BY Integral DEF IInv, TypeOK, Reply
<1>2. m.seq = SeqOf(k) /\ k <= LastDelivered
  BY DEF AckInv, Answered
<1>3. sequencedBase = SeqOf(n)
  BY DEF IInv, Numbered
<1>4. n - k <= Lifetime /\ Lifetime <= MaxWindowSize
  BY DEF FreshReply, WithinWindow
<1> HIDE DEF k, n
<1>5. CASE k < n
  <2>1. k - n >= -MaxWindowSize /\ k - n < MaxWindowSize
    BY <1>1, <1>4, <1>5
  <2>2. CompareSequence(SeqOf(n), SeqOf(k)) = "SeqPast"
    BY <1>1, <1>5, <2>1, WindowExact
  <2>3. ~ (k >= n)
    BY <1>1, <1>5
  <2>. QED  BY <1>1, <1>2, <1>3, <2>2, <2>3 DEF k, n
<1>6. CASE n <= k
  <2>1. /\ Distance(SeqOf(n), SeqOf(k)) \in Nat
        /\ Distance(SeqOf(n), SeqOf(k)) <= k - n
    BY <1>1, <1>6, DistanceBound
  <2>2. n + Distance(SeqOf(n), SeqOf(k)) <= k
    BY <1>1, <2>1
  <2>3. ~ (k < n)
    BY <1>1, <1>6
  <2>. QED  BY <1>1, <1>2, <1>3, <2>1, <2>2, <2>3 DEF k, n
<1>. QED  BY <1>1, <1>5, <1>6

\* AckPackets releases nothing beyond the packet acknowledged.
LEMMA AckReleases ==
  ASSUME WithinWindow, IInv, AckInv, NEW m \in toSender, ReceiveAck(m)
  PROVE  AckInv'
<1> USE TransportAssumption, SequenceAssumption
<1>0. /\ pushed \in Nat /\ Len(queue) \in Nat /\ Oldest \in Int /\ LastDelivered \in Nat
      /\ queue \in Seq(Entry) /\ LastDelivered <= pushed
  BY Integral DEF IInv, TypeOK, Ahead
<1>1. /\ pushed' = pushed /\ nextAckToSend' = nextAckToSend
      /\ LastDelivered' = LastDelivered
      /\ toSender' \subseteq toSender
      /\ AckPackets(m.seq) /\ FreshReply(m)
  BY DEF ReceiveAck, Received, LastDelivered, receiver
<1>2. Answered'
  BY <1>1 DEF AckInv, Answered
<1>3. CASE UNCHANGED <<queue, sequencedBase>>
  <2>1. Oldest' = Oldest
    BY <1>1, <1>3 DEF Oldest
  <2>. QED
    BY <1>1, <1>2, <1>3, <2>1 DEF AckInv, ReleasedDelivered, MarkedDelivered
<1>4. CASE CompareSequence(sequencedBase, m.seq) = "SeqFuture" /\ Release(m.seq)
  <2> DEFINE c == Distance(sequencedBase, m.seq) + 1
  <2>1. m.id >= Oldest /\ m.id \in Nat /\ m.id <= LastDelivered
    BY <1>0, <1>1, <1>4, AckReach
  <2>2. c \in Nat \ {0} /\ Oldest + c <= m.id + 1
    BY <1>0, <1>1, <2>1, AckReach
  <2>3. \/ c <= Len(queue) /\ queue' = SubSeq(queue, c + 1, Len(queue))
        \/ c > Len(queue) /\ queue' = <<>>
    BY <1>4 DEF Release
  <2> HIDE DEF c
  <2>4. c <= Len(queue)
    BY <1>0, <2>1, <2>2 DEF Oldest
  <2>5. queue' = SubSeq(queue, c + 1, Len(queue))
    BY <1>0, <2>2, <2>3, <2>4
  <2>6. /\ Len(queue') = Len(queue) - c
        /\ \A i \in 1..Len(queue') : queue'[i] = queue[c + i]
    BY <1>0, <2>2, <2>4, <2>5
  <2>7. Oldest' = Oldest + c
    BY <1>0, <1>1, <2>2, <2>6 DEF Oldest
  <2>8. ReleasedDelivered'
    BY <1>0, <1>1, <2>1, <2>2, <2>7 DEF ReleasedDelivered
  <2>9. MarkedDelivered'
    <3>1. \A i \in 1..Len(queue') : c + i \in 1..Len(queue)
      BY <1>0, <2>2, <2>4, <2>6
    <3>. QED  BY <1>1, <2>6, <3>1 DEF AckInv, MarkedDelivered
  <2>. QED  BY <1>2, <2>8, <2>9 DEF AckInv
<1>. QED  BY <1>1, <1>3, <1>4 DEF AckPackets

\* OP_OutOfOrderAck marks nothing beyond the packet it answers.
LEMMA OutOfOrderAckMarks ==
  ASSUME WithinWindow, IInv, AckInv, NEW m \in toSender, ReceiveOutOfOrderAck(m)
  PROVE  AckInv'
<1> USE TransportAssumption, SequenceAssumption
<1> DEFINE index == Distance(sequencedBase, m.seq) + 1
<1>0. /\ pushed \in Nat /\ Len(queue) \in Nat /\ Oldest \in Int /\ LastDelivered \in Nat
      /\ queue \in Seq(Entry) /\ DOMAIN queue = 1..Len(queue)
  BY Integral DEF IInv, TypeOK
<1>1. /\ pushed' = pushed /\ nextAckToSend' = nextAckToSend
      /\ LastDelivered' = LastDelivered
      /\ toSender' \subseteq toSender
      /\ FreshReply(m)
  BY DEF ReceiveOutOfOrderAck, Received, LastDelivered, receiver
<1>2. Answered'
  BY <1>1 DEF AckInv, Answered
<1>3. CASE UNCHANGED queue
  <2>1. Oldest' = Oldest
    BY <1>1, <1>3 DEF Oldest
  <2>. QED
    BY <1>1, <1>2, <1>3, <2>1 DEF AckInv, ReleasedDelivered, MarkedDelivered
<1>4. ASSUME InWindow(m.seq),
             NEW positions, queue' = [Flag(queue, positions) EXCEPT ![index].acked = TRUE]
      PROVE  AckInv'
  <2> DEFINE f == Flag(queue, positions)
  <2>1. m.id >= Oldest /\ m.id \in Nat /\ m.id <= LastDelivered
    BY <1>0, <1>1, <1>4, AckReach DEF InWindow
  <2>2. index \in Nat \ {0} /\ Oldest + index - 1 <= LastDelivered
    BY <1>0, <1>1, <2>1, AckReach
  <2>3. /\ f \in [DOMAIN queue -> Entry]
        /\ \A i \in DOMAIN queue : f[i].id = queue[i].id /\ f[i].acked = queue[i].acked
    <3>1. f \in [DOMAIN queue -> Entry] /\ \A i \in DOMAIN queue : f[i].id = queue[i].id
      BY FlagEntries DEF IInv
    <3>2. \A i \in DOMAIN queue : queue[i] \in Entry
      BY <1>0
    <3>3. \A i \in DOMAIN queue : f[i].acked = queue[i].acked
      BY <3>2 DEF Flag, Entry
    <3>. QED  BY <3>1, <3>3
  <2>4. queue' = [f EXCEPT ![index].acked = TRUE]
    BY <1>4
  <2> HIDE DEF f, index
  <2>5. /\ DOMAIN queue' = DOMAIN queue
        /\ queue' \in [DOMAIN queue -> Entry]
        /\ \A i \in DOMAIN queue :
             /\ queue'[i].id = queue[i].id
             /\ i # index => queue'[i].acked = queue[i].acked
    BY <2>3, <2>4 DEF Entry
  <2>6. Len(queue') = Len(queue)
    BY <1>0, <2>5, Positions
  <2>7. Oldest' = Oldest
    BY <1>1, <2>6 DEF Oldest
  <2>8. ASSUME NEW i \in 1..Len(queue'), queue'[i].acked
        PROVE  queue'[i].id <= LastDelivered'
    <3>1. i \in DOMAIN queue /\ queue'[i].id = queue[i].id
      BY <1>0, <2>5, <2>6
    <3>2. CASE i = index
      <4>1. queue[i].id = Oldest + i - 1
        BY <1>0, <3>1 DEF IInv, QueueIds
      <4>. QED  BY <1>1, <2>2, <3>1, <3>2, <4>1
    <3>3. CASE i # index
      <4>1. queue[i].acked
        BY <2>5, <2>8, <3>1, <3>3
      <4>. QED  BY <1>0, <1>1, <3>1, <4>1 DEF AckInv, MarkedDelivered
    <3>. QED  BY <3>2, <3>3
  <2>. QED  BY <1>1, <1>2, <2>7, <2>8 DEF AckInv, ReleasedDelivered, MarkedDelivered
<1>. QED  BY <1>3, <1>4 DEF ReceiveOutOfOrderAck

\* What the reader answers, it has: an early packet is kept without an answer,
\* and one from the past was delivered.
LEMMA ReaderAnswers ==
  ASSUME WithinWindow, IInv, AckInv, NEW p \in DataPacket,
         p.seq = SeqOf(p.id), p.id <= pushed, LastDelivered + 1 - p.id <= Lifetime,
         ProcessPacket(p), UNCHANGED sender
  PROVE  AckInv'
<1>0. /\ p.id \in Nat /\ LastDelivered \in Nat /\ Oldest \in Int
      /\ \A i \in 1..Len(queue) : queue[i].id \in Nat
      /\ \A m \in toSender : m.id \in Nat
  <2>1. \A i \in 1..Len(queue) : queue[i] \in Entry
    BY DEF IInv, TypeOK
  <2>2. \A m \in toSender : m \in Reply
    BY DEF IInv, TypeOK
  <2>. QED  BY <2>1, <2>2, Integral DEF IInv, DataPacket, Entry, Reply
<1>1. pushed' = pushed /\ queue' = queue /\ Oldest' = Oldest
  BY DEF sender, Oldest
<1>2. LastDelivered' = LastDelivered \/ (LastDelivered' = p.id /\ p.id = LastDelivered + 1)
  BY <1>1, PacketStep
<1>3. LastDelivered' \in Nat /\ LastDelivered <= LastDelivered'
  BY <1>0, <1>2
<1>4. ReleasedDelivered' /\ MarkedDelivered'
  <2>1. ReleasedDelivered'
    BY <1>0, <1>1, <1>3 DEF AckInv, ReleasedDelivered
  <2>2. ASSUME NEW i \in 1..Len(queue), queue[i].acked PROVE queue[i].id <= LastDelivered'
    <3>1. queue[i].id <= LastDelivered /\ queue[i].id \in Nat
      BY <1>0, <2>2 DEF AckInv, MarkedDelivered
    <3>. QED  BY <1>0, <1>3, <3>1
  <2>3. MarkedDelivered'
    BY <1>1, <2>2 DEF MarkedDelivered
  <2>. QED  BY <2>1, <2>3
<1>5. \A m \in toSender : m.seq = SeqOf(m.id) /\ m.id <= LastDelivered'
  BY <1>0, <1>3 DEF AckInv, Answered
<1>6. CASE CompareSequence(nextInSeq, p.seq) = "SeqFuture" /\ Keep(p)
  <2>1. nextAckToSend' = nextAckToSend /\ toSender' = toSender /\ LastDelivered' = LastDelivered
    BY <1>6 DEF Keep, LastDelivered
  <2>. QED  BY <1>4, <2>1 DEF AckInv, Answered
<1>7. CASE CompareSequence(nextInSeq, p.seq) = "SeqPast" /\ Repeat(p)
  <2>1. /\ nextAckToSend' = nextAckToSend /\ LastDelivered' = LastDelivered
        /\ toSender' = toSender \cup {[type |-> "OutOfOrderAck", seq |-> p.seq, id |-> p.id]}
    BY <1>7 DEF Repeat, LastDelivered
  <2>2. p.id <= LastDelivered
    BY <1>7, OrderOfPacket
  <2>3. \A m \in toSender' : m.seq = SeqOf(m.id) /\ m.id <= LastDelivered'
    BY <1>5, <2>1, <2>2
  <2>. QED  BY <1>4, <2>1, <2>3 DEF AckInv, Answered
<1>8. CASE CompareSequence(nextInSeq, p.seq) = "SeqInOrder" /\ Accept(p)
  <2>1. nextAckToSend' = p.seq /\ toSender' = toSender /\ delivered' = Append(delivered, p.id)
    BY <1>8 DEF Accept
  <2>2. LastDelivered' = LastDelivered + 1
    <3>1. delivered \in Seq(Id) /\ p.id \in Id
      BY DEF IInv, TypeOK, DataPacket
    <3>. QED  BY <2>1, <3>1, TransportAssumption DEF LastDelivered
  <2>3. p.id = LastDelivered'
    BY <1>0, <1>2, <2>2
  <2>4. nextAckToSend' = SeqOf(LastDelivered')
    BY <2>1, <2>3
  <2>. QED  BY <1>4, <1>5, <2>1, <2>4 DEF AckInv, Answered
<1>. QED  BY <1>6, <1>7, <1>8 DEF ProcessPacket

\* Steps that mark nothing as acknowledged, release nothing and answer nothing.
LEMMA NothingAcked ==
  ASSUME AckInv, pushed' = pushed, delivered' = delivered, nextAckToSend' = nextAckToSend,
         toSender' \subseteq toSender, Len(queue') = Len(queue),
         \A i \in 1..Len(queue) : queue'[i].id = queue[i].id /\ queue'[i].acked = queue[i].acked
  PROVE  AckInv'
<1>1. LastDelivered' = LastDelivered /\ Oldest' = Oldest
  BY DEF LastDelivered, Oldest
<1>. QED  BY <1>1 DEF AckInv, Answered, ReleasedDelivered, MarkedDelivered

LEMMA NextAckInv == ASSUME WithinWindow PROVE IInv /\ AckInv /\ [Next]_vars => AckInv'
<1> SUFFICES ASSUME IInv, AckInv, [Next]_vars PROVE AckInv'
  OBVIOUS
<1>0. /\ Len(queue) \in Nat /\ DOMAIN queue = 1..Len(queue) /\ queue \in Seq(Entry)
      /\ \A i \in 1..Len(queue) : queue[i] \in Entry
  BY DEF IInv, TypeOK
<1>1. CASE SequencedPush
  <2> DEFINE e == [id |-> pushed + 1, sent |-> FALSE, acked |-> FALSE]
  <2>1. /\ pushed' = pushed + 1 /\ queue' = Append(queue, e)
        /\ nextAckToSend' = nextAckToSend /\ toSender' = toSender
        /\ LastDelivered' = LastDelivered
    BY <1>1 DEF SequencedPush, receiver, LastDelivered
  <2>2. /\ Len(queue') = Len(queue) + 1 /\ ~ queue'[Len(queue) + 1].acked
        /\ \A i \in 1..Len(queue) : queue'[i] = queue[i]
    BY <1>0, <2>1
  <2>3. Oldest' = Oldest
    BY <1>0, <2>1, <2>2, Integral DEF Oldest, IInv
  <2>4. MarkedDelivered'
    <3>1. \A i \in 1..Len(queue') : i \in 1..Len(queue) \/ i = Len(queue) + 1
      BY <1>0, <2>2
    <3>. QED  BY <2>1, <2>2, <3>1 DEF AckInv, MarkedDelivered
  <2>. QED  BY <2>1, <2>3, <2>4 DEF AckInv, Answered, ReleasedDelivered
<1>2. ASSUME NEW first \in DOMAIN queue, NEW last \in DOMAIN queue, Write(first, last)
      PROVE  AckInv'
  <2>1. /\ pushed' = pushed /\ UNCHANGED receiver /\ toSender' = toSender
        /\ queue' \in [1..Len(queue) -> Entry]
        /\ \A i \in 1..Len(queue) : queue'[i].id = queue[i].id /\ queue'[i].acked = queue[i].acked
    BY <1>0, <1>2 DEF Write, Entry
  <2>2. Len(queue') = Len(queue)
    BY <1>0, <2>1, Positions
  <2>. QED  BY <2>1, <2>2, NothingAcked DEF receiver
<1>3. ASSUME NEW positions, Decay(positions) PROVE AckInv'
  <2>1. /\ pushed' = pushed /\ UNCHANGED receiver /\ toSender' = toSender
        /\ queue' = Flag(queue, positions)
    BY <1>3 DEF Decay
  <2>2. /\ queue' \in [1..Len(queue) -> Entry]
        /\ \A i \in 1..Len(queue) : queue'[i].id = queue[i].id /\ queue'[i].acked = queue[i].acked
    BY <1>0, <2>1 DEF Flag, Entry
  <2>3. Len(queue') = Len(queue)
    BY <1>0, <2>2, Positions
  <2>. QED  BY <2>1, <2>2, <2>3, NothingAcked DEF receiver
<1>4. CASE \E m \in toSender : ReceiveAck(m) \/ ReceiveOutOfOrderAck(m)
  BY <1>4, AckReleases, OutOfOrderAckMarks
<1>5. ASSUME NEW d \in toReceiver, Process(d) PROVE AckInv'
  <2>1. d \in Seq(DataPacket) /\ d # <<>> /\ Run(d)
    BY DEF IInv, TypeOK, NetRuns
  <2>2. /\ FreshData(d) /\ ProcessPacket(Head(d)) /\ inbox' = Tail(d)
        /\ UNCHANGED sender /\ pushed' = pushed
    BY <1>5 DEF Process, sender
  <2>. QED  BY <2>1, <2>2, RestOfRun, ReaderAnswers
<1>6. CASE ProcessCombined
  <2>1. inbox \in Seq(DataPacket) /\ inbox # <<>> /\ Run(inbox) /\ FreshData(inbox)
    BY <1>6 DEF IInv, TypeOK, InboxRun, ProcessCombined
  <2>2. /\ ProcessPacket(Head(inbox)) /\ inbox' = Tail(inbox)
        /\ UNCHANGED sender /\ pushed' = pushed
    BY <1>6 DEF ProcessCombined, sender
  <2>. QED  BY <2>1, <2>2, RestOfRun, ReaderAnswers
<1>7. CASE ProcessQueue
  <2> DEFINE p == [seq |-> nextInSeq, id |-> outOfOrder[nextInSeq]]
  <2>1. nextInSeq \in DOMAIN outOfOrder
    BY <1>7 DEF ProcessQueue, Drained
  <2>2. p \in DataPacket /\ p.id \in Nat /\ LastDelivered \in Nat
    BY <2>1, Integral DEF IInv, TypeOK, DataPacket
  <2>3. p.seq = SeqOf(p.id) /\ LastDelivered < p.id /\ p.id <= pushed
    BY <2>1 DEF IInv, Kept
  <2>4. LastDelivered + 1 - p.id <= Lifetime
    BY <2>2, <2>3, TransportAssumption
  <2>5. ProcessPacket(p) /\ UNCHANGED sender
    BY <1>7 DEF ProcessQueue
  <2> HIDE DEF p
  <2>. QED  BY <2>2, <2>3, <2>4, <2>5, ReaderAnswers
<1>8. CASE SendAck
  <2>1. /\ pushed' = pushed /\ queue' = queue /\ nextAckToSend' = nextAckToSend
        /\ LastDelivered' = LastDelivered /\ Oldest' = Oldest
        /\ toSender' = toSender \cup {[type |-> "Ack", seq |-> nextAckToSend, id |-> LastDelivered]}
    BY <1>8 DEF SendAck, sender, LastDelivered, Oldest
  <2>2. nextAckToSend # -1
    BY <1>8, SequenceAssumption DEF SendAck, AckDue, IInv, Numbered, TypeOK
  <2>3. LastDelivered \in Nat
    BY Integral DEF IInv
  <2>4. Answered'
    BY <2>1, <2>2, <2>3 DEF AckInv, Answered
  <2>. QED  BY <2>1, <2>4 DEF AckInv, ReleasedDelivered, MarkedDelivered
<1>9. CASE Lose
  BY <1>9, NothingAcked DEF Lose, sender, receiver
<1>10. CASE UNCHANGED vars
  BY <1>10, NothingAcked DEF vars, sender, receiver
<1>. QED
  BY <1>1, <1>2, <1>3, <1>4, <1>5, <1>6, <1>7, <1>8, <1>9, <1>10 DEF Next, WriteSome, DecaySome

\* What the sender has released or marked as acknowledged was delivered: for every
\* modulus and window that fit together no packet is forgotten that the network
\* may still owe the application.
THEOREM NothingForgotten == ASSUME WithinWindow PROVE Spec => []AckedWasReceived
<1>1. IInv /\ AckInv => AckedWasReceived
  <2> SUFFICES ASSUME IInv, AckInv, NEW id \in (Exchanged + 1)..pushed, ~ HasReceived(id)
               PROVE  id >= Oldest /\ ~ queue[id - Oldest + 1].acked
    BY DEF AckedWasReceived
  <2>1. /\ pushed \in Nat /\ Len(queue) \in Nat /\ Oldest \in Int /\ LastDelivered \in Nat
        /\ Exchanged \in Nat /\ id \in Int /\ id <= pushed
    BY Integral, TransportAssumption DEF IInv
  <2>2. id > LastDelivered
    BY <2>1 DEF HasReceived
  <2>3. id >= Oldest
    BY <2>1, <2>2 DEF AckInv, ReleasedDelivered
  <2> DEFINE i == id - Oldest + 1
  <2>4. i \in 1..Len(queue)
    BY <2>1, <2>3 DEF Oldest
  <2>5. queue[i].id = Oldest + i - 1
    BY <2>4 DEF IInv, QueueIds
  <2>6. queue[i].id = id
    BY <2>1, <2>5
  <2> HIDE DEF i
  <2>7. ~ queue[i].acked
    BY <2>1, <2>2, <2>4, <2>6 DEF AckInv, MarkedDelivered
  <2>. QED  BY <2>3, <2>7 DEF i
<1>. QED  BY <1>1, InvariantHolds, InitAckInv, NextAckInv, PTL DEF Spec
=============================================================================
