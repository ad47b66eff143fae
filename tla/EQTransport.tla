---------------------------- MODULE EQTransport ----------------------------
(***************************************************************************)
(* The sequenced packets of an established EQStream, in one direction: the *)
(* endpoint that pushes them (SequencedQueue), the one that receives them  *)
(* (NextInSeq, OutOfOrderpackets), and between them UDP, which loses,      *)
(* repeats and reorders datagrams.  Both endpoints run class EQStream;     *)
(* the opposite direction is the same protocol with the roles exchanged.   *)
(*                                                                         *)
(* Packets are numbered 1, 2, ... in the order they are pushed; packet n   *)
(* carries the uint16 sequence number (n - 1) % Modulus.  The numbers are  *)
(* the packets' contents: the code sees only the sequence numbers.         *)
(*                                                                         *)
(* One action is one critical section: SequencedPush, AckPackets, the      *)
(* OP_OutOfOrderAck case, Decay and the queue part of Write each run under *)
(* MOutboundQueue, the acknowledgement part of Write under MAcks, and the  *)
(* receiving queue belongs to the reader thread.                           *)
(***************************************************************************)
EXTENDS EQSequence, Sequences, FiniteSets

CONSTANTS
  Exchanged,     \* packets exchanged and acknowledged before the model starts
  MaxPackets,    \* bound: packets pushed in the model
  MaxAhead,      \* bound: how far the pushing side gets ahead of the receiver
  MaxCombine,    \* bound: sequenced packets combined into one datagram
  NetCapacity,   \* bound: datagrams under way in each direction
  Lifetime       \* bound: how many packets late a datagram may still arrive

ASSUME TransportAssumption ==
  /\ Exchanged \in Nat
  /\ MaxPackets \in Nat
  /\ MaxAhead \in Nat \ {0}
  /\ MaxCombine \in Nat \ {0}
  /\ NetCapacity \in Nat \ {0}
  /\ Lifetime \in Nat

VARIABLES
  \* the pushing endpoint
  pushed,          \* the number of the last packet pushed
  queue,           \* SequencedQueue: packets neither released nor forgotten
  sequencedBase,   \* SequencedBase: the sequence number of queue[1]
  nextOutSeq,      \* NextOutSeq
  \* the receiving endpoint
  delivered,       \* packets handed to the application, oldest first
  nextInSeq,       \* NextInSeq
  outOfOrder,      \* OutOfOrderpackets: sequence number -> packet
  inbox,           \* packets left in the datagram the reader is processing
  nextAckToSend,   \* NextAckToSend, -1 before the first packet
  lastAckSent,     \* LastAckSent, -1 before the first ack
  \* the network
  toReceiver,      \* datagrams of data: sequences of [seq, id]
  toSender         \* acknowledgements: [type, seq, id]

sender == <<pushed, queue, sequencedBase, nextOutSeq>>
receiver == <<delivered, nextInSeq, outOfOrder, inbox, nextAckToSend, lastAckSent>>
vars == <<sender, receiver, toReceiver, toSender>>

Id == (Exchanged + 1)..(Exchanged + MaxPackets)

DataPacket == [seq : Seq16, id : Id]
Reply == [type : {"Ack", "OutOfOrderAck"}, seq : Seq16, id : Nat]
Entry == [id : Id, sent : BOOLEAN, acked : BOOLEAN]

\* The last packet the application got, and the oldest one still queued.
LastDelivered == Exchanged + Len(delivered)
Oldest == pushed + 1 - Len(queue)

TypeOK ==
  /\ pushed \in Exchanged..(Exchanged + MaxPackets)
  /\ queue \in Seq(Entry)
  /\ sequencedBase \in Seq16
  /\ nextOutSeq \in Seq16
  /\ delivered \in Seq(Id)
  /\ nextInSeq \in Seq16
  /\ DOMAIN outOfOrder \subseteq Seq16
  /\ \A s \in DOMAIN outOfOrder : outOfOrder[s] \in Id
  /\ inbox \in Seq(DataPacket)
  /\ nextAckToSend \in -1..(Modulus - 1)
  /\ lastAckSent \in -1..(Modulus - 1)
  /\ \A d \in toReceiver : d \in Seq(DataPacket) /\ d # <<>>
  /\ toSender \subseteq Reply

\* A session in which `Exchanged' packets have come and gone; with none, the
\* state init() leaves behind a session request.
Init ==
  /\ pushed = Exchanged
  /\ queue = <<>>
  /\ sequencedBase = SeqOf(Exchanged + 1)
  /\ nextOutSeq = SeqOf(Exchanged + 1)
  /\ delivered = <<>>
  /\ nextInSeq = SeqOf(Exchanged + 1)
  /\ outOfOrder = <<>>
  /\ inbox = <<>>
  /\ nextAckToSend = IF Exchanged = 0 THEN -1 ELSE SeqOf(Exchanged)
  /\ lastAckSent = nextAckToSend
  /\ toReceiver = {}
  /\ toSender = {}

-----------------------------------------------------------------------------
(* The pushing endpoint.                                                   *)

\* SequencedPush, under MOutboundQueue.
SequencedPush ==
  /\ pushed < Exchanged + MaxPackets
  /\ pushed - LastDelivered < MaxAhead
  /\ pushed' = pushed + 1
  /\ queue' = Append(queue, [id |-> pushed + 1, sent |-> FALSE, acked |-> FALSE])
  /\ nextOutSeq' = Advance(nextOutSeq, 1)
  /\ UNCHANGED <<sequencedBase, receiver, toReceiver, toSender>>

\* Positions Write transmits: neither acknowledged nor sent since the last
\* time they were flagged.
Unsent(i) == ~queue[i].sent /\ ~queue[i].acked

\* Packets are combined into a datagram while they are neighbours in the queue
\* and fit; BytesWritten may stop the loop after any datagram, so a call of
\* Write is one or several of these steps.
Write(first, last) ==
  /\ last - first < MaxCombine
  /\ \A i \in first..last : Unsent(i)
  /\ \A i \in 1..(first - 1) : ~Unsent(i)
  /\ Cardinality(toReceiver) < NetCapacity
  /\ queue' = [i \in DOMAIN queue |->
                 IF i \in first..last THEN [queue[i] EXCEPT !.sent = TRUE] ELSE queue[i]]
  /\ toReceiver' = toReceiver \cup
       {[i \in 1..(last - first + 1) |->
           [seq |-> Advance(sequencedBase, first + i - 2), id |-> queue[first + i - 1].id]]}
  /\ UNCHANGED <<pushed, sequencedBase, nextOutSeq, receiver, toSender>>

WriteSome == \E first, last \in DOMAIN queue : first <= last /\ Write(first, last)

\* Packets that wait for an acknowledgement and may be found to have timed out.
Waiting(below) == {i \in DOMAIN queue : i < below /\ queue[i].sent /\ ~queue[i].acked}

\* Variant: packets that timed out stay marked as sent.
FlagNothing(q, positions) == q

\* sent_time = 0 for the packets at the given positions.
Flag(q, positions) ==
  [i \in DOMAIN q |-> IF i \in positions THEN [q[i] EXCEPT !.sent = FALSE] ELSE q[i]]

\* Decay: whichever packets have waited retransmittimeout are sent again.
Decay(positions) ==
  /\ positions # {}
  /\ queue' = Flag(queue, positions)
  /\ UNCHANGED <<pushed, sequencedBase, nextOutSeq, receiver, toReceiver, toSender>>

DecaySome == \E positions \in SUBSET Waiting(Len(queue) + 1) : Decay(positions)

\* The loop of AckPackets: release packets up to seq, or all there are.
Release(seq) ==
  LET count == Distance(sequencedBase, seq) + 1
  IN  \/ /\ count <= Len(queue)
         /\ queue' = SubSeq(queue, count + 1, Len(queue))
         /\ sequencedBase' = Advance(seq, 1)
      \/ /\ count > Len(queue)
         /\ queue' = <<>>
         /\ sequencedBase' = nextOutSeq

AckPackets(seq) ==
  \/ /\ CompareSequence(sequencedBase, seq) = "SeqFuture"
     /\ Release(seq)
  \/ /\ CompareSequence(sequencedBase, seq) # "SeqFuture"
     /\ UNCHANGED <<queue, sequencedBase>>

\* A datagram that was received is gone from the network or arrives once more.
Received(net, m) == {net, net \ {m}}

FreshReply(m) == Oldest - m.id <= Lifetime

ReceiveAck(m) ==
  /\ m.type = "Ack"
  /\ FreshReply(m)
  /\ toSender' \in Received(toSender, m)
  /\ AckPackets(m.seq)
  /\ UNCHANGED <<pushed, nextOutSeq, receiver, toReceiver>>

InWindow(seq) ==
  /\ CompareSequence(sequencedBase, seq) # "SeqPast"
  /\ CompareSequence(nextOutSeq, seq) = "SeqPast"
  /\ Distance(sequencedBase, seq) < Len(queue)

\* The packet is marked; older ones that have waited long enough are flagged.
ReceiveOutOfOrderAck(m) ==
  /\ m.type = "OutOfOrderAck"
  /\ FreshReply(m)
  /\ toSender' \in Received(toSender, m)
  /\ \/ /\ InWindow(m.seq)
        /\ LET index == Distance(sequencedBase, m.seq) + 1
           IN  \E positions \in SUBSET Waiting(index) :
                 queue' = [Flag(queue, positions) EXCEPT ![index].acked = TRUE]
     \/ ~InWindow(m.seq) /\ UNCHANGED queue
  /\ UNCHANGED <<pushed, sequencedBase, nextOutSeq, receiver, toReceiver>>

-----------------------------------------------------------------------------
(* The receiving endpoint.                                                 *)

Without(f, s) == [x \in DOMAIN f \ {s} |-> f[x]]

\* The packet every case waits for: RemoveQueue, SetNextAckToSend, NextInSeq++
\* and the application.
Accept(p) ==
  /\ outOfOrder' = Without(outOfOrder, p.seq)
  /\ nextAckToSend' = p.seq
  /\ nextInSeq' = Advance(nextInSeq, 1)
  /\ delivered' = Append(delivered, p.id)
  /\ UNCHANGED toSender

\* A packet that comes early is kept, in place of one kept before.
Keep(p) ==
  /\ outOfOrder' = [s \in DOMAIN outOfOrder \cup {p.seq} |->
                      IF s = p.seq THEN p.id ELSE outOfOrder[s]]
  /\ UNCHANGED <<nextAckToSend, nextInSeq, delivered, toSender>>

\* Variant: duplicates are dropped without an answer.
RepeatSilently(p) == UNCHANGED <<outOfOrder, nextAckToSend, nextInSeq, delivered, toSender>>

\* SendOutOfOrderAck.  The queue of unsequenced packets is part of the network.
Repeat(p) ==
  /\ toSender' = toSender \cup {[type |-> "OutOfOrderAck", seq |-> p.seq, id |-> p.id]}
  /\ UNCHANGED <<outOfOrder, nextAckToSend, nextInSeq, delivered>>

\* Variant: early packets go to the application at once.
ProcessPacketEager(p) ==
  \/ CompareSequence(nextInSeq, p.seq) = "SeqPast" /\ Repeat(p)
  \/ CompareSequence(nextInSeq, p.seq) # "SeqPast" /\ Accept(p)

\* Variant: early packets are acknowledged but not kept.
ProcessPacketForgetful(p) ==
  \/ CompareSequence(nextInSeq, p.seq) # "SeqInOrder" /\ Repeat(p)
  \/ CompareSequence(nextInSeq, p.seq) = "SeqInOrder" /\ Accept(p)

\* The OP_Packet case of ProcessPacket, and OP_Fragment's with it.
ProcessPacket(p) ==
  \/ CompareSequence(nextInSeq, p.seq) = "SeqFuture" /\ Keep(p)
  \/ CompareSequence(nextInSeq, p.seq) = "SeqPast" /\ Repeat(p)
  \/ CompareSequence(nextInSeq, p.seq) = "SeqInOrder" /\ Accept(p)

\* ProcessQueue has gone through the packets kept: the reader is idle.
Drained == nextInSeq \notin DOMAIN outOfOrder

FreshData(d) == \A i \in DOMAIN d : LastDelivered + 1 - d[i].id <= Lifetime

\* Process: a datagram arrives, and its first packet is processed ...
Process(d) ==
  /\ inbox = <<>> /\ Drained
  /\ FreshData(d)
  /\ Cardinality(toSender) < NetCapacity
  /\ toReceiver' \in Received(toReceiver, d)
  /\ inbox' = Tail(d)
  /\ ProcessPacket(Head(d))
  /\ UNCHANGED <<sender, lastAckSent>>

\* ... then the others, the OP_Combined loop ...
ProcessCombined ==
  /\ inbox # <<>>
  /\ Cardinality(toSender) < NetCapacity
  /\ inbox' = Tail(inbox)
  /\ ProcessPacket(Head(inbox))
  /\ UNCHANGED <<sender, lastAckSent, toReceiver>>

\* ... and then the packets kept that have become the next ones.
ProcessQueue ==
  /\ inbox = <<>> /\ ~Drained
  /\ ProcessPacket([seq |-> nextInSeq, id |-> outOfOrder[nextInSeq]])
  /\ UNCHANGED <<sender, inbox, lastAckSent, toReceiver>>

\* The test Write makes before it acknowledges, under MAcks.
AckDue == nextAckToSend > lastAckSent \/ lastAckSent = Modulus - 1

SendAck ==
  /\ AckDue
  /\ Cardinality(toSender) < NetCapacity
  /\ lastAckSent' = nextAckToSend
  /\ toSender' = toSender \cup {[type |-> "Ack", seq |-> nextAckToSend, id |-> LastDelivered]}
  /\ UNCHANGED <<sender, delivered, nextInSeq, outOfOrder, inbox, nextAckToSend, toReceiver>>

-----------------------------------------------------------------------------
\* UDP loses a datagram.
Lose ==
  /\ \/ /\ \E d \in toReceiver : toReceiver' = toReceiver \ {d}
        /\ UNCHANGED toSender
     \/ /\ \E m \in toSender : toSender' = toSender \ {m}
        /\ UNCHANGED toReceiver
  /\ UNCHANGED <<sender, receiver>>

Next ==
  \/ SequencedPush
  \/ WriteSome
  \/ DecaySome
  \/ \E m \in toSender : ReceiveAck(m) \/ ReceiveOutOfOrderAck(m)
  \/ \E d \in toReceiver : Process(d)
  \/ ProcessCombined
  \/ ProcessQueue
  \/ SendAck
  \/ Lose

Spec == Init /\ [][Next]_vars

\* Actions that concern one packet.
FlagPacket(id) ==
  \E positions \in SUBSET Waiting(Len(queue) + 1) : id - Oldest + 1 \in positions /\ Decay(positions)

Arrive(id) == \E d \in toReceiver : (\E i \in DOMAIN d : d[i].id = id) /\ Process(d)

Acknowledge(id) ==
  \E m \in toSender : m.id = id /\ (ReceiveAck(m) \/ ReceiveOutOfOrderAck(m))

(***************************************************************************)
(* Fairness: the writer thread calls Write and Decay every few             *)
(* milliseconds for a stream that has outgoing data, a packet that is not  *)
(* acknowledged times out, and the reader processes the datagram it has.   *)
(* The network may lose a packet any number of times, but not every time.  *)
(***************************************************************************)
Fairness ==
  /\ WF_vars(WriteSome) /\ WF_vars(ProcessCombined) /\ WF_vars(ProcessQueue)
  /\ \A id \in Id : WF_vars(FlagPacket(id)) /\ SF_vars(Arrive(id)) /\ SF_vars(Acknowledge(id))

FairSpec == Spec /\ Fairness

\* What the code takes for granted and nothing in it enforces: the pushing side
\* is at most a window ahead, and no datagram is more than a window late.
WithinWindow == MaxAhead <= MaxWindowSize /\ Lifetime <= MaxWindowSize

-----------------------------------------------------------------------------
(* Properties.                                                             *)

\* The application gets the packets in the order they were pushed, none twice
\* and none left out, whatever the network does to the datagrams.
InOrderOnce == \A i \in DOMAIN delivered : delivered[i] = Exchanged + i

\* Packets the receiver has, in its application or in its queue.
HasReceived(id) ==
  id <= LastDelivered \/ \E s \in DOMAIN outOfOrder : outOfOrder[s] = id

\* A packet the sender will never send again, because it was released or is
\* marked as acknowledged, has reached the receiver: nothing is forgotten
\* that was not received.
AckedWasReceived ==
  \A id \in (Exchanged + 1)..pushed :
    \/ HasReceived(id)
    \/ id >= Oldest /\ ~queue[id - Oldest + 1].acked

\* The check the code logs as "Invalid Sequenced queue": the queue holds the
\* packets from SequencedBase to NextOutSeq.
QueueConsistent == Advance(sequencedBase, Len(queue)) = nextOutSeq

\* A packet kept for later is later than everything delivered: no duplicate
\* from the past lies in wait for its number to come round again.
KeptIsLater == \A s \in DOMAIN outOfOrder : outOfOrder[s] > LastDelivered

\* The transport implements the channel it stands for.
Channel == INSTANCE ReliableChannel WITH First <- Exchanged
ChannelSpec == Channel!Spec

\* Every packet pushed reaches the application in the end, whatever is lost.
Arrives == \A id \in Id : pushed >= id ~> LastDelivered >= id

\* The sender learns it in the end: no packet is sent again for ever.
Settles ==
  \A id \in Id : pushed >= id ~>
    (id <= pushed /\ (id < Oldest \/ queue[id - Oldest + 1].acked))
=============================================================================
