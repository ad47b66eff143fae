----------------------- MODULE EQStreamFactoryProofs -----------------------
(***************************************************************************)
(* The streams of EQStreamFactory, for any number of peers and sessions:   *)
(* the map is sound, nobody follows a pointer to a deleted stream, and no  *)
(* peer has two clients.                                                   *)
(*                                                                         *)
(* That a stream in use is alive rests on time.  A stream is deleted on    *)
(* the third pass of CheckTimeout that finds it closed; whoever uses one   *)
(* has seen it open, or made it, and no more than Grace passes have begun  *)
(* since.  So each delay a stream has, and the one that the present pass   *)
(* may still give it, is paid for by a pass counted in somebody's age.     *)
(***************************************************************************)
EXTENDS EQStreamFactory, TLAPS

\* The present pass may still give the stream a delay, or delete it.
Pending(s) == mainAt = "timeout" /\ \E a \in toCheck : streams[a] = s

\* n passes pay for the delays of the stream, and for the one that is to come.
Paid(s, n) == delays[s] <= n /\ (Pending(s) => delays[s] < n)

\* The reader has a stream that is not deleted.
ReaderHolds == readerAt \in {"signal", "push", "open", "process"}

\* A new stream that the main loop is still to take.
ToPush(s) == readerAt \in {"signal", "push"} /\ readerOn = s
Queued(s) == \E i \in DOMAIN newStreams : newStreams[i] = s

ReaderOK ==
  /\ readerAt \in {"request", "insert"} => born < MaxStreams
  /\ readerAt # "select" => readerFor \in Addr
  /\ ReaderHolds => readerOn \in 1..born
  /\ readerAt # "select" /\ mainAt = "timeout" => readerAge > 0

\* Nobody has a stream that is not born, and such a stream is as it will be.
Born ==
  /\ \A s \in deleted \cup clients \cup connecting \cup wantsWrite : s <= born
  /\ \A s \in Stream : Queued(s) => s <= born
  /\ \A s \in Stream : s > born => state[s] = "CLOSED" /\ delays[s] = 0 /\ waited[s] = 0

\* Only closed streams are given delays, or deleted.
ClosedOnly ==
  /\ \A s \in Stream : state[s] # "CLOSED" => delays[s] = 0
  /\ \A s \in deleted : state[s] = "CLOSED"

CheckOK ==
  /\ \A a \in toCheck : streams[a] # None
  /\ mainAt # "timeout" => toCheck = {}

\* A new stream is pushed once.
QueueOK ==
  /\ \A i, j \in DOMAIN newStreams : newStreams[i] = newStreams[j] => i = j
  /\ \A s \in Stream : ToPush(s) => ~Queued(s)

WriterOK == wantsWrite # {} => writerAt = "write"

\* Delays are paid for.
ReaderInTime == ReaderHolds => Paid(readerOn, readerAge)
WriterInTime == \A s \in wantsWrite : Paid(s, writerAge)
QueueInTime ==
  \A s \in Stream : ToPush(s) \/ Queued(s) => Paid(s, waited[s] + 1) /\ waited[s] <= Grace

IInv ==
  /\ TypeOK
  /\ MapIsSound
  /\ InUseIsAlive
  /\ OneClientPerPeer
  /\ ReaderOK /\ Born /\ ClosedOnly /\ CheckOK /\ QueueOK /\ WriterOK
  /\ ReaderInTime /\ WriterInTime /\ QueueInTime

-----------------------------------------------------------------------------

LEMMA StreamTimes ==
  ASSUME TypeOK, NEW s \in Stream
  PROVE  delays[s] \in Nat /\ waited[s] \in Nat
<1>1. delays \in [Stream -> 0..2] /\ waited \in [Stream -> Nat]
  BY DEF TypeOK
<1>2. delays[s] \in 0..2 /\ waited[s] \in Nat
  BY <1>1
<1>. QED  BY <1>2

LEMMA InitIInv == Init => IInv
<1> SUFFICES ASSUME Init PROVE IInv
  OBVIOUS
<1> USE FactoryAssumption DEF Stream
<1>1. TypeOK
  BY DEF Init, TypeOK
<1>2. MapIsSound /\ InUseIsAlive /\ OneClientPerPeer
  BY DEF Init, MapIsSound, InUseIsAlive, OneClientPerPeer
<1>3. ReaderOK /\ ClosedOnly /\ CheckOK /\ WriterOK
  BY DEF Init, ReaderOK, ReaderHolds, ClosedOnly, CheckOK, WriterOK
<1>4. Born /\ QueueOK
  BY DEF Init, Born, Queued, QueueOK, ToPush
<1>5. ReaderInTime /\ WriterInTime /\ QueueInTime
  BY DEF Init, ReaderInTime, ReaderHolds, WriterInTime, QueueInTime, Queued, ToPush
<1>. QED  BY <1>1, <1>2, <1>3, <1>4, <1>5 DEF IInv

-----------------------------------------------------------------------------
(* ReaderLoop *)

LEMMA ReceiveRequestIInv ==
  ASSUME IInv, NEW a \in Addr, ReceiveRequest(a)
  PROVE  IInv'
<1> USE FactoryAssumption DEF Stream, IInv, streamVars, factoryVars, readerVars, writerVars, mainVars
<1>1. TypeOK'
  BY DEF ReceiveRequest, MStreamsFree, TypeOK
<1>2. MapIsSound'
  BY DEF ReceiveRequest, MStreamsFree, MapIsSound, TypeOK, Born
<1>3. InUseIsAlive'
  BY DEF ReceiveRequest, MStreamsFree, InUseIsAlive, InUse, Fresh, TypeOK, Born
<1>4. OneClientPerPeer'
  BY DEF ReceiveRequest, MStreamsFree, OneClientPerPeer, TypeOK, Born
<1>5. ReaderOK' /\ ClosedOnly' /\ CheckOK' /\ WriterOK'
  BY DEF ReceiveRequest, MStreamsFree, ReaderOK, ReaderHolds, ClosedOnly, CheckOK, WriterOK, TypeOK
<1>6. Born' /\ QueueOK'
  BY DEF ReceiveRequest, MStreamsFree, Born, Queued, QueueOK, ToPush, TypeOK
<1>7. ReaderInTime' /\ WriterInTime'
  BY DEF ReceiveRequest, MStreamsFree, ReaderInTime, ReaderHolds, WriterInTime, Paid, Pending, Born, ClosedOnly, ReaderOK, TypeOK
<1>8. QueueInTime'
  BY DEF ReceiveRequest, MStreamsFree, QueueInTime, Queued, ToPush, Paid, Pending, Born, ReaderOK, TypeOK
<1>. QED  BY <1>1, <1>2, <1>3, <1>4, <1>5, <1>6, <1>7, <1>8 DEF IInv

LEMMA CloseOldIInv ==
  ASSUME IInv, CloseOld
  PROVE  IInv'
<1> USE FactoryAssumption DEF Stream, IInv, streamVars, factoryVars, readerVars, writerVars, mainVars
<1>1. TypeOK'
  BY DEF CloseOld, TypeOK
<1>2. MapIsSound'
  BY DEF CloseOld, MapIsSound, TypeOK, Born
<1>3. InUseIsAlive'
  BY DEF CloseOld, InUseIsAlive, InUse, Fresh, TypeOK, Born
<1>4. OneClientPerPeer'
  BY DEF CloseOld, OneClientPerPeer, TypeOK, Born
<1>5. ReaderOK' /\ ClosedOnly' /\ CheckOK' /\ WriterOK'
  BY DEF CloseOld, ReaderOK, ReaderHolds, ClosedOnly, CheckOK, WriterOK, TypeOK
<1>6. Born' /\ QueueOK'
  BY DEF CloseOld, Born, Queued, QueueOK, ToPush, TypeOK
<1>7. ReaderInTime' /\ WriterInTime'
  BY DEF CloseOld, ReaderInTime, ReaderHolds, WriterInTime, Paid, Pending, Born, ClosedOnly, ReaderOK, TypeOK
<1>8. QueueInTime'
  BY DEF CloseOld, QueueInTime, Queued, ToPush, Paid, Pending, Born, ReaderOK, TypeOK
<1>. QED  BY <1>1, <1>2, <1>3, <1>4, <1>5, <1>6, <1>7, <1>8 DEF IInv

LEMMA InsertIInv ==
  ASSUME IInv, Insert
  PROVE  IInv'
<1> USE FactoryAssumption DEF Stream, IInv, streamVars, factoryVars, readerVars, writerVars, mainVars
<1>0. born + 1 \in Stream /\ readerFor \in Addr
  BY DEF Insert, ReaderOK, TypeOK
<1>1. TypeOK'
  BY <1>0 DEF Insert, TypeOK
<1>2. MapIsSound'
  BY <1>0 DEF Insert, MapIsSound, TypeOK, Born
<1>3. InUseIsAlive'
  BY <1>0 DEF Insert, InUseIsAlive, InUse, Fresh, TypeOK, Born
<1>4. OneClientPerPeer'
  BY <1>0 DEF Insert, OneClientPerPeer, TypeOK, Born
<1>5. ReaderOK' /\ ClosedOnly' /\ CheckOK' /\ WriterOK'
  BY <1>0 DEF Insert, ReaderOK, ReaderHolds, ClosedOnly, CheckOK, WriterOK, TypeOK
<1>6. Born' /\ QueueOK'
  BY <1>0 DEF Insert, Born, Queued, QueueOK, ToPush, TypeOK
<1>7. ReaderInTime' /\ WriterInTime'
  <2>1. delays[born + 1] = 0 /\ delays' = delays /\ readerOn' = born + 1 /\ readerAge' = readerAge
    BY <1>0 DEF Insert, Born, TypeOK
  <2>2. Pending(readerOn)' => readerAge > 0
    BY DEF Insert, Pending, ReaderOK, TypeOK
  <2>3. ReaderInTime'
    BY <2>1, <2>2 DEF ReaderInTime, Paid, TypeOK
  <2>4. ASSUME NEW s \in wantsWrite PROVE Pending(s)' => Pending(s)
    BY <1>0 DEF Insert, Pending, Born, TypeOK
  <2>5. WriterInTime'
    BY <2>1, <2>4 DEF Insert, WriterInTime, Paid, TypeOK
  <2>. QED  BY <2>3, <2>5
<1>8. QueueInTime'
  <2>1. delays[born + 1] = 0 /\ waited[born + 1] = 0 /\ delays' = delays /\ waited' = waited
    BY <1>0 DEF Insert, Born, TypeOK
  <2> SUFFICES ASSUME NEW s \in Stream, ToPush(s)' \/ Queued(s)'
               PROVE  Paid(s, waited[s] + 1)' /\ waited[s] <= Grace
    BY <2>1 DEF QueueInTime
  <2>2. CASE s = born + 1
    BY <2>1, <2>2 DEF Paid, TypeOK
  <2>3. CASE s # born + 1
    <3>1. Queued(s) /\ s <= born
      BY <2>3 DEF Insert, ToPush, Queued, Born
    <3>2. Pending(s)' => Pending(s)
      BY <1>0, <2>3 DEF Insert, Pending, TypeOK
    <3>. QED  BY <2>1, <3>1, <3>2 DEF QueueInTime, Paid
  <2>. QED  BY <2>2, <2>3
<1>. QED  BY <1>1, <1>2, <1>3, <1>4, <1>5, <1>6, <1>7, <1>8 DEF IInv

LEMMA SignalIInv ==
  ASSUME IInv, Signal
  PROVE  IInv'
<1> USE FactoryAssumption DEF Stream, IInv, streamVars, factoryVars, readerVars, writerVars, mainVars
<1>1. TypeOK'
  BY DEF Signal, TypeOK
<1>2. MapIsSound'
  BY DEF Signal, MapIsSound, TypeOK, Born
<1>3. InUseIsAlive'
  BY DEF Signal, InUseIsAlive, InUse, Fresh, TypeOK, Born
<1>4. OneClientPerPeer'
  BY DEF Signal, OneClientPerPeer, TypeOK, Born
<1>5. ReaderOK' /\ ClosedOnly' /\ CheckOK' /\ WriterOK'
  BY DEF Signal, ReaderOK, ReaderHolds, ClosedOnly, CheckOK, WriterOK, TypeOK
<1>6. Born' /\ QueueOK'
  BY DEF Signal, Born, Queued, QueueOK, ToPush, TypeOK
<1>7. ReaderInTime' /\ WriterInTime'
  BY DEF Signal, ReaderInTime, ReaderHolds, WriterInTime, Paid, Pending, Born, ClosedOnly, ReaderOK, TypeOK
<1>8. QueueInTime'
  BY DEF Signal, QueueInTime, Queued, ToPush, Paid, Pending, Born, ReaderOK, TypeOK
<1>. QED  BY <1>1, <1>2, <1>3, <1>4, <1>5, <1>6, <1>7, <1>8 DEF IInv

LEMMA PushIInv ==
  ASSUME IInv, Push
  PROVE  IInv'
<1> USE FactoryAssumption DEF Stream, IInv, streamVars, factoryVars, readerVars, writerVars, mainVars
<1>0. /\ readerOn \in Stream /\ readerOn <= born
      /\ \A s \in Stream : Queued(s)' <=> Queued(s) \/ s = readerOn
      /\ \A s \in Stream : ToPush(s)' <=> FALSE
      /\ ToPush(readerOn)
  <2>1. readerOn \in Stream /\ readerOn <= born
    BY DEF Push, ReaderOK, ReaderHolds, TypeOK
  <2>2. newStreams \in Seq(Stream) /\ newStreams' = Append(newStreams, readerOn)
    BY DEF Push, TypeOK
  <2>3. ASSUME NEW s \in Stream PROVE Queued(s)' <=> Queued(s) \/ s = readerOn
    BY <2>1, <2>2 DEF Queued
  <2>. QED  BY <2>1, <2>3 DEF Push, ToPush
<1>1. TypeOK'
  BY <1>0 DEF Push, TypeOK
<1>2. MapIsSound'
  BY DEF Push, MapIsSound, TypeOK, Born
<1>3. InUseIsAlive'
  BY DEF Push, InUseIsAlive, InUse, Fresh, TypeOK, Born
<1>4. OneClientPerPeer'
  BY DEF Push, OneClientPerPeer, TypeOK, Born
<1>5. ReaderOK' /\ ClosedOnly' /\ CheckOK' /\ WriterOK'
  BY DEF Push, ReaderOK, ReaderHolds, ClosedOnly, CheckOK, WriterOK, TypeOK
<1>6. Born' /\ QueueOK'
  <2>1. Born'
    BY <1>0 DEF Push, Born, TypeOK
  <2>2. newStreams \in Seq(Stream) /\ newStreams' = Append(newStreams, readerOn)
    BY DEF Push, TypeOK
  <2>3. \A i \in DOMAIN newStreams : newStreams[i] # readerOn
    BY <1>0 DEF QueueOK, Queued
  <2>4. QueueOK'
    BY <1>0, <2>2, <2>3 DEF QueueOK
  <2>. QED  BY <2>1, <2>4
<1>7. ReaderInTime' /\ WriterInTime'
  BY DEF Push, ReaderInTime, ReaderHolds, WriterInTime, Paid, Pending, Born, ClosedOnly, ReaderOK, TypeOK
<1>8. QueueInTime'
  BY <1>0 DEF Push, QueueInTime, Paid, Pending, TypeOK
<1>. QED  BY <1>1, <1>2, <1>3, <1>4, <1>5, <1>6, <1>7, <1>8 DEF IInv

LEMMA OpenSessionIInv ==
  ASSUME IInv, OpenSession
  PROVE  IInv'
<1> USE FactoryAssumption DEF Stream, IInv, streamVars, factoryVars, readerVars, writerVars, mainVars
<1>0. /\ readerOn \in Stream /\ readerOn <= born /\ readerOn \notin deleted
      /\ \A s \in Stream : delays'[s] \in {delays[s], 0}
      /\ delays' \in [Stream -> 0..2]
      /\ state' \in [Stream -> {"ESTABLISHED", "CLOSING", "CLOSED"}]
      /\ \A s \in Stream : s # readerOn => state'[s] = state[s] /\ delays'[s] = delays[s]
  <2>1. readerOn \in Stream /\ readerOn <= born
    BY DEF OpenSession, ReaderOK, ReaderHolds, TypeOK
  <2>2. readerOn \notin deleted
    BY <2>1 DEF OpenSession, InUseIsAlive, InUse, Fresh
  <2>3. CASE UNCHANGED <<state, delays, outgoing>>
    BY <2>1, <2>2, <2>3 DEF TypeOK
  <2>4. CASE /\ state' = [state EXCEPT ![readerOn] = "ESTABLISHED"]
             /\ delays' = [delays EXCEPT ![readerOn] = 0]
    BY <2>1, <2>2, <2>4 DEF TypeOK
  <2>. QED  BY <2>3, <2>4 DEF OpenSession

<1>1. TypeOK'
  BY <1>0 DEF OpenSession, ReaderDone, TypeOK
<1>2. MapIsSound'
  BY DEF OpenSession, ReaderDone, MapIsSound, TypeOK, Born
<1>3. InUseIsAlive'
  BY DEF OpenSession, ReaderDone, InUseIsAlive, InUse, Fresh, TypeOK, Born
<1>4. OneClientPerPeer'
  BY DEF OpenSession, ReaderDone, OneClientPerPeer, TypeOK, Born
<1>5. ReaderOK' /\ ClosedOnly' /\ CheckOK' /\ WriterOK'
  <2>1. ClosedOnly'
    BY <1>0 DEF OpenSession, ClosedOnly, TypeOK
  <2>. QED  BY <2>1 DEF OpenSession, ReaderDone, ReaderOK, ReaderHolds, CheckOK, WriterOK, TypeOK
<1>6. Born' /\ QueueOK'
  BY <1>0 DEF OpenSession, ReaderDone, Born, Queued, QueueOK, ToPush, TypeOK
<1>7. ReaderInTime' /\ WriterInTime'
  BY <1>0 DEF OpenSession, ReaderDone, ReaderInTime, ReaderHolds, WriterInTime, Paid, Pending, TypeOK
<1>8. QueueInTime'
  BY <1>0 DEF OpenSession, ReaderDone, QueueInTime, Queued, ToPush, Paid, Pending, TypeOK
<1>. QED  BY <1>1, <1>2, <1>3, <1>4, <1>5, <1>6, <1>7, <1>8 DEF IInv

LEMMA ReceiveDataIInv ==
  ASSUME IInv, NEW a \in Addr, ReceiveData(a)
  PROVE  IInv'
<1> USE FactoryAssumption DEF Stream, IInv, streamVars, factoryVars, readerVars, writerVars, mainVars
<1>0. /\ streams[a] \in Stream /\ streams[a] <= born /\ streams[a] \notin deleted
      /\ delays[streams[a]] = 0 /\ mainAt # "timeout"
  BY DEF ReceiveData, MStreamsFree, MapIsSound, ClosedOnly, TypeOK
<1>1. TypeOK'
  BY DEF ReceiveData, MStreamsFree, TypeOK
<1>2. MapIsSound'
  BY DEF ReceiveData, MStreamsFree, MapIsSound, TypeOK, Born
<1>3. InUseIsAlive'
  BY <1>0 DEF ReceiveData, InUseIsAlive, InUse, Fresh
<1>4. OneClientPerPeer'
  BY DEF ReceiveData, MStreamsFree, OneClientPerPeer, TypeOK, Born
<1>5. ReaderOK' /\ ClosedOnly' /\ CheckOK' /\ WriterOK'
  BY <1>0 DEF ReceiveData, ReaderOK, ReaderHolds, ClosedOnly, CheckOK, WriterOK, TypeOK
<1>6. Born' /\ QueueOK'
  BY DEF ReceiveData, MStreamsFree, Born, Queued, QueueOK, ToPush, TypeOK
<1>7. ReaderInTime' /\ WriterInTime'
  BY <1>0 DEF ReceiveData, ReaderInTime, ReaderHolds, WriterInTime, Paid, Pending, TypeOK
<1>8. QueueInTime'
  BY DEF ReceiveData, MStreamsFree, QueueInTime, Queued, ToPush, Paid, Pending, Born, ReaderOK, TypeOK
<1>. QED  BY <1>1, <1>2, <1>3, <1>4, <1>5, <1>6, <1>7, <1>8 DEF IInv

LEMMA ProcessDataIInv ==
  ASSUME IInv, ProcessData
  PROVE  IInv'
<1> USE FactoryAssumption DEF Stream, IInv, streamVars, factoryVars, readerVars, writerVars, mainVars
<1>1. TypeOK'
  BY DEF ProcessData, ReaderDone, SendDisconnect, TypeOK
<1>2. MapIsSound'
  BY DEF ProcessData, ReaderDone, SendDisconnect, MapIsSound, TypeOK, Born
<1>3. InUseIsAlive'
  BY DEF ProcessData, ReaderDone, SendDisconnect, InUseIsAlive, InUse, Fresh, TypeOK, Born
<1>4. OneClientPerPeer'
  BY DEF ProcessData, ReaderDone, SendDisconnect, OneClientPerPeer, TypeOK, Born
<1>5. ReaderOK' /\ ClosedOnly' /\ CheckOK' /\ WriterOK'
  BY DEF ProcessData, ReaderDone, SendDisconnect, ReaderOK, ReaderHolds, ClosedOnly, CheckOK, WriterOK, TypeOK
<1>6. Born' /\ QueueOK'
  BY DEF ProcessData, ReaderDone, SendDisconnect, Born, Queued, QueueOK, ToPush, TypeOK
<1>7. ReaderInTime' /\ WriterInTime'
  BY DEF ProcessData, ReaderDone, SendDisconnect, ReaderInTime, ReaderHolds, WriterInTime, Paid, Pending, Born, ClosedOnly, ReaderOK, TypeOK
<1>8. QueueInTime'
  BY DEF ProcessData, ReaderDone, SendDisconnect, QueueInTime, Queued, ToPush, Paid, Pending, Born, ReaderOK, TypeOK
<1>. QED  BY <1>1, <1>2, <1>3, <1>4, <1>5, <1>6, <1>7, <1>8 DEF IInv

-----------------------------------------------------------------------------
(* WriterLoop *)

LEMMA ScanIInv ==
  ASSUME IInv, Scan
  PROVE  IInv'
<1> USE FactoryAssumption DEF Stream, IInv, streamVars, factoryVars, readerVars, writerVars, mainVars
<1>1. TypeOK'
  BY DEF Scan, MStreamsFree, InMap, TypeOK
<1>2. MapIsSound'
  BY DEF Scan, MStreamsFree, InMap, MapIsSound, TypeOK, Born
<1>3. InUseIsAlive'
  BY DEF Scan, InMap, MapIsSound, InUseIsAlive, InUse, Fresh, TypeOK
<1>4. OneClientPerPeer'
  BY DEF Scan, MStreamsFree, InMap, OneClientPerPeer, TypeOK, Born
<1>5. ReaderOK' /\ ClosedOnly' /\ CheckOK' /\ WriterOK'
  BY DEF Scan, MStreamsFree, InMap, ReaderOK, ReaderHolds, ClosedOnly, CheckOK, WriterOK, TypeOK
<1>6. Born' /\ QueueOK'
  BY DEF Scan, MStreamsFree, InMap, Born, Queued, QueueOK, ToPush, TypeOK
<1>7. ReaderInTime' /\ WriterInTime'
  BY DEF Scan, MStreamsFree, InMap, ReaderInTime, ReaderHolds, WriterInTime, Paid, Pending, Born, ClosedOnly, ReaderOK, TypeOK
<1>8. QueueInTime'
  BY DEF Scan, MStreamsFree, InMap, QueueInTime, Queued, ToPush, Paid, Pending, Born, ReaderOK, TypeOK
<1>. QED  BY <1>1, <1>2, <1>3, <1>4, <1>5, <1>6, <1>7, <1>8 DEF IInv

LEMMA WriteStreamIInv ==
  ASSUME IInv, WriteStream
  PROVE  IInv'
<1> USE FactoryAssumption DEF Stream, IInv, streamVars, factoryVars, readerVars, writerVars, mainVars
<1>1. TypeOK'
  BY DEF WriteStream, TypeOK
<1>2. MapIsSound'
  BY DEF WriteStream, MapIsSound, TypeOK, Born
<1>3. InUseIsAlive'
  BY DEF WriteStream, InUseIsAlive, InUse, Fresh, TypeOK, Born
<1>4. OneClientPerPeer'
  BY DEF WriteStream, OneClientPerPeer, TypeOK, Born
<1>5. ReaderOK' /\ ClosedOnly' /\ CheckOK' /\ WriterOK'
  BY DEF WriteStream, ReaderOK, ReaderHolds, ClosedOnly, CheckOK, WriterOK, TypeOK
<1>6. Born' /\ QueueOK'
  BY DEF WriteStream, Born, Queued, QueueOK, ToPush, TypeOK
<1>7. ReaderInTime' /\ WriterInTime'
  BY DEF WriteStream, ReaderInTime, ReaderHolds, WriterInTime, Paid, Pending, Born, ClosedOnly, ReaderOK, TypeOK
<1>8. QueueInTime'
  BY DEF WriteStream, QueueInTime, Queued, ToPush, Paid, Pending, Born, ReaderOK, TypeOK
<1>. QED  BY <1>1, <1>2, <1>3, <1>4, <1>5, <1>6, <1>7, <1>8 DEF IInv

LEMMA CheckResendIInv ==
  ASSUME IInv, CheckResend
  PROVE  IInv'
<1> USE FactoryAssumption DEF Stream, IInv, streamVars, factoryVars, readerVars, writerVars, mainVars
<1>1. TypeOK'
  BY DEF CheckResend, TypeOK
<1>2. MapIsSound'
  BY DEF CheckResend, MapIsSound, TypeOK, Born
<1>3. InUseIsAlive'
  BY DEF CheckResend, InUseIsAlive, InUse, Fresh, TypeOK, Born
<1>4. OneClientPerPeer'
  BY DEF CheckResend, OneClientPerPeer, TypeOK, Born
<1>5. ReaderOK' /\ ClosedOnly' /\ CheckOK' /\ WriterOK'
  BY DEF CheckResend, ReaderOK, ReaderHolds, ClosedOnly, CheckOK, WriterOK, TypeOK
<1>6. Born' /\ QueueOK'
  BY DEF CheckResend, Born, Queued, QueueOK, ToPush, TypeOK
<1>7. ReaderInTime' /\ WriterInTime'
  BY DEF CheckResend, ReaderInTime, ReaderHolds, WriterInTime, Paid, Pending, Born, ClosedOnly, ReaderOK, TypeOK
<1>8. QueueInTime'
  BY DEF CheckResend, QueueInTime, Queued, ToPush, Paid, Pending, Born, ReaderOK, TypeOK
<1>. QED  BY <1>1, <1>2, <1>3, <1>4, <1>5, <1>6, <1>7, <1>8 DEF IInv

LEMMA CountStreamsIInv ==
  ASSUME IInv, CountStreams
  PROVE  IInv'
<1> USE FactoryAssumption DEF Stream, IInv, streamVars, factoryVars, readerVars, writerVars, mainVars
<1>1. TypeOK'
  BY DEF CountStreams, TypeOK
<1>2. MapIsSound'
  BY DEF CountStreams, MapIsSound, TypeOK, Born
<1>3. InUseIsAlive'
  BY DEF CountStreams, InUseIsAlive, InUse, Fresh, TypeOK, Born
<1>4. OneClientPerPeer'
  BY DEF CountStreams, OneClientPerPeer, TypeOK, Born
<1>5. ReaderOK' /\ ClosedOnly' /\ CheckOK' /\ WriterOK'
  BY DEF CountStreams, ReaderOK, ReaderHolds, ClosedOnly, CheckOK, WriterOK, TypeOK
<1>6. Born' /\ QueueOK'
  BY DEF CountStreams, Born, Queued, QueueOK, ToPush, TypeOK
<1>7. ReaderInTime' /\ WriterInTime'
  BY DEF CountStreams, ReaderInTime, ReaderHolds, WriterInTime, Paid, Pending, Born, ClosedOnly, ReaderOK, TypeOK
<1>8. QueueInTime'
  BY DEF CountStreams, QueueInTime, Queued, ToPush, Paid, Pending, Born, ReaderOK, TypeOK
<1>. QED  BY <1>1, <1>2, <1>3, <1>4, <1>5, <1>6, <1>7, <1>8 DEF IInv

LEMMA WaitForWorkIInv ==
  ASSUME IInv, WaitForWork
  PROVE  IInv'
<1> USE FactoryAssumption DEF Stream, IInv, streamVars, factoryVars, readerVars, writerVars, mainVars
<1>1. TypeOK'
  BY DEF WaitForWork, TypeOK
<1>2. MapIsSound'
  BY DEF WaitForWork, MapIsSound, TypeOK, Born
<1>3. InUseIsAlive'
  BY DEF WaitForWork, InUseIsAlive, InUse, Fresh, TypeOK, Born
<1>4. OneClientPerPeer'
  BY DEF WaitForWork, OneClientPerPeer, TypeOK, Born
<1>5. ReaderOK' /\ ClosedOnly' /\ CheckOK' /\ WriterOK'
  BY DEF WaitForWork, ReaderOK, ReaderHolds, ClosedOnly, CheckOK, WriterOK, TypeOK
<1>6. Born' /\ QueueOK'
  BY DEF WaitForWork, Born, Queued, QueueOK, ToPush, TypeOK
<1>7. ReaderInTime' /\ WriterInTime'
  BY DEF WaitForWork, ReaderInTime, ReaderHolds, WriterInTime, Paid, Pending, Born, ClosedOnly, ReaderOK, TypeOK
<1>8. QueueInTime'
  BY DEF WaitForWork, QueueInTime, Queued, ToPush, Paid, Pending, Born, ReaderOK, TypeOK
<1>. QED  BY <1>1, <1>2, <1>3, <1>4, <1>5, <1>6, <1>7, <1>8 DEF IInv

-----------------------------------------------------------------------------
(* The main loop and the clients *)

LEMMA PopStreamIInv ==
  ASSUME IInv, PopStream
  PROVE  IInv'
<1> USE FactoryAssumption DEF Stream, IInv, readerVars, writerVars
<1> DEFINE s == Head(newStreams)
<1>1. newStreams \in Seq(Stream) /\ newStreams # <<>> /\ newStreams' = Tail(newStreams)
  BY DEF PopStream, TypeOK
<1>2. s \in Stream /\ Queued(s) /\ newStreams' \in Seq(Stream)
  BY <1>1 DEF Queued
<1>3. s <= born /\ s \notin deleted /\ ~ToPush(s)
  BY <1>2 DEF Born, InUseIsAlive, InUse, Fresh, Queued, QueueOK
<1>4. /\ \A x \in Stream : Queued(x)' => Queued(x) /\ x # s
      /\ \A i, j \in DOMAIN newStreams' : newStreams'[i] = newStreams'[j] => i = j
  <2>1. \A i \in DOMAIN newStreams' : newStreams'[i] = newStreams[i + 1] /\ i + 1 \in DOMAIN newStreams
    BY <1>1
  <2>2. \A i \in DOMAIN newStreams' : i \in Nat /\ newStreams'[i] # s
    BY <1>1, <2>1 DEF QueueOK
  <2>. QED  BY <2>1, <2>2 DEF Queued, QueueOK
<1>5. /\ state' \in [Stream -> {"ESTABLISHED", "CLOSING", "CLOSED"}]
      /\ outgoing' \in [Stream -> BOOLEAN]
      /\ \A x \in Stream : state'[x] = state[x] \/ (state[x] = "ESTABLISHED" /\ state'[x] = "CLOSING")
  <2>1. CASE SendDisconnect(s)
    BY <1>2, <2>1 DEF SendDisconnect, TypeOK
  <2>2. CASE UNCHANGED <<state, outgoing>>
    BY <2>2 DEF TypeOK
  <2>. QED  BY <2>1, <2>2 DEF PopStream
<1>6. /\ clients' = clients \/ (clients' = clients \cup {s} /\ ~ContainsStream(s))
      /\ connecting' \subseteq connecting \cup {s}
      /\ waited' \in [Stream -> Nat]
      /\ \A x \in Stream : x # s => waited'[x] = waited[x]
  <2>1. PICK active \in BOOLEAN : Admit(s, active)
    BY DEF PopStream
  <2>2. clients' = clients \/ (clients' = clients \cup {s} /\ ~ContainsStream(s))
    BY <2>1 DEF Admit
  <2>3. connecting' \subseteq connecting \cup {s}
    BY <2>1 DEF Admit
  <2>4. waited' = waited \/ waited' = [waited EXCEPT ![s] = 0]
    BY <2>1 DEF Admit
  <2>5. waited \in [Stream -> Nat]
    BY DEF TypeOK
  <2>6. /\ waited' \in [Stream -> Nat]
        /\ \A x \in Stream : x # s => waited'[x] = waited[x]
    <3> HIDE DEF s, Stream
    <3>1. CASE waited' = waited
      BY <2>5, <3>1
    <3>2. CASE waited' = [waited EXCEPT ![s] = 0]
      BY <1>2, <2>5, <3>2
    <3>. QED  BY <2>4, <3>1, <3>2
  <2>. QED  BY <2>2, <2>3, <2>6
<1> HIDE DEF s
<1>7. TypeOK'
  BY <1>2, <1>5, <1>6 DEF PopStream, TypeOK
<1>8. MapIsSound'
  BY DEF PopStream, MapIsSound
<1>9. InUseIsAlive'
  <2>1. \A x \in Stream : x \in Fresh' => x \in Fresh
    BY <1>4 DEF PopStream, Fresh, Queued
  <2>2. Fresh' \subseteq Stream
    BY DEF Fresh
  <2>. QED  BY <1>3, <1>6, <2>1, <2>2 DEF PopStream, InUseIsAlive, InUse
<1>10. OneClientPerPeer'
  BY <1>6 DEF PopStream, OneClientPerPeer, ContainsStream
<1>11. ReaderOK' /\ ClosedOnly' /\ CheckOK' /\ WriterOK'
  BY <1>5 DEF PopStream, ReaderOK, ReaderHolds, ClosedOnly, CheckOK, WriterOK, TypeOK
<1>12. Born' /\ QueueOK'
  <2>1. Born'
    BY <1>3, <1>4, <1>5, <1>6 DEF PopStream, Born, TypeOK
  <2>2. QueueOK'
    BY <1>4 DEF PopStream, QueueOK, ToPush
  <2>. QED  BY <2>1, <2>2
<1>13. ReaderInTime' /\ WriterInTime'
  BY DEF PopStream, ReaderInTime, ReaderHolds, WriterInTime, Paid, Pending
<1>14. QueueInTime'
  BY <1>3, <1>4, <1>6 DEF PopStream, QueueInTime, ToPush, Paid, Pending
<1>. QED  BY <1>7, <1>8, <1>9, <1>10, <1>11, <1>12, <1>13, <1>14 DEF IInv

LEMMA NoMoreStreamsIInv ==
  ASSUME IInv, NoMoreStreams
  PROVE  IInv'
<1> USE FactoryAssumption DEF Stream, IInv, streamVars, factoryVars, readerVars, writerVars, mainVars
<1>1. TypeOK'
  BY DEF NoMoreStreams, TypeOK
<1>2. MapIsSound'
  BY DEF NoMoreStreams, MapIsSound, TypeOK, Born
<1>3. InUseIsAlive'
  BY DEF NoMoreStreams, InUseIsAlive, InUse, Fresh, TypeOK, Born
<1>4. OneClientPerPeer'
  BY DEF NoMoreStreams, OneClientPerPeer, TypeOK, Born
<1>5. ReaderOK' /\ ClosedOnly' /\ CheckOK' /\ WriterOK'
  BY DEF NoMoreStreams, ReaderOK, ReaderHolds, ClosedOnly, CheckOK, WriterOK, TypeOK
<1>6. Born' /\ QueueOK'
  BY DEF NoMoreStreams, Born, Queued, QueueOK, ToPush, TypeOK
<1>7. ReaderInTime' /\ WriterInTime'
  BY DEF NoMoreStreams, ReaderInTime, ReaderHolds, WriterInTime, Paid, Pending, Born, ClosedOnly, ReaderOK, TypeOK
<1>8. QueueInTime'
  BY DEF NoMoreStreams, QueueInTime, Queued, ToPush, Paid, Pending, Born, ReaderOK, TypeOK
<1>. QED  BY <1>1, <1>2, <1>3, <1>4, <1>5, <1>6, <1>7, <1>8 DEF IInv

LEMMA CheckConnectingIInv ==
  ASSUME IInv, CheckConnecting
  PROVE  IInv'
<1> USE FactoryAssumption DEF Stream, IInv, streamVars, factoryVars, readerVars, writerVars, mainVars
<1>1. TypeOK'
  BY DEF CheckConnecting, Admissible, ContainsStream, TypeOK
<1>2. MapIsSound'
  BY DEF CheckConnecting, Admissible, ContainsStream, MapIsSound, TypeOK, Born
<1>3. InUseIsAlive'
  BY DEF CheckConnecting, Admissible, InUseIsAlive, InUse, Fresh, ClosedOnly, TypeOK
<1>4. OneClientPerPeer'
  BY DEF CheckConnecting, Admissible, ContainsStream, OneClientPerPeer
<1>5. ReaderOK' /\ ClosedOnly' /\ CheckOK' /\ WriterOK'
  BY DEF CheckConnecting, Admissible, ContainsStream, ReaderOK, ReaderHolds, ClosedOnly, CheckOK, WriterOK, TypeOK
<1>6. Born' /\ QueueOK'
  BY DEF CheckConnecting, Admissible, ContainsStream, Born, Queued, QueueOK, ToPush, TypeOK
<1>7. ReaderInTime' /\ WriterInTime'
  BY DEF CheckConnecting, Admissible, ContainsStream, ReaderInTime, ReaderHolds, WriterInTime, Paid, Pending, Born, ClosedOnly, ReaderOK, TypeOK
<1>8. QueueInTime'
  BY DEF CheckConnecting, Admissible, ContainsStream, QueueInTime, Queued, ToPush, Paid, Pending, Born, ReaderOK, TypeOK
<1>. QED  BY <1>1, <1>2, <1>3, <1>4, <1>5, <1>6, <1>7, <1>8 DEF IInv

LEMMA SkipCheckIInv ==
  ASSUME IInv, SkipCheck
  PROVE  IInv'
<1> USE FactoryAssumption DEF Stream, IInv, streamVars, factoryVars, readerVars, writerVars, mainVars
<1>1. TypeOK'
  BY DEF SkipCheck, TypeOK
<1>2. MapIsSound'
  BY DEF SkipCheck, MapIsSound, TypeOK, Born
<1>3. InUseIsAlive'
  BY DEF SkipCheck, InUseIsAlive, InUse, Fresh, TypeOK, Born
<1>4. OneClientPerPeer'
  BY DEF SkipCheck, OneClientPerPeer, TypeOK, Born
<1>5. ReaderOK' /\ ClosedOnly' /\ CheckOK' /\ WriterOK'
  BY DEF SkipCheck, ReaderOK, ReaderHolds, ClosedOnly, CheckOK, WriterOK, TypeOK
<1>6. Born' /\ QueueOK'
  BY DEF SkipCheck, Born, Queued, QueueOK, ToPush, TypeOK
<1>7. ReaderInTime' /\ WriterInTime'
  BY DEF SkipCheck, ReaderInTime, ReaderHolds, WriterInTime, Paid, Pending, Born, ClosedOnly, ReaderOK, TypeOK
<1>8. QueueInTime'
  BY DEF SkipCheck, QueueInTime, Queued, ToPush, Paid, Pending, Born, ReaderOK, TypeOK
<1>. QED  BY <1>1, <1>2, <1>3, <1>4, <1>5, <1>6, <1>7, <1>8 DEF IInv

LEMMA BeginCheckIInv ==
  ASSUME IInv, BeginCheck
  PROVE  IInv'
<1> USE FactoryAssumption DEF Stream, IInv, streamVars, factoryVars, readerVars, writerVars, mainVars
<1>0. /\ toCheck = {} /\ \A x \in Stream : x \in Fresh => x <= born
      /\ \A x \in Stream : ToPush(x) \/ Queued(x) => x \in Fresh
      /\ \A x \in Stream : waited'[x] = IF x \in Fresh \cup connecting THEN waited[x] + 1 ELSE waited[x]
  BY DEF BeginCheck, CheckOK, Fresh, ReaderOK, ReaderHolds, Born, ToPush, Queued, TypeOK
<1>1. TypeOK'
  BY DEF BeginCheck, InTime, Fresh, TypeOK
<1>2. MapIsSound'
  BY DEF BeginCheck, InTime, Fresh, MapIsSound, TypeOK, Born
<1>3. InUseIsAlive'
  BY DEF BeginCheck, InTime, Fresh, InUseIsAlive, InUse, Fresh, TypeOK, Born
<1>4. OneClientPerPeer'
  BY DEF BeginCheck, InTime, Fresh, OneClientPerPeer, TypeOK, Born
<1>5. ReaderOK' /\ ClosedOnly' /\ CheckOK' /\ WriterOK'
  BY DEF BeginCheck, InTime, Fresh, ReaderOK, ReaderHolds, ClosedOnly, CheckOK, WriterOK, TypeOK
<1>6. Born' /\ QueueOK'
  <2>1. Born'
    BY <1>0 DEF BeginCheck, Born, Queued, TypeOK
  <2>2. QueueOK'
    BY DEF BeginCheck, QueueOK, Queued, ToPush
  <2>. QED  BY <2>1, <2>2
<1>7. ReaderInTime' /\ WriterInTime'
  <2>1. ReaderInTime'
    <3> SUFFICES ASSUME ReaderHolds PROVE Paid(readerOn, readerAge)'
      BY DEF BeginCheck, ReaderInTime, ReaderHolds
    <3>1. readerOn' = readerOn /\ readerAge' = readerAge + 1 /\ readerAge \in Nat /\ delays' = delays
      BY DEF BeginCheck, ReaderHolds, TypeOK
    <3>2. delays[readerOn] <= readerAge
      BY DEF ReaderInTime, Paid
    <3>3. delays[readerOn] \in Nat
      <4>1. readerOn \in Stream
        BY DEF ReaderOK, TypeOK
      <4>. QED  BY <4>1, StreamTimes
    <3>. QED  BY <3>1, <3>2, <3>3 DEF Paid
  <2>2. WriterInTime'
    <3> SUFFICES ASSUME NEW x \in wantsWrite PROVE Paid(x, writerAge)'
      BY DEF BeginCheck, WriterInTime
    <3>1. writerAge' = writerAge + 1 /\ writerAge \in Nat /\ delays' = delays
      BY DEF BeginCheck, WriterOK, TypeOK
    <3>2. delays[x] \in Nat
      <4>1. x \in Stream
        BY DEF TypeOK
      <4>. QED  BY <4>1, StreamTimes
    <3>3. delays[x] <= writerAge
      BY DEF WriterInTime, Paid
    <3>. QED  BY <3>1, <3>2, <3>3 DEF Paid
  <2>. QED  BY <2>1, <2>2
<1>8. QueueInTime'
  <2> SUFFICES ASSUME NEW x \in Stream, ToPush(x) \/ Queued(x)
               PROVE  Paid(x, waited[x] + 1)' /\ waited'[x] <= Grace
    BY DEF BeginCheck, QueueInTime, ToPush, Queued
  <2>1. waited'[x] = waited[x] + 1 /\ waited[x] < Grace /\ waited[x] \in Nat /\ delays'[x] = delays[x]
    BY <1>0 DEF BeginCheck, InTime, TypeOK
  <2>2. delays[x] <= waited[x] + 1
    BY DEF QueueInTime, Paid
  <2>3. delays[x] \in Nat
    BY StreamTimes
  <2>. QED  BY <2>1, <2>2, <2>3 DEF Paid
<1>. QED  BY <1>1, <1>2, <1>3, <1>4, <1>5, <1>6, <1>7, <1>8 DEF IInv

\* What CheckTimeout does to a stream of the map: its fate, and that it need
\* not be looked at again in this pass.
Checked(a, s) ==
  /\ mainAt = "timeout" /\ mainAt' = "timeout"
  /\ a \in Addr /\ a \in toCheck /\ toCheck' = toCheck \ {a}
  /\ s = streams[a] /\ s \in Stream
  /\ state' \in [Stream -> {"ESTABLISHED", "CLOSING", "CLOSED"}]
  /\ outgoing' \in [Stream -> BOOLEAN]
  /\ \A x \in Stream : x # s => state'[x] = state[x]
  /\ UNCHANGED <<born, address, newStreams, readerVars, writerVars, connecting, waited>>

Kept(s) ==
  /\ state[s] # "CLOSED"
  /\ UNCHANGED <<delays, clients, streams, deleted>>

LEMMA CheckStreamFate ==
  ASSUME IInv, NEW a \in Addr, CheckStream(a)
  PROVE  LET s == streams[a]
         IN  /\ Checked(a, s)
             /\ \/ Kept(s)
                \/ state'[s] = "CLOSED" /\ GiveTime(s)
                \/ state'[s] = "CLOSED" /\ delays[s] = 2 /\ DeleteStream(a, s)
<1> USE FactoryAssumption DEF Stream, IInv
<1> DEFINE s == streams[a]
<1>1. s \in Stream
  BY DEF CheckStream, CheckOK, TypeOK
<1>2. /\ state' \in [Stream -> {"ESTABLISHED", "CLOSING", "CLOSED"}]
      /\ outgoing' \in [Stream -> BOOLEAN]
      /\ \A x \in Stream : x # s => state'[x] = state[x]
  BY <1>1 DEF CheckStream, FinishClosing, SendDisconnect, TypeOK
<1>3. Checked(a, s)
  BY <1>1, <1>2 DEF CheckStream, Checked
<1>4. \/ Kept(s)
      \/ state'[s] = "CLOSED" /\ Remove(a, s)
  BY <1>1 DEF CheckStream, FinishClosing, Kept, TypeOK
<1>5. Remove(a, s) => GiveTime(s) \/ (delays[s] = 2 /\ DeleteStream(a, s))
  <2>1. delays[s] \in 0..2
    BY <1>1 DEF TypeOK
  <2>. QED  BY <2>1 DEF Remove
<1>. QED  BY <1>3, <1>4, <1>5

\* Only one peer has the stream, and it is done with.
LEMMA CheckedOnce ==
  ASSUME IInv, NEW a, NEW s, Checked(a, s),
         \A b \in Addr : b # a => streams'[b] = streams[b]
  PROVE  /\ s <= born /\ s \notin deleted /\ Pending(s)
         /\ \A b \in Addr : streams[b] = s => b = a
         /\ \A x \in Stream : Pending(x)' => Pending(x) /\ x # s
<1> USE DEF Stream, IInv
<1>1. s <= born /\ s \notin deleted /\ \A b \in Addr : streams[b] = s => b = a
  BY FactoryAssumption DEF Checked, MapIsSound, TypeOK
<1>2. Pending(s)
  BY DEF Checked, Pending
<1>3. ASSUME NEW x \in Stream, Pending(x)' PROVE Pending(x) /\ x # s
  <2>1. PICK b \in toCheck' : streams'[b] = x
    BY <1>3 DEF Pending
  <2>2. b \in toCheck /\ b # a /\ b \in Addr
    BY <2>1 DEF Checked, TypeOK
  <2>. QED  BY <1>1, <2>1, <2>2 DEF Checked, Pending
<1>. QED  BY <1>1, <1>2, <1>3

LEMMA KeptIInv ==
  ASSUME IInv, NEW a, NEW s, Checked(a, s), Kept(s)
  PROVE  IInv'
<1> USE FactoryAssumption DEF Stream, IInv, Checked, Kept, readerVars, writerVars
<1>0. /\ s <= born /\ s \notin deleted
      /\ \A x \in Stream : Pending(x)' => Pending(x)
  BY CheckedOnce
<1>1. TypeOK'
  BY DEF TypeOK
<1>2. MapIsSound' /\ OneClientPerPeer'
  BY DEF MapIsSound, OneClientPerPeer
<1>3. InUseIsAlive'
  BY DEF InUseIsAlive, InUse, Fresh
<1>4. ReaderOK' /\ ClosedOnly' /\ CheckOK' /\ WriterOK'
  BY <1>0 DEF ReaderOK, ReaderHolds, ClosedOnly, CheckOK, WriterOK, TypeOK
<1>5. Born' /\ QueueOK'
  BY <1>0 DEF Born, Queued, QueueOK, ToPush, TypeOK
<1>6. ReaderInTime' /\ WriterInTime'
  BY <1>0 DEF ReaderInTime, ReaderHolds, ReaderOK, WriterInTime, Paid, TypeOK
<1>7. QueueInTime'
  BY <1>0 DEF QueueInTime, Queued, ToPush, Paid
<1>. QED  BY <1>1, <1>2, <1>3, <1>4, <1>5, <1>6, <1>7 DEF IInv

LEMMA GiveTimeIInv ==
  ASSUME IInv, NEW a, NEW s, Checked(a, s), state'[s] = "CLOSED", GiveTime(s)
  PROVE  IInv'
<1> USE FactoryAssumption DEF Stream, IInv, Checked, readerVars, writerVars
<1>0. /\ s <= born /\ s \notin deleted /\ Pending(s)
      /\ \A x \in Stream : Pending(x)' => Pending(x) /\ x # s
  BY CheckedOnce DEF GiveTime
<1>1. /\ delays' \in [Stream -> 0..2] /\ delays'[s] = delays[s] + 1
      /\ \A x \in Stream : x # s => delays'[x] = delays[x]
      /\ UNCHANGED <<clients, streams, deleted>>
  <2>1. delays \in [Stream -> 0..2] /\ delays[s] \in 0..1
    BY DEF GiveTime, TypeOK
  <2>. QED  BY <2>1 DEF GiveTime
<1>2. TypeOK'
  BY <1>1 DEF TypeOK
<1>3. MapIsSound' /\ OneClientPerPeer'
  BY <1>1 DEF MapIsSound, OneClientPerPeer
<1>4. InUseIsAlive'
  BY <1>1 DEF InUseIsAlive, InUse, Fresh
<1>5. ReaderOK' /\ ClosedOnly' /\ CheckOK' /\ WriterOK'
  BY <1>0, <1>1 DEF ReaderOK, ReaderHolds, ClosedOnly, CheckOK, WriterOK, TypeOK
<1>6. Born' /\ QueueOK'
  BY <1>0, <1>1 DEF Born, Queued, QueueOK, ToPush, TypeOK
<1>7. \A x \in Stream, n \in Nat : Paid(x, n) => delays'[x] <= n /\ (Pending(x)' => delays'[x] < n)
  <2> SUFFICES ASSUME NEW x \in Stream, NEW n \in Nat, Paid(x, n)
               PROVE  delays'[x] <= n /\ (Pending(x)' => delays'[x] < n)
    OBVIOUS
  <2>1. delays[x] \in Nat /\ delays[x] <= n
    BY StreamTimes DEF Paid
  <2>2. CASE x = s
    BY <1>0, <1>1, <2>1, <2>2 DEF Paid
  <2>3. CASE x # s
    BY <1>0, <1>1, <2>1, <2>3 DEF Paid
  <2>. QED  BY <2>2, <2>3
<1>8. ReaderInTime' /\ WriterInTime'
  BY <1>7 DEF ReaderInTime, ReaderHolds, ReaderOK, WriterInTime, Paid, TypeOK
<1>9. QueueInTime'
  BY <1>7 DEF QueueInTime, Queued, ToPush, Paid, TypeOK
<1>. QED  BY <1>2, <1>3, <1>4, <1>5, <1>6, <1>8, <1>9 DEF IInv

\* A stream is deleted only when no thread's time pays for its delays.
LEMMA DeleteStreamIInv ==
  ASSUME IInv, Grace < 2, NEW a, NEW s, Checked(a, s),
         state'[s] = "CLOSED", delays[s] = 2, DeleteStream(a, s)
  PROVE  IInv'
<1> USE FactoryAssumption DEF Stream, IInv, Checked, readerVars, writerVars
<1>0. /\ clients' = clients \ {s} /\ delays' = delays /\ deleted' = deleted \cup {s}
      /\ streams' \in [Addr -> Stream \cup {None}] /\ streams'[a] = None
      /\ \A b \in Addr : b # a => streams'[b] = streams[b]
  BY DEF DeleteStream, TypeOK
<1>1. /\ s <= born /\ s \notin deleted /\ Pending(s)
      /\ \A b \in Addr : streams[b] = s => b = a
      /\ \A x \in Stream : Pending(x)' => Pending(x) /\ x # s
  BY <1>0, CheckedOnce
<1>2. \A n \in Nat : Paid(s, n) => n > 2
  BY <1>1 DEF Paid
<1>3. ~(ReaderHolds /\ readerOn = s)
  BY <1>2 DEF ReaderInTime, TypeOK
<1>4. s \notin wantsWrite
  BY <1>2 DEF WriterInTime, TypeOK
<1>5. ~ToPush(s) /\ ~Queued(s)
  BY <1>2 DEF QueueInTime, TypeOK
<1>6. TypeOK'
  BY <1>0 DEF TypeOK
<1>7. MapIsSound' /\ OneClientPerPeer'
  BY <1>0, <1>1 DEF MapIsSound, OneClientPerPeer
<1>8. InUseIsAlive'
  <2>1. s \notin Fresh /\ Fresh' = Fresh
    BY <1>3, <1>5 DEF Fresh, ReaderHolds, Queued
  <2>. QED  BY <1>0, <1>3, <1>4, <2>1 DEF InUseIsAlive, InUse, ReaderHolds
<1>9. ReaderOK' /\ ClosedOnly' /\ CheckOK' /\ WriterOK'
  BY <1>0 DEF ReaderOK, ReaderHolds, ClosedOnly, CheckOK, WriterOK, TypeOK
<1>10. Born' /\ QueueOK'
  BY <1>0, <1>1 DEF Born, Queued, QueueOK, ToPush, TypeOK
<1>11. ReaderInTime' /\ WriterInTime'
  BY <1>0, <1>1 DEF ReaderInTime, ReaderHolds, ReaderOK, WriterInTime, Paid, TypeOK
<1>12. QueueInTime'
  BY <1>0, <1>1 DEF QueueInTime, Queued, ToPush, Paid
<1>. QED  BY <1>6, <1>7, <1>8, <1>9, <1>10, <1>11, <1>12 DEF IInv

LEMMA CheckStreamIInv ==
  ASSUME IInv, Grace < 2, NEW a \in Addr, CheckStream(a)
  PROVE  IInv'
BY CheckStreamFate, KeptIInv, GiveTimeIInv, DeleteStreamIInv

LEMMA EndCheckIInv ==
  ASSUME IInv, EndCheck
  PROVE  IInv'
<1> USE FactoryAssumption DEF Stream, IInv, streamVars, factoryVars, readerVars, writerVars, mainVars
<1>1. TypeOK'
  BY DEF EndCheck, TypeOK
<1>2. MapIsSound'
  BY DEF EndCheck, MapIsSound, TypeOK, Born
<1>3. InUseIsAlive'
  BY DEF EndCheck, InUseIsAlive, InUse, Fresh, TypeOK, Born
<1>4. OneClientPerPeer'
  BY DEF EndCheck, OneClientPerPeer, TypeOK, Born
<1>5. ReaderOK' /\ ClosedOnly' /\ CheckOK' /\ WriterOK'
  BY DEF EndCheck, ReaderOK, ReaderHolds, ClosedOnly, CheckOK, WriterOK, TypeOK
<1>6. Born' /\ QueueOK'
  BY DEF EndCheck, Born, Queued, QueueOK, ToPush, TypeOK
<1>7. ReaderInTime' /\ WriterInTime'
  BY DEF EndCheck, ReaderInTime, ReaderHolds, WriterInTime, Paid, Pending, Born, ClosedOnly, ReaderOK, TypeOK
<1>8. QueueInTime'
  BY DEF EndCheck, QueueInTime, Queued, ToPush, Paid, Pending, Born, ReaderOK, TypeOK
<1>. QED  BY <1>1, <1>2, <1>3, <1>4, <1>5, <1>6, <1>7, <1>8 DEF IInv

LEMMA QueuePacketIInv ==
  ASSUME IInv, QueuePacket
  PROVE  IInv'
<1> USE FactoryAssumption DEF Stream, IInv, streamVars, factoryVars, readerVars, writerVars, mainVars
<1>1. TypeOK'
  BY DEF QueuePacket, TypeOK
<1>2. MapIsSound'
  BY DEF QueuePacket, MapIsSound, TypeOK, Born
<1>3. InUseIsAlive'
  BY DEF QueuePacket, InUseIsAlive, InUse, Fresh, TypeOK, Born
<1>4. OneClientPerPeer'
  BY DEF QueuePacket, OneClientPerPeer, TypeOK, Born
<1>5. ReaderOK' /\ ClosedOnly' /\ CheckOK' /\ WriterOK'
  BY DEF QueuePacket, ReaderOK, ReaderHolds, ClosedOnly, CheckOK, WriterOK, TypeOK
<1>6. Born' /\ QueueOK'
  BY DEF QueuePacket, Born, Queued, QueueOK, ToPush, TypeOK
<1>7. ReaderInTime' /\ WriterInTime'
  BY DEF QueuePacket, ReaderInTime, ReaderHolds, WriterInTime, Paid, Pending, Born, ClosedOnly, ReaderOK, TypeOK
<1>8. QueueInTime'
  BY DEF QueuePacket, QueueInTime, Queued, ToPush, Paid, Pending, Born, ReaderOK, TypeOK
<1>. QED  BY <1>1, <1>2, <1>3, <1>4, <1>5, <1>6, <1>7, <1>8 DEF IInv

LEMMA LeaveClientIInv ==
  ASSUME IInv, LeaveClient
  PROVE  IInv'
<1> USE FactoryAssumption DEF Stream, IInv, streamVars, factoryVars, readerVars, writerVars, mainVars
<1>1. TypeOK'
  BY DEF LeaveClient, SendDisconnect, TypeOK
<1>2. MapIsSound'
  BY DEF LeaveClient, SendDisconnect, MapIsSound, TypeOK, Born
<1>3. InUseIsAlive'
  BY DEF LeaveClient, SendDisconnect, InUseIsAlive, InUse, Fresh, TypeOK, Born
<1>4. OneClientPerPeer'
  BY DEF LeaveClient, SendDisconnect, OneClientPerPeer, TypeOK, Born
<1>5. ReaderOK' /\ ClosedOnly' /\ CheckOK' /\ WriterOK'
  BY DEF LeaveClient, SendDisconnect, ReaderOK, ReaderHolds, ClosedOnly, CheckOK, WriterOK, TypeOK
<1>6. Born' /\ QueueOK'
  BY DEF LeaveClient, SendDisconnect, Born, Queued, QueueOK, ToPush, TypeOK
<1>7. ReaderInTime' /\ WriterInTime'
  BY DEF LeaveClient, SendDisconnect, ReaderInTime, ReaderHolds, WriterInTime, Paid, Pending, Born, ClosedOnly, ReaderOK, TypeOK
<1>8. QueueInTime'
  BY DEF LeaveClient, SendDisconnect, QueueInTime, Queued, ToPush, Paid, Pending, Born, ReaderOK, TypeOK
<1>. QED  BY <1>1, <1>2, <1>3, <1>4, <1>5, <1>6, <1>7, <1>8 DEF IInv

LEMMA StutterIInv ==
  ASSUME IInv, UNCHANGED vars
  PROVE  IInv'
<1> USE DEF vars, streamVars, factoryVars, readerVars, writerVars, mainVars
<1>1. TypeOK' /\ MapIsSound' /\ OneClientPerPeer'
  BY DEF IInv, TypeOK, MapIsSound, OneClientPerPeer
<1>2. InUseIsAlive'
  BY DEF IInv, InUseIsAlive, InUse, Fresh
<1>3. ReaderOK' /\ ClosedOnly' /\ CheckOK' /\ WriterOK'
  BY DEF IInv, ReaderOK, ReaderHolds, ClosedOnly, CheckOK, WriterOK
<1>4. Born' /\ QueueOK'
  BY DEF IInv, Born, Queued, QueueOK, ToPush
<1>5. ReaderInTime' /\ WriterInTime' /\ QueueInTime'
  BY DEF IInv, ReaderInTime, ReaderHolds, WriterInTime, QueueInTime, ToPush, Queued, Paid, Pending
<1>. QED  BY <1>1, <1>2, <1>3, <1>4, <1>5 DEF IInv

-----------------------------------------------------------------------------
(* The specification *)

LEMMA NextIInv ==
  ASSUME IInv, Grace < 2, [Next]_vars
  PROVE  IInv'
<1>1. CASE \E a \in Addr : ReceiveRequest(a) \/ ReceiveData(a)
  BY <1>1, ReceiveRequestIInv, ReceiveDataIInv
<1>2. CASE Reader
  BY <1>2, CloseOldIInv, InsertIInv, SignalIInv, PushIInv, OpenSessionIInv, ProcessDataIInv DEF Reader
<1>3. CASE Writer
  BY <1>3, ScanIInv, WriteStreamIInv, CheckResendIInv, CountStreamsIInv, WaitForWorkIInv DEF Writer
<1>4. CASE Main
  BY <1>4, PopStreamIInv, NoMoreStreamsIInv, CheckConnectingIInv, EndCheckIInv, CheckStreamIInv DEF Main
<1>5. CASE SkipCheck \/ BeginCheck
  BY <1>5, SkipCheckIInv, BeginCheckIInv
<1>6. CASE QueuePacket \/ LeaveClient
  BY <1>6, QueuePacketIInv, LeaveClientIInv
<1>7. CASE UNCHANGED vars
  BY <1>7, StutterIInv
<1>. QED  BY <1>1, <1>2, <1>3, <1>4, <1>5, <1>6, <1>7 DEF Next

\* If an operation on a stream never takes as long as two passes of
\* CheckTimeout, the two delays it gives a stream are enough, and the
\* strengthened invariant holds.
THEOREM Strengthened ==
  ASSUME Grace < 2
  PROVE  Spec => []IInv
<1>1. Init => IInv
  BY InitIInv
<1>2. IInv /\ [Next]_vars => IInv'
  BY NextIInv
<1>. QED  BY <1>1, <1>2, PTL DEF Spec

\* The variables of the threads, the streams and the factory have their types.
THEOREM TypeCorrect ==
  ASSUME Grace < 2
  PROVE  Spec => []TypeOK
<1>1. IInv => TypeOK
  BY DEF IInv
<1>. QED  BY <1>1, Strengthened, PTL

\* Streams has every stream under the address of its peer, and none that
\* CheckTimeout deleted.
THEOREM MapSound ==
  ASSUME Grace < 2
  PROVE  Spec => []MapIsSound
<1>1. IInv => MapIsSound
  BY DEF IInv
<1>. QED  BY <1>1, Strengthened, PTL

\* No thread follows a pointer to a stream that CheckTimeout deleted: neither
\* the reader, nor the writer, nor the main loop's queue, nor a client.
THEOREM InUseAlive ==
  ASSUME Grace < 2
  PROVE  Spec => []InUseIsAlive
<1>1. IInv => InUseIsAlive
  BY DEF IInv
<1>. QED  BY <1>1, Strengthened, PTL

\* However many sessions a peer asks for, client_list has one client for it.
THEOREM OneClient ==
  ASSUME Grace < 2
  PROVE  Spec => []OneClientPerPeer
<1>1. IInv => OneClientPerPeer
  BY DEF IInv
<1>. QED  BY <1>1, Strengthened, PTL

=============================================================================
