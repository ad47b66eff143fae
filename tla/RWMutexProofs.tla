--------------------------- MODULE RWMutexProofs ---------------------------
(***************************************************************************)
(* RWMutex keeps readers and writers apart, for any finite set of threads  *)
(* and any bounds.  Exclusion is not inductive: the strengthening ties     *)
(* csWrite, `writing' and `readers' to the threads they speak for.         *)
(***************************************************************************)
EXTENDS RWMutex, FiniteSetTheorems, TLAPS

\* The inductive invariant: the conjuncts checked by TLC, and the fact that a
\* writer raised `writing' only when no reader was left.  A waiting reader is
\* within its nesting bound.
IInv ==
  /\ TypeOK
  /\ CSWriteOwned
  /\ WritingIsWriter
  /\ ReadersCounted
  /\ writing => readers = 0
  /\ \A t \in Thread : pc[t] = "wantRead" => held[t] < MaxNesting

\* Finitely many read locks are held: a thread and a nesting level each.
LEMMA ReadLocksFinite ==
  ASSUME TypeOK
  PROVE  IsFiniteSet(ReadLocks) /\ Cardinality(ReadLocks) \in Nat
<1>1. MaxNesting \in Int
  BY BoundsAssumption
<1>2. IsFiniteSet(1..MaxNesting)
  BY <1>1, FS_Interval
<1>3. IsFiniteSet(Thread \X (1..MaxNesting))
  BY <1>2, ThreadAssumption, FS_Product
<1>4. IsFiniteSet(ReadLocks)
  BY <1>3, FS_Subset DEF ReadLocks
<1>. QED  BY <1>4, FS_CardinalityType

\* With no read lock counted, no thread holds one.
LEMMA NoReaders ==
  ASSUME TypeOK, ReadersCounted, readers = 0
  PROVE  \A t \in Thread : held[t] = 0
<1>1. ReadLocks = {}
  BY ReadLocksFinite, FS_EmptySet DEF ReadersCounted
<1>2. SUFFICES ASSUME NEW t \in Thread, held[t] # 0
               PROVE  FALSE
  OBVIOUS
<1>3. held[t] \in 1..MaxNesting
  BY <1>2, BoundsAssumption DEF TypeOK
<1>4. <<t, held[t]>> \in ReadLocks
  BY <1>3 DEF ReadLocks
<1>. QED  BY <1>1, <1>4

\* A thread that enters a read section adds one read lock, and counts one.
LEMMA EnterCounted ==
  ASSUME TypeOK, ReadersCounted, NEW t \in Thread,
         held[t] < MaxNesting, EnterRead(t)
  PROVE  ReadersCounted' /\ readers' \in Nat /\ held' \in [Thread -> 0..MaxNesting]
<1> DEFINE l == <<t, held[t] + 1>>
<1>1. held[t] \in Nat /\ held[t] + 1 \in 1..MaxNesting
  BY BoundsAssumption DEF TypeOK
<1>2. held' = [held EXCEPT ![t] = held[t] + 1] /\ readers' = readers + 1
  BY DEF EnterRead
<1>3. held' \in [Thread -> 0..MaxNesting]
  BY <1>1, <1>2, BoundsAssumption DEF TypeOK
<1>4. l \notin ReadLocks
  BY <1>1 DEF ReadLocks
<1>5. ReadLocks' = ReadLocks \cup {l}
  <2>1. ASSUME NEW m \in Thread \X (1..MaxNesting)
        PROVE  m \in ReadLocks' <=> m \in ReadLocks \cup {l}
    <3>1. CASE m[1] = t
      <4>1. held'[m[1]] = held[t] + 1
        BY <3>1, <1>2 DEF TypeOK
      <4>2. m = l <=> m[2] = held[t] + 1
        BY <3>1
      <4>. QED  BY <3>1, <4>1, <4>2, <1>1 DEF ReadLocks
    <3>2. CASE m[1] # t
      <4>1. held'[m[1]] = held[m[1]]
        BY <3>2, <1>2 DEF TypeOK
      <4>. QED  BY <3>2, <4>1 DEF ReadLocks
    <3>. QED  BY <3>1, <3>2
  <2>2. l \in Thread \X (1..MaxNesting)
    BY <1>1
  <2>. QED  BY <2>1, <2>2 DEF ReadLocks
<1>6. Cardinality(ReadLocks') = Cardinality(ReadLocks) + 1
  BY <1>4, <1>5, ReadLocksFinite, FS_AddElement
<1>. QED  BY <1>2, <1>3, <1>6 DEF ReadersCounted, TypeOK

\* A thread that releases a read lock removes the one it nested last.
LEMMA ReleaseCounted ==
  ASSUME TypeOK, ReadersCounted, NEW t \in Thread, ReleaseReadlock(t)
  PROVE  ReadersCounted' /\ readers' \in Nat /\ held' \in [Thread -> 0..MaxNesting]
<1> DEFINE l == <<t, held[t]>>
<1>1. held[t] \in 1..MaxNesting
  BY BoundsAssumption DEF TypeOK, ReleaseReadlock
<1>2. held' = [held EXCEPT ![t] = held[t] - 1] /\ readers' = readers - 1
  BY DEF ReleaseReadlock
<1>3. held' \in [Thread -> 0..MaxNesting]
  BY <1>1, <1>2, BoundsAssumption DEF TypeOK
<1>4. l \in ReadLocks
  BY <1>1 DEF ReadLocks
<1>5. ReadLocks' = ReadLocks \ {l}
  <2>1. ASSUME NEW m \in Thread \X (1..MaxNesting)
        PROVE  m \in ReadLocks' <=> m \in ReadLocks \ {l}
    <3>1. CASE m[1] = t
      <4>1. held'[m[1]] = held[t] - 1
        BY <3>1, <1>2 DEF TypeOK
      <4>2. m = l <=> m[2] = held[t]
        BY <3>1
      <4>. QED  BY <3>1, <4>1, <4>2, <1>1 DEF ReadLocks
    <3>2. CASE m[1] # t
      <4>1. held'[m[1]] = held[m[1]]
        BY <3>2, <1>2 DEF TypeOK
      <4>. QED  BY <3>2, <4>1 DEF ReadLocks
    <3>. QED  BY <3>1, <3>2
  <2>. QED  BY <2>1 DEF ReadLocks
<1>6. Cardinality(ReadLocks') = Cardinality(ReadLocks) - 1
  BY <1>4, <1>5, ReadLocksFinite, FS_RemoveElement
<1>7. Cardinality(ReadLocks) >= 1
  BY <1>4, ReadLocksFinite, FS_EmptySet
<1>. QED  BY <1>2, <1>3, <1>6, <1>7, ReadLocksFinite DEF ReadersCounted, TypeOK

\* A lock call stays within the bound on calls.
LEMMA CallBounded ==
  ASSUME TypeOK, NEW t \in Thread, Call(t)
  PROVE  calls' \in [Thread -> 0..MaxCalls]
<1>1. calls[t] + 1 \in 0..MaxCalls
  BY BoundsAssumption DEF TypeOK, Call
<1>. QED  BY <1>1 DEF TypeOK, Call

\* Initially nobody holds or waits for anything.
LEMMA InitIInv == Init => IInv
<1> SUFFICES ASSUME Init PROVE IInv
  OBVIOUS
<1>1. TypeOK
  <2>1. 0 \in 0..MaxNesting /\ 0 \in 0..MaxCalls
    BY BoundsAssumption
  <2>. QED  BY <2>1 DEF Init, TypeOK, PC
<1>2. CSWriteOwned /\ WritingIsWriter
  BY ThreadAssumption DEF Init, CSWriteOwned, WritingIsWriter
<1>3. ReadLocks = {}
  BY BoundsAssumption DEF Init, ReadLocks
<1>4. ReadersCounted
  BY <1>3, FS_EmptySet DEF Init, ReadersCounted
<1>. QED  BY <1>1, <1>2, <1>4 DEF IInv, Init

\* Every step keeps the strengthening.
LEMMA NextIInv == IInv /\ [Next]_vars => IInv'
<1> SUFFICES ASSUME IInv, [Next]_vars PROVE IInv'
  OBVIOUS
<1> USE DEF IInv
<1>0. TypeOK /\ CSWriteOwned /\ WritingIsWriter /\ ReadersCounted
  OBVIOUS
<1> DEFINE HeldSame == UNCHANGED <<readers, held>>
<1>a. ASSUME HeldSame PROVE ReadersCounted'
  BY <1>a DEF ReadersCounted, ReadLocks
<1>1. ASSUME NEW t \in Thread, ReadlockCall(t) PROVE IInv'
  <2>1. ReadersCounted'
    BY <1>1, <1>a DEF ReadlockCall
  <2>2. TypeOK'
    BY <1>1, CallBounded DEF ReadlockCall, Goto, TypeOK, PC
  <2>3. CSWriteOwned' /\ WritingIsWriter'
    BY <1>1, ThreadAssumption DEF ReadlockCall, Call, Goto, TypeOK, CSWriteOwned, WritingIsWriter
  <2>4. QED  BY <1>1, <2>1, <2>2, <2>3 DEF ReadlockCall, Call, Goto, TypeOK
<1>2. ASSUME NEW t \in Thread, ReadlockEnter(t) PROVE IInv'
  <2>1. ReadersCounted' /\ readers' \in Nat /\ held' \in [Thread -> 0..MaxNesting]
    BY <1>2, EnterCounted DEF ReadlockEnter
  <2>2. TypeOK'
    BY <1>2, <2>1 DEF ReadlockEnter, Goto, TypeOK, PC
  <2>3. CSWriteOwned' /\ WritingIsWriter'
    BY <1>2 DEF ReadlockEnter, Goto, TypeOK, CSWriteOwned, WritingIsWriter
  <2>4. QED  BY <1>2, <2>1, <2>2, <2>3 DEF ReadlockEnter, EnterRead, Goto, TypeOK
<1>3. ASSUME NEW t \in Thread, TryReadlock(t) PROVE IInv'
  <2>1. ReadersCounted' /\ readers' \in Nat /\ held' \in [Thread -> 0..MaxNesting]
    <3>1. CASE EnterRead(t)
      BY <1>3, <3>1, EnterCounted DEF TryReadlock
    <3>2. CASE HeldSame
      BY <3>2, <1>a DEF TypeOK
    <3>3. QED  BY <1>3, <3>1, <3>2 DEF TryReadlock
  <2>2. TypeOK'
    BY <1>3, <2>1, CallBounded DEF TryReadlock, TypeOK
  <2>3. CSWriteOwned' /\ WritingIsWriter'
    BY <1>3 DEF TryReadlock, CSWriteOwned, WritingIsWriter
  <2>4. \A u \in Thread : pc[u] = "out" \/ held'[u] = held[u]
    BY <1>3 DEF TryReadlock, Call, EnterRead, TypeOK
  <2>5. QED  BY <1>3, <2>1, <2>2, <2>3, <2>4 DEF TryReadlock, EnterRead
<1>4. ASSUME NEW t \in Thread, ReleaseReadlock(t) PROVE IInv'
  <2>1. ReadersCounted' /\ readers' \in Nat /\ held' \in [Thread -> 0..MaxNesting]
    BY <1>4, ReleaseCounted
  <2>2. TypeOK'
    BY <1>4, <2>1 DEF ReleaseReadlock, TypeOK
  <2>3. CSWriteOwned' /\ WritingIsWriter'
    BY <1>4 DEF ReleaseReadlock, CSWriteOwned, WritingIsWriter
  <2>4. ~writing
    BY <1>4, NoReaders DEF ReleaseReadlock
  <2>5. QED  BY <1>4, <2>1, <2>2, <2>3, <2>4 DEF ReleaseReadlock, TypeOK
<1>5. ASSUME NEW t \in Thread, WritelockCall(t) PROVE IInv'
  <2>1. ReadersCounted'
    BY <1>5, <1>a DEF WritelockCall
  <2>2. TypeOK'
    BY <1>5, CallBounded DEF WritelockCall, Goto, TypeOK, PC
  <2>3. CSWriteOwned' /\ WritingIsWriter'
    BY <1>5, ThreadAssumption DEF WritelockCall, Call, Goto, TypeOK, CSWriteOwned, WritingIsWriter
  <2>4. QED  BY <1>5, <2>1, <2>2, <2>3 DEF WritelockCall, Call, Goto, TypeOK
<1>6. ASSUME NEW t \in Thread, WritelockTake(t) PROVE IInv'
  <2>1. ReadersCounted'
    BY <1>6, <1>a DEF WritelockTake
  <2>2. TypeOK'
    BY <1>6 DEF WritelockTake, TakeCSWrite, Goto, TypeOK, PC
  <2>3. CSWriteOwned' /\ WritingIsWriter'
    BY <1>6, ThreadAssumption DEF WritelockTake, TakeCSWrite, Goto, TypeOK, CSWriteOwned, WritingIsWriter
  <2>4. QED  BY <1>6, <2>1, <2>2, <2>3 DEF WritelockTake, TakeCSWrite, Goto, TypeOK
<1>7. ASSUME NEW t \in Thread, WaitReaders(t) PROVE IInv'
  <2>1. ReadersCounted'
    BY <1>7, <1>a DEF WaitReaders
  <2>2. TypeOK'
    BY <1>7 DEF WaitReaders, Goto, TypeOK, PC
  <2>3. CSWriteOwned' /\ WritingIsWriter'
    BY <1>7, ThreadAssumption DEF WaitReaders, Goto, TypeOK, CSWriteOwned, WritingIsWriter
  <2>4. QED  BY <1>7, <2>1, <2>2, <2>3 DEF WaitReaders, Goto, TypeOK
<1>8. ASSUME NEW t \in Thread, TryWritelockTake(t) PROVE IInv'
  <2>1. ReadersCounted'
    BY <1>8, <1>a DEF TryWritelockTake
  <2>2. TypeOK'
    BY <1>8, CallBounded DEF TryWritelockTake, TakeCSWrite, Goto, TypeOK, PC
  <2>3. CSWriteOwned' /\ WritingIsWriter'
    BY <1>8, ThreadAssumption DEF TryWritelockTake, Call, TakeCSWrite, Goto, TypeOK, CSWriteOwned, WritingIsWriter
  <2>4. QED  BY <1>8, <2>1, <2>2, <2>3 DEF TryWritelockTake, Call, TakeCSWrite, Goto, TypeOK
<1>9. ASSUME NEW t \in Thread, TryWritelockLook(t) PROVE IInv'
  <2>1. ReadersCounted'
    BY <1>9, <1>a DEF TryWritelockLook
  <2>2. TypeOK'
    BY <1>9 DEF TryWritelockLook, Goto, TypeOK, PC
  <2>3. CSWriteOwned' /\ WritingIsWriter'
    BY <1>9, ThreadAssumption DEF TryWritelockLook, Goto, TypeOK, CSWriteOwned, WritingIsWriter
  <2>4. QED  BY <1>9, <2>1, <2>2, <2>3 DEF TryWritelockLook, Goto, TypeOK
<1>10. ASSUME NEW t \in Thread, ReleaseWritelock(t) PROVE IInv'
  <2>1. ReadersCounted'
    BY <1>10, <1>a DEF ReleaseWritelock
  <2>2. TypeOK'
    BY <1>10 DEF ReleaseWritelock, Goto, TypeOK, PC
  <2>3. CSWriteOwned' /\ WritingIsWriter'
    BY <1>10, ThreadAssumption DEF ReleaseWritelock, Goto, TypeOK, CSWriteOwned, WritingIsWriter
  <2>4. QED  BY <1>10, <2>1, <2>2, <2>3 DEF ReleaseWritelock, Goto, TypeOK
<1>11. ASSUME NEW t \in Thread, UnlockCSWrite(t) PROVE IInv'
  <2>1. ReadersCounted'
    BY <1>11, <1>a DEF UnlockCSWrite
  <2>2. TypeOK'
    BY <1>11 DEF UnlockCSWrite, Goto, TypeOK, PC
  <2>3. CSWriteOwned' /\ WritingIsWriter'
    BY <1>11, ThreadAssumption DEF UnlockCSWrite, Goto, TypeOK, CSWriteOwned, WritingIsWriter
  <2>4. QED  BY <1>11, <2>1, <2>2, <2>3 DEF UnlockCSWrite, Goto, TypeOK
<1>12. CASE UNCHANGED vars
  BY <1>12, <1>a DEF vars, TypeOK, CSWriteOwned, WritingIsWriter
<1>. QED
  BY <1>1, <1>2, <1>3, <1>4, <1>5, <1>6, <1>7, <1>8, <1>9, <1>10, <1>11, <1>12 DEF Next, Progress, Request

THEOREM InvariantHolds == Spec => []IInv
BY InitIInv, NextIInv, PTL DEF Spec

\* Type correctness: in particular `readers' never goes below zero.
THEOREM TypeCorrect == Spec => []TypeOK
BY InvariantHolds, PTL DEF IInv

\* Mutual exclusion of Mutex::writelock and Mutex::readlock: whatever the
\* number of threads, a writer is alone.
THEOREM MutualExclusion == Spec => []Exclusion
<1>1. ASSUME IInv PROVE Exclusion
  <2>1. ASSUME NEW t \in Thread, pc[t] = "inWrite", NEW u \in Thread
        PROVE  held[u] = 0 /\ (u # t => pc[u] # "inWrite")
    <3>1. writing
      BY <1>1, <2>1 DEF IInv, WritingIsWriter
    <3>2. held[u] = 0
      BY <1>1, <3>1, NoReaders DEF IInv
    <3>3. u # t => pc[u] # "inWrite"
      BY <1>1, <2>1 DEF IInv, CSWriteOwned
    <3>. QED  BY <3>2, <3>3
  <2>. QED  BY <2>1 DEF Exclusion
<1>. QED  BY <1>1, InvariantHolds, PTL

\* CSWrite is held exactly by the thread that is between taking it and letting
\* go of it: no path of a try-lock or a release leaves it behind.
THEOREM WriteMutexOwned == Spec => []CSWriteOwned
BY InvariantHolds, PTL DEF IInv

\* The flag that keeps readers out is up exactly while a write section runs.
THEOREM FlagOwned == Spec => []WritingIsWriter
BY InvariantHolds, PTL DEF IInv

\* The counter the writers poll is exact.
THEOREM CountExact == Spec => []ReadersCounted
BY InvariantHolds, PTL DEF IInv

-----------------------------------------------------------------------------
\* Every step of the Mutex begins or ends one section of the lock, or none: a
\* failed try-lock, the way into a call and CSWrite outside a write section leave
\* no trace.
LEMMA StepSimulation == IInv /\ [Next]_vars => [Lock!Next]_(Lock!vars)
<1> SUFFICES ASSUME IInv, [Next]_vars PROVE Lock!Next \/ UNCHANGED Lock!vars
  OBVIOUS
<1>0. /\ TypeOK /\ CSWriteOwned /\ WritingIsWriter /\ None \notin Thread
      /\ readers = 0 => \A u \in Thread : held[u] = 0
  BY NoReaders, ThreadAssumption DEF IInv
<1>a. ASSUME UNCHANGED <<held, writing>>, csWrite' = csWrite \/ ~writing
      PROVE  UNCHANGED Lock!vars
  BY <1>a DEF Lock!vars
\* The step that raises `writing', of either call.
<1>b. ASSUME NEW t \in Thread, csWrite = t, readers = 0, ~writing,
             writing', UNCHANGED <<held, csWrite>>
      PROVE  Lock!BeginWrite(t)
  BY <1>0, <1>b DEF Lock!BeginWrite
\* The step that takes a read lock, of either call.
<1>c. ASSUME NEW t \in Thread, EnterRead(t), UNCHANGED <<writing, csWrite>>
      PROVE  Lock!BeginRead(t)
  BY <1>c DEF EnterRead, Lock!BeginRead
\* A thread on its way to the write section finds `writing' down: it alone has
\* CSWrite.
<1>d. ASSUME NEW t \in Thread, pc[t] \in {"draining", "tryWrite", "releasing", "tryFailed"}
      PROVE  csWrite = t /\ ~writing
  <2>1. csWrite = t
    BY <1>0, <1>d DEF CSWriteOwned
  <2>2. \A u \in Thread : pc[u] # "inWrite"
    BY <1>0, <1>d, <2>1 DEF CSWriteOwned
  <2>. QED  BY <1>0, <2>1, <2>2 DEF WritingIsWriter
<1>1. ASSUME NEW t \in Thread, Request(t) PROVE Lock!Next \/ UNCHANGED Lock!vars
  <2>1. CASE ReadlockCall(t) \/ WritelockCall(t)
    BY <1>a, <2>1 DEF ReadlockCall, WritelockCall
  <2>2. CASE TryReadlock(t)
    <3>1. CASE EnterRead(t)
      BY <1>c, <2>2, <3>1 DEF TryReadlock, Lock!Next
    <3>2. CASE UNCHANGED held
      BY <1>a, <2>2, <3>2 DEF TryReadlock
    <3>. QED  BY <2>2, <3>1, <3>2 DEF TryReadlock
  <2>3. CASE TryWritelockTake(t)
    <3>1. CASE csWrite = None
      <4>1. ~writing
        BY <1>0, <3>1 DEF CSWriteOwned, WritingIsWriter
      <4>. QED  BY <1>a, <2>3, <4>1 DEF TryWritelockTake
    <3>2. CASE UNCHANGED csWrite
      BY <1>a, <2>3, <3>2 DEF TryWritelockTake
    <3>. QED  BY <2>3, <3>1, <3>2 DEF TryWritelockTake, TakeCSWrite
  <2>. QED  BY <1>1, <2>1, <2>2, <2>3 DEF Request
<1>2. ASSUME NEW t \in Thread, Progress(t) PROVE Lock!Next \/ UNCHANGED Lock!vars
  <2>1. CASE ReadlockEnter(t)
    BY <1>c, <2>1 DEF ReadlockEnter, Lock!Next
  <2>2. CASE ReleaseReadlock(t)
    BY <2>2 DEF ReleaseReadlock, Lock!Next, Lock!EndRead
  <2>3. CASE WritelockTake(t)
    <3>1. ~writing
      BY <1>0, <2>3 DEF WritelockTake, TakeCSWrite, CSWriteOwned, WritingIsWriter
    <3>. QED  BY <1>a, <2>3, <3>1 DEF WritelockTake
  <2>4. CASE WaitReaders(t)
    BY <1>b, <1>d, <2>4 DEF WaitReaders, Lock!Next
  <2>5. CASE TryWritelockLook(t)
    <3>1. CASE readers = 0 /\ writing'
      BY <1>b, <1>d, <2>5, <3>1 DEF TryWritelockLook, Lock!Next
    <3>2. CASE UNCHANGED writing
      BY <1>a, <2>5, <3>2 DEF TryWritelockLook
    <3>. QED  BY <2>5, <3>1, <3>2 DEF TryWritelockLook
  <2>6. CASE ReleaseWritelock(t)
    <3>1. csWrite = t /\ writing /\ t # None
      BY <1>0, <2>6 DEF ReleaseWritelock, CSWriteOwned, WritingIsWriter
    <3>. QED  BY <2>6, <3>1 DEF ReleaseWritelock, Lock!Next, Lock!EndWrite
  <2>7. CASE UnlockCSWrite(t)
    <3>1. ~writing
      BY <1>d, <2>7 DEF UnlockCSWrite
    <3>. QED  BY <1>a, <2>7, <3>1 DEF UnlockCSWrite
  <2>. QED  BY <1>2, <2>1, <2>2, <2>3, <2>4, <2>5, <2>6, <2>7 DEF Progress
<1>3. CASE UNCHANGED vars
  BY <1>3, <1>a DEF vars
<1>. QED  BY <1>1, <1>2, <1>3 DEF Next

\* Mutex implements the lock whose sections begin and end in one step, for any
\* number of threads: no interleaving of readlock, writelock and the try-locks shows
\* at a container they guard.
THEOREM ImplementsLock == Spec => LockSpec
<1>1. Init => Lock!Init
  BY DEF Init, Lock!Init
<1>. QED  BY <1>1, StepSimulation, InvariantHolds, PTL DEF Spec, LockSpec, Lock!Spec
=============================================================================
