------------------------------ MODULE RWMutex ------------------------------
(***************************************************************************)
(* The read/write half of class Mutex (source/common/Mutex.cpp): readlock, *)
(* releasereadlock, tryreadlock, writelock, waitReaders, releasewritelock  *)
(* and trywritelock, as the world and login servers' threads call them.    *)
(*                                                                         *)
(* The code polls: a thread that cannot enter sleeps a millisecond and     *)
(* looks again.  A failed look changes nothing, so only the successful one *)
(* is a step.  Whatever runs between CSRead.lock() and CSRead.unlock() is  *)
(* straight-line code on `readers' and `writing', hence one step; taking   *)
(* and releasing CSWrite are steps of their own, because other threads run *)
(* between them and the CSRead sections.                                   *)
(*                                                                         *)
(* CSWrite is a PTHREAD_MUTEX_FAST_NP mutex (the Linux build): its trylock *)
(* fails for its own holder too.                                           *)
(***************************************************************************)
EXTENDS Naturals, FiniteSets

CONSTANTS
  Thread,      \* the threads sharing one Mutex object
  None,        \* "nobody holds CSWrite"
  MaxNesting,  \* bound: read locks one thread nests
  MaxCalls     \* bound: lock calls one thread makes

ASSUME ThreadAssumption == IsFiniteSet(Thread) /\ None \notin Thread
ASSUME BoundsAssumption == MaxNesting \in Nat \ {0} /\ MaxCalls \in Nat

VARIABLES
  readers,   \* int Mutex::readers
  writing,   \* bool Mutex::writing
  csWrite,   \* the holder of CriticalSection Mutex::CSWrite
  pc,        \* where each thread is inside the Mutex calls
  held,      \* read locks each thread holds
  calls      \* lock calls each thread has made (bounded by MaxCalls)

vars == <<readers, writing, csWrite, pc, held, calls>>

PC == {"out",          \* outside the lock calls, or in the caller's section
       "wantRead",     \* in the loop of readlock
       "wantWrite",    \* in the CSWrite.trylock() loop of writelock
       "draining",     \* in waitReaders, holding CSWrite
       "tryWrite",     \* trywritelock, CSWrite taken, before its CSRead part
       "tryFailed",    \* trywritelock, found readers, before CSWrite.unlock()
       "inWrite",      \* the caller's exclusive section
       "releasing"}    \* releasewritelock, before CSWrite.unlock()

TypeOK ==
  /\ readers \in Nat
  /\ writing \in BOOLEAN
  /\ csWrite \in Thread \cup {None}
  /\ pc \in [Thread -> PC]
  /\ held \in [Thread -> 0..MaxNesting]
  /\ calls \in [Thread -> 0..MaxCalls]

Init ==
  /\ readers = 0
  /\ writing = FALSE
  /\ csWrite = None
  /\ pc = [t \in Thread |-> "out"]
  /\ held = [t \in Thread |-> 0]
  /\ calls = [t \in Thread |-> 0]

Goto(t, l) == pc' = [pc EXCEPT ![t] = l]

\* A thread outside the lock makes one more lock call.
Call(t) ==
  /\ pc[t] = "out"
  /\ calls[t] < MaxCalls
  /\ calls' = [calls EXCEPT ![t] = @ + 1]

-----------------------------------------------------------------------------
(* Readers.  A thread may nest read locks; it may not ask for a write lock *)
(* while it holds one, nor for any lock inside its write section.          *)

\* Variants: the reader is not counted; only its first lock is counted; readers
\* give way to a writer that waits.
EnterReadUncounted(t) ==
  /\ ~writing
  /\ held' = [held EXCEPT ![t] = @ + 1]
  /\ UNCHANGED readers

EnterReadOnce(t) ==
  /\ ~writing
  /\ readers' = IF held[t] = 0 THEN readers + 1 ELSE readers
  /\ held' = [held EXCEPT ![t] = @ + 1]

EnterReadPolite(t) ==
  /\ ~writing
  /\ csWrite = None
  /\ readers' = readers + 1
  /\ held' = [held EXCEPT ![t] = @ + 1]

\* The CSRead section of readlock and tryreadlock, when it finds no writer.
EnterRead(t) ==
  /\ ~writing
  /\ readers' = readers + 1
  /\ held' = [held EXCEPT ![t] = @ + 1]

ReadlockCall(t) ==
  /\ Call(t)
  /\ held[t] < MaxNesting
  /\ Goto(t, "wantRead")
  /\ UNCHANGED <<readers, writing, csWrite, held>>

ReadlockEnter(t) ==
  /\ pc[t] = "wantRead"
  /\ EnterRead(t)
  /\ Goto(t, "out")
  /\ UNCHANGED <<writing, csWrite, calls>>

\* tryreadlock looks once; its failure leaves the lock as it was.
TryReadlock(t) ==
  /\ Call(t)
  /\ held[t] < MaxNesting
  /\ \/ EnterRead(t)
     \/ writing /\ UNCHANGED <<readers, held>>
  /\ UNCHANGED <<writing, csWrite, pc>>

ReleaseReadlock(t) ==
  /\ pc[t] = "out"
  /\ held[t] > 0
  /\ readers' = readers - 1
  /\ held' = [held EXCEPT ![t] = @ - 1]
  /\ UNCHANGED <<writing, csWrite, pc, calls>>

-----------------------------------------------------------------------------
(* Writers.                                                                *)

WritelockCall(t) ==
  /\ Call(t)
  /\ held[t] = 0
  /\ Goto(t, "wantWrite")
  /\ UNCHANGED <<readers, writing, csWrite, held>>

\* CSWrite.trylock() succeeds: the thread is the only writer from here on.
TakeCSWrite(t) ==
  /\ csWrite = None
  /\ csWrite' = t

WritelockTake(t) ==
  /\ pc[t] = "wantWrite"
  /\ TakeCSWrite(t)
  /\ Goto(t, "draining")
  /\ UNCHANGED <<readers, writing, held, calls>>

\* Variant: the writer does not look at the readers.
WaitReadersBlind(t) ==
  /\ pc[t] = "draining"
  /\ writing' = TRUE
  /\ Goto(t, "inWrite")
  /\ UNCHANGED <<readers, csWrite, held, calls>>

\* The CSRead section of waitReaders that finds the last reader gone.
WaitReaders(t) ==
  /\ pc[t] = "draining"
  /\ readers = 0
  /\ writing' = TRUE
  /\ Goto(t, "inWrite")
  /\ UNCHANGED <<readers, csWrite, held, calls>>

TryWritelockTake(t) ==
  /\ Call(t)
  /\ held[t] = 0
  /\ \/ TakeCSWrite(t) /\ Goto(t, "tryWrite")
     \/ csWrite # None /\ UNCHANGED <<csWrite, pc>>
  /\ UNCHANGED <<readers, writing, held>>

\* Variant: trywritelock is content with CSWrite.
TryWritelockBlind(t) ==
  /\ pc[t] = "tryWrite"
  /\ writing' = TRUE
  /\ Goto(t, "inWrite")
  /\ UNCHANGED <<readers, csWrite, held, calls>>

\* trywritelock's CSRead section and the test of `writing' after it.
TryWritelockLook(t) ==
  /\ pc[t] = "tryWrite"
  /\ \/ readers = 0 /\ writing' = TRUE /\ Goto(t, "inWrite")
     \/ readers # 0 /\ UNCHANGED writing /\ Goto(t, "tryFailed")
  /\ UNCHANGED <<readers, csWrite, held, calls>>

\* releasewritelock lets the readers in first, and only then other writers.
ReleaseWritelock(t) ==
  /\ pc[t] = "inWrite"
  /\ writing' = FALSE
  /\ Goto(t, "releasing")
  /\ UNCHANGED <<readers, csWrite, held, calls>>

\* CSWrite.unlock(), at the end of releasewritelock or of a failed trywritelock.
UnlockCSWrite(t) ==
  /\ pc[t] \in {"releasing", "tryFailed"}
  /\ csWrite' = None
  /\ Goto(t, "out")
  /\ UNCHANGED <<readers, writing, held, calls>>

-----------------------------------------------------------------------------
\* What a thread already inside a lock call, or holding a lock, goes on to do.
Progress(t) ==
  \/ ReadlockEnter(t) \/ ReleaseReadlock(t)
  \/ WritelockTake(t) \/ WaitReaders(t)
  \/ TryWritelockLook(t) \/ ReleaseWritelock(t) \/ UnlockCSWrite(t)

Request(t) ==
  \/ ReadlockCall(t) \/ TryReadlock(t)
  \/ WritelockCall(t) \/ TryWritelockTake(t)

Next == \E t \in Thread : Progress(t) \/ Request(t)

Spec == Init /\ [][Next]_vars

(***************************************************************************)
(* Fairness: the operating system keeps running every thread, a polling    *)
(* thread looks again after Sleep(1), and whoever holds a lock releases    *)
(* it.  Nothing obliges a thread to make a new request.                    *)
(***************************************************************************)
FairSpec == Spec /\ \A t \in Thread : WF_vars(Progress(t))

-----------------------------------------------------------------------------
(* Properties.                                                             *)

\* While a thread is in its write section nobody else is in a section of
\* either kind: the exclusion every container guarded by a Mutex relies on.
Exclusion ==
  \A t \in Thread : pc[t] = "inWrite" =>
    \A u \in Thread : held[u] = 0 /\ (u # t => pc[u] # "inWrite")

\* The read locks held now, one element for each nesting level of each thread.
ReadLocks == {l \in Thread \X (1..MaxNesting) : l[2] <= held[l[1]]}

\* `readers' counts the read locks really held, so a writer that sees zero is
\* right: no reader is counted twice and none is forgotten by a release.
ReadersCounted == readers = Cardinality(ReadLocks)

\* Readlock, writelock and the try-locks implement the lock whose sections begin
\* and end in one step, however their own steps interleave: the thread that has
\* CSWrite is in its section from the step that raises `writing' to the one that
\* lowers it.
Lock == INSTANCE ReadWriteLock WITH
  share <- held, writer <- IF writing THEN csWrite ELSE None
LockSpec == Lock!Spec

\* The write mutex never outlives its writer: whoever is past trylock holds
\* it, and it is free when nobody is.
CSWriteOwned ==
  \A t \in Thread :
    csWrite = t <=> pc[t] \in {"draining", "tryWrite", "tryFailed", "inWrite", "releasing"}

\* `writing' is up exactly while a write section runs; were it left up, every
\* later readlock would spin for ever.
WritingIsWriter == writing <=> \E t \in Thread : pc[t] = "inWrite"

\* Once the threads stop making new requests, every readlock and writelock
\* asked for is granted and given back: no poll loop spins for ever.  (While they
\* go on, later readers may overtake a writer in waitReaders without bound.)
AllReturn == <>[](\A t \in Thread : pc[t] = "out" /\ held[t] = 0)
=============================================================================
