-------------------------- MODULE AsyncQueryProofs --------------------------
(***************************************************************************)
(* The asynchronous queries for any number of threads, ids and queries:    *)
(* every query is held once, run once and reported as active until it has  *)
(* been run; no two workers share a connection; and where one thread       *)
(* submits all queries of an id, a worker always has them in view.         *)
(*                                                                         *)
(* The properties the runs check are nearly inductive together; what they  *)
(* leave open is where an active query is and how far it has come.         *)
(***************************************************************************)
EXTENDS AsyncQuery, SequenceTheorems, TLAPS

\* A worker's connection is marked as in use.
Connected == \A w \in Queries : conn[w] # 0 => conn[w] \in inUse

\* A queue holds active queries of its id that were not run.
QueuesHold ==
  \A id \in Ids : \A q \in Range(asyncQueries[id]) :
    QueryID[q] = id /\ q \in activeQuerySessions /\ Submitted(q) /\ runs[q] = 0

\* A batch holds active queries of the worker's id, which left their queue and
\* of which the first at most was run.
BatchesHold ==
  \A w \in Queries : \A q \in Range(batch[w]) :
    /\ QueryID[q] = forId[w]
    /\ q \in activeQuerySessions
    /\ Submitted(q)
    /\ ~Queued(q)
    /\ runs[q] = IF at[w] = "retire" /\ q = Head(batch[w]) THEN 1 ELSE 0

\* No query is in two batches.
BatchesApart ==
  \A v, w \in Queries : \A q \in Queries : InBatch(q, v) /\ InBatch(q, w) => v = w

\* A worker has queries left exactly while it runs and retires them.
Busy == \A w \in Queries : batch[w] # <<>> <=> at[w] \in {"run", "retire"}

ActiveIsHeld ==
  \A q \in activeQuerySessions : Queued(q) \/ \E w \in Queries : InBatch(q, w)

\* A query whose submission is not finished has not started a worker, and
\* workers have the names of submitted queries.
Names ==
  /\ \A p \in Producers : adding[p] # NoQuery =>
       Submitter[adding[p]] = p /\ at[adding[p]] = "none" /\ Submitted(adding[p])
  /\ \A w \in Queries : at[w] # "none" => Submitted(w)

\* Nothing is run that was not submitted.
RunsFollow == \A q \in Queries : runs[q] # 0 => Submitted(q)

IInv ==
  /\ TypeOK
  /\ OneWorkerPerConnection
  /\ Connected
  /\ QueuesHold
  /\ BatchesHold
  /\ BatchesApart
  /\ Busy
  /\ ActiveIsHeld
  /\ Names
  /\ RunsFollow
  /\ PendingIsActive
  /\ TakenInOrder
  /\ SoleIsServed

-----------------------------------------------------------------------------
(* Sequences *)

LEMMA RangeType ==
  ASSUME NEW S, NEW s \in Seq(S)
  PROVE  Range(s) \subseteq S
BY DEF Range

LEMMA RangeEmpty == Range(<<>>) = {}
BY DEF Range

LEMMA RangeAppend ==
  ASSUME NEW S, NEW s \in Seq(S), NEW x \in S
  PROVE  Range(Append(s, x)) = Range(s) \cup {x}
BY AppendProperties DEF Range

LEMMA RangeTail ==
  ASSUME NEW S, NEW s \in Seq(S), s # <<>>
  PROVE  /\ Head(s) \in S /\ Tail(s) \in Seq(S)
         /\ Range(s) = {Head(s)} \cup Range(Tail(s))
<1>1. Head(s) \in S /\ Tail(s) \in Seq(S) /\ Len(s) \in Nat \ {0} /\ s[1] = Head(s)
  BY HeadTailProperties, EmptySeq
<1>2. /\ DOMAIN s = 1..Len(s) /\ DOMAIN Tail(s) = 1..(Len(s) - 1)
      /\ \A i \in 1..(Len(s) - 1) : Tail(s)[i] = s[i + 1]
  BY <1>1, HeadTailProperties
<1>3. \A x : x \in Range(s) <=> \E i \in 1..Len(s) : s[i] = x
  BY <1>2 DEF Range
<1>4. \A x : x \in Range(Tail(s)) <=> \E i \in 1..(Len(s) - 1) : s[i + 1] = x
  BY <1>2 DEF Range
<1>5. ASSUME NEW i \in 1..Len(s) PROVE i = 1 \/ (i - 1 \in 1..(Len(s) - 1) /\ (i - 1) + 1 = i)
  BY <1>1
<1>6. ASSUME NEW i \in 1..(Len(s) - 1) PROVE i + 1 \in 1..Len(s)
  BY <1>1
<1>7. 1 \in 1..Len(s)
  BY <1>1
<1>8. ASSUME NEW x PROVE x \in Range(s) <=> x = Head(s) \/ x \in Range(Tail(s))
  <2>1. ASSUME x \in Range(s) PROVE x = Head(s) \/ x \in Range(Tail(s))
    <3>1. PICK i \in 1..Len(s) : s[i] = x
      BY <2>1, <1>3
    <3>. QED  BY <3>1, <1>1, <1>4, <1>5
  <2>2. ASSUME x = Head(s) \/ x \in Range(Tail(s)) PROVE x \in Range(s)
    BY <2>2, <1>1, <1>3, <1>4, <1>6, <1>7
  <2>. QED  BY <2>1, <2>2
<1>. QED  BY <1>1, <1>8

\* Ordered, by the stamps f.
OrderedBy(s, f) == \A i, j \in DOMAIN s : i < j => f[s[i]] < f[s[j]]

LEMMA OrderedAppend ==
  ASSUME NEW s \in Seq(Queries), NEW f \in [Queries -> Nat], NEW q \in Queries,
         OrderedBy(s, f), \A r \in Range(s) : f[r] < f[q]
  PROVE  OrderedBy(Append(s, q), f)
<1>1. /\ Len(s) \in Nat /\ DOMAIN s = 1..Len(s)
      /\ DOMAIN Append(s, q) = 1..(Len(s) + 1)
      /\ \A i \in 1..Len(s) : Append(s, q)[i] = s[i]
      /\ Append(s, q)[Len(s) + 1] = q
  BY AppendProperties, LenProperties
<1>2. \A i \in 1..Len(s) : f[s[i]] < f[q]
  BY <1>1 DEF Range
<1>. QED  BY <1>1, <1>2 DEF OrderedBy

LEMMA OrderedTail ==
  ASSUME NEW s \in Seq(Queries), NEW f \in [Queries -> Nat], s # <<>>, OrderedBy(s, f)
  PROVE  OrderedBy(Tail(s), f) /\ Head(s) \notin Range(Tail(s))
<1>1. /\ Len(s) \in Nat \ {0} /\ DOMAIN s = 1..Len(s) /\ DOMAIN Tail(s) = 1..(Len(s) - 1)
      /\ \A i \in 1..(Len(s) - 1) : Tail(s)[i] = s[i + 1]
      /\ s[1] = Head(s)
  BY HeadTailProperties, EmptySeq
<1>2. ASSUME NEW i \in 1..(Len(s) - 1)
      PROVE  i + 1 \in 1..Len(s) /\ 1 \in 1..Len(s) /\ 1 < i + 1
  BY <1>1
<1>3. \A i \in 1..(Len(s) - 1) : f[s[1]] < f[s[i + 1]]
  BY <1>1, <1>2 DEF OrderedBy
<1>4. f[Head(s)] \in Nat
  BY HeadTailProperties
<1>5. ASSUME Head(s) \in Range(Tail(s)) PROVE FALSE
  <2>1. PICK i \in 1..(Len(s) - 1) : s[i + 1] = Head(s)
    BY <1>1, <1>5 DEF Range
  <2>. QED  BY <2>1, <1>1, <1>3, <1>4
<1>6. ASSUME NEW i \in 1..(Len(s) - 1), NEW j \in 1..(Len(s) - 1), i < j
      PROVE  f[Tail(s)[i]] < f[Tail(s)[j]]
  <2>1. i + 1 \in 1..Len(s) /\ j + 1 \in 1..Len(s) /\ i + 1 < j + 1
    BY <1>1, <1>6
  <2>. QED  BY <1>1, <2>1 DEF OrderedBy
<1>. QED  BY <1>1, <1>5, <1>6 DEF OrderedBy

\* Stamps that the queries of a sequence keep keep it ordered.
LEMMA OrderedSame ==
  ASSUME NEW s \in Seq(Queries), NEW f, NEW g, OrderedBy(s, f),
         \A r \in Range(s) : g[r] = f[r]
  PROVE  OrderedBy(s, g)
BY DEF OrderedBy, Range

-----------------------------------------------------------------------------
(* The invariant *)

LEMMA InitIInv == Init => IInv
<1> SUFFICES ASSUME Init PROVE IInv
  OBVIOUS
<1>1. TypeOK
  BY AsyncAssumption DEF Init, TypeOK
<1>2. \A id \in Ids : Range(asyncQueries[id]) = {}
  BY RangeEmpty DEF Init
<1>3. \A w \in Queries : Range(batch[w]) = {}
  BY RangeEmpty DEF Init
<1>4. TakenInOrder
  BY <1>2, <1>3 DEF Init, TakenInOrder, Ordered
<1>5. OneWorkerPerConnection /\ Connected /\ Busy
  BY DEF Init, OneWorkerPerConnection, Connected, Busy
<1>6. QueuesHold /\ BatchesHold /\ BatchesApart
  BY <1>2, <1>3 DEF QueuesHold, BatchesHold, BatchesApart, InBatch
<1>7. ActiveIsHeld /\ SoleIsServed
  BY DEF Init, ActiveIsHeld, SoleIsServed
<1>8. Names /\ RunsFollow /\ PendingIsActive
  BY DEF Init, Names, RunsFollow, PendingIsActive, Submitted
<1>. QED  BY <1>1, <1>4, <1>5, <1>6, <1>7, <1>8 DEF IInv

\* What the invariant says of a query that was not submitted.
LEMMA Unsubmitted ==
  ASSUME IInv, NEW q \in Queries, stamp[q] = 0
  PROVE  /\ q \notin activeQuerySessions
         /\ \A id \in Ids : q \notin Range(asyncQueries[id])
         /\ \A w \in Queries : q \notin Range(batch[w])
         /\ at[q] = "none" /\ batch[q] = <<>> /\ runs[q] = 0
         /\ \A p \in Producers : adding[p] # q
<1>1. \A id \in Ids : q \notin Range(asyncQueries[id])
  BY DEF IInv, QueuesHold, Submitted
<1>2. \A w \in Queries : q \notin Range(batch[w])
  BY DEF IInv, BatchesHold, Submitted
<1>3. q \notin activeQuerySessions
  BY <1>1, <1>2, AsyncAssumption DEF IInv, ActiveIsHeld, Queued, InBatch
<1>4. at[q] = "none"
  BY DEF IInv, Names, Submitted
<1>5. batch[q] = <<>>
  BY <1>4 DEF IInv, Busy
<1>6. \A p \in Producers : adding[p] # q
  BY AsyncAssumption DEF IInv, Names, Submitted
<1>7. runs[q] = 0
  BY DEF IInv, RunsFollow, Submitted
<1>. QED  BY <1>1, <1>2, <1>3, <1>4, <1>5, <1>6, <1>7

LEMMA AddStep == ASSUME IInv, NEW q \in Queries, AddAsyncQuery(q) PROVE IInv'
<1> USE AsyncAssumption
<1> DEFINE id == QueryID[q]
<1>1. /\ stamp[q] = 0
      /\ adding[Submitter[q]] = NoQuery
      /\ submissions' = submissions + 1
      /\ stamp' = [stamp EXCEPT ![q] = submissions + 1]
      /\ asyncQueries' = [asyncQueries EXCEPT ![id] = Append(asyncQueries[id], q)]
      /\ activeQuerySessions' = activeQuerySessions \cup {q}
      /\ adding' = [adding EXCEPT ![Submitter[q]] = q]
      /\ UNCHANGED <<made, inUse, at, forId, conn, batch, runs>>
  BY DEF AddAsyncQuery
<1>2. TypeOK
  BY DEF IInv
<1>3. /\ id \in Ids /\ Submitter[q] \in Producers
      /\ asyncQueries[id] \in Seq(Queries)
  BY <1>2 DEF TypeOK
<1>4. /\ Range(asyncQueries'[id]) = Range(asyncQueries[id]) \cup {q}
      /\ \A i \in Ids \ {id} : asyncQueries'[i] = asyncQueries[i]
  BY <1>1, <1>2, <1>3, RangeAppend DEF TypeOK
<1>5. /\ stamp'[q] = submissions + 1
      /\ \A r \in Queries \ {q} : stamp'[r] = stamp[r]
      /\ \A r \in Queries : stamp[r] \in Nat /\ stamp[r] < submissions + 1
      /\ submissions \in Nat
  BY <1>1, <1>2 DEF TypeOK
<1>6. \A r \in Queries : Submitted(r)' <=> Submitted(r) \/ r = q
  BY <1>5 DEF Submitted
<1>7. /\ q \notin activeQuerySessions
      /\ \A i \in Ids : q \notin Range(asyncQueries[i])
      /\ \A w \in Queries : q \notin Range(batch[w])
      /\ at[q] = "none" /\ batch[q] = <<>> /\ runs[q] = 0
      /\ \A p \in Producers : adding[p] # q
  BY <1>1, Unsubmitted
<1>8. /\ \A i \in Ids : Range(asyncQueries[i]) \subseteq Queries
      /\ \A w \in Queries : Range(batch[w]) \subseteq Queries
  BY <1>2, RangeType DEF TypeOK
<1>9. \A r \in Queries : Queued(r)' <=> Queued(r) \/ r = q
  BY <1>4, <1>3, <1>2 DEF Queued, TypeOK
<1>10. TypeOK'
  <2>1. Append(asyncQueries[id], q) \in Seq(Queries)
    BY <1>3
  <2>2. asyncQueries' \in [Ids -> Seq(Queries)]
    BY <1>1, <1>2, <2>1 DEF TypeOK
  <2>3. stamp' \in [Queries -> 0..submissions'] /\ submissions' \in Nat
    BY <1>1, <1>2, <1>5 DEF TypeOK
  <2>4. adding' \in [Producers -> Queries \cup {NoQuery}]
    BY <1>1, <1>2 DEF TypeOK
  <2>. QED  BY <1>1, <1>2, <2>2, <2>3, <2>4 DEF TypeOK
<1>11. OneWorkerPerConnection' /\ Connected' /\ Busy'
  BY <1>1 DEF IInv, OneWorkerPerConnection, Connected, Busy
<1>12. QueuesHold'
  <2>1. ASSUME NEW i \in Ids, NEW r \in Range(asyncQueries'[i])
        PROVE  QueryID[r] = i /\ r \in activeQuerySessions' /\ Submitted(r)' /\ runs'[r] = 0
    <3>1. CASE r = q
      BY <3>1, <2>1, <1>1, <1>4, <1>6, <1>7
    <3>2. CASE r # q
      <4>1. r \in Range(asyncQueries[i]) /\ r \in Queries
        BY <3>2, <2>1, <1>4, <1>8
      <4>. QED  BY <4>1, <1>1, <1>6 DEF IInv, QueuesHold
    <3>. QED  BY <3>1, <3>2
  <2>. QED  BY <2>1 DEF QueuesHold
<1>13. BatchesHold'
  <2>1. ASSUME NEW w \in Queries, NEW r \in Range(batch[w])
        PROVE  /\ QueryID[r] = forId'[w] /\ r \in activeQuerySessions' /\ Submitted(r)'
               /\ ~Queued(r)' /\ runs'[r] = IF at'[w] = "retire" /\ r = Head(batch'[w]) THEN 1 ELSE 0
    <3>1. r \in Queries /\ r # q
      BY <1>7, <1>8
    <3>. QED  BY <3>1, <1>1, <1>6, <1>9 DEF IInv, BatchesHold
  <2>. QED  BY <2>1, <1>1 DEF BatchesHold
<1>14. BatchesApart'
  BY <1>1 DEF IInv, BatchesApart, InBatch
<1>15. ActiveIsHeld'
  BY <1>1, <1>2, <1>9 DEF IInv, TypeOK, ActiveIsHeld, InBatch
<1>16. Names'
  BY <1>1, <1>2, <1>3, <1>6, <1>7 DEF IInv, TypeOK, Names
<1>17. RunsFollow' /\ PendingIsActive'
  BY <1>1, <1>6 DEF IInv, RunsFollow, PendingIsActive
<1>18. TakenInOrder'
  <2>1. ASSUME NEW t \in Seq(Queries), OrderedBy(t, stamp), q \notin Range(t)
        PROVE  OrderedBy(t, stamp')
    <3>1. \A r \in Range(t) : stamp'[r] = stamp[r]
      BY <2>1, <1>5, RangeType
    <3>. QED  BY <2>1, <3>1, OrderedSame
  <2>2. \A w \in Queries : OrderedBy(batch[w], stamp')
    BY <2>1, <1>2, <1>7 DEF IInv, TypeOK, TakenInOrder, Ordered, OrderedBy
  <2>3. \A i \in Ids : OrderedBy(asyncQueries[i], stamp')
    BY <2>1, <1>2, <1>7 DEF IInv, TypeOK, TakenInOrder, Ordered, OrderedBy
  <2>4. stamp' \in [Queries -> Nat]
    BY <1>10 DEF TypeOK
  <2>5. \A r \in Queries \ {q} : stamp'[r] < stamp'[q]
    BY <1>5
  <2>6. OrderedBy(asyncQueries'[id], stamp')
    <3>1. \A r \in Range(asyncQueries[id]) : stamp'[r] < stamp'[q]
      BY <2>5, <1>3, <1>7, <1>8
    <3>. QED  BY <3>1, <2>3, <2>4, <1>1, <1>2, <1>3, OrderedAppend DEF TypeOK
  <2>7. \A i \in Ids : OrderedBy(asyncQueries'[i], stamp')
    BY <2>3, <2>6, <1>4
  <2>8. ASSUME NEW i \in Ids, NEW r \in Range(asyncQueries'[i]), NEW w \in Queries,
               NEW b \in Range(batch[w]), QueryID[b] = i
        PROVE  stamp'[b] < stamp'[r]
    <3>1. b \in Queries \ {q}
      BY <1>7, <1>8
    <3>2. CASE r = q
      BY <3>1, <3>2, <2>5
    <3>3. CASE r # q
      <4>1. r \in Range(asyncQueries[i]) /\ r \in Queries
        BY <3>3, <2>8, <1>4, <1>8
      <4>2. stamp[b] < stamp[r]
        BY <4>1, <2>8 DEF IInv, TakenInOrder
      <4>. QED  BY <4>1, <4>2, <3>1, <3>3, <1>5
    <3>. QED  BY <3>2, <3>3
  <2>. QED  BY <2>2, <2>7, <2>8, <1>1 DEF TakenInOrder, Ordered, OrderedBy
<1>19. SoleIsServed'
  <2>1. ASSUME NEW r \in activeQuerySessions', SoleSubmitter(QueryID[r]),
               adding'[Submitter[r]] # r
        PROVE  \E w \in Queries : WillTake(w, QueryID[r])'
    <3>1. r # q
      BY <2>1, <1>1, <1>2, <1>3 DEF TypeOK
    <3>2. r \in activeQuerySessions /\ r \in Queries
      BY <2>1, <3>1, <1>1, <1>2 DEF TypeOK
    <3>3. adding[Submitter[r]] # r
      BY <2>1, <3>1, <3>2, <1>1, <1>2 DEF TypeOK
    <3>4. PICK w \in Queries : WillTake(w, QueryID[r])
      BY <3>2, <3>3, <2>1 DEF IInv, SoleIsServed
    <3>. QED  BY <3>4, <1>1 DEF WillTake
  <2>. QED  BY <2>1 DEF SoleIsServed
<1>. QED
  BY <1>10, <1>11, <1>12, <1>13, <1>14, <1>15, <1>16, <1>17, <1>18, <1>19 DEF IInv

\* A producer and its query: what both forms of the test after the lock use.
LEMMA SubmitStep ==
  ASSUME IInv, NEW p \in Producers, Submit(p)
  PROVE  IInv'
<1> USE AsyncAssumption
<1> DEFINE q == adding[p]
<1>1. /\ q \in Queries
      /\ adding' = [adding EXCEPT ![p] = NoQuery]
      /\ UNCHANGED <<asyncQueries, activeQuerySessions, made, inUse, conn, batch,
                     submissions, stamp, runs>>
  BY DEF Submit, StartIfIdle, StartAfterFree, IInv, TypeOK
<1>2. \/ UNCHANGED <<at, forId>>
      \/ \E id \in Ids : StartWorker(q, id)
  BY <1>1 DEF Submit, StartIfIdle, StartAfterFree
<1>3. TypeOK
  BY DEF IInv
<1>4. at[q] = "none" /\ Submitted(q) /\ Submitter[q] = p /\ batch[q] = <<>>
  <2>1. adding[p] # NoQuery
    BY <1>1
  <2>2. Submitter[q] = p /\ at[q] = "none" /\ Submitted(q)
    BY <2>1 DEF IInv, Names
  <2>. QED  BY <2>2, <1>1 DEF IInv, Busy
<1>5. \A w \in Queries \ {q} : at'[w] = at[w] /\ forId'[w] = forId[w]
  BY <1>1, <1>2, <1>3 DEF TypeOK, StartWorker
<1>6. at'[q] \in {"none", "started"}
  BY <1>1, <1>2, <1>3, <1>4 DEF TypeOK, StartWorker
<1>7. \A w \in Queries : WillTake(w, forId[w]) => w # q
  BY <1>4 DEF WillTake
<1>8. \A r \in Queries : Submitted(r)' <=> Submitted(r)
  BY <1>1 DEF Submitted
<1>9. Range(batch[q]) = {}
  BY <1>4, RangeEmpty
<1>10. TypeOK'
  <2>1. at' \in [Queries -> {"none", "started", "take", "run", "retire", "free",
                             "check", "ended"}]
    BY <1>1, <1>2, <1>3 DEF TypeOK, StartWorker
  <2>2. forId' \in [Queries -> Ids]
    BY <1>1, <1>2, <1>3 DEF TypeOK, StartWorker
  <2>3. adding' \in [Producers -> Queries \cup {NoQuery}]
    BY <1>1, <1>3 DEF TypeOK
  <2>. QED  BY <1>1, <1>3, <2>1, <2>2, <2>3 DEF TypeOK
<1>11. OneWorkerPerConnection' /\ Connected'
  BY <1>1 DEF IInv, OneWorkerPerConnection, Connected
<1>12. Busy'
  BY <1>1, <1>4, <1>5, <1>6 DEF IInv, Busy
<1>13. QueuesHold'
  BY <1>1 DEF IInv, QueuesHold, Submitted
<1>14. BatchesHold'
  <2>1. ASSUME NEW w \in Queries, NEW r \in Range(batch[w])
        PROVE  /\ QueryID[r] = forId'[w] /\ r \in activeQuerySessions' /\ Submitted(r)'
               /\ ~Queued(r)' /\ runs'[r] = IF at'[w] = "retire" /\ r = Head(batch'[w]) THEN 1 ELSE 0
    <3>1. w # q
      BY <2>1, <1>9
    <3>2. at'[w] = at[w] /\ forId'[w] = forId[w]
      BY <3>1, <1>5
    <3>3. Queued(r)' <=> Queued(r)
      BY <1>1 DEF Queued
    <3>4. Submitted(r)' <=> Submitted(r)
      BY <1>1 DEF Submitted
    <3>. QED  BY <3>2, <3>3, <3>4, <1>1 DEF IInv, BatchesHold
  <2>. QED  BY <2>1, <1>1 DEF BatchesHold
<1>15. BatchesApart' /\ ActiveIsHeld'
  BY <1>1 DEF IInv, BatchesApart, ActiveIsHeld, InBatch, Queued
<1>16. Names'
  <2>1. ASSUME NEW o \in Producers, adding'[o] # NoQuery
        PROVE  Submitter[adding'[o]] = o /\ at'[adding'[o]] = "none" /\ stamp'[adding'[o]] > 0
    <3>1. o # p /\ adding'[o] = adding[o]
      BY <2>1, <1>1, <1>3 DEF TypeOK
    <3>2. adding[o] \in Queries
      BY <2>1, <3>1, <1>3 DEF TypeOK
    <3>3. Submitter[adding[o]] = o /\ at[adding[o]] = "none" /\ Submitted(adding[o])
      BY <2>1, <3>1 DEF IInv, Names
    <3>4. adding[o] # q
      BY <3>1, <3>3, <1>4
    <3>. QED  BY <3>1, <3>2, <3>3, <3>4, <1>1, <1>5 DEF Submitted
  <2>2. ASSUME NEW w \in Queries, at'[w] # "none" PROVE Submitted(w)'
    BY <2>2, <1>4, <1>5, <1>8 DEF IInv, Names
  <2>. QED  BY <2>1, <2>2 DEF Names, Submitted
<1>17. RunsFollow' /\ PendingIsActive'
  BY <1>1, <1>8 DEF IInv, RunsFollow, PendingIsActive
<1>18. TakenInOrder'
  BY <1>1 DEF IInv, TakenInOrder, Ordered
<1>19. SoleIsServed'
  <2> SUFFICES ASSUME NEW r \in activeQuerySessions', SoleSubmitter(QueryID[r]),
                      adding'[Submitter[r]] # r
               PROVE  \E w \in Queries : WillTake(w, QueryID[r])'
    BY DEF SoleIsServed
  <2>1. r \in activeQuerySessions /\ r \in Queries
    BY <1>1, <1>3 DEF TypeOK
  <2>2. ASSUME NEW o \in activeQuerySessions, o # q, QueryID[o] = QueryID[r],
               adding[Submitter[o]] # o
        PROVE  \E w \in Queries : WillTake(w, QueryID[r])'
    <3>1. PICK w \in Queries : WillTake(w, QueryID[o])
      BY <2>2 DEF IInv, SoleIsServed
    <3>2. w # q
      BY <3>1, <1>4 DEF WillTake
    <3>. QED  BY <3>1, <3>2, <2>2, <1>5 DEF WillTake
  <2>3. CASE r # q
    <3>1. adding[Submitter[r]] # r
      BY <2>1, <2>3, <1>1, <1>3 DEF TypeOK
    <3>. QED  BY <3>1, <2>1, <2>2, <2>3
  <2>4. CASE r = q
    <3>1. StartIfIdle(p)
      BY <2>1, <2>4 DEF Submit, StartAfterFree
    <3>2. CASE LocalIsActiveQuery(QueryID[q], q)
      <4>1. PICK o \in activeQuerySessions : o # q /\ QueryID[o] = QueryID[q]
        BY <3>2 DEF LocalIsActiveQuery
      <4>2. o \in Queries
        BY <1>3 DEF TypeOK
      <4>3. Submitter[o] = p
        BY <4>1, <4>2, <2>1, <2>4, <1>4 DEF SoleSubmitter
      <4>. QED  BY <4>1, <4>3, <2>2, <2>4
    <3>3. CASE ~LocalIsActiveQuery(QueryID[q], q)
      <4>1. StartWorker(q, QueryID[q])
        BY <3>1, <3>3 DEF StartIfIdle
      <4>2. at'[q] = "started" /\ forId'[q] = QueryID[q]
        BY <4>1, <1>1, <1>3 DEF StartWorker, TypeOK
      <4>. QED  BY <4>2, <2>4, <1>1 DEF WillTake
    <3>. QED  BY <3>2, <3>3
  <2>. QED  BY <2>3, <2>4
<1>. QED
  BY <1>10, <1>11, <1>12, <1>13, <1>14, <1>15, <1>16, <1>17, <1>18, <1>19 DEF IInv

\* A worker that goes on without touching queues and batches keeps what the
\* invariant says of them; it serves its id for as long as it does not end.
LEMMA MoveKeeps ==
  ASSUME IInv, NEW w \in Queries, NEW x \in {"take", "check", "started", "ended"},
         at[w] \notin {"none", "run", "retire", "ended"},
         at' = [at EXCEPT ![w] = x],
         UNCHANGED <<asyncQueries, activeQuerySessions, adding, forId, batch,
                     submissions, stamp, runs>>
  PROVE  /\ at' \in [Queries -> {"none", "started", "take", "run", "retire", "free",
                                 "check", "ended"}]
         /\ QueuesHold' /\ BatchesHold' /\ BatchesApart' /\ Busy' /\ ActiveIsHeld'
         /\ Names' /\ RunsFollow' /\ PendingIsActive' /\ TakenInOrder'
         /\ x # "ended" => SoleIsServed'
<1>1. TypeOK
  BY DEF IInv
<1>2. /\ at'[w] = x
      /\ \A v \in Queries \ {w} : at'[v] = at[v]
  BY <1>1 DEF TypeOK
<1>3. at' \in [Queries -> {"none", "started", "take", "run", "retire", "free",
                           "check", "ended"}]
  BY <1>1 DEF TypeOK
<1>4. QueuesHold' /\ RunsFollow' /\ PendingIsActive'
  BY DEF IInv, QueuesHold, RunsFollow, PendingIsActive, Submitted
<1>5. BatchesApart' /\ ActiveIsHeld' /\ TakenInOrder'
  BY DEF IInv, BatchesApart, ActiveIsHeld, InBatch, Queued, TakenInOrder, Ordered
<1>6. Busy'
  BY <1>2 DEF IInv, Busy
<1>7. BatchesHold'
  <2>1. ASSUME NEW v \in Queries
        PROVE  at'[v] = "retire" <=> at[v] = "retire"
    BY <1>2
  <2>. QED  BY <2>1 DEF IInv, BatchesHold, Queued, Submitted
<1>8. Names'
  <2>1. \A p \in Producers : adding[p] # NoQuery => adding[p] # w
    BY DEF IInv, Names
  <2>2. ASSUME NEW p \in Producers, adding[p] # NoQuery
        PROVE  Submitter[adding[p]] = p /\ at'[adding[p]] = "none" /\ stamp'[adding[p]] > 0
    <3>1. adding[p] \in Queries
      BY <1>1, <2>2 DEF TypeOK
    <3>. QED  BY <2>1, <2>2, <3>1, <1>2 DEF IInv, Names, Submitted
  <2>3. \A v \in Queries : at'[v] # "none" => stamp'[v] > 0
    BY <1>2 DEF IInv, Names, Submitted
  <2>. QED  BY <2>2, <2>3 DEF Names, Submitted
<1>9. ASSUME x # "ended" PROVE SoleIsServed'
  <2>1. ASSUME NEW v \in Queries, NEW id, WillTake(v, id) PROVE WillTake(v, id)'
    BY <2>1, <1>2, <1>9 DEF WillTake
  <2>2. ASSUME NEW q \in activeQuerySessions, SoleSubmitter(QueryID[q]),
               adding[Submitter[q]] # q
        PROVE  \E v \in Queries : WillTake(v, QueryID[q])'
    <3>1. PICK v \in Queries : WillTake(v, QueryID[q])
      BY <2>2 DEF IInv, SoleIsServed
    <3>. QED  BY <3>1, <2>1 DEF WillTake
  <2>. QED  BY <2>2 DEF SoleIsServed
<1>. QED  BY <1>3, <1>4, <1>5, <1>6, <1>7, <1>8, <1>9

LEMMA FindStep ==
  ASSUME IInv, NEW w \in Queries, FindFreeInstance(w) PROVE IInv'
<1>1. TypeOK
  BY DEF IInv
<1>2. /\ at[w] = "started"
      /\ at' = [at EXCEPT ![w] = "take"]
      /\ UNCHANGED <<asyncQueries, activeQuerySessions, adding, forId, batch,
                     submissions, stamp, runs>>
  BY DEF FindFreeInstance
<1>3. /\ at' \in [Queries -> {"none", "started", "take", "run", "retire", "free",
                              "check", "ended"}]
      /\ QueuesHold' /\ BatchesHold' /\ BatchesApart' /\ Busy' /\ ActiveIsHeld'
      /\ Names' /\ RunsFollow' /\ PendingIsActive' /\ TakenInOrder' /\ SoleIsServed'
  BY <1>2, MoveKeeps
<1>4. PICK c \in 1..made' : /\ c \notin inUse /\ c # 0
                            /\ inUse' = inUse \cup {c}
                            /\ conn' = [conn EXCEPT ![w] = c]
                            /\ made' \in Nat /\ made' >= made
  <2>1. made \in Nat /\ inUse \subseteq 1..made
    BY <1>1 DEF TypeOK
  <2>2. CASE \E d \in (1..made) \ inUse :
               /\ conn' = [conn EXCEPT ![w] = d]
               /\ inUse' = inUse \cup {d}
               /\ UNCHANGED made
    <3>1. PICK d \in (1..made) \ inUse : /\ conn' = [conn EXCEPT ![w] = d]
                                         /\ inUse' = inUse \cup {d}
                                         /\ made' = made
      BY <2>2
    <3>2. d \in 1..made' /\ d # 0 /\ made' \in Nat /\ made' >= made
      BY <2>1, <3>1
    <3>. QED  BY <3>1, <3>2, Zenon
  <2>3. CASE /\ inUse = 1..made
             /\ made' = made + 1
             /\ conn' = [conn EXCEPT ![w] = made + 1]
             /\ inUse' = inUse \cup {made + 1}
    <3>1. /\ made + 1 \in 1..made' /\ made + 1 \notin inUse /\ made + 1 # 0
          /\ made' \in Nat /\ made' >= made
      BY <2>1, <2>3
    <3>. QED  BY <2>3, <3>1, Zenon
  <2>. QED  BY <2>2, <2>3 DEF FindFreeInstance
<1>5. inUse' \subseteq 1..made' /\ conn' \in [Queries -> 0..made']
  BY <1>1, <1>4 DEF TypeOK
<1>6. TypeOK'
  BY <1>1, <1>2, <1>3, <1>4, <1>5 DEF TypeOK
<1>7. /\ conn'[w] = c
      /\ \A v \in Queries \ {w} : conn'[v] = conn[v]
      /\ \A v \in Queries : conn[v] # c
  BY <1>1, <1>4 DEF TypeOK, IInv, Connected
<1>8. OneWorkerPerConnection'
  BY <1>7 DEF IInv, OneWorkerPerConnection
<1>9. Connected'
  BY <1>4, <1>7 DEF IInv, Connected
<1>. QED  BY <1>3, <1>6, <1>8, <1>9 DEF IInv

LEMMA FreeStep ==
  ASSUME IInv, NEW w \in Queries, FreeDBInstance(w) PROVE IInv'
<1>1. TypeOK
  BY DEF IInv
<1>2. /\ at[w] = "free"
      /\ at' = [at EXCEPT ![w] = "check"]
      /\ inUse' = inUse \ {conn[w]}
      /\ conn' = [conn EXCEPT ![w] = 0]
      /\ UNCHANGED <<asyncQueries, activeQuerySessions, made, adding, forId, batch,
                     submissions, stamp, runs>>
  BY DEF FreeDBInstance
<1>3. /\ at' \in [Queries -> {"none", "started", "take", "run", "retire", "free",
                              "check", "ended"}]
      /\ QueuesHold' /\ BatchesHold' /\ BatchesApart' /\ Busy' /\ ActiveIsHeld'
      /\ Names' /\ RunsFollow' /\ PendingIsActive' /\ TakenInOrder' /\ SoleIsServed'
  BY <1>2, MoveKeeps
<1>4. inUse' \subseteq 1..made' /\ conn' \in [Queries -> 0..made']
  <2>1. made \in Nat /\ 0 \in 0..made
    BY <1>1 DEF TypeOK
  <2>2. inUse \subseteq 1..made /\ conn \in [Queries -> 0..made]
    BY <1>1 DEF TypeOK
  <2>3. conn' \in [Queries -> 0..made]
    BY <2>1, <2>2, <1>2
  <2>4. inUse' \subseteq 1..made
    BY <2>2, <1>2
  <2>. QED  BY <2>3, <2>4, <1>2
<1>5. TypeOK'
  BY <1>1, <1>2, <1>3, <1>4 DEF TypeOK
<1>6. /\ conn'[w] = 0
      /\ \A v \in Queries \ {w} : conn'[v] = conn[v]
  BY <1>1, <1>2 DEF TypeOK
<1>7. OneWorkerPerConnection'
  BY <1>6 DEF IInv, OneWorkerPerConnection
<1>8. Connected'
  <2>1. ASSUME NEW v \in Queries, conn'[v] # 0 PROVE conn'[v] \in inUse'
    <3>1. v # w /\ conn'[v] = conn[v] /\ conn[v] \in inUse
      BY <2>1, <1>6 DEF IInv, Connected
    <3>2. conn[v] # conn[w]
      BY <3>1, <2>1 DEF IInv, OneWorkerPerConnection
    <3>. QED  BY <3>1, <3>2, <1>2
  <2>. QED  BY <2>1 DEF Connected
<1>. QED  BY <1>3, <1>5, <1>7, <1>8 DEF IInv

\* The worker that finds its queue empty is not missed: what is active of its
\* id is in the batch of another.
LEMMA NothingStep ==
  ASSUME IInv, NEW w \in Queries, NothingToTake(w) PROVE IInv'
<1> USE AsyncAssumption
<1>1. TypeOK
  BY DEF IInv
<1>2. /\ at[w] = "take"
      /\ asyncQueries[forId[w]] = <<>>
      /\ at' = [at EXCEPT ![w] = "ended"]
      /\ conn' = [conn EXCEPT ![w] = 0]
      /\ UNCHANGED <<asyncQueries, activeQuerySessions, made, inUse, adding, forId,
                     batch, submissions, stamp, runs>>
  BY DEF NothingToTake
<1>3. /\ at' \in [Queries -> {"none", "started", "take", "run", "retire", "free",
                              "check", "ended"}]
      /\ QueuesHold' /\ BatchesHold' /\ BatchesApart' /\ Busy' /\ ActiveIsHeld'
      /\ Names' /\ RunsFollow' /\ PendingIsActive' /\ TakenInOrder'
  BY <1>2, MoveKeeps
<1>4. TypeOK'
  BY <1>1, <1>2, <1>3 DEF TypeOK
<1>5. /\ conn'[w] = 0
      /\ \A v \in Queries \ {w} : conn'[v] = conn[v] /\ at'[v] = at[v]
  BY <1>1, <1>2 DEF TypeOK
<1>6. OneWorkerPerConnection' /\ Connected'
  BY <1>2, <1>5 DEF IInv, OneWorkerPerConnection, Connected
<1>7. ASSUME NEW q \in activeQuerySessions, SoleSubmitter(QueryID[q]),
             adding[Submitter[q]] # q
      PROVE  \E v \in Queries : WillTake(v, QueryID[q])'
  <2>0. q \in Queries
    BY <1>1 DEF TypeOK
  <2>1. PICK u \in Queries : WillTake(u, QueryID[q])
    BY <1>7 DEF IInv, SoleIsServed
  <2>2. CASE u # w
    BY <2>1, <2>2, <1>2, <1>5 DEF WillTake
  <2>3. CASE u = w
    <3>1. ~Queued(q)
      BY <2>1, <2>3, <1>2, RangeEmpty DEF WillTake, Queued
    <3>2. PICK v \in Queries : InBatch(q, v)
      BY <3>1 DEF IInv, ActiveIsHeld
    <3>3. forId[v] = QueryID[q]
      BY <3>2 DEF IInv, BatchesHold, InBatch
    <3>4. at[v] \in {"run", "retire"}
      BY <3>2, RangeEmpty DEF IInv, Busy, InBatch
    <3>. QED  BY <3>3, <3>4, <1>2, <1>5 DEF WillTake
  <2>. QED  BY <2>2, <2>3
<1>8. SoleIsServed'
  BY <1>7, <1>2 DEF SoleIsServed
<1>. QED  BY <1>3, <1>4, <1>6, <1>8 DEF IInv

LEMMA SuccessorStep ==
  ASSUME IInv, NEW w \in Queries, StartSuccessor(w) PROVE IInv'
<1>1. TypeOK
  BY DEF IInv
<1> DEFINE x == IF LocalIsActiveQuery(forId[w], NoQuery) THEN "started" ELSE "ended"
<1>2. /\ at[w] = "check"
      /\ at' = [at EXCEPT ![w] = x]
      /\ x \in {"started", "ended"}
      /\ UNCHANGED <<asyncQueries, activeQuerySessions, made, inUse, adding, forId,
                     conn, batch, submissions, stamp, runs>>
  BY DEF StartSuccessor
<1>3. /\ at' \in [Queries -> {"none", "started", "take", "run", "retire", "free",
                              "check", "ended"}]
      /\ QueuesHold' /\ BatchesHold' /\ BatchesApart' /\ Busy' /\ ActiveIsHeld'
      /\ Names' /\ RunsFollow' /\ PendingIsActive' /\ TakenInOrder'
      /\ x # "ended" => SoleIsServed'
  <2> HIDE DEF x
  <2>. QED  BY <1>2, MoveKeeps
<1>4. TypeOK'
  BY <1>1, <1>2, <1>3 DEF TypeOK
<1>5. OneWorkerPerConnection' /\ Connected'
  BY <1>2 DEF IInv, OneWorkerPerConnection, Connected
<1>6. CASE x = "ended"
  <2>1. \A v \in Queries \ {w} : at'[v] = at[v]
    BY <1>1, <1>2 DEF TypeOK
  <2>2. \A q \in activeQuerySessions : QueryID[q] # forId[w]
    BY <1>6, <1>1, AsyncAssumption DEF LocalIsActiveQuery, TypeOK
  <2>3. ASSUME NEW q \in activeQuerySessions, SoleSubmitter(QueryID[q]),
               adding[Submitter[q]] # q
        PROVE  \E v \in Queries : WillTake(v, QueryID[q])'
    <3>1. PICK v \in Queries : WillTake(v, QueryID[q])
      BY <2>3 DEF IInv, SoleIsServed
    <3>. QED  BY <3>1, <2>1, <2>2, <1>2 DEF WillTake
  <2>4. SoleIsServed'
    BY <2>3, <1>2 DEF SoleIsServed
  <2>. QED  BY <1>3, <1>4, <1>5, <2>4 DEF IInv
<1>7. CASE x # "ended"
  BY <1>3, <1>4, <1>5, <1>7 DEF IInv
<1>. QED  BY <1>6, <1>7

LEMMA TakeStep ==
  ASSUME IInv, NEW w \in Queries, TakeQueries(w) PROVE IInv'
<1> USE AsyncAssumption
<1> DEFINE id == forId[w]
           taken == asyncQueries[id]
<1>1. TypeOK
  BY DEF IInv
<1>2. /\ at[w] = "take"
      /\ batch' = [batch EXCEPT ![w] = taken]
      /\ asyncQueries' = [asyncQueries EXCEPT ![id] = <<>>]
      /\ at' = [at EXCEPT ![w] = "run"]
      /\ taken # <<>>
      /\ UNCHANGED <<activeQuerySessions, made, inUse, adding, forId, conn,
                     submissions, stamp, runs>>
  BY DEF TakeQueries
<1>3. id \in Ids /\ taken \in Seq(Queries)
  BY <1>1 DEF TypeOK
<1>4. /\ batch'[w] = taken /\ at'[w] = "run" /\ Range(asyncQueries'[id]) = {}
      /\ asyncQueries'[id] = <<>>
      /\ \A v \in Queries \ {w} : batch'[v] = batch[v] /\ at'[v] = at[v]
      /\ \A i \in Ids \ {id} : asyncQueries'[i] = asyncQueries[i]
  BY <1>1, <1>2, <1>3, RangeEmpty DEF TypeOK
<1>5. /\ Range(taken) \subseteq Queries
      /\ \A v \in Queries : Range(batch[v]) \subseteq Queries
      /\ \A i \in Ids : Range(asyncQueries[i]) \subseteq Queries
  BY <1>1, <1>3, RangeType DEF TypeOK
<1>6. \A r \in Range(taken) : QueryID[r] = id /\ r \in activeQuerySessions
                              /\ stamp[r] > 0 /\ runs[r] = 0 /\ Queued(r)
  BY <1>3 DEF IInv, QueuesHold, Submitted, Queued
<1>7. ASSUME NEW r \in Queries PROVE Queued(r)' <=> Queued(r) /\ QueryID[r] # id
  <2>1. CASE QueryID[r] = id
    BY <2>1, <1>4 DEF Queued
  <2>2. CASE QueryID[r] # id
    BY <2>2, <1>4 DEF Queued
  <2>. QED  BY <2>1, <2>2
<1>8. ASSUME NEW r \in Queries, NEW v \in Queries
      PROVE  /\ v # w => (InBatch(r, v)' <=> InBatch(r, v))
             /\ InBatch(r, w)' <=> r \in Range(taken)
             /\ InBatch(r, v) => v # w /\ r \notin Range(taken)
  <2>1. InBatch(r, w) => FALSE
    BY <1>2, RangeEmpty DEF IInv, Busy, InBatch
  <2>2. InBatch(r, v) => ~Queued(r)
    BY DEF IInv, BatchesHold, InBatch
  <2>. QED  BY <2>1, <2>2, <1>4, <1>6 DEF InBatch
<1>9. TypeOK'
  <2>1. batch' \in [Queries -> Seq(Queries)]
    BY <1>1, <1>2, <1>3 DEF TypeOK
  <2>2. asyncQueries' \in [Ids -> Seq(Queries)]
    <3>1. <<>> \in Seq(Queries)
      OBVIOUS
    <3>. QED  BY <3>1, <1>1, <1>2, <1>3 DEF TypeOK
  <2>3. at' \in [Queries -> {"none", "started", "take", "run", "retire", "free",
                             "check", "ended"}]
    BY <1>1, <1>2 DEF TypeOK
  <2>. QED  BY <1>1, <1>2, <2>1, <2>2, <2>3 DEF TypeOK
<1>10. OneWorkerPerConnection' /\ Connected'
  BY <1>2 DEF IInv, OneWorkerPerConnection, Connected
<1>11. QueuesHold'
  <2>1. ASSUME NEW i \in Ids, NEW r \in Range(asyncQueries'[i])
        PROVE  QueryID[r] = i /\ r \in activeQuerySessions /\ stamp[r] > 0 /\ runs[r] = 0
    <3>1. i # id /\ r \in Range(asyncQueries[i])
      BY <2>1, <1>4
    <3>. QED  BY <3>1 DEF IInv, QueuesHold, Submitted
  <2>. QED  BY <2>1, <1>2 DEF QueuesHold, Submitted
<1>12. BatchesHold'
  <2>1. ASSUME NEW v \in Queries, NEW r \in Range(batch'[v])
        PROVE  /\ QueryID[r] = forId'[v] /\ r \in activeQuerySessions' /\ stamp'[r] > 0
               /\ ~Queued(r)' /\ runs'[r] = IF at'[v] = "retire" /\ r = Head(batch'[v]) THEN 1 ELSE 0
    <3>1. CASE v = w
      <4>1. r \in Range(taken) /\ r \in Queries
        BY <3>1, <2>1, <1>4, <1>5
      <4>. QED  BY <4>1, <3>1, <1>2, <1>4, <1>6, <1>7
    <3>2. CASE v # w
      <4>1. r \in Range(batch[v]) /\ r \in Queries
        BY <3>2, <2>1, <1>4, <1>5
      <4>. QED  BY <4>1, <3>2, <1>2, <1>4, <1>7 DEF IInv, BatchesHold, Submitted
    <3>. QED  BY <3>1, <3>2
  <2>. QED  BY <2>1 DEF BatchesHold, Submitted
<1>13. BatchesApart'
  <2>1. ASSUME NEW u \in Queries, NEW v \in Queries, NEW r \in Queries,
               InBatch(r, u)', InBatch(r, v)'
        PROVE  u = v
    BY <2>1, <1>8 DEF IInv, BatchesApart
  <2>. QED  BY <2>1 DEF BatchesApart
<1>14. Busy'
  BY <1>2, <1>4 DEF IInv, Busy
<1>15. ActiveIsHeld'
  <2>1. ASSUME NEW r \in activeQuerySessions
        PROVE  Queued(r)' \/ \E v \in Queries : InBatch(r, v)'
    <3>1. r \in Queries
      BY <1>1 DEF TypeOK
    <3>2. CASE Queued(r)
      BY <3>1, <3>2, <1>7, <1>8 DEF Queued
    <3>3. CASE \E v \in Queries : InBatch(r, v)
      BY <3>1, <3>3, <1>8
    <3>. QED  BY <3>2, <3>3 DEF IInv, ActiveIsHeld
  <2>. QED  BY <2>1, <1>2 DEF ActiveIsHeld
<1>16. Names'
  <2>1. ASSUME NEW p \in Producers, adding[p] # NoQuery
        PROVE  Submitter[adding[p]] = p /\ at'[adding[p]] = "none" /\ stamp[adding[p]] > 0
    <3>1. adding[p] \in Queries /\ at[adding[p]] = "none"
      BY <1>1, <2>1 DEF TypeOK, IInv, Names
    <3>. QED  BY <2>1, <3>1, <1>2, <1>4 DEF IInv, Names, Submitted
  <2>2. \A v \in Queries : at'[v] # "none" => stamp[v] > 0
    BY <1>2, <1>4 DEF IInv, Names, Submitted
  <2>. QED  BY <2>1, <2>2, <1>2 DEF Names, Submitted
<1>17. RunsFollow' /\ PendingIsActive'
  BY <1>2 DEF IInv, RunsFollow, PendingIsActive, Submitted
<1>18. TakenInOrder'
  <2>1. OrderedBy(taken, stamp)
    BY <1>3 DEF IInv, TakenInOrder, Ordered, OrderedBy
  <2>2. \A v \in Queries : OrderedBy(batch'[v], stamp)
    BY <2>1, <1>4 DEF IInv, TakenInOrder, Ordered, OrderedBy
  <2>3. OrderedBy(<<>>, stamp)
    BY DEF OrderedBy
  <2>4. \A i \in Ids : OrderedBy(asyncQueries'[i], stamp)
    BY <2>3, <1>4 DEF IInv, TakenInOrder, Ordered, OrderedBy
  <2>5. ASSUME NEW i \in Ids, NEW r \in Range(asyncQueries'[i]), NEW v \in Queries,
               NEW b \in Range(batch'[v]), QueryID[b] = i
        PROVE  stamp[b] < stamp[r]
    <3>1. i # id /\ r \in Range(asyncQueries[i])
      BY <2>5, <1>4
    <3>2. v # w
      BY <3>1, <2>5, <1>4, <1>6
    <3>3. b \in Range(batch[v])
      BY <3>2, <2>5, <1>4
    <3>. QED  BY <3>1, <3>3, <2>5 DEF IInv, TakenInOrder
  <2>. QED  BY <2>2, <2>4, <2>5, <1>2 DEF TakenInOrder, Ordered, OrderedBy
<1>19. SoleIsServed'
  <2>1. ASSUME NEW v \in Queries, NEW i, WillTake(v, i) PROVE WillTake(v, i)'
    BY <2>1, <1>2, <1>4 DEF WillTake
  <2>2. ASSUME NEW q \in activeQuerySessions, SoleSubmitter(QueryID[q]),
               adding[Submitter[q]] # q
        PROVE  \E v \in Queries : WillTake(v, QueryID[q])'
    <3>1. PICK v \in Queries : WillTake(v, QueryID[q])
      BY <2>2 DEF IInv, SoleIsServed
    <3>. QED  BY <3>1, <2>1 DEF WillTake
  <2>. QED  BY <2>2, <1>2 DEF SoleIsServed
<1>. QED
  BY <1>9, <1>10, <1>11, <1>12, <1>13, <1>14, <1>15, <1>16, <1>17, <1>18, <1>19 DEF IInv

\* What the invariant says of the query a worker is about to run or retire.
LEMMA AtTheHead ==
  ASSUME IInv, NEW w \in Queries, at[w] \in {"run", "retire"}
  PROVE  LET h == Head(batch[w]) IN
         /\ batch[w] \in Seq(Queries) /\ batch[w] # <<>>
         /\ h \in Queries /\ h \in Range(batch[w]) /\ Submitted(h)
         /\ runs[h] = IF at[w] = "retire" THEN 1 ELSE 0
         /\ \A i \in Ids : h \notin Range(asyncQueries[i])
         /\ \A v \in Queries \ {w} : h \notin Range(batch[v])
         /\ Tail(batch[w]) \in Seq(Queries)
         /\ Range(batch[w]) = {h} \cup Range(Tail(batch[w]))
         /\ h \notin Range(Tail(batch[w]))
         /\ OrderedBy(Tail(batch[w]), stamp)
<1> DEFINE h == Head(batch[w])
<1>1. batch[w] \in Seq(Queries) /\ batch[w] # <<>>
  BY DEF IInv, TypeOK, Busy
<1>2. /\ h \in Queries /\ Tail(batch[w]) \in Seq(Queries)
      /\ Range(batch[w]) = {h} \cup Range(Tail(batch[w]))
  BY <1>1, RangeTail
<1>3. h \in Range(batch[w])
  BY <1>2
<1>4. Submitted(h) /\ ~Queued(h) /\ runs[h] = IF at[w] = "retire" THEN 1 ELSE 0
  BY <1>3 DEF IInv, BatchesHold
<1>5. \A i \in Ids : h \notin Range(asyncQueries[i])
  BY <1>4 DEF IInv, QueuesHold, Queued
<1>6. \A v \in Queries \ {w} : h \notin Range(batch[v])
  BY <1>2, <1>3 DEF IInv, BatchesApart, InBatch
<1>7. stamp \in [Queries -> Nat] /\ OrderedBy(batch[w], stamp)
  <2>1. submissions \in Nat /\ stamp \in [Queries -> 0..submissions]
    BY DEF IInv, TypeOK
  <2>2. OrderedBy(batch[w], stamp)
    BY DEF IInv, TakenInOrder, Ordered, OrderedBy
  <2>. QED  BY <2>1, <2>2
<1>8. OrderedBy(Tail(batch[w]), stamp) /\ h \notin Range(Tail(batch[w]))
  BY <1>1, <1>7, OrderedTail
<1>. QED  BY <1>1, <1>2, <1>3, <1>4, <1>5, <1>6, <1>8

LEMMA RunStep ==
  ASSUME IInv, NEW w \in Queries, RunQuery(w) PROVE IInv'
<1> DEFINE h == Head(batch[w])
<1>1. TypeOK
  BY DEF IInv
<1>2. /\ at[w] = "run"
      /\ runs' = [runs EXCEPT ![h] = runs[h] + 1]
      /\ at' = [at EXCEPT ![w] = "retire"]
      /\ UNCHANGED <<asyncQueries, activeQuerySessions, made, inUse, adding, forId,
                     conn, batch, submissions, stamp>>
  BY DEF RunQuery
<1>3. /\ h \in Queries /\ stamp[h] > 0 /\ runs[h] = 0
      /\ \A i \in Ids : h \notin Range(asyncQueries[i])
      /\ \A v \in Queries \ {w} : h \notin Range(batch[v])
  BY <1>2, AtTheHead DEF Submitted
<1>4. /\ runs'[h] = 1
      /\ \A r \in Queries \ {h} : runs'[r] = runs[r]
      /\ at'[w] = "retire"
      /\ \A v \in Queries \ {w} : at'[v] = at[v]
  BY <1>1, <1>2, <1>3 DEF TypeOK
<1>5. /\ \A v \in Queries : Range(batch[v]) \subseteq Queries
      /\ \A i \in Ids : Range(asyncQueries[i]) \subseteq Queries
  BY <1>1, RangeType DEF TypeOK
<1>6. TypeOK'
  <2>1. runs' \in [Queries -> Nat]
    BY <1>1, <1>2, <1>3 DEF TypeOK
  <2>2. at' \in [Queries -> {"none", "started", "take", "run", "retire", "free",
                             "check", "ended"}]
    BY <1>1, <1>2 DEF TypeOK
  <2>. QED  BY <1>1, <1>2, <2>1, <2>2 DEF TypeOK
<1>7. OneWorkerPerConnection' /\ Connected'
  BY <1>2 DEF IInv, OneWorkerPerConnection, Connected
<1>8. QueuesHold'
  BY <1>2, <1>3, <1>4, <1>5 DEF IInv, QueuesHold, Submitted
<1>9. BatchesHold'
  <2>1. ASSUME NEW v \in Queries, NEW r \in Range(batch[v])
        PROVE  /\ QueryID[r] = forId[v] /\ r \in activeQuerySessions /\ stamp[r] > 0
               /\ ~Queued(r)
               /\ runs'[r] = IF at'[v] = "retire" /\ r = Head(batch[v]) THEN 1 ELSE 0
    <3>1. /\ r \in Queries /\ QueryID[r] = forId[v] /\ r \in activeQuerySessions
          /\ stamp[r] > 0 /\ ~Queued(r)
          /\ runs[r] = IF at[v] = "retire" /\ r = Head(batch[v]) THEN 1 ELSE 0
      BY <1>5 DEF IInv, BatchesHold, Submitted
    <3>2. CASE v = w
      <4>1. runs'[r] = IF r = h THEN 1 ELSE 0
        BY <3>1, <3>2, <1>2, <1>4
      <4>. QED  BY <4>1, <3>1, <3>2, <1>4
    <3>3. CASE v # w
      BY <3>1, <3>3, <1>3, <1>4
    <3>. QED  BY <3>2, <3>3
  <2>. QED  BY <2>1, <1>2 DEF BatchesHold, Submitted, Queued
<1>10. BatchesApart' /\ ActiveIsHeld'
  BY <1>2 DEF IInv, BatchesApart, ActiveIsHeld, InBatch, Queued
<1>11. Busy'
  BY <1>2, <1>4 DEF IInv, Busy
<1>12. Names'
  <2>1. ASSUME NEW p \in Producers, adding[p] # NoQuery
        PROVE  Submitter[adding[p]] = p /\ at'[adding[p]] = "none" /\ stamp[adding[p]] > 0
    <3>1. adding[p] \in Queries /\ at[adding[p]] = "none"
      BY <1>1, <2>1 DEF TypeOK, IInv, Names
    <3>. QED  BY <2>1, <3>1, <1>2, <1>4 DEF IInv, Names, Submitted
  <2>2. \A v \in Queries : at'[v] # "none" => stamp[v] > 0
    BY <1>2, <1>4 DEF IInv, Names, Submitted
  <2>. QED  BY <2>1, <2>2, <1>2 DEF Names, Submitted
<1>13. RunsFollow' /\ PendingIsActive'
  BY <1>2, <1>3, <1>4 DEF IInv, RunsFollow, PendingIsActive, Submitted
<1>14. TakenInOrder'
  BY <1>2 DEF IInv, TakenInOrder, Ordered
<1>15. SoleIsServed'
  <2>1. ASSUME NEW v \in Queries, NEW i, WillTake(v, i) PROVE WillTake(v, i)'
    BY <2>1, <1>2, <1>4 DEF WillTake
  <2>2. ASSUME NEW q \in activeQuerySessions, SoleSubmitter(QueryID[q]),
               adding[Submitter[q]] # q
        PROVE  \E v \in Queries : WillTake(v, QueryID[q])'
    <3>1. PICK v \in Queries : WillTake(v, QueryID[q])
      BY <2>2 DEF IInv, SoleIsServed
    <3>. QED  BY <3>1, <2>1 DEF WillTake
  <2>. QED  BY <2>2, <1>2 DEF SoleIsServed
<1>. QED
  BY <1>6, <1>7, <1>8, <1>9, <1>10, <1>11, <1>12, <1>13, <1>14, <1>15 DEF IInv

LEMMA RetireStep ==
  ASSUME IInv, NEW w \in Queries, RemoveActiveQuery(w) PROVE IInv'
<1> DEFINE h == Head(batch[w])
           left == Tail(batch[w])
           x == IF left = <<>> THEN "free" ELSE "run"
<1>1. TypeOK
  BY DEF IInv
<1>2. /\ at[w] = "retire"
      /\ activeQuerySessions' = activeQuerySessions \ {h}
      /\ batch' = [batch EXCEPT ![w] = left]
      /\ at' = [at EXCEPT ![w] = x]
      /\ UNCHANGED <<asyncQueries, made, inUse, adding, forId, conn, submissions,
                     stamp, runs>>
  BY DEF RemoveActiveQuery
<1>3. /\ h \in Queries /\ h \in Range(batch[w]) /\ runs[h] = 1
      /\ \A i \in Ids : h \notin Range(asyncQueries[i])
      /\ \A v \in Queries \ {w} : h \notin Range(batch[v])
      /\ left \in Seq(Queries)
      /\ Range(batch[w]) = {h} \cup Range(left)
      /\ h \notin Range(left)
      /\ OrderedBy(left, stamp)
  BY <1>2, AtTheHead
<1>4. /\ batch'[w] = left /\ at'[w] = x
      /\ \A v \in Queries \ {w} : batch'[v] = batch[v] /\ at'[v] = at[v]
  BY <1>1, <1>2 DEF TypeOK
<1>5. x \in {"free", "run"} /\ (left # <<>> <=> x = "run")
  OBVIOUS
<1> HIDE DEF x
<1>6. /\ \A v \in Queries : Range(batch[v]) \subseteq Queries
      /\ \A i \in Ids : Range(asyncQueries[i]) \subseteq Queries
  BY <1>1, RangeType DEF TypeOK
<1>7. \A v \in Queries : Range(batch'[v]) = Range(batch[v]) \ {h}
  BY <1>3, <1>4
<1>8. TypeOK'
  <2>1. batch' \in [Queries -> Seq(Queries)]
    BY <1>1, <1>2, <1>3 DEF TypeOK
  <2>2. at' \in [Queries -> {"none", "started", "take", "run", "retire", "free",
                             "check", "ended"}]
    BY <1>1, <1>2, <1>5 DEF TypeOK
  <2>. QED  BY <1>1, <1>2, <2>1, <2>2 DEF TypeOK
<1>9. OneWorkerPerConnection' /\ Connected'
  BY <1>2 DEF IInv, OneWorkerPerConnection, Connected
<1>10. QueuesHold'
  BY <1>2, <1>3 DEF IInv, QueuesHold, Submitted
<1>11. BatchesHold'
  <2>1. ASSUME NEW v \in Queries, NEW r \in Range(batch'[v])
        PROVE  /\ QueryID[r] = forId[v] /\ r \in activeQuerySessions' /\ stamp[r] > 0
               /\ ~Queued(r)
               /\ runs[r] = IF at'[v] = "retire" /\ r = Head(batch'[v]) THEN 1 ELSE 0
    <3>1. r \in Range(batch[v]) /\ r # h
      BY <1>7
    <3>2. /\ QueryID[r] = forId[v] /\ r \in activeQuerySessions /\ stamp[r] > 0
          /\ ~Queued(r)
          /\ runs[r] = IF at[v] = "retire" /\ r = Head(batch[v]) THEN 1 ELSE 0
      BY <3>1 DEF IInv, BatchesHold, Submitted
    <3>3. CASE v = w
      BY <3>1, <3>2, <3>3, <1>2, <1>4, <1>5
    <3>4. CASE v # w
      BY <3>1, <3>2, <3>4, <1>2, <1>4
    <3>. QED  BY <3>3, <3>4
  <2>. QED  BY <2>1, <1>2 DEF BatchesHold, Submitted, Queued
<1>12. BatchesApart'
  BY <1>7 DEF IInv, BatchesApart, InBatch
<1>13. Busy'
  BY <1>2, <1>4, <1>5 DEF IInv, Busy
<1>14. ActiveIsHeld'
  BY <1>2, <1>7 DEF IInv, ActiveIsHeld, InBatch, Queued
<1>15. Names'
  <2>1. ASSUME NEW p \in Producers, adding[p] # NoQuery
        PROVE  Submitter[adding[p]] = p /\ at'[adding[p]] = "none" /\ stamp[adding[p]] > 0
    <3>1. adding[p] \in Queries /\ at[adding[p]] = "none"
      BY <1>1, <2>1 DEF TypeOK, IInv, Names
    <3>. QED  BY <2>1, <3>1, <1>2, <1>4 DEF IInv, Names, Submitted
  <2>2. \A v \in Queries : at'[v] # "none" => stamp[v] > 0
    BY <1>2, <1>4 DEF IInv, Names, Submitted
  <2>. QED  BY <2>1, <2>2, <1>2 DEF Names, Submitted
<1>16. RunsFollow' /\ PendingIsActive'
  BY <1>2, <1>3 DEF IInv, RunsFollow, PendingIsActive, Submitted
<1>17. TakenInOrder'
  <2>1. \A v \in Queries : OrderedBy(batch'[v], stamp)
    BY <1>3, <1>4 DEF IInv, TakenInOrder, Ordered, OrderedBy
  <2>2. \A v \in Queries : \A b \in Range(batch'[v]) : b \in Range(batch[v])
    BY <1>7
  <2>. QED  BY <2>1, <2>2, <1>2 DEF IInv, TakenInOrder, Ordered, OrderedBy
<1>18. SoleIsServed'
  <2>1. ASSUME NEW v \in Queries, NEW i, WillTake(v, i) PROVE WillTake(v, i)'
    BY <2>1, <1>2, <1>4, <1>5 DEF WillTake
  <2>2. ASSUME NEW q \in activeQuerySessions, SoleSubmitter(QueryID[q]),
               adding[Submitter[q]] # q
        PROVE  \E v \in Queries : WillTake(v, QueryID[q])'
    <3>1. PICK v \in Queries : WillTake(v, QueryID[q])
      BY <2>2 DEF IInv, SoleIsServed
    <3>. QED  BY <3>1, <2>1 DEF WillTake
  <2>. QED  BY <2>2, <1>2 DEF SoleIsServed
<1>. QED
  BY <1>8, <1>9, <1>10, <1>11, <1>12, <1>13, <1>14, <1>15, <1>16, <1>17, <1>18 DEF IInv

LEMMA NextIInv == IInv /\ [Next]_vars => IInv'
<1> SUFFICES ASSUME IInv, [Next]_vars PROVE IInv'
  OBVIOUS
<1>1. CASE \E q \in Queries : AddAsyncQuery(q)
  BY <1>1, AddStep
<1>2. CASE \E p \in Producers : Submit(p)
  BY <1>2, SubmitStep
<1>3. CASE \E w \in Queries : Work(w)
  BY <1>3, FindStep, TakeStep, NothingStep, RunStep, RetireStep, FreeStep,
     SuccessorStep DEF Work
<1>4. CASE UNCHANGED vars
  BY <1>4 DEF vars, IInv, TypeOK, OneWorkerPerConnection, Connected, QueuesHold,
     BatchesHold, BatchesApart, Busy, ActiveIsHeld, Names, RunsFollow,
     PendingIsActive, TakenInOrder, SoleIsServed, Submitted, Queued, InBatch,
     Ordered, WillTake
<1>. QED  BY <1>1, <1>2, <1>3, <1>4 DEF Next

THEOREM InvariantHolds == Spec => []IInv
BY InitIInv, NextIInv, PTL DEF Spec

-----------------------------------------------------------------------------
(* What the runs check, for every value of the constants *)

\* The fields of Database and of its worker threads keep their types.
THEOREM TypeCorrect == Spec => []TypeOK
BY InvariantHolds, PTL DEF IInv

\* IsActiveQuery reports a submitted query until it has been run: a login that
\* waits for it reads what was written.
THEOREM PendingReported == Spec => []PendingIsActive
BY InvariantHolds, PTL DEF IInv

\* An active query is in the queue of its id or in one batch, whatever workers
\* AddAsyncQuery started for freed queries.
THEOREM HeldOnce == Spec => []ActiveIsHeldOnce
<1>1. IInv => ActiveIsHeldOnce
  <2> SUFFICES ASSUME IInv, NEW q \in activeQuerySessions
               PROVE  \/ Queued(q) /\ \A w \in Queries : ~InBatch(q, w)
                      \/ ~Queued(q) /\ \E w \in Queries : {v \in Queries : InBatch(q, v)} = {w}
    BY DEF ActiveIsHeldOnce
  <2>1. q \in Queries
    BY DEF IInv, TypeOK
  <2>2. \A w \in Queries : InBatch(q, w) => ~Queued(q)
    BY DEF IInv, BatchesHold, InBatch
  <2>3. CASE Queued(q)
    BY <2>2, <2>3
  <2>4. CASE ~Queued(q)
    <3>1. PICK w \in Queries : InBatch(q, w)
      BY <2>4 DEF IInv, ActiveIsHeld
    <3>2. \A v \in Queries : InBatch(q, v) => v = w
      BY <3>1, <2>1 DEF IInv, BatchesApart
    <3>3. {v \in Queries : InBatch(q, v)} = {w}
      BY <3>1, <3>2
    <3>. QED  BY <2>4, <3>3
  <2>. QED  BY <2>3, <2>4
<1>. QED  BY <1>1, InvariantHolds, PTL

\* FindFreeInstance gives no two workers the same connection.
THEOREM ConnectionsApart == Spec => []OneWorkerPerConnection
BY InvariantHolds, PTL DEF IInv

\* The workers of an id take its queries in the order of AddAsyncQuery.
THEOREM OrderKept == Spec => []TakenInOrder
BY InvariantHolds, PTL DEF IInv

\* Where one thread submits all queries of an id, the tests by which workers
\* are started and end never leave one of them without a worker.
THEOREM SoleServed == Spec => []SoleIsServed
BY InvariantHolds, PTL DEF IInv

\* The asynchronous queries implement WriteBehind: each is run once at most,
\* and not before it was submitted.
THEOREM ImplementsWriteBehind == Spec => RunOnce
<1> DEFINE done == {q \in Queries : Submitted(q)}
<1>1. Init => Store!Init
  BY DEF Init, Store!Init, Submitted
<1>2. IInv /\ [Next]_vars => [Store!Next]_<<done, runs>>
  <2> SUFFICES ASSUME IInv, [Next]_vars
               PROVE  Store!Next \/ UNCHANGED <<done, runs>>
    OBVIOUS
  <2>1. ASSUME NEW q \in Queries, AddAsyncQuery(q) PROVE Store!Next
    <3>1. /\ stamp[q] = 0 /\ submissions \in Nat
          /\ stamp' = [stamp EXCEPT ![q] = submissions + 1]
          /\ stamp \in [Queries -> 0..submissions]
          /\ UNCHANGED runs
      BY <2>1 DEF AddAsyncQuery, IInv, TypeOK
    <3>2. q \notin done
      BY <3>1 DEF Submitted
    <3>3. done' = done \cup {q}
      BY <3>1 DEF Submitted
    <3>. QED  BY <3>1, <3>2, <3>3 DEF Store!Next, Store!Submit
  <2>2. ASSUME NEW w \in Queries, RunQuery(w) PROVE Store!Next
    <3> DEFINE h == Head(batch[w])
    <3>1. /\ h \in Queries /\ Submitted(h) /\ runs[h] = 0
      BY <2>2, AtTheHead DEF RunQuery
    <3>2. /\ runs' = [runs EXCEPT ![h] = runs[h] + 1]
          /\ stamp' = stamp
      BY <2>2 DEF RunQuery
    <3>3. runs' = [runs EXCEPT ![h] = 1] /\ done' = done /\ h \in done
      BY <3>1, <3>2 DEF Submitted
    <3>. QED  BY <3>1, <3>3 DEF Store!Next, Store!Apply
  <2>3. ASSUME UNCHANGED <<stamp, runs>> PROVE UNCHANGED <<done, runs>>
    BY <2>3 DEF Submitted
  <2>4. ASSUME NEW p \in Producers, Submit(p) PROVE UNCHANGED <<stamp, runs>>
    BY <2>4 DEF Submit, StartIfIdle, StartAfterFree
  <2>5. ASSUME NEW w \in Queries, Work(w), ~RunQuery(w) PROVE UNCHANGED <<stamp, runs>>
    BY <2>5 DEF Work, FindFreeInstance, TakeQueries, NothingToTake,
       RemoveActiveQuery, FreeDBInstance, StartSuccessor
  <2>6. ASSUME UNCHANGED vars PROVE UNCHANGED <<stamp, runs>>
    BY <2>6 DEF vars
  <2>. QED  BY <2>1, <2>2, <2>3, <2>4, <2>5, <2>6 DEF Next
<1>. QED  BY <1>1, <1>2, InvariantHolds, PTL DEF Spec, RunOnce, Store!Spec
=============================================================================
