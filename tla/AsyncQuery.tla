----------------------------- MODULE AsyncQuery -----------------------------
(***************************************************************************)
(* The asynchronous queries of class Database.  A thread of the world      *)
(* server that calls Query::AddQueryAsync puts a query on the queue of the *)
(* character it belongs to and goes on; worker threads, started when they  *)
(* are needed and gone when the queue is empty, take the whole queue and   *)
(* run it over a connection of their own.  IsActiveQuery tells the rest of *)
(* the server whether a character's writes are still under way: a login    *)
(* waits for it before it reads the character back.                        *)
(*                                                                         *)
(* A section under DBAsyncMutex is one step, and so is each call that      *)
(* takes DBQueryMutex or DBInstanceMutex.  A worker has the name of the    *)
(* query whose submission started it; the thread it starts as the last     *)
(* thing it does goes on under that name.  What a query says, and whether  *)
(* the database accepts it, is left out: a query that fails is not run     *)
(* again.                                                                  *)
(***************************************************************************)
EXTENDS Naturals, Sequences, Functions

CONSTANTS
  Ids,        \* the ids queries are submitted under: characters, and 0
  Producers,  \* threads of the server that submit queries
  Queries,    \* the queries they submit, one after the other
  QueryID,    \* the id of each query
  Submitter,  \* the thread that submits it
  NoQuery

ASSUME AsyncAssumption ==
  /\ QueryID \in [Queries -> Ids]
  /\ Submitter \in [Queries -> Producers]
  /\ NoQuery \notin Queries

VARIABLES
  asyncQueries,         \* the queues; an id without an entry has an empty one
  activeQuerySessions,  \* queries submitted and not yet retired
  made, inUse,          \* dbInstances: connections 1..made, and those in use
  adding,               \* the query whose AddAsyncQuery has left the lock
  at, forId,            \* where each worker is, and the id it serves
  conn, batch,          \* its connection (0: none), and the queries it has left to run
  submissions, stamp,   \* history: how many were submitted, and which one it was
  runs                  \* history: how often a query was run

vars == <<asyncQueries, activeQuerySessions, made, inUse, adding, at, forId,
          conn, batch, submissions, stamp, runs>>

TypeOK ==
  /\ asyncQueries \in [Ids -> Seq(Queries)]
  /\ activeQuerySessions \subseteq Queries
  /\ made \in Nat
  /\ inUse \subseteq 1..made
  /\ adding \in [Producers -> Queries \cup {NoQuery}]
  /\ at \in [Queries -> {"none", "started", "take", "run", "retire", "free",
                         "check", "ended"}]
  /\ forId \in [Queries -> Ids]
  /\ conn \in [Queries -> 0..made]
  /\ batch \in [Queries -> Seq(Queries)]
  /\ submissions \in Nat
  /\ stamp \in [Queries -> 0..submissions]
  /\ runs \in [Queries -> Nat]

Init ==
  /\ asyncQueries = [i \in Ids |-> <<>>]
  /\ activeQuerySessions = {}
  /\ made = 0
  /\ inUse = {}
  /\ adding = [p \in Producers |-> NoQuery]
  /\ at = [w \in Queries |-> "none"]
  /\ forId = QueryID
  /\ conn = [w \in Queries |-> 0]
  /\ batch = [w \in Queries |-> <<>>]
  /\ submissions = 0
  /\ stamp = [q \in Queries |-> 0]
  /\ runs = [q \in Queries |-> 0]

-----------------------------------------------------------------------------
(* AddAsyncQuery *)

\* LocalIsActiveQuery(id, skip); IsActiveQuery(id) when skip is NoQuery.
LocalIsActiveQuery(id, skip) ==
  \E q \in activeQuerySessions : q # skip /\ QueryID[q] = id

\* A started thread sleeps ten milliseconds, or longer, before it does
\* anything.
StartWorker(w, id) ==
  /\ at' = [at EXCEPT ![w] = "started"]
  /\ forId' = [forId EXCEPT ![w] = id]

\* Variant: the query goes to the front of its queue.
AddInFront(q) ==
  LET p == Submitter[q] IN
  /\ adding[p] = NoQuery
  /\ stamp[q] = 0
  /\ submissions' = submissions + 1
  /\ stamp' = [stamp EXCEPT ![q] = submissions + 1]
  /\ asyncQueries' = [asyncQueries EXCEPT ![QueryID[q]] = <<q>> \o @]
  /\ activeQuerySessions' = activeQuerySessions \cup {q}
  /\ adding' = [adding EXCEPT ![p] = q]
  /\ UNCHANGED <<made, inUse, at, forId, conn, batch, runs>>

\* Under DBAsyncMutex the query enters the queue of its id and the list of
\* active queries.
AddAsyncQuery(q) ==
  LET p == Submitter[q] IN
  /\ adding[p] = NoQuery
  /\ stamp[q] = 0
  /\ submissions' = submissions + 1
  /\ stamp' = [stamp EXCEPT ![q] = submissions + 1]
  /\ asyncQueries' = [asyncQueries EXCEPT ![QueryID[q]] = Append(@, q)]
  /\ activeQuerySessions' = activeQuerySessions \cup {q}
  /\ adding' = [adding EXCEPT ![p] = q]
  /\ UNCHANGED <<made, inUse, at, forId, conn, batch, runs>>

\* Variant: the query itself is not skipped when others are looked for.
StartUnlessActive(p) ==
  LET q == adding[p] IN
  /\ q \in activeQuerySessions
  /\ IF LocalIsActiveQuery(QueryID[q], NoQuery)
     THEN UNCHANGED <<at, forId>>
     ELSE StartWorker(q, QueryID[q])
  /\ adding' = [adding EXCEPT ![p] = NoQuery]
  /\ UNCHANGED <<asyncQueries, activeQuerySessions, made, inUse, conn, batch,
                 submissions, stamp, runs>>

\* Out of the lock, the thread starts a worker if no other query of the id is
\* active.
StartIfIdle(p) ==
  LET q == adding[p] IN
  /\ q \in activeQuerySessions
  /\ IF LocalIsActiveQuery(QueryID[q], q)
     THEN UNCHANGED <<at, forId>>
     ELSE StartWorker(q, QueryID[q])
  /\ adding' = [adding EXCEPT ![p] = NoQuery]
  /\ UNCHANGED <<asyncQueries, activeQuerySessions, made, inUse, conn, batch,
                 submissions, stamp, runs>>

\* A worker that was still alive may by then have run and deleted the query,
\* whose id is read twice more: a read of freed memory, with any outcome.
StartAfterFree(p) ==
  LET q == adding[p] IN
  /\ q \in Queries \ activeQuerySessions
  /\ \/ UNCHANGED <<at, forId>>
     \/ \E id \in Ids : StartWorker(q, id)
  /\ adding' = [adding EXCEPT ![p] = NoQuery]
  /\ UNCHANGED <<asyncQueries, activeQuerySessions, made, inUse, conn, batch,
                 submissions, stamp, runs>>

-----------------------------------------------------------------------------
(* RunAsyncQueries *)

\* Variant: the connection found is not marked as in use.
FindAnyInstance(w) ==
  /\ at[w] = "started"
  /\ \/ \E c \in (1..made) \ inUse :
          /\ conn' = [conn EXCEPT ![w] = c]
          /\ UNCHANGED <<made, inUse>>
     \/ /\ inUse = 1..made
        /\ made' = made + 1
        /\ conn' = [conn EXCEPT ![w] = made + 1]
        /\ UNCHANGED inUse
  /\ at' = [at EXCEPT ![w] = "take"]
  /\ UNCHANGED <<asyncQueries, activeQuerySessions, adding, forId, batch,
                 submissions, stamp, runs>>

\* Variant: a new connection is not entered in dbInstances.
FindUnlistedInstance(w) ==
  /\ at[w] = "started"
  /\ \/ \E c \in (1..made) \ inUse :
          /\ conn' = [conn EXCEPT ![w] = c]
          /\ inUse' = inUse \cup {c}
     \/ /\ inUse = 1..made
        /\ conn' = [conn EXCEPT ![w] = made + 1]
        /\ inUse' = inUse \cup {made + 1}
  /\ at' = [at EXCEPT ![w] = "take"]
  /\ UNCHANGED <<asyncQueries, activeQuerySessions, made, adding, forId, batch,
                 submissions, stamp, runs>>

\* A connection nobody uses, or a new one when all are in use.
FindFreeInstance(w) ==
  /\ at[w] = "started"
  /\ \/ \E c \in (1..made) \ inUse :
          /\ conn' = [conn EXCEPT ![w] = c]
          /\ inUse' = inUse \cup {c}
          /\ UNCHANGED made
     \/ /\ inUse = 1..made
        /\ made' = made + 1
        /\ conn' = [conn EXCEPT ![w] = made + 1]
        /\ inUse' = inUse \cup {made + 1}
  /\ at' = [at EXCEPT ![w] = "take"]
  /\ UNCHANGED <<asyncQueries, activeQuerySessions, adding, forId, batch,
                 submissions, stamp, runs>>

\* Variant: the queries leave the list of active ones when they are taken.
TakeAndRetire(w) ==
  /\ at[w] = "take"
  /\ asyncQueries[forId[w]] # <<>>
  /\ batch' = [batch EXCEPT ![w] = asyncQueries[forId[w]]]
  /\ asyncQueries' = [asyncQueries EXCEPT ![forId[w]] = <<>>]
  /\ activeQuerySessions' = activeQuerySessions \ Range(asyncQueries[forId[w]])
  /\ at' = [at EXCEPT ![w] = "run"]
  /\ UNCHANGED <<made, inUse, adding, forId, conn, submissions, stamp, runs>>

\* Variant: the queue is copied and not emptied.
TakeCopy(w) ==
  /\ at[w] = "take"
  /\ asyncQueries[forId[w]] # <<>>
  /\ batch' = [batch EXCEPT ![w] = asyncQueries[forId[w]]]
  /\ at' = [at EXCEPT ![w] = "run"]
  /\ UNCHANGED <<asyncQueries, activeQuerySessions, made, inUse, adding, forId,
                 conn, submissions, stamp, runs>>

\* Under DBAsyncMutex the worker takes all that is queued for its id.
TakeQueries(w) ==
  /\ at[w] = "take"
  /\ asyncQueries[forId[w]] # <<>>
  /\ batch' = [batch EXCEPT ![w] = asyncQueries[forId[w]]]
  /\ asyncQueries' = [asyncQueries EXCEPT ![forId[w]] = <<>>]
  /\ at' = [at EXCEPT ![w] = "run"]
  /\ UNCHANGED <<activeQuerySessions, made, inUse, adding, forId, conn,
                 submissions, stamp, runs>>

\* Another worker was faster: the thread returns and leaves the connection
\* marked as in use.
NothingToTake(w) ==
  /\ at[w] = "take"
  /\ asyncQueries[forId[w]] = <<>>
  /\ conn' = [conn EXCEPT ![w] = 0]
  /\ at' = [at EXCEPT ![w] = "ended"]
  /\ UNCHANGED <<asyncQueries, activeQuerySessions, made, inUse, adding, forId,
                 batch, submissions, stamp, runs>>

\* RunQueryAsync: the database executes the query.
RunQuery(w) ==
  /\ at[w] = "run"
  /\ runs' = [runs EXCEPT ![Head(batch[w])] = @ + 1]
  /\ at' = [at EXCEPT ![w] = "retire"]
  /\ UNCHANGED <<asyncQueries, activeQuerySessions, made, inUse, adding, forId,
                 conn, batch, submissions, stamp>>

\* RemoveActiveQuery; the query leaves the batch and is deleted.
RemoveActiveQuery(w) ==
  /\ at[w] = "retire"
  /\ activeQuerySessions' = activeQuerySessions \ {Head(batch[w])}
  /\ batch' = [batch EXCEPT ![w] = Tail(@)]
  /\ at' = [at EXCEPT ![w] = IF Tail(batch[w]) = <<>> THEN "free" ELSE "run"]
  /\ UNCHANGED <<asyncQueries, made, inUse, adding, forId, conn, submissions,
                 stamp, runs>>

FreeDBInstance(w) ==
  /\ at[w] = "free"
  /\ inUse' = inUse \ {conn[w]}
  /\ conn' = [conn EXCEPT ![w] = 0]
  /\ at' = [at EXCEPT ![w] = "check"]
  /\ UNCHANGED <<asyncQueries, activeQuerySessions, made, adding, forId, batch,
                 submissions, stamp, runs>>

\* Variant: a worker does not look at what has come in meanwhile.
EndWorker(w) ==
  /\ at[w] = "check"
  /\ at' = [at EXCEPT ![w] = "ended"]
  /\ UNCHANGED <<asyncQueries, activeQuerySessions, made, inUse, adding, forId,
                 conn, batch, submissions, stamp, runs>>

\* The last thing a worker does is to start another if queries of the id have
\* come in meanwhile.
StartSuccessor(w) ==
  /\ at[w] = "check"
  /\ at' = [at EXCEPT ![w] =
              IF LocalIsActiveQuery(forId[w], NoQuery) THEN "started" ELSE "ended"]
  /\ UNCHANGED <<asyncQueries, activeQuerySessions, made, inUse, adding, forId,
                 conn, batch, submissions, stamp, runs>>

-----------------------------------------------------------------------------
Submit(p) == StartIfIdle(p) \/ StartAfterFree(p)

Work(w) ==
  \/ FindFreeInstance(w)
  \/ TakeQueries(w)
  \/ NothingToTake(w)
  \/ RunQuery(w)
  \/ RemoveActiveQuery(w)
  \/ FreeDBInstance(w)
  \/ StartSuccessor(w)

Next ==
  \/ \E q \in Queries : AddAsyncQuery(q)
  \/ \E p \in Producers : Submit(p)
  \/ \E w \in Queries : Work(w)

Spec == Init /\ [][Next]_vars

\* Threads are scheduled, connections answer; nobody has to submit anything.
FairSpec ==
  /\ Spec
  /\ \A p \in Producers : WF_vars(Submit(p))
  /\ \A w \in Queries : WF_vars(Work(w))

-----------------------------------------------------------------------------
(* Properties *)

Submitted(q) == stamp[q] > 0
Queued(q) == q \in Range(asyncQueries[QueryID[q]])
InBatch(q, w) == q \in Range(batch[w])

\* What a login relies on: as long as a submitted query has not been run,
\* IsActiveQuery says so.
PendingIsActive ==
  \A q \in Queries : Submitted(q) /\ runs[q] = 0 => q \in activeQuerySessions

\* An active query is still on its way: it waits in the queue of its id or in
\* the batch of exactly one worker, so no login waits for a query that is gone.
ActiveIsHeldOnce ==
  \A q \in activeQuerySessions :
    \/ Queued(q) /\ \A w \in Queries : ~InBatch(q, w)
    \/ ~Queued(q) /\ \E w \in Queries : {v \in Queries : InBatch(q, v)} = {w}

\* Seen from the threads that submit, a query is run once, after it was
\* submitted, whatever workers are started for it: AsyncQuery implements
\* WriteBehind.
Store == INSTANCE WriteBehind
           WITH submitted <- {q \in Queries : Submitted(q)}, applied <- runs
RunOnce == Store!Spec

\* Two workers never share a connection to the database.
OneWorkerPerConnection ==
  \A v, w \in Queries : conn[v] = conn[w] /\ conn[v] # 0 => v = w

\* The queries of an id are taken in the order they were submitted: a batch
\* and a queue are in order, and what is queued came after what was taken.
Ordered(s) == \A i, j \in DOMAIN s : i < j => stamp[s[i]] < stamp[s[j]]
TakenInOrder ==
  /\ \A w \in Queries : Ordered(batch[w])
  /\ \A id \in Ids :
       /\ Ordered(asyncQueries[id])
       /\ \A q \in Range(asyncQueries[id]), w \in Queries :
            \A r \in Range(batch[w]) : QueryID[r] = id => stamp[r] < stamp[q]

\* Where one thread submits all queries of an id, none of them is left without
\* a worker that has yet to take it or has it in its batch.
SoleSubmitter(id) ==
  \A q, r \in Queries : QueryID[q] = id /\ QueryID[r] = id
                          => Submitter[q] = Submitter[r]
WillTake(w, id) ==
  forId[w] = id /\ at[w] \notin {"none", "ended"}
SoleIsServed ==
  \A q \in activeQuerySessions :
    SoleSubmitter(QueryID[q]) /\ adding[Submitter[q]] # q
      => \E w \in Queries : WillTake(w, QueryID[q])

\* ... and every one of them is run in the end.
SoleIsRun ==
  \A q \in Queries :
    SoleSubmitter(QueryID[q]) => (Submitted(q) ~> runs[q] > 0)

\* The comment that a new client waits for its writes (client.cpp:3802) takes
\* for granted that an id's queries come to an end.
WaitEnds ==
  \A id \in Ids :
    LocalIsActiveQuery(id, NoQuery) ~> ~LocalIsActiveQuery(id, NoQuery)
=============================================================================
