-------------------------- MODULE EQStreamFactory --------------------------
(***************************************************************************)
(* The life of the EQStreams of a world server: the reader and the writer  *)
(* thread of EQStreamFactory, the main loop that turns new streams into    *)
(* Clients and calls CheckTimeout, and the clients, which zone threads run *)
(* too.  What passes through a stream is left out (EQTransport has it): of *)
(* its queues only "is there outgoing data" remains, of a datagram only    *)
(* whether it asks for a session, ends one or is neither.                  *)
(*                                                                         *)
(* A section under MStreams is one step, except CheckTimeout's, which goes *)
(* through the streams one by one (mainAt = "timeout") while the others    *)
(* wait for the lock or, in one place, do not ask for it.                  *)
(*                                                                         *)
(* CheckTimeout leaves a closed stream alone for two passes, to give       *)
(* everybody time to finish with it.  The passes are five seconds apart,   *)
(* and they are the clock of the model: what a thread does with a stream,  *)
(* and a new stream's time in NewStreams, end before Grace + 1 passes have *)
(* begun, the ten seconds of the waiting list before Patience + 1.         *)
(***************************************************************************)
EXTENDS Naturals, Sequences

CONSTANTS
  Addr,        \* peers, by IP address and port: the keys of Streams
  None,        \* no stream
  MaxStreams,  \* bound: session requests, each of which makes a stream
  Grace,       \* passes of CheckTimeout that may begin during one operation
  Patience     \* passes that may begin while a stream is on the waiting list

ASSUME FactoryAssumption ==
  /\ MaxStreams \in Nat /\ Grace \in Nat /\ Patience \in Nat \ {0}
  /\ None \notin Nat /\ None \notin Addr

Stream == 1..MaxStreams

VARIABLES
  \* the streams
  born,        \* streams 1..born have been made
  address,     \* remote_ip and remote_port
  deleted,     \* streams that were deleted
  state,       \* State (WAIT_CLOSE and DISCONNECTING are never set)
  delays,      \* timeout_delays
  outgoing,    \* whether a stream has outgoing data
  \* the factory
  streams,     \* the map Streams
  newStreams,  \* the queue NewStreams
  \* ReaderLoop
  readerAt, readerFor, readerOn,
  \* WriterLoop
  writerAt, wantsWrite, resendQue,
  \* the world's main loop and its clients
  mainAt,
  toCheck,     \* peers CheckTimeout has not come to yet
  connecting,  \* connecting_clients
  clients,     \* streams of the Clients in client_list
  \* the clock: passes begun since the reader took up a datagram, since the
  \* writer's scan, and since a stream was born or put on the waiting list
  readerAge, writerAge, waited

streamVars == <<born, address, deleted, state, delays, outgoing>>
factoryVars == <<streams, newStreams>>
readerVars == <<readerAt, readerFor, readerOn, readerAge>>
writerVars == <<writerAt, wantsWrite, resendQue, writerAge>>
mainVars == <<mainAt, toCheck, connecting, clients, waited>>
vars == <<streamVars, factoryVars, readerVars, writerVars, mainVars>>

TypeOK ==
  /\ born \in 0..MaxStreams
  /\ address \in [Stream -> Addr \cup {None}]
  /\ deleted \subseteq Stream
  /\ state \in [Stream -> {"ESTABLISHED", "CLOSING", "CLOSED"}]
  /\ delays \in [Stream -> 0..2]
  /\ outgoing \in [Stream -> BOOLEAN]
  /\ streams \in [Addr -> Stream \cup {None}]
  /\ newStreams \in Seq(Stream)
  /\ readerAt \in {"select", "request", "insert", "signal", "push", "open", "process"}
  /\ readerFor \in Addr \cup {None}
  /\ readerOn \in Stream \cup {None}
  /\ writerAt \in {"scan", "write", "counted", "waiting"}
  /\ wantsWrite \subseteq Stream
  /\ resendQue \subseteq Stream
  /\ mainAt \in {"pop", "connecting", "timer", "timeout"}
  /\ toCheck \subseteq Addr
  /\ connecting \subseteq Stream
  /\ clients \subseteq Stream
  /\ readerAge \in 0..Grace
  /\ writerAge \in 0..Grace
  /\ waited \in [Stream -> Nat]

\* A stream's fields are those of its constructor until it is born.
Init ==
  /\ born = 0
  /\ address = [s \in Stream |-> None]
  /\ deleted = {}
  /\ state = [s \in Stream |-> "CLOSED"]
  /\ delays = [s \in Stream |-> 0]
  /\ outgoing = [s \in Stream |-> FALSE]
  /\ streams = [a \in Addr |-> None]
  /\ newStreams = <<>>
  /\ readerAt = "select" /\ readerFor = None /\ readerOn = None
  /\ writerAt = "scan" /\ wantsWrite = {} /\ resendQue = {}
  /\ mainAt = "pop" /\ toCheck = {} /\ connecting = {} /\ clients = {}
  /\ readerAge = 0 /\ writerAge = 0 /\ waited = [s \in Stream |-> 0]

\* MStreams can be had: CheckTimeout holds it from its first stream to its last.
MStreamsFree == mainAt # "timeout"

InMap == {s \in Stream : \E a \in Addr : streams[a] = s}

\* SendDisconnect, which Close is: only an established stream says goodbye.
SendDisconnect(s) ==
  IF state[s] = "ESTABLISHED"
  THEN /\ state' = [state EXCEPT ![s] = "CLOSING"]
       /\ outgoing' = [outgoing EXCEPT ![s] = TRUE]
  ELSE UNCHANGED <<state, outgoing>>

-----------------------------------------------------------------------------
(* ReaderLoop.                                                             *)

\* A datagram that asks for a session.  The lookup is done under MStreams; the
\* iterator it gave is used after the unlock.
ReceiveRequest(a) ==
  /\ readerAt = "select" /\ MStreamsFree
  /\ born < MaxStreams
  /\ readerAt' = "request" /\ readerFor' = a /\ readerOn' = streams[a]
  /\ readerAge' = 0
  /\ UNCHANGED <<streamVars, factoryVars, writerVars, mainVars>>

\* The stream the peer had before is closed.
CloseOld ==
  /\ readerAt = "request"
  /\ state' = [s \in Stream |-> IF s = readerOn THEN "CLOSED" ELSE state[s]]
  /\ readerAt' = "insert"
  /\ UNCHANGED <<born, address, deleted, delays, outgoing, readerFor, readerOn, readerAge,
                 factoryVars, writerVars, mainVars>>

\* new EQStream, and Streams[temp]=s, without MStreams.
Insert ==
  /\ readerAt = "insert"
  /\ born' = born + 1
  /\ address' = [address EXCEPT ![born + 1] = readerFor]
  /\ streams' = [streams EXCEPT ![readerFor] = born + 1]
  /\ readerOn' = born + 1
  /\ readerAt' = "signal"
  /\ UNCHANGED <<deleted, state, delays, outgoing, newStreams, readerFor, readerAge,
                 writerVars, mainVars>>

\* WriterWork.Signal(): it is lost unless the writer waits already.
Signal ==
  /\ readerAt = "signal"
  /\ readerAt' = "push"
  /\ writerAt' = IF writerAt = "waiting" THEN "scan" ELSE writerAt
  /\ UNCHANGED <<streamVars, factoryVars, readerFor, readerOn, readerAge,
                 wantsWrite, resendQue, writerAge, mainVars>>

Push ==
  /\ readerAt = "push"
  /\ newStreams' = Append(newStreams, readerOn)
  /\ readerAt' = "open"
  /\ UNCHANGED <<streamVars, streams, readerFor, readerOn, readerAge, writerVars, mainVars>>

ReaderDone == readerAt' = "select" /\ readerOn' = None /\ readerFor' = None

\* Process, for the session request: init() and the response, or nothing when
\* the request is malformed.
OpenSession ==
  /\ readerAt = "open"
  /\ \/ /\ state' = [state EXCEPT ![readerOn] = "ESTABLISHED"]
        /\ delays' = [delays EXCEPT ![readerOn] = 0]
        /\ outgoing' = [outgoing EXCEPT ![readerOn] = TRUE]
     \/ UNCHANGED <<state, delays, outgoing>>
  /\ ReaderDone
  /\ UNCHANGED <<born, address, deleted, readerAge, factoryVars, writerVars, mainVars>>

\* Any other datagram, of a peer whose stream is not closed.
ReceiveData(a) ==
  /\ readerAt = "select" /\ MStreamsFree
  /\ streams[a] # None /\ state[streams[a]] # "CLOSED"
  /\ readerAt' = "process" /\ readerFor' = a /\ readerOn' = streams[a]
  /\ readerAge' = 0
  /\ UNCHANGED <<streamVars, factoryVars, writerVars, mainVars>>

\* It makes work for the writer, or ends some, or is an OP_SessionDisconnect.
ProcessData ==
  /\ readerAt = "process"
  /\ \/ /\ \E more \in BOOLEAN : outgoing' = [outgoing EXCEPT ![readerOn] = more]
        /\ UNCHANGED state
     \/ SendDisconnect(readerOn)
  /\ ReaderDone
  /\ UNCHANGED <<born, address, deleted, delays, readerAge, factoryVars, writerVars, mainVars>>

-----------------------------------------------------------------------------
(* WriterLoop.                                                             *)

\* Under MStreams: streams with outgoing data, and those whose resend timer is
\* up, closed or not.
Scan ==
  /\ writerAt = "scan" /\ MStreamsFree
  /\ wantsWrite' = {s \in InMap : state[s] # "CLOSED" /\ outgoing[s]}
  /\ resendQue' \in SUBSET InMap
  /\ writerAt' = "write"
  /\ writerAge' = 0
  /\ UNCHANGED <<streamVars, factoryVars, readerVars, mainVars>>

\* Write: what was to be sent is sent, or waits for room or for an ack.
WriteStream ==
  /\ writerAt = "write"
  /\ \E s \in wantsWrite :
       /\ wantsWrite' = wantsWrite \ {s}
       /\ \/ outgoing' = [outgoing EXCEPT ![s] = FALSE]
          \/ UNCHANGED outgoing
  /\ UNCHANGED <<born, address, deleted, state, delays, writerAt, resendQue, writerAge,
                 factoryVars, readerVars, mainVars>>

CheckResend ==
  /\ writerAt = "write" /\ wantsWrite = {}
  /\ \E s \in resendQue : resendQue' = resendQue \ {s}
  /\ UNCHANGED <<streamVars, writerAt, wantsWrite, writerAge, factoryVars, readerVars, mainVars>>

\* stream_count, under MStreams.
CountStreams ==
  /\ writerAt = "write" /\ wantsWrite = {} /\ resendQue = {}
  /\ MStreamsFree
  /\ writerAt' = IF InMap = {} THEN "counted" ELSE "scan"
  /\ UNCHANGED <<streamVars, wantsWrite, resendQue, writerAge, factoryVars, readerVars, mainVars>>

\* WriterWork.Wait().
WaitForWork ==
  /\ writerAt = "counted"
  /\ writerAt' = "waiting"
  /\ UNCHANGED <<streamVars, wantsWrite, resendQue, writerAge, factoryVars, readerVars, mainVars>>

-----------------------------------------------------------------------------
(* The main loop and the clients.                                          *)

\* ClientList::ContainsStream compares addresses, not streams.
ContainsStream(s) == \E c \in clients : address[c] = address[s]

\* Variant: a client is made for every established stream.
AdmitAlways(s, active) ==
  \/ active /\ clients' = clients \cup {s} /\ UNCHANGED <<connecting, waited>>
  \/ /\ ~active
     /\ connecting' = connecting \cup {s} /\ waited' = [waited EXCEPT ![s] = 0]
     /\ UNCHANGED clients

\* A new stream becomes a client's or waits; when its peer has a client still,
\* it is forgotten.
Admit(s, active) ==
  \/ /\ active /\ ~ContainsStream(s)
     /\ clients' = clients \cup {s}
     /\ UNCHANGED <<connecting, waited>>
  \/ /\ ~active /\ ~ContainsStream(s)
     /\ connecting' = connecting \cup {s} /\ waited' = [waited EXCEPT ![s] = 0]
     /\ UNCHANGED clients
  \/ ContainsStream(s) /\ UNCHANGED <<clients, connecting, waited>>

\* Pop, and Close if the peer is banned.
PopStream ==
  /\ mainAt = "pop" /\ newStreams # <<>>
  /\ LET s == Head(newStreams)
     IN  \/ Admit(s, state[s] = "ESTABLISHED") /\ UNCHANGED <<state, outgoing>>
         \/ SendDisconnect(s) /\ Admit(s, FALSE)
  /\ newStreams' = Tail(newStreams)
  /\ UNCHANGED <<born, address, deleted, delays, streams, readerVars, writerVars, mainAt, toCheck>>

NoMoreStreams ==
  /\ mainAt = "pop" /\ newStreams = <<>>
  /\ mainAt' = "connecting"
  /\ UNCHANGED <<streamVars, factoryVars, readerVars, writerVars, toCheck, connecting, clients, waited>>

Admissible(s) == state[s] = "ESTABLISHED" /\ ~ContainsStream(s)

\* The waiting list: one stream at most becomes a client or is dropped.  Ten
\* seconds are up no earlier than after the first pass.
CheckConnecting ==
  /\ mainAt = "connecting"
  /\ mainAt' = "timer"
  /\ \/ \E s \in connecting :
          /\ connecting' = connecting \ {s}
          /\ \/ Admissible(s) /\ clients' = clients \cup {s}
             \/ ~Admissible(s) /\ waited[s] > 0 /\ UNCHANGED clients
     \/ /\ \A s \in connecting : ~Admissible(s) /\ waited[s] < Patience
        /\ UNCHANGED <<connecting, clients>>
  /\ UNCHANGED <<streamVars, factoryVars, readerVars, writerVars, toCheck, waited>>

\* TimeoutTimer is not up.
SkipCheck ==
  /\ mainAt = "timer"
  /\ mainAt' = "pop"
  /\ UNCHANGED <<streamVars, factoryVars, readerVars, writerVars, toCheck, connecting, clients, waited>>

\* Streams that are new to the main loop.
Fresh ==
  {s \in Stream : \/ readerAt \in {"signal", "push", "open"} /\ readerOn = s
                  \/ \E i \in DOMAIN newStreams : newStreams[i] = s}

InTime ==
  /\ readerAt # "select" => readerAge < Grace
  /\ writerAt = "write" => writerAge < Grace
  /\ \A s \in Fresh : waited[s] < Grace
  /\ \A s \in connecting : waited[s] < Patience

\* CheckTimeout takes MStreams.
BeginCheck ==
  /\ mainAt = "timer"
  /\ InTime
  /\ mainAt' = "timeout"
  /\ toCheck' = {a \in Addr : streams[a] # None}
  /\ readerAge' = IF readerAt # "select" THEN readerAge + 1 ELSE readerAge
  /\ writerAge' = IF writerAt = "write" THEN writerAge + 1 ELSE writerAge
  /\ waited' = [s \in Stream |->
                  IF s \in Fresh \cup connecting THEN waited[s] + 1 ELSE waited[s]]
  /\ UNCHANGED <<streamVars, factoryVars, readerAt, readerFor, readerOn,
                 writerAt, wantsWrite, resendQue, connecting, clients>>

\* Variant: one pass more.
GiveTimeLong(s) ==
  /\ delays[s] < 3
  /\ delays' = [delays EXCEPT ![s] = @ + 1]
  /\ UNCHANGED <<clients, streams, deleted>>

\* addTimeoutDelay: time for everybody to finish with the stream.
GiveTime(s) ==
  /\ delays[s] < 2
  /\ delays' = [delays EXCEPT ![s] = @ + 1]
  /\ UNCHANGED <<clients, streams, deleted>>

\* Variants: the stream stays in the map; its client is not told.
DeleteStreamOnly(a, s) ==
  /\ deleted' = deleted \cup {s}
  /\ clients' = clients \ {s}
  /\ UNCHANGED <<streams, delays>>

DeleteQuietly(a, s) ==
  /\ streams' = [streams EXCEPT ![a] = None]
  /\ deleted' = deleted \cup {s}
  /\ UNCHANGED <<clients, delays>>

\* RemoveConnection, which takes the stream away from its client, and the end.
DeleteStream(a, s) ==
  /\ clients' = clients \ {s}
  /\ streams' = [streams EXCEPT ![a] = None]
  /\ deleted' = deleted \cup {s}
  /\ UNCHANGED delays

\* A stream that is closed.
Remove(a, s) ==
  \/ GiveTime(s)
  \/ delays[s] >= 2 /\ DeleteStream(a, s)

\* Variant: a stream that times out while it closes goes on closing.
FinishWhenSent(a, s) ==
  /\ state[s] = "CLOSING" /\ ~outgoing[s]
  /\ state' = [state EXCEPT ![s] = "CLOSED"]
  /\ UNCHANGED outgoing
  /\ Remove(a, s)

\* A closing stream is closed when all is sent, or when it times out.
FinishClosing(a, s) ==
  /\ state[s] = "CLOSING"
  /\ state' = [state EXCEPT ![s] = "CLOSED"]
  /\ UNCHANGED outgoing
  /\ Remove(a, s)

\* One stream of the loop in CheckTimeout.
CheckStream(a) ==
  /\ mainAt = "timeout" /\ a \in toCheck
  /\ toCheck' = toCheck \ {a}
  /\ LET s == streams[a]
     IN  \/ FinishClosing(a, s)
         \/ /\ state[s] = "ESTABLISHED"
            /\ SendDisconnect(s)
            /\ UNCHANGED <<delays, clients, streams, deleted>>
         \/ /\ state[s] = "CLOSED"
            /\ Remove(a, s)
            /\ UNCHANGED <<state, outgoing>>
         \/ /\ state[s] # "CLOSED" /\ (state[s] = "CLOSING" => outgoing[s])
            /\ UNCHANGED <<state, outgoing, delays, clients, streams, deleted>>
  /\ UNCHANGED <<born, address, newStreams, readerVars, writerVars, mainAt, connecting, waited>>

EndCheck ==
  /\ mainAt = "timeout" /\ toCheck = {}
  /\ mainAt' = "pop"
  /\ UNCHANGED <<streamVars, factoryVars, readerVars, writerVars, toCheck, connecting, clients, waited>>

\* A client queues a packet, in a zone's thread or the main thread.
QueuePacket ==
  /\ \E s \in clients :
       /\ state[s] = "ESTABLISHED"
       /\ outgoing' = [outgoing EXCEPT ![s] = TRUE]
  /\ UNCHANGED <<born, address, deleted, state, delays, factoryVars, readerVars, writerVars, mainVars>>

\* A client leaves, because its player does or because it found the stream
\* inactive: ~Client or Disconnect.
LeaveClient ==
  /\ \E s \in clients : clients' = clients \ {s} /\ SendDisconnect(s)
  /\ UNCHANGED <<born, address, deleted, delays, factoryVars, readerVars, writerVars,
                 mainAt, toCheck, connecting, waited>>

-----------------------------------------------------------------------------
Reader == CloseOld \/ Insert \/ Signal \/ Push \/ OpenSession \/ ProcessData
Writer == Scan \/ WriteStream \/ CheckResend \/ CountStreams \/ WaitForWork
Main == PopStream \/ NoMoreStreams \/ CheckConnecting \/ EndCheck \/ \E a \in Addr : CheckStream(a)

Next ==
  \/ \E a \in Addr : ReceiveRequest(a) \/ ReceiveData(a)
  \/ Reader \/ Writer \/ Main
  \/ SkipCheck \/ BeginCheck
  \/ QueuePacket \/ LeaveClient

Spec == Init /\ [][Next]_vars

(***************************************************************************)
(* Fairness: the three threads keep running, TimeoutTimer comes up again   *)
(* and again, and a peer that was told goodbye falls silent, so that its   *)
(* stream times out while it closes.                                       *)
(***************************************************************************)
Fairness ==
  /\ WF_vars(Reader) /\ WF_vars(Writer) /\ WF_vars(Main)
  /\ WF_vars(SkipCheck \/ BeginCheck) /\ SF_vars(BeginCheck)
  /\ \A a \in Addr : SF_vars(CheckStream(a) /\ FinishClosing(a, streams[a]))

FairSpec == Spec /\ Fairness

-----------------------------------------------------------------------------
(* Properties.                                                             *)

\* Who has a pointer to a stream and looked at its state under MStreams, or is
\* told of its end.
InUse(s) ==
  \/ readerAt = "process" /\ readerOn = s
  \/ s \in Fresh \cup wantsWrite \cup clients

\* No thread ever follows such a pointer to a stream that was deleted.
InUseIsAlive == \A s \in deleted : ~InUse(s)

\* The map holds every stream once, under its own address, and none that was
\* deleted: what a thread finds under MStreams it may use.
MapIsSound ==
  \A a \in Addr : streams[a] # None =>
    streams[a] <= born /\ streams[a] \notin deleted /\ address[streams[a]] = a

\* A peer has one client at most, even if it asked for several sessions: what
\* it sends and what it is sent cannot be split between two.
OneClientPerPeer ==
  \A s, t \in clients : address[s] = address[t] => s = t

\* A stream that began to close, by either side, is removed from the factory in
\* the end, and its client loses it; a new session of the peer may do it first.
ClosingIsRemoved ==
  \A s \in Stream :
    state[s] = "CLOSING" ~> (\A a \in Addr : streams[a] # s)
=============================================================================
