------------------------------- MODULE Login -------------------------------
(***************************************************************************)
(* How a connection to the world server becomes the client that plays a    *)
(* character, and how it ceases to be.  One character, over any number of  *)
(* connections: fresh logins, moves between zones of this server, returns  *)
(* from linkdead, in the time in which the clients of earlier connections  *)
(* are still being taken down.                                             *)
(*                                                                         *)
(* The main thread runs the logins (client_list); the thread of the zone   *)
(* runs the clients that are in it (connected_clients).  A login looks     *)
(* whether writes of the character are under way, and then finds the       *)
(* character's present client and replaces it or reads the database: the   *)
(* two are steps of their own, with steps of the zone's thread in between. *)
(* A Player has the name of the client that created it; clients may swap   *)
(* them.  Groups, pets, spells, guilds and the broker are left out, and of  *)
(* the saves, which are asynchronous queries, all but whether any are      *)
(* under way.                                                              *)
(***************************************************************************)
EXTENDS Naturals

CONSTANTS
  MaxClients,  \* bound on the connections
  MaxKeys,     \* bound on the access keys given out
  Version      \* the version of each client's program

ASSUME LoginAssumption ==
  /\ MaxClients \in Nat
  /\ MaxKeys \in Nat

VARIABLES
  client,    \* the Client objects
  player,    \* the Player objects
  found,     \* the client that the login in hand resumes
  byName,    \* zone_list.client_map: the client found under the character's name
  zoneAuth,  \* access keys that admit a login
  issued,    \* how many keys were given out
  saving     \* asynchronous saves of the character are under way

vars == <<client, player, found, byName, zoneAuth, issued, saving>>

Clients == 1..MaxClients  \* in the order they connect
NoClient == 0
Keys == 1..MaxKeys

\* stage: lobby, delayed and checked clients are in client_list, those in zone
\* in connected_clients; removed ones wait to be deleted.
\* stream: eqs is a null pointer, an established stream, or one that is closing.
Client ==
  [stage : {"none", "lobby", "delayed", "checked", "took",
             "left", "entering", "zone", "removed", "deleted"},
   key : 0..MaxKeys,
   stream : {"null", "up", "closing"},
   player : Clients,
   hasZone : BOOLEAN,           \* current_zone is set
   listed : BOOLEAN,            \* in the zone's clients, those it saves
   readyForSpawns : BOOLEAN,
   readyForUpdates : BOOLEAN,
   connected : BOOLEAN,
   zoning : BOOLEAN,            \* client_zoning
   saveOff : BOOLEAN,           \* disable_save
   campTimer : BOOLEAN,
   linkdeadTimer : BOOLEAN]

Player ==
  [loaded : BOOLEAN,            \* holds, and is named after, the character
   camping : BOOLEAN,
   linkdead : BOOLEAN,
   returning : BOOLEAN]         \* returning_from_ld

TypeOK ==
  /\ client \in [Clients -> Client]
  /\ player \in [Clients -> Player]
  /\ found \in Clients \cup {NoClient}
  /\ byName \in Clients \cup {NoClient}
  /\ zoneAuth \subseteq Keys
  /\ issued \in 0..MaxKeys
  /\ saving \in BOOLEAN

NewClient(c) ==
  [stage |-> "none", key |-> 0, stream |-> "null", player |-> c, hasZone |-> FALSE,
   listed |-> FALSE, readyForSpawns |-> FALSE, readyForUpdates |-> FALSE,
   connected |-> FALSE, zoning |-> FALSE, saveOff |-> FALSE,
   campTimer |-> FALSE, linkdeadTimer |-> FALSE]

NewPlayer == [loaded |-> FALSE, camping |-> FALSE, linkdead |-> FALSE, returning |-> FALSE]

Init ==
  /\ client = [c \in Clients |-> NewClient(c)]
  /\ player = [p \in Clients |-> NewPlayer]
  /\ found = NoClient
  /\ byName = NoClient
  /\ zoneAuth = {}
  /\ issued = 0
  /\ saving = FALSE

-----------------------------------------------------------------------------
(* Parts of several operations *)

PlayerOf(c) == client[c].player

\* Client::Save of a client that has entered the zone once: whether it writes
\* its player to the database.
Saves(c) ==
  client[c].hasZone /\ client[c].readyForUpdates /\ ~client[c].saveOff

\* Client::Disconnect, after the save.
Disconnected(record) == [record EXCEPT !.stream = "null", !.connected = FALSE]

\* SendDisconnect of the stream, if there is one.
Closed(record) ==
  [record EXCEPT !.stream = IF @ = "null" THEN "null" ELSE "closing"]

\* Of a deleted client nothing is left, and nothing of what its player did.
Deleted(record) ==
  [NewClient(record.player) EXCEPT !.stage = "deleted"]

\* Variant: a client that is deleted stays in the map.
KeepName(c) == UNCHANGED byName

\* Variant: whoever is found under the name is forgotten.
ForgetName(c) ==
  byName' = IF player[PlayerOf(c)].loaded THEN NoClient ELSE byName

\* The map forgets a client that goes, if it is still the one found under the
\* name its player has.
RemoveClientFromMap(c) ==
  byName' = IF byName = c /\ player[PlayerOf(c)].loaded THEN NoClient ELSE byName

-----------------------------------------------------------------------------
(* The login server and the connection *)

\* ZoneList::ClientConnected: someone plays, and is not linkdead.
ClientConnected ==
  /\ byName # NoClient
  /\ client[byName].stream = "up"
  /\ ~player[PlayerOf(byName)].linkdead

\* A new key; PurgeInactiveAuth first takes away any that are too old.
AddAuth(old) ==
  /\ issued < MaxKeys
  /\ issued' = issued + 1
  /\ zoneAuth' = (zoneAuth \ old) \cup {issued + 1}

\* ServerOP_UsertoWorldReq.  Accounts with a high status are let in while the
\* character is played.  A request that is refused adds a key too, which the
\* login server passes on to nobody: such keys are left out.
UserToWorld(privileged) ==
  /\ privileged \/ ~ClientConnected
  /\ \E old \in SUBSET zoneAuth : AddAuth(old)
  /\ UNCHANGED <<client, player, found, byName, saving>>

\* The main loop makes a client of a stream that is established.
Connect(c) ==
  /\ client[c].stage = "none"
  /\ \A d \in Clients : d < c => client[d].stage # "none"
  /\ client' = [client EXCEPT ![c].stage = "lobby", ![c].stream = "up"]
  /\ UNCHANGED <<player, found, byName, zoneAuth, issued, saving>>

\* The player's end goes away, or the stream times out.
Drop(c) ==
  /\ client[c].stream = "up"
  /\ client' = [client EXCEPT ![c].stream = "closing"]
  /\ UNCHANGED <<player, found, byName, zoneAuth, issued, saving>>

\* QueuePacket gives up a stream that is not active.
GiveUpStream(c) ==
  /\ client[c].stage = "zone"
  /\ client[c].stream = "closing"
  /\ client' = [client EXCEPT ![c].stream = "null"]
  /\ UNCHANGED <<player, found, byName, zoneAuth, issued, saving>>

-----------------------------------------------------------------------------
(* HandleNewLogin, in the main thread *)

\* The main thread has nothing else in hand.
MainThreadIdle ==
  \A c \in Clients : client[c].stage \notin {"checked", "took", "left", "entering"}

\* Variant: a delayed login is not looked up again.
CheckKeyOnce(c, k) ==
  /\ client' = [client EXCEPT ![c].key = k,
       ![c].stage = IF k \notin zoneAuth /\ @ = "lobby" THEN "deleted"
                    ELSE IF saving THEN "delayed" ELSE "checked"]
  /\ UNCHANGED <<player, found, byName, zoneAuth, issued, saving>>

\* The key is looked up; a login for a character with writes under way is
\* tried again half a second later.
CheckLogin(c, k) ==
  /\ client' = [client EXCEPT ![c].key = k,
       ![c].stage = IF k \notin zoneAuth THEN "deleted"
                    ELSE IF saving THEN "delayed" ELSE "checked"]
  /\ UNCHANGED <<player, found, byName, zoneAuth, issued, saving>>

\* A key that was given out once, and may have been used or purged since.
LoginByNumRequest(c) ==
  /\ MainThreadIdle
  /\ client[c].stage \in {"lobby", "delayed"}
  /\ client[c].stream = "up"
  /\ \E k \in 1..issued : CheckLogin(c, k)

RetryLogin(c) ==
  /\ MainThreadIdle
  /\ client[c].stage = "delayed"
  /\ client[c].stream = "up"
  /\ CheckLogin(c, client[c].key)

\* A client that has no connection any more leaves client_list and is deleted.
LobbyDrop(c) ==
  /\ MainThreadIdle
  /\ client[c].stage \in {"lobby", "delayed"}
  /\ client[c].stream # "up"
  /\ client' = [client EXCEPT ![c] = Deleted(@)]
  /\ UNCHANGED <<player, found, byName, zoneAuth, issued, saving>>

InZone(record) ==
  [record EXCEPT !.stage = "zone", !.hasZone = TRUE, !.listed = TRUE,
                 !.readyForSpawns = FALSE, !.readyForUpdates = FALSE]
Loaded(record) == [record EXCEPT !.loaded = TRUE]

\* The client is found under the name; its key is used up.
Admit(c) ==
  /\ byName' = c
  /\ zoneAuth' = zoneAuth \ {client[c].key}
  /\ UNCHANGED issued

\* Nobody plays the character: loadCharacter.
EnterFresh(c) ==
  /\ client[c].stage = "checked"
  /\ byName = NoClient
  /\ client' = [client EXCEPT ![c] = InZone(@)]
  /\ player' = [player EXCEPT ![PlayerOf(c)] = Loaded(@)]
  /\ Admit(c)
  /\ UNCHANGED <<found, saving>>

\* The present client of the character is in a zone, and of the same version.
CanResume(c, old) ==
  /\ client[old].hasZone
  /\ ~client[old].zoning
  /\ Version[old] = Version[c]

\* Variant: the old client goes on saving.
TakePlayerOnly(c) ==
  LET old == byName IN
  /\ client[c].stage = "checked"
  /\ old # NoClient
  /\ CanResume(c, old)
  /\ found' = old
  /\ client' = [client EXCEPT
       ![c].stage = "took", ![c].player = PlayerOf(old), ![old] = Closed(@)]
  /\ player' = [player EXCEPT ![PlayerOf(old)] =
       IF @.returning THEN @
       ELSE [@ EXCEPT !.returning = TRUE, !.camping = FALSE, !.linkdead = FALSE]]
  /\ UNCHANGED <<byName, zoneAuth, issued, saving>>

\* The new client takes over the player of the old one, linkdead or playing:
\* DisableSave, SetPlayer and SetReturningFromLD ...
TakePlayer(c) ==
  LET old == byName IN
  /\ client[c].stage = "checked"
  /\ old # NoClient
  /\ CanResume(c, old)
  /\ found' = old
  /\ client' = [client EXCEPT
       ![c].stage = "took", ![c].player = PlayerOf(old),
       ![old] = [Closed(@) EXCEPT !.saveOff = TRUE]]
  /\ player' = [player EXCEPT ![PlayerOf(old)] =
       IF @.returning THEN @
       ELSE [@ EXCEPT !.returning = TRUE, !.camping = FALSE, !.linkdead = FALSE]]
  /\ UNCHANGED <<byName, zoneAuth, issued, saving>>

\* Variant: the old client is left without a player.
LeaveNothing(c) ==
  /\ client[c].stage = "took"
  /\ client' = [client EXCEPT ![c].stage = "left", ![found].player = NoClient]
  /\ RemoveClientFromMap(found)
  /\ UNCHANGED <<player, found, zoneAuth, issued, saving>>

\* ... the old one gets the blank player of the new one, and its SetPlayer takes
\* it out of the map ...
LeaveBlank(c) ==
  /\ client[c].stage = "took"
  /\ client' = [client EXCEPT ![c].stage = "left", ![found].player = c]
  /\ RemoveClientFromMap(found)
  /\ UNCHANGED <<player, found, zoneAuth, issued, saving>>

\* ... then the blank player's zone, which is none, so that it is not removed
\* from the lists of the zone it is in.
LeaveZone(c) ==
  /\ client[c].stage = "left"
  /\ client' = [client EXCEPT ![c].stage = "entering", ![found].hasZone = FALSE]
  /\ UNCHANGED <<player, found, byName, zoneAuth, issued, saving>>

\* The new client enters the zone of its player.
EnterResumed(c) ==
  /\ client[c].stage = "entering"
  /\ client' = [client EXCEPT ![c] = InZone(@)]
  /\ found' = NoClient
  /\ Admit(c)
  /\ UNCHANGED <<player, saving>>

\* RemoveClientImmediately of a client of another version; the character is
\* read from the database right after the save this started.
Supersede(c) ==
  LET old == byName IN
  /\ client[c].stage = "checked"
  /\ old # NoClient
  /\ client[old].hasZone
  /\ ~client[old].zoning
  /\ Version[old] # Version[c]
  /\ client' = [client EXCEPT
       ![c] = InZone(@),
       ![old] = [Disconnected(@) EXCEPT !.listed = FALSE]]
  /\ player' = [player EXCEPT
       ![PlayerOf(old)] = [@ EXCEPT !.linkdead = FALSE, !.camping = TRUE],
       ![PlayerOf(c)] = Loaded(@)]
  /\ saving' = (saving \/ Saves(old))
  /\ Admit(c)
  /\ UNCHANGED found

\* The old client is on its way to another zone.
Follow(c) ==
  LET old == byName IN
  /\ client[c].stage = "checked"
  /\ old # NoClient
  /\ client[old].zoning \/ ~client[old].hasZone
  /\ client' = [client EXCEPT ![c] = InZone(@), ![old] = Closed(@)]
  /\ player' = [player EXCEPT ![PlayerOf(c)] = Loaded(@)]
  /\ Admit(c)
  /\ UNCHANGED <<found, saving>>

Enter(c) ==
  \/ EnterFresh(c)
  \/ TakePlayer(c) \/ LeaveBlank(c) \/ LeaveZone(c) \/ EnterResumed(c)
  \/ Supersede(c)
  \/ Follow(c)

\* The database does not deliver the character.  What was done to the old
\* client before stays done, the key stays valid.
EnterFails(c) ==
  LET old == byName IN
  /\ client[c].stage = "checked"
  /\ IF old = NoClient
     THEN /\ client' = [client EXCEPT ![c] = Deleted(@)]
          /\ UNCHANGED <<player, saving>>
     ELSE /\ ~CanResume(c, old)
          /\ IF client[old].hasZone /\ ~client[old].zoning
             THEN /\ client' = [client EXCEPT ![c] = Deleted(@),
                       ![old] = [Disconnected(@) EXCEPT !.listed = FALSE]]
                  /\ player' = [player EXCEPT ![PlayerOf(old)].linkdead = FALSE,
                                              ![PlayerOf(old)].camping = TRUE]
                  /\ saving' = (saving \/ Saves(old))
             ELSE /\ client' = [client EXCEPT ![c] = Deleted(@), ![old] = Closed(@)]
                  /\ UNCHANGED <<player, saving>>
  /\ UNCHANGED <<found, byName, zoneAuth, issued>>

-----------------------------------------------------------------------------
(* Packets of a client in the zone, and the zone's saves *)

Playing(c) == client[c].stage = "zone" /\ client[c].stream = "up"

\* BeginPreCharInfo: SetReadyForSpawns ends linkdead and camping.
BeginPreCharInfo(c) ==
  /\ Playing(c)
  /\ ~client[c].readyForSpawns
  /\ client' = [client EXCEPT ![c].readyForSpawns = TRUE]
  /\ player' = [player EXCEPT ![PlayerOf(c)].camping = FALSE,
                              ![PlayerOf(c)].linkdead = FALSE]
  /\ UNCHANGED <<found, byName, zoneAuth, issued, saving>>

\* The client is in the world: SetReadyForUpdates, SetConnected.
EnterWorld(c) ==
  /\ Playing(c)
  /\ client[c].readyForSpawns
  /\ ~client[c].readyForUpdates
  /\ client' = [client EXCEPT ![c].readyForUpdates = TRUE, ![c].connected = TRUE]
  /\ player' = [player EXCEPT ![PlayerOf(c)].returning = FALSE]
  /\ UNCHANGED <<found, byName, zoneAuth, issued, saving>>

\* OP_CampClientMsg; leaving for the desktop disconnects at once.
Camp(c) ==
  /\ Playing(c)
  /\ ~client[c].campTimer
  /\ player' = [player EXCEPT ![PlayerOf(c)].camping = TRUE]
  /\ \/ /\ client' = [client EXCEPT ![c].campTimer = TRUE]
        /\ UNCHANGED saving
     \/ /\ client' = [client EXCEPT ![c] = [Disconnected(@) EXCEPT !.campTimer = TRUE]]
        /\ saving' = (saving \/ Saves(c))
  /\ UNCHANGED <<found, byName, zoneAuth, issued>>

\* OP_StandMsg and the like end camping.
Stand(c) ==
  /\ Playing(c)
  /\ client[c].campTimer
  /\ client' = [client EXCEPT ![c].campTimer = FALSE]
  /\ player' = [player EXCEPT ![PlayerOf(c)].camping = FALSE]
  /\ UNCHANGED <<found, byName, zoneAuth, issued, saving>>

\* Client::Zone to a zone of this server.
Zone(c) ==
  /\ Playing(c)
  /\ client[c].readyForUpdates
  /\ ~client[c].zoning
  /\ client' = [client EXCEPT ![c].zoning = TRUE]
  /\ saving' = (saving \/ Saves(c))
  /\ AddAuth({})
  /\ UNCHANGED <<player, found, byName>>

\* OP_ReadyToZoneMsg.
ReadyToZone(c) ==
  /\ Playing(c)
  /\ client[c].readyForSpawns
  /\ client' = [client EXCEPT ![c] = Disconnected(@)]
  /\ saving' = (saving \/ Saves(c))
  /\ UNCHANGED <<player, found, byName, zoneAuth, issued>>

\* ZoneServer::SaveClients.
SaveClient(c) ==
  /\ client[c].listed /\ client[c].connected /\ client[c].readyForUpdates
  /\ saving' = (saving \/ Saves(c))
  /\ UNCHANGED <<client, player, found, byName, zoneAuth, issued>>

-----------------------------------------------------------------------------
(* ZoneServer::ClientProcess, when Client::Process returns false *)

\* RemoveClient and Disconnect.
Removed(record) ==
  [Disconnected(record) EXCEPT !.stage = "removed", !.listed = FALSE]

Remove(c, record) ==
  /\ client' = [client EXCEPT ![c] = Removed(record)]
  /\ saving' = (saving \/ Saves(c))

\* Variant: no timer is started for a client that goes linkdead.
AwaitForever(c, record, p) ==
  IF record.zoning \/ (p.camping /\ ~p.linkdead)
  THEN /\ Remove(c, record)
       /\ player' = [player EXCEPT ![PlayerOf(c)] = p]
  ELSE /\ client' = [client EXCEPT ![c] =
            [record EXCEPT !.stream = IF p.camping \/ record.linkdeadTimer THEN @ ELSE "null"]]
       /\ player' = [player EXCEPT ![PlayerOf(c)] = [p EXCEPT !.linkdead = TRUE]]
       /\ UNCHANGED saving

\* record and p are the client and its player as Process left them.  A client
\* that is zoning or camping is removed, any other goes linkdead.
ClientFailed(c, record, p) ==
  IF record.zoning \/ (p.camping /\ ~p.linkdead)
  THEN /\ Remove(c, record)
       /\ player' = [player EXCEPT ![PlayerOf(c)] = p]
  ELSE /\ client' = [client EXCEPT ![c] =
            [record EXCEPT !.stream = IF p.camping \/ record.linkdeadTimer THEN @ ELSE "null",
                           !.linkdeadTimer = TRUE]]
       /\ player' = [player EXCEPT ![PlayerOf(c)] = [p EXCEPT !.linkdead = TRUE]]
       /\ UNCHANGED saving

\* No stream, or one that has not been active for a hundred rounds.
ProcessFails(c) ==
  /\ client[c].stage = "zone"
  /\ client[c].stream # "up"
  /\ ClientFailed(c, client[c], player[PlayerOf(c)])
  /\ UNCHANGED <<found, byName, zoneAuth, issued>>

\* The camp or the linkdead timer has run out.  With a stream left, Process
\* closes it and goes on for the hundred rounds that takes.
TimerExpires(c) ==
  LET record == [Closed(client[c]) EXCEPT !.campTimer = FALSE, !.linkdeadTimer = FALSE]
      p == IF client[c].linkdeadTimer
           THEN [player[PlayerOf(c)] EXCEPT !.linkdead = FALSE, !.camping = TRUE]
           ELSE player[PlayerOf(c)]
  IN
  /\ client[c].stage = "zone"
  /\ client[c].campTimer \/ client[c].linkdeadTimer
  /\ IF record.stream = "null"
     THEN ClientFailed(c, record, p)
     ELSE /\ client' = [client EXCEPT ![c] = record]
          /\ player' = [player EXCEPT ![PlayerOf(c)] = p]
          /\ UNCHANGED saving
  /\ UNCHANGED <<found, byName, zoneAuth, issued>>

\* connected_clients deletes a removed client after thirty seconds, which is
\* taken not to be in the middle of a swap with it.
Delete(c) ==
  /\ client[c].stage = "removed"
  /\ found # c
  /\ client' = [client EXCEPT ![c] = Deleted(@)]
  /\ RemoveClientFromMap(c)
  /\ UNCHANGED <<player, found, zoneAuth, issued, saving>>

\* The database has executed the last of the writes.
Written ==
  /\ saving
  /\ saving' = FALSE
  /\ UNCHANGED <<client, player, found, byName, zoneAuth, issued>>

-----------------------------------------------------------------------------
ZoneThread(c) == ProcessFails(c) \/ TimerExpires(c) \/ Delete(c)

Next ==
  \/ \E privileged \in BOOLEAN : UserToWorld(privileged)
  \/ \E c \in Clients :
       \/ Connect(c) \/ Drop(c) \/ GiveUpStream(c)
       \/ LoginByNumRequest(c) \/ RetryLogin(c) \/ LobbyDrop(c)
       \/ Enter(c) \/ EnterFails(c)
       \/ BeginPreCharInfo(c) \/ EnterWorld(c) \/ Camp(c) \/ Stand(c)
       \/ Zone(c) \/ ReadyToZone(c) \/ SaveClient(c)
       \/ ZoneThread(c)
  \/ Written

Spec == Init /\ [][Next]_vars

\* The zone's thread runs its loop and its timers run out; the main thread goes
\* on with the login it has in hand.
FairSpec ==
  /\ Spec
  /\ \A c \in Clients :
       /\ WF_vars(ProcessFails(c))
       /\ WF_vars(TimerExpires(c))
       /\ WF_vars(Delete(c))
       /\ WF_vars(Enter(c))

-----------------------------------------------------------------------------
(* Properties *)

\* The name leads to a client that has not been deleted and has the
\* character's player: HandleNewLogin uses what it finds without a check.
FoundIsLive ==
  byName # NoClient =>
    /\ client[byName].stage \in {"zone", "removed"}
    /\ player[PlayerOf(byName)].loaded

\* Whoever plays the character over a connection that is up is the client
\* found under its name; so only one does, and the next login finds it.
PlayingIsFound ==
  \A c \in Clients : Playing(c) => byName = c

\* The blank player a resumed client is left with never reaches the database,
\* although that client keeps the character's id.
BlankIsNeverSaved ==
  \A c \in Clients : Saves(c) => player[PlayerOf(c)].loaded

\* A key admits one login, however many present it and however long they were
\* delayed.
Admitted(c) == client[c].stage \in {"zone", "removed"}
KeyAdmitsOnce ==
  \A c, d \in Clients :
    Admitted(c) /\ Admitted(d) /\ client[c].key = client[d].key => c = d

\* A client in the zone that has lost its stream is not left standing there:
\* through camping, zoning, linkdead, a swap of players or a supersession it is
\* deleted in the end.
LinkdeadEnds ==
  \A c \in Clients :
    client[c].stage = "zone" /\ client[c].stream # "up" ~> client[c].stage = "deleted"
=============================================================================
