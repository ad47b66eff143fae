---------------------------- MODULE LoginProofs ----------------------------
(***************************************************************************)
(* The clients of one character, for any number of connections and keys:   *)
(* the name leads to a live client, who is the only one that plays; a      *)
(* blank player is never saved; a key admits one login.                    *)
(*                                                                         *)
(* Most steps change nothing that matters here: Ordinary says what they    *)
(* leave alone, and one lemma serves them all.                             *)
(***************************************************************************)
EXTENDS Login, TLAPS

\* The login the main thread has in hand, and one that is swapping players.
InHand(c) == client[c].stage \in {"checked", "took", "left", "entering"}
Swapping(c) == client[c].stage \in {"took", "left", "entering"}

OneInHand == \A c, d \in Clients : InHand(c) /\ InHand(d) => c = d

\* The key of a login that was let in, or is about to be, is its own.
KeysOK ==
  /\ zoneAuth \subseteq 1..issued
  /\ \A c \in Clients : Admitted(c) => client[c].key \in (1..issued) \ zoneAuth
  /\ \A c \in Clients : InHand(c) => client[c].key \in 1..issued
  /\ \A c, d \in Clients : InHand(c) /\ Admitted(d) => client[c].key # client[d].key

\* While players are swapped nobody plays the character, the new client has its
\* player, and the old one is there and saves no more.
SwapOK ==
  \A c \in Clients : Swapping(c) =>
    /\ found \in Clients
    /\ Admitted(found)
    /\ client[found].saveOff
    /\ player[PlayerOf(c)].loaded
    /\ \A d \in Clients : ~Playing(d)

\* A client in a zone has the character, or saves nothing.
ZoneOK ==
  \A c \in Clients : client[c].hasZone => player[PlayerOf(c)].loaded \/ client[c].saveOff

IInv ==
  /\ TypeOK
  /\ FoundIsLive
  /\ PlayingIsFound
  /\ KeyAdmitsOnce
  /\ OneInHand /\ KeysOK /\ SwapOK /\ ZoneOK

-----------------------------------------------------------------------------
(* Steps that change nothing that matters *)

Outside(c) == client[c].stage \in {"none", "lobby", "delayed", "deleted"}

\* A client that stays out of the zone, or gets no further with its login.
StaysOut(c) ==
  /\ ~Admitted(c) /\ Outside(c)'
  /\ client'[c].hasZone =>
       /\ client[c].hasZone
       /\ client'[c].player = client[c].player
       /\ client'[c].saveOff = client[c].saveOff

\* A client that keeps its key, its player and its stage, unless it is removed.
Alike(c) ==
  /\ client'[c].key = client[c].key
  /\ client'[c].player = client[c].player
  /\ client'[c].saveOff = client[c].saveOff
  /\ client'[c].hasZone = client[c].hasZone
  /\ \/ client'[c].stage = client[c].stage
     \/ client[c].stage = "zone" /\ client'[c].stage = "removed"
  /\ client'[c].stage = "zone" /\ client'[c].stream = "up" => client[c].stream = "up"

Ordinary ==
  /\ found' = found /\ byName' = byName
  /\ issued' \in issued..MaxKeys
  /\ zoneAuth' \subseteq 1..issued' /\ zoneAuth' \cap (1..issued) \subseteq zoneAuth
  /\ \A p \in Clients : player'[p].loaded = player[p].loaded
  /\ \A c \in Clients : StaysOut(c) \/ Alike(c)
  /\ client' \in [Clients -> Client] /\ player' \in [Clients -> Player]
  /\ saving' \in BOOLEAN

LEMMA OrdinaryIInv ==
  ASSUME IInv, Ordinary
  PROVE  IInv'
<1> USE LoginAssumption DEF IInv, Ordinary
<1>0. /\ \A c \in Clients : client[c].player \in Clients
      /\ \A c \in Clients : Admitted(c)' => Admitted(c) /\ Alike(c)
      /\ \A c \in Clients : Admitted(c) => Admitted(c)' /\ Alike(c)
      /\ \A c \in Clients : InHand(c)' => InHand(c) /\ Alike(c)
      /\ \A c \in Clients : Swapping(c)' => Swapping(c) /\ Alike(c)
      /\ \A c \in Clients : Playing(c)' => Playing(c)
  <2>1. \A c \in Clients : client[c].player \in Clients
    BY DEF TypeOK, Client
  <2>2. ASSUME NEW c \in Clients, StaysOut(c)
        PROVE  ~Admitted(c) /\ ~Admitted(c)' /\ ~InHand(c)' /\ ~Swapping(c)' /\ ~Playing(c)'
    BY <2>2 DEF StaysOut, Outside, Admitted, InHand, Swapping, Playing
  <2>3. ASSUME NEW c \in Clients, Alike(c)
        PROVE  /\ Admitted(c)' <=> Admitted(c)
               /\ InHand(c)' => InHand(c)
               /\ Swapping(c)' => Swapping(c)
               /\ Playing(c)' => Playing(c)
    BY <2>3 DEF Alike, Admitted, InHand, Swapping, Playing
  <2>. QED  BY <2>1, <2>2, <2>3
<1>1. TypeOK'
  BY DEF TypeOK, Keys
<1>2. FoundIsLive'
  BY <1>0 DEF FoundIsLive, Admitted, Alike, PlayerOf, TypeOK, NoClient
<1>3. PlayingIsFound'
  BY <1>0 DEF PlayingIsFound
<1>4. KeyAdmitsOnce'
  BY <1>0 DEF KeyAdmitsOnce, Alike
<1>5. OneInHand'
  BY <1>0 DEF OneInHand
<1>6. KeysOK'
  BY <1>0 DEF KeysOK, Alike, TypeOK
<1>7. SwapOK'
  BY <1>0 DEF SwapOK, Alike, PlayerOf
<1>8. ZoneOK'
  BY <1>0 DEF ZoneOK, StaysOut, Alike, PlayerOf
<1>. QED  BY <1>1, <1>2, <1>3, <1>4, <1>5, <1>6, <1>7, <1>8

LEMMA InitIInv == Init => IInv
<1> SUFFICES ASSUME Init PROVE IInv
  OBVIOUS
<1> USE LoginAssumption DEF Init
<1>1. TypeOK
  <2>1. \A c \in Clients : NewClient(c) \in Client
    BY DEF Client, NewClient
  <2>2. NewPlayer \in Player
    BY DEF Player, NewPlayer
  <2>3. client \in [Clients -> Client] /\ player \in [Clients -> Player]
    BY <2>1, <2>2
  <2>4. /\ found \in Clients \cup {NoClient} /\ byName \in Clients \cup {NoClient}
        /\ zoneAuth \subseteq Keys /\ issued \in 0..MaxKeys /\ saving \in BOOLEAN
    <3>1. 0 \in 0..MaxKeys
      BY LoginAssumption
    <3>. QED  BY <3>1
  <2> HIDE DEF Init
  <2>. QED  BY <2>3, <2>4 DEF TypeOK
<1>2. FoundIsLive /\ PlayingIsFound /\ KeyAdmitsOnce
  BY DEF FoundIsLive, PlayingIsFound, KeyAdmitsOnce, Playing, Admitted, NewClient, NoClient
<1>3. OneInHand /\ KeysOK /\ SwapOK /\ ZoneOK
  BY DEF OneInHand, KeysOK, SwapOK, ZoneOK, InHand, Swapping, Admitted, NewClient
<1>. QED  BY <1>1, <1>2, <1>3 DEF IInv

\* One client, or one player, is changed.
LEMMA OneClient ==
  ASSUME TypeOK, NEW c \in Clients, NEW r \in Client, client' = [client EXCEPT ![c] = r]
  PROVE  /\ client' \in [Clients -> Client]
         /\ client'[c] = r
         /\ \A d \in Clients : d # c => client'[d] = client[d]
BY DEF TypeOK

LEMMA OnePlayer ==
  ASSUME TypeOK, NEW p \in Clients, NEW r \in Player, player' = [player EXCEPT ![p] = r]
  PROVE  /\ player' \in [Clients -> Player]
         /\ player'[p] = r
         /\ \A q \in Clients : q # p => player'[q] = player[q]
BY DEF TypeOK

\* A step that changes one client, and no more than is Ordinary.
LEMMA OneClientOrdinary ==
  ASSUME IInv, NEW c \in Clients, client' \in [Clients -> Client],
         \A d \in Clients : d # c => client'[d] = client[d],
         StaysOut(c) \/ Alike(c),
         player' \in [Clients -> Player],
         \A p \in Clients : player'[p].loaded = player[p].loaded,
         saving' \in BOOLEAN,
         UNCHANGED <<found, byName, zoneAuth, issued>>
  PROVE  Ordinary
<1>1. \A d \in Clients : d # c => Alike(d)
  BY DEF Alike
<1>2. issued' \in issued..MaxKeys /\ zoneAuth' \subseteq 1..issued'
  BY LoginAssumption DEF IInv, KeysOK, TypeOK
<1>. QED  BY <1>1, <1>2 DEF Ordinary

-----------------------------------------------------------------------------
(* The connection, the packets and the zone's thread *)

LEMMA ConnectOrdinary ==
  ASSUME IInv, NEW c \in Clients, Connect(c)
  PROVE  Ordinary
<1>1. client[c] \in Client /\ client[c].player \in Clients
  BY DEF IInv, TypeOK, Client
<1>2. client' \in [Clients -> Client]
  BY <1>1 DEF Connect, IInv, TypeOK, Client, Playing, Disconnected, Deleted, NewClient
<1>3. \A d \in Clients : d # c => client'[d] = client[d]
  BY DEF Connect, IInv, TypeOK
<1>4. StaysOut(c) \/ Alike(c)
  BY <1>1 DEF Connect, IInv, TypeOK, StaysOut, Outside, Admitted, Alike, Playing, Disconnected, Deleted, NewClient
<1>5. player' \in [Clients -> Player] /\ \A p \in Clients : player'[p].loaded = player[p].loaded
  BY <1>1 DEF Connect, IInv, TypeOK, Player, PlayerOf
<1>6. saving' \in BOOLEAN
  BY <1>1 DEF Connect, IInv, TypeOK, Saves, Client
<1>7. UNCHANGED <<found, byName, zoneAuth, issued>>
  BY DEF Connect
<1>. QED  BY <1>2, <1>3, <1>4, <1>5, <1>6, <1>7, OneClientOrdinary

LEMMA DropOrdinary ==
  ASSUME IInv, NEW c \in Clients, Drop(c)
  PROVE  Ordinary
<1>1. client[c] \in Client /\ client[c].player \in Clients
  BY DEF IInv, TypeOK, Client
<1>2. client' \in [Clients -> Client]
  BY <1>1 DEF Drop, IInv, TypeOK, Client, Playing, Disconnected, Deleted, NewClient
<1>3. \A d \in Clients : d # c => client'[d] = client[d]
  BY DEF Drop, IInv, TypeOK
<1>4. StaysOut(c) \/ Alike(c)
  BY <1>1 DEF Drop, IInv, TypeOK, StaysOut, Outside, Admitted, Alike, Playing, Disconnected, Deleted, NewClient
<1>5. player' \in [Clients -> Player] /\ \A p \in Clients : player'[p].loaded = player[p].loaded
  BY <1>1 DEF Drop, IInv, TypeOK, Player, PlayerOf
<1>6. saving' \in BOOLEAN
  BY <1>1 DEF Drop, IInv, TypeOK, Saves, Client
<1>7. UNCHANGED <<found, byName, zoneAuth, issued>>
  BY DEF Drop
<1>. QED  BY <1>2, <1>3, <1>4, <1>5, <1>6, <1>7, OneClientOrdinary

LEMMA GiveUpStreamOrdinary ==
  ASSUME IInv, NEW c \in Clients, GiveUpStream(c)
  PROVE  Ordinary
<1>1. client[c] \in Client /\ client[c].player \in Clients
  BY DEF IInv, TypeOK, Client
<1>2. client' \in [Clients -> Client]
  BY <1>1 DEF GiveUpStream, IInv, TypeOK, Client, Playing, Disconnected, Deleted, NewClient
<1>3. \A d \in Clients : d # c => client'[d] = client[d]
  BY DEF GiveUpStream, IInv, TypeOK
<1>4. StaysOut(c) \/ Alike(c)
  BY <1>1 DEF GiveUpStream, IInv, TypeOK, StaysOut, Outside, Admitted, Alike, Playing, Disconnected, Deleted, NewClient
<1>5. player' \in [Clients -> Player] /\ \A p \in Clients : player'[p].loaded = player[p].loaded
  BY <1>1 DEF GiveUpStream, IInv, TypeOK, Player, PlayerOf
<1>6. saving' \in BOOLEAN
  BY <1>1 DEF GiveUpStream, IInv, TypeOK, Saves, Client
<1>7. UNCHANGED <<found, byName, zoneAuth, issued>>
  BY DEF GiveUpStream
<1>. QED  BY <1>2, <1>3, <1>4, <1>5, <1>6, <1>7, OneClientOrdinary

LEMMA LobbyDropOrdinary ==
  ASSUME IInv, NEW c \in Clients, LobbyDrop(c)
  PROVE  Ordinary
<1>1. client[c] \in Client /\ client[c].player \in Clients
  BY DEF IInv, TypeOK, Client
<1>2. client' \in [Clients -> Client]
  <2>1. Deleted(client[c]) \in Client
    <3>1. NewClient(client[c].player) \in Client
      BY <1>1, LoginAssumption DEF Client, NewClient
    <3>. QED  BY <3>1 DEF Client, Deleted
  <2>. QED  BY <2>1 DEF LobbyDrop, IInv, TypeOK
<1>3. \A d \in Clients : d # c => client'[d] = client[d]
  BY DEF LobbyDrop, IInv, TypeOK
<1>4. StaysOut(c) \/ Alike(c)
  BY <1>1 DEF LobbyDrop, IInv, TypeOK, StaysOut, Outside, Admitted, Alike, Playing, Disconnected, Deleted, NewClient
<1>5. player' \in [Clients -> Player] /\ \A p \in Clients : player'[p].loaded = player[p].loaded
  BY <1>1 DEF LobbyDrop, IInv, TypeOK, Player, PlayerOf
<1>6. saving' \in BOOLEAN
  BY <1>1 DEF LobbyDrop, IInv, TypeOK, Saves, Client
<1>7. UNCHANGED <<found, byName, zoneAuth, issued>>
  BY DEF LobbyDrop
<1>. QED  BY <1>2, <1>3, <1>4, <1>5, <1>6, <1>7, OneClientOrdinary

LEMMA BeginPreCharInfoOrdinary ==
  ASSUME IInv, NEW c \in Clients, BeginPreCharInfo(c)
  PROVE  Ordinary
<1>1. client[c] \in Client /\ client[c].player \in Clients
  BY DEF IInv, TypeOK, Client
<1>2. client' \in [Clients -> Client]
  BY <1>1 DEF BeginPreCharInfo, IInv, TypeOK, Client, Playing, Disconnected, Deleted, NewClient
<1>3. \A d \in Clients : d # c => client'[d] = client[d]
  BY DEF BeginPreCharInfo, IInv, TypeOK
<1>4. StaysOut(c) \/ Alike(c)
  BY <1>1 DEF BeginPreCharInfo, IInv, TypeOK, StaysOut, Outside, Admitted, Alike, Playing, Disconnected, Deleted, NewClient
<1>5. player' \in [Clients -> Player] /\ \A p \in Clients : player'[p].loaded = player[p].loaded
  BY <1>1 DEF BeginPreCharInfo, IInv, TypeOK, Player, PlayerOf
<1>6. saving' \in BOOLEAN
  BY <1>1 DEF BeginPreCharInfo, IInv, TypeOK, Saves, Client
<1>7. UNCHANGED <<found, byName, zoneAuth, issued>>
  BY DEF BeginPreCharInfo
<1>. QED  BY <1>2, <1>3, <1>4, <1>5, <1>6, <1>7, OneClientOrdinary

LEMMA EnterWorldOrdinary ==
  ASSUME IInv, NEW c \in Clients, EnterWorld(c)
  PROVE  Ordinary
<1>1. client[c] \in Client /\ client[c].player \in Clients
  BY DEF IInv, TypeOK, Client
<1>2. client' \in [Clients -> Client]
  BY <1>1 DEF EnterWorld, IInv, TypeOK, Client, Playing, Disconnected, Deleted, NewClient
<1>3. \A d \in Clients : d # c => client'[d] = client[d]
  BY DEF EnterWorld, IInv, TypeOK
<1>4. StaysOut(c) \/ Alike(c)
  BY <1>1 DEF EnterWorld, IInv, TypeOK, StaysOut, Outside, Admitted, Alike, Playing, Disconnected, Deleted, NewClient
<1>5. player' \in [Clients -> Player] /\ \A p \in Clients : player'[p].loaded = player[p].loaded
  BY <1>1 DEF EnterWorld, IInv, TypeOK, Player, PlayerOf
<1>6. saving' \in BOOLEAN
  BY <1>1 DEF EnterWorld, IInv, TypeOK, Saves, Client
<1>7. UNCHANGED <<found, byName, zoneAuth, issued>>
  BY DEF EnterWorld
<1>. QED  BY <1>2, <1>3, <1>4, <1>5, <1>6, <1>7, OneClientOrdinary

LEMMA StandOrdinary ==
  ASSUME IInv, NEW c \in Clients, Stand(c)
  PROVE  Ordinary
<1>1. client[c] \in Client /\ client[c].player \in Clients
  BY DEF IInv, TypeOK, Client
<1>2. client' \in [Clients -> Client]
  BY <1>1 DEF Stand, IInv, TypeOK, Client, Playing, Disconnected, Deleted, NewClient
<1>3. \A d \in Clients : d # c => client'[d] = client[d]
  BY DEF Stand, IInv, TypeOK
<1>4. StaysOut(c) \/ Alike(c)
  BY <1>1 DEF Stand, IInv, TypeOK, StaysOut, Outside, Admitted, Alike, Playing, Disconnected, Deleted, NewClient
<1>5. player' \in [Clients -> Player] /\ \A p \in Clients : player'[p].loaded = player[p].loaded
  BY <1>1 DEF Stand, IInv, TypeOK, Player, PlayerOf
<1>6. saving' \in BOOLEAN
  BY <1>1 DEF Stand, IInv, TypeOK, Saves, Client
<1>7. UNCHANGED <<found, byName, zoneAuth, issued>>
  BY DEF Stand
<1>. QED  BY <1>2, <1>3, <1>4, <1>5, <1>6, <1>7, OneClientOrdinary

LEMMA ReadyToZoneOrdinary ==
  ASSUME IInv, NEW c \in Clients, ReadyToZone(c)
  PROVE  Ordinary
<1>1. client[c] \in Client /\ client[c].player \in Clients
  BY DEF IInv, TypeOK, Client
<1>2. client' \in [Clients -> Client]
  BY <1>1 DEF ReadyToZone, IInv, TypeOK, Client, Playing, Disconnected, Deleted, NewClient
<1>3. \A d \in Clients : d # c => client'[d] = client[d]
  BY DEF ReadyToZone, IInv, TypeOK
<1>4. StaysOut(c) \/ Alike(c)
  BY <1>1 DEF ReadyToZone, IInv, TypeOK, StaysOut, Outside, Admitted, Alike, Playing, Disconnected, Deleted, NewClient
<1>5. player' \in [Clients -> Player] /\ \A p \in Clients : player'[p].loaded = player[p].loaded
  BY <1>1 DEF ReadyToZone, IInv, TypeOK, Player, PlayerOf
<1>6. saving' \in BOOLEAN
  BY <1>1 DEF ReadyToZone, IInv, TypeOK, Saves, Client
<1>7. UNCHANGED <<found, byName, zoneAuth, issued>>
  BY DEF ReadyToZone
<1>. QED  BY <1>2, <1>3, <1>4, <1>5, <1>6, <1>7, OneClientOrdinary

LEMMA SaveClientOrdinary ==
  ASSUME IInv, NEW c \in Clients, SaveClient(c)
  PROVE  Ordinary
<1>1. client[c] \in Client /\ client[c].player \in Clients
  BY DEF IInv, TypeOK, Client
<1>2. client' \in [Clients -> Client]
  BY <1>1 DEF SaveClient, IInv, TypeOK, Client, Playing, Disconnected, Deleted, NewClient
<1>3. \A d \in Clients : d # c => client'[d] = client[d]
  BY DEF SaveClient, IInv, TypeOK
<1>4. StaysOut(c) \/ Alike(c)
  BY <1>1 DEF SaveClient, IInv, TypeOK, StaysOut, Outside, Admitted, Alike, Playing, Disconnected, Deleted, NewClient
<1>5. player' \in [Clients -> Player] /\ \A p \in Clients : player'[p].loaded = player[p].loaded
  BY <1>1 DEF SaveClient, IInv, TypeOK, Player, PlayerOf
<1>6. saving' \in BOOLEAN
  BY <1>1 DEF SaveClient, IInv, TypeOK, Saves, Client
<1>7. UNCHANGED <<found, byName, zoneAuth, issued>>
  BY DEF SaveClient
<1>. QED  BY <1>2, <1>3, <1>4, <1>5, <1>6, <1>7, OneClientOrdinary

LEMMA CampOrdinary ==
  ASSUME IInv, NEW c \in Clients, Camp(c)
  PROVE  Ordinary
<1>1. client[c] \in Client /\ client[c].player \in Clients
  BY DEF IInv, TypeOK, Client
<1>2. PICK r \in {[client[c] EXCEPT !.campTimer = TRUE],
                  [Disconnected(client[c]) EXCEPT !.campTimer = TRUE]} :
        client' = [client EXCEPT ![c] = r]
  BY DEF Camp, IInv, TypeOK
<1>3. r \in Client
  BY <1>1 DEF Client, Disconnected
<1>4. /\ client' \in [Clients -> Client] /\ client'[c] = r
      /\ \A d \in Clients : d # c => client'[d] = client[d]
  BY <1>2, <1>3, OneClient DEF IInv
<1>5. Alike(c)
  BY <1>1, <1>4 DEF Camp, Playing, Alike, Disconnected, Client
<1>6. player' \in [Clients -> Player] /\ \A p \in Clients : player'[p].loaded = player[p].loaded
  <2>1. player \in [Clients -> Player] /\ PlayerOf(c) \in Clients
    BY <1>1 DEF IInv, TypeOK, PlayerOf
  <2>2. player' = [player EXCEPT ![PlayerOf(c)] = [player[PlayerOf(c)] EXCEPT !.camping = TRUE]]
    BY DEF Camp
  <2>3. /\ [player[PlayerOf(c)] EXCEPT !.camping = TRUE] \in Player
        /\ [player[PlayerOf(c)] EXCEPT !.camping = TRUE].loaded = player[PlayerOf(c)].loaded
    BY <2>1 DEF Player
  <2>. QED  BY <2>1, <2>2, <2>3
<1>7. saving' \in BOOLEAN
  BY <1>1 DEF Camp, IInv, TypeOK, Saves, Client
<1>. QED  BY <1>4, <1>5, <1>6, <1>7, OneClientOrdinary DEF Camp

\* Where Process has failed, the client is removed or goes linkdead.
LEMMA ClientFailedOrdinary ==
  ASSUME IInv, NEW c \in Clients, NEW record \in Client, NEW p \in Player,
         client[c].stage = "zone",
         record.stage = "zone", record.stream # "up",
         record.key = client[c].key, record.player = client[c].player,
         record.saveOff = client[c].saveOff, record.hasZone = client[c].hasZone,
         p.loaded = player[PlayerOf(c)].loaded,
         ClientFailed(c, record, p),
         UNCHANGED <<found, byName, zoneAuth, issued>>
  PROVE  Ordinary
<1>1. client[c] \in Client /\ PlayerOf(c) \in Clients
  BY DEF IInv, TypeOK, Client, PlayerOf
<1>2. PICK r \in {Removed(record),
                  [record EXCEPT !.stream = IF p.camping \/ record.linkdeadTimer THEN @ ELSE "null",
                                 !.linkdeadTimer = TRUE]} :
        client' = [client EXCEPT ![c] = r]
  BY DEF ClientFailed, Remove
<1>3. r \in Client /\ r.stream # "up" /\ r.stage \in {"zone", "removed"}
  BY DEF Client, Removed, Disconnected
<1>4. /\ r.key = client[c].key /\ r.player = client[c].player
      /\ r.saveOff = client[c].saveOff /\ r.hasZone = client[c].hasZone
  BY DEF Client, Removed, Disconnected
<1>5. /\ client' \in [Clients -> Client] /\ client'[c] = r
      /\ \A d \in Clients : d # c => client'[d] = client[d]
  BY <1>2, <1>3, OneClient DEF IInv
<1>6. Alike(c)
  BY <1>3, <1>4, <1>5 DEF Alike
<1>7. PICK q \in {p, [p EXCEPT !.linkdead = TRUE]} :
        player' = [player EXCEPT ![PlayerOf(c)] = q]
  BY DEF ClientFailed, Remove
<1>8. q \in Player /\ q.loaded = player[PlayerOf(c)].loaded
  BY DEF Player
<1>9. player' \in [Clients -> Player] /\ \A x \in Clients : player'[x].loaded = player[x].loaded
  BY <1>1, <1>7, <1>8, OnePlayer DEF IInv
<1>10. saving' \in BOOLEAN
  BY <1>1 DEF ClientFailed, Remove, Saves, Client, IInv, TypeOK
<1>. QED  BY <1>5, <1>6, <1>9, <1>10, OneClientOrdinary

LEMMA ProcessFailsOrdinary ==
  ASSUME IInv, NEW c \in Clients, ProcessFails(c)
  PROVE  Ordinary
<1>1. client[c] \in Client /\ player[PlayerOf(c)] \in Player
  BY DEF IInv, TypeOK, Client, PlayerOf
<1>. QED  BY <1>1, ClientFailedOrdinary DEF ProcessFails

LEMMA TimerExpiresOrdinary ==
  ASSUME IInv, NEW c \in Clients, TimerExpires(c)
  PROVE  Ordinary
<1> DEFINE record == [Closed(client[c]) EXCEPT !.campTimer = FALSE, !.linkdeadTimer = FALSE]
           p == IF client[c].linkdeadTimer
                THEN [player[PlayerOf(c)] EXCEPT !.linkdead = FALSE, !.camping = TRUE]
                ELSE player[PlayerOf(c)]
<1>1. client[c] \in Client /\ PlayerOf(c) \in Clients /\ player[PlayerOf(c)] \in Player
  BY DEF IInv, TypeOK, Client, PlayerOf
<1>2. /\ record \in Client
      /\ record.stage = client[c].stage /\ record.stream # "up"
      /\ record.key = client[c].key /\ record.player = client[c].player
      /\ record.saveOff = client[c].saveOff /\ record.hasZone = client[c].hasZone
  BY <1>1 DEF Client, Closed
<1>3. p \in Player /\ p.loaded = player[PlayerOf(c)].loaded
  BY <1>1 DEF Player
<1>4. /\ client[c].stage = "zone"
      /\ \/ ClientFailed(c, record, p)
         \/ /\ client' = [client EXCEPT ![c] = record]
            /\ player' = [player EXCEPT ![PlayerOf(c)] = p]
            /\ UNCHANGED saving
      /\ UNCHANGED <<found, byName, zoneAuth, issued>>
  BY DEF TimerExpires
<1> HIDE DEF record, p
<1>5. CASE ClientFailed(c, record, p)
  BY <1>2, <1>3, <1>4, <1>5, ClientFailedOrdinary
<1>6. CASE /\ client' = [client EXCEPT ![c] = record]
           /\ player' = [player EXCEPT ![PlayerOf(c)] = p]
           /\ UNCHANGED saving
  <2>1. /\ client' \in [Clients -> Client] /\ client'[c] = record
        /\ \A d \in Clients : d # c => client'[d] = client[d]
    BY <1>2, <1>6, OneClient DEF IInv
  <2>2. Alike(c)
    BY <1>2, <2>1 DEF Alike
  <2>3. player' \in [Clients -> Player] /\ \A x \in Clients : player'[x].loaded = player[x].loaded
    BY <1>1, <1>3, <1>6, OnePlayer DEF IInv
  <2>. QED  BY <1>4, <1>6, <2>1, <2>2, <2>3, OneClientOrdinary DEF IInv, TypeOK
<1>. QED  BY <1>4, <1>5, <1>6

\* A new key is no key that was given out before.
LEMMA AddAuthOrdinary ==
  ASSUME IInv, NEW old, AddAuth(old),
         client' \in [Clients -> Client], \A c \in Clients : Alike(c),
         UNCHANGED <<player, found, byName>>, saving' \in BOOLEAN
  PROVE  Ordinary
<1>1. issued \in Nat /\ zoneAuth \subseteq 1..issued /\ MaxKeys \in Nat
  BY LoginAssumption DEF IInv, KeysOK, TypeOK
<1>2. issued' \in issued..MaxKeys /\ zoneAuth' \subseteq 1..issued'
  <2>1. issued' = issued + 1 /\ issued < MaxKeys /\ zoneAuth' \subseteq zoneAuth \cup {issued + 1}
    BY DEF AddAuth
  <2>2. zoneAuth' \subseteq 1..(issued + 1)
    BY <1>1, <2>1
  <2>. QED  BY <1>1, <2>1, <2>2
<1>3. zoneAuth' \cap (1..issued) \subseteq zoneAuth
  BY <1>1 DEF AddAuth
<1>. QED  BY <1>2, <1>3 DEF Ordinary, IInv, TypeOK

LEMMA UserToWorldOrdinary ==
  ASSUME IInv, NEW privileged \in BOOLEAN, UserToWorld(privileged)
  PROVE  Ordinary
<1>1. PICK old \in SUBSET zoneAuth : AddAuth(old)
  BY DEF UserToWorld
<1>2. \A c \in Clients : Alike(c)
  BY DEF UserToWorld, Alike
<1>. QED  BY <1>1, <1>2, AddAuthOrdinary DEF UserToWorld, IInv, TypeOK

LEMMA ZoneOrdinary ==
  ASSUME IInv, NEW c \in Clients, Zone(c)
  PROVE  Ordinary
<1>1. client[c] \in Client
  BY DEF IInv, TypeOK
<1>2. client' \in [Clients -> Client]
  BY <1>1 DEF Zone, IInv, TypeOK, Client
<1>3. \A d \in Clients : Alike(d)
  BY <1>1 DEF Zone, IInv, TypeOK, Alike
<1>4. saving' \in BOOLEAN
  BY <1>1 DEF Zone, IInv, TypeOK, Saves, Client
<1>. QED  BY <1>2, <1>3, <1>4, AddAuthOrdinary DEF Zone

LEMMA WrittenOrdinary ==
  ASSUME IInv, Written \/ UNCHANGED vars
  PROVE  Ordinary
<1>1. \A c \in Clients : Alike(c)
  BY DEF Written, vars, Alike
<1>2. issued' \in issued..MaxKeys /\ zoneAuth' \subseteq 1..issued'
  <2>1. issued' = issued /\ zoneAuth' = zoneAuth
    BY DEF Written, vars
  <2>. QED  BY <2>1, LoginAssumption DEF IInv, KeysOK, TypeOK
<1>. QED  BY <1>1, <1>2 DEF Ordinary, IInv, TypeOK, Written, vars

-----------------------------------------------------------------------------
(* HandleNewLogin *)

\* Who is in the lobby may be looked up: at most one login is in hand.
LEMMA CheckLoginIInv ==
  ASSUME IInv, NEW c \in Clients, NEW k \in 0..MaxKeys, CheckLogin(c, k),
         MainThreadIdle, client[c].stage \in {"lobby", "delayed"}
  PROVE  IInv'
<1>1. client[c] \in Client /\ (k \in zoneAuth => k \in 1..issued)
  BY DEF IInv, TypeOK, KeysOK
<1>2. PICK s \in {"deleted", "delayed", "checked"} :
        /\ client' = [client EXCEPT ![c].key = k, ![c].stage = s]
        /\ s = "checked" => k \in zoneAuth
  BY DEF CheckLogin
<1> DEFINE r == [client[c] EXCEPT !.key = k, !.stage = s]
<1>3. r \in Client /\ r.key = k /\ r.stage = s
  BY <1>1 DEF Client
<1>4. r.player = client[c].player /\ r.hasZone = client[c].hasZone /\ r.saveOff = client[c].saveOff
  BY <1>1 DEF Client
<1>5. client' = [client EXCEPT ![c] = r]
  BY <1>1, <1>2 DEF IInv, TypeOK, Client
<1> HIDE DEF r
<1>6. /\ client' \in [Clients -> Client] /\ client'[c] = r
      /\ \A d \in Clients : d # c => client'[d] = client[d]
  BY <1>3, <1>5, OneClient DEF IInv
<1>7. UNCHANGED <<player, found, byName, zoneAuth, issued, saving>>
  BY DEF CheckLogin
<1>8. CASE s # "checked"
  <2>1. StaysOut(c)
    BY <1>3, <1>4, <1>6, <1>8 DEF StaysOut, Outside, Admitted
  <2>2. Ordinary
    BY <1>6, <1>7, <2>1, OneClientOrdinary DEF IInv, TypeOK
  <2>. QED  BY <2>2, OrdinaryIInv
<1>9. CASE s = "checked"
  <2>1. k \in zoneAuth /\ k \in 1..issued
    BY <1>1, <1>2, <1>9
  <2>2. \A d \in Clients : ~InHand(d) /\ ~Swapping(d)
    BY DEF MainThreadIdle, InHand, Swapping
  <2>3. /\ \A d \in Clients : Admitted(d)' <=> Admitted(d)
        /\ \A d \in Clients : Admitted(d)' => d # c /\ client'[d] = client[d]
        /\ \A d \in Clients : InHand(d)' => d = c
        /\ \A d \in Clients : ~Swapping(d)'
        /\ \A d \in Clients : Playing(d)' => Playing(d)
    BY <1>3, <1>6, <1>9, <2>2 DEF Admitted, InHand, Swapping, Playing
  <2>4. TypeOK'
    BY <1>6, <1>7 DEF IInv, TypeOK
  <2>5. FoundIsLive'
    BY <1>6, <1>7 DEF IInv, FoundIsLive, PlayerOf, TypeOK, NoClient
  <2>6. PlayingIsFound' /\ KeyAdmitsOnce' /\ OneInHand' /\ SwapOK'
    BY <1>7, <2>3 DEF IInv, PlayingIsFound, KeyAdmitsOnce, OneInHand, SwapOK
  <2>7. KeysOK'
    BY <1>3, <1>6, <1>7, <2>1, <2>3 DEF IInv, KeysOK
  <2>8. ZoneOK'
    BY <1>4, <1>6, <1>7 DEF IInv, ZoneOK, PlayerOf
  <2>. QED  BY <2>4, <2>5, <2>6, <2>7, <2>8 DEF IInv
<1>. QED  BY <1>8, <1>9

LEMMA LoginIInv ==
  ASSUME IInv, NEW c \in Clients, LoginByNumRequest(c) \/ RetryLogin(c)
  PROVE  IInv'
<1>1. CASE LoginByNumRequest(c)
  <2>1. PICK k \in 1..issued : CheckLogin(c, k)
    BY <1>1 DEF LoginByNumRequest
  <2>2. k \in 0..MaxKeys
    BY <2>1, LoginAssumption DEF IInv, TypeOK
  <2>. QED  BY <1>1, <2>1, <2>2, CheckLoginIInv DEF LoginByNumRequest
<1>2. CASE RetryLogin(c)
  <2>1. client[c].key \in 0..MaxKeys
    BY DEF IInv, TypeOK, Client
  <2>. QED  BY <1>2, <2>1, CheckLoginIInv DEF RetryLogin
<1>. QED  BY <1>1, <1>2

\* A new client is let in: what is left of the others no longer plays.
Entered(c) ==
  /\ InHand(c) /\ client'[c].stage = "zone"
  /\ client'[c].key = client[c].key
  /\ player'[client'[c].player].loaded
  /\ byName' = c /\ found' \in {found, NoClient}
  /\ zoneAuth' = zoneAuth \ {client[c].key} /\ issued' = issued
  /\ client' \in [Clients -> Client] /\ player' \in [Clients -> Player]
  /\ saving' \in BOOLEAN
  /\ \A p \in Clients : player[p].loaded => player'[p].loaded
  /\ \A d \in Clients : d # c => StaysOut(d) \/ Alike(d)
  /\ \A d \in Clients : d # c => ~Playing(d)'

LEMMA EnteredIInv ==
  ASSUME IInv, NEW c \in Clients, Entered(c)
  PROVE  IInv'
<1> USE DEF IInv, Entered
<1>1. /\ \A d \in Clients : d # c => ~InHand(d)
      /\ \A d \in Clients : d # c => ~InHand(d)' /\ ~Swapping(d)'
  <2>1. \A d \in Clients : d # c => ~InHand(d)
    BY DEF OneInHand
  <2>. QED  BY <2>1 DEF InHand, Swapping, StaysOut, Outside, Alike
<1>2. ~InHand(c)' /\ ~Swapping(c)' /\ Admitted(c)' /\ ~Admitted(c)
  BY DEF InHand, Swapping, Admitted
<1>3. \A d \in Clients : d # c => (Admitted(d)' <=> Admitted(d)) /\ (Admitted(d) => Alike(d))
  BY DEF Admitted, StaysOut, Outside, Alike
<1>4. TypeOK'
  BY DEF TypeOK
<1>5. FoundIsLive'
  BY DEF FoundIsLive, PlayerOf
<1>6. PlayingIsFound'
  BY DEF PlayingIsFound
<1>7. KeyAdmitsOnce' /\ KeysOK'
  <2>1. \A d \in Clients : d # c /\ Admitted(d)' =>
          client'[d].key = client[d].key /\ client[d].key # client[c].key
    BY <1>3 DEF KeysOK, Alike
  <2>2. KeyAdmitsOnce'
    BY <1>3, <2>1 DEF KeyAdmitsOnce
  <2>3. KeysOK'
    BY <1>1, <1>2, <1>3, <2>1 DEF KeysOK
  <2>. QED  BY <2>2, <2>3
<1>8. OneInHand' /\ SwapOK'
  BY <1>1, <1>2 DEF OneInHand, SwapOK
<1>9. ZoneOK'
  <2>1. \A d \in Clients : client[d].player \in Clients
    BY DEF TypeOK, Client
  <2>. QED  BY <2>1 DEF ZoneOK, PlayerOf, StaysOut, Alike
<1>. QED  BY <1>4, <1>5, <1>6, <1>7, <1>8, <1>9

\* How a client enters, of which all ways end in InZone.
LEMMA InZoneClient ==
  ASSUME NEW r \in Client
  PROVE  /\ InZone(r) \in Client /\ InZone(r).stage = "zone"
         /\ InZone(r).key = r.key /\ InZone(r).player = r.player
BY DEF InZone, Client

LEMMA ClosedClient ==
  ASSUME NEW r \in Client
  PROVE  /\ Closed(r) \in Client /\ Closed(r).stream # "up"
         /\ Closed(r).stage = r.stage /\ Closed(r).key = r.key /\ Closed(r).player = r.player
         /\ Closed(r).saveOff = r.saveOff /\ Closed(r).hasZone = r.hasZone
BY DEF Closed, Client

LEMMA EnterFreshIInv ==
  ASSUME IInv, NEW c \in Clients, EnterFresh(c)
  PROVE  IInv'
<1>1. client[c] \in Client /\ PlayerOf(c) \in Clients /\ player[PlayerOf(c)] \in Player
  BY DEF IInv, TypeOK, Client, PlayerOf
<1>2. /\ client' \in [Clients -> Client] /\ client'[c] = InZone(client[c])
      /\ \A d \in Clients : d # c => client'[d] = client[d]
  <2>1. client' = [client EXCEPT ![c] = InZone(client[c])]
    BY DEF EnterFresh, IInv, TypeOK
  <2>. QED  BY <1>1, <2>1, InZoneClient, OneClient DEF IInv
<1>3. /\ player' \in [Clients -> Player] /\ player'[PlayerOf(c)].loaded
      /\ \A p \in Clients : player[p].loaded => player'[p].loaded
  <2>1. Loaded(player[PlayerOf(c)]) \in Player /\ Loaded(player[PlayerOf(c)]).loaded
    BY <1>1 DEF Loaded, Player
  <2>2. player' = [player EXCEPT ![PlayerOf(c)] = Loaded(player[PlayerOf(c)])]
    BY DEF EnterFresh, IInv, TypeOK
  <2>. QED  BY <1>1, <2>1, <2>2, OnePlayer DEF IInv
<1>4. \A d \in Clients : ~Playing(d)
  BY DEF EnterFresh, IInv, PlayingIsFound, NoClient, Clients
<1>5. Entered(c)
  BY <1>1, <1>2, <1>3, <1>4, InZoneClient
     DEF EnterFresh, Entered, Admit, Alike, InHand, Playing, PlayerOf, IInv, TypeOK
<1>. QED  BY <1>5, EnteredIInv

\* The present client of the character, when a login finds one.
LEMMA OldClient ==
  ASSUME IInv, byName # NoClient, NEW c \in Clients, InHand(c)
  PROVE  /\ byName \in Clients /\ byName # c /\ Admitted(byName)
         /\ client[byName] \in Client /\ client[c] \in Client
         /\ PlayerOf(byName) \in Clients /\ PlayerOf(c) \in Clients
         /\ player[PlayerOf(byName)].loaded
         /\ player[PlayerOf(byName)] \in Player /\ player[PlayerOf(c)] \in Player
         /\ \A d \in Clients : d # byName => ~Playing(d)
<1>1. byName \in Clients /\ Admitted(byName) /\ player[PlayerOf(byName)].loaded
  BY DEF IInv, TypeOK, FoundIsLive, Admitted
<1>2. byName # c
  BY <1>1 DEF Admitted, InHand
<1>3. client[byName] \in Client /\ client[c] \in Client
  BY <1>1 DEF IInv, TypeOK
<1>4. PlayerOf(byName) \in Clients /\ PlayerOf(c) \in Clients
  BY <1>3 DEF PlayerOf, Client
<1>5. player[PlayerOf(byName)] \in Player /\ player[PlayerOf(c)] \in Player
  BY <1>4 DEF IInv, TypeOK
<1>6. \A d \in Clients : d # byName => ~Playing(d)
  BY DEF IInv, PlayingIsFound
<1>. QED  BY <1>1, <1>2, <1>3, <1>4, <1>5, <1>6

LEMMA FollowIInv ==
  ASSUME IInv, NEW c \in Clients, Follow(c)
  PROVE  IInv'
<1>0. InHand(c) /\ byName # NoClient
  BY DEF Follow, InHand
<1>9. PICK old \in Clients : old = byName
  BY <1>0, OldClient
<1>1. /\ client' = [client EXCEPT ![c] = InZone(@), ![old] = Closed(@)]
      /\ player' = [player EXCEPT ![PlayerOf(c)] = Loaded(@)]
      /\ Admit(c) /\ UNCHANGED <<found, saving>>
  BY <1>9 DEF Follow
<1>2. /\ old \in Clients /\ old # c /\ client[old] \in Client /\ client[c] \in Client
      /\ PlayerOf(c) \in Clients /\ player[PlayerOf(c)] \in Player
      /\ \A d \in Clients : d # old => ~Playing(d)
  BY <1>0, <1>9, OldClient
<1>3. /\ client' \in [Clients -> Client] /\ client'[c] = InZone(client[c])
      /\ client'[old] = Closed(client[old])
      /\ \A d \in Clients \ {c, old} : client'[d] = client[d]
  <2>1. client \in [Clients -> Client] /\ InZone(client[c]) \in Client /\ Closed(client[old]) \in Client
    BY <1>2, InZoneClient, ClosedClient DEF IInv, TypeOK
  <2>2. client' = [client EXCEPT ![c] = InZone(client[c]), ![old] = Closed(client[old])]
    BY <1>1, <1>2, <2>1
  <2>. QED  BY <1>2, <2>1, <2>2
<1>4. /\ player' \in [Clients -> Player] /\ player'[PlayerOf(c)].loaded
      /\ \A p \in Clients : player[p].loaded => player'[p].loaded
  <2>1. Loaded(player[PlayerOf(c)]) \in Player /\ Loaded(player[PlayerOf(c)]).loaded
    BY <1>2 DEF Loaded, Player
  <2>2. player' = [player EXCEPT ![PlayerOf(c)] = Loaded(player[PlayerOf(c)])]
    BY <1>1, <1>2 DEF IInv, TypeOK
  <2>. QED  BY <1>2, <2>1, <2>2, OnePlayer DEF IInv
<1>5. \A d \in Clients : d # c => Alike(d) /\ ~Playing(d)'
  <2>1. Alike(old) /\ ~Playing(old)'
    BY <1>2, <1>3, ClosedClient DEF Alike, Playing
  <2>2. \A d \in Clients \ {c, old} : Alike(d) /\ ~Playing(d)'
    BY <1>2, <1>3 DEF Alike, Playing
  <2>. QED  BY <2>1, <2>2
<1>6. Entered(c)
  BY <1>0, <1>1, <1>2, <1>3, <1>4, <1>5, InZoneClient
     DEF Entered, Admit, PlayerOf, IInv, TypeOK
<1>. QED  BY <1>6, EnteredIInv

LEMMA SupersedeIInv ==
  ASSUME IInv, NEW c \in Clients, Supersede(c)
  PROVE  IInv'
<1>0. InHand(c) /\ byName # NoClient
  BY DEF Supersede, InHand
<1>9. PICK old \in Clients : old = byName
  BY <1>0, OldClient
<1> DEFINE r == [Disconnected(client[old]) EXCEPT !.listed = FALSE]
           p == [player[PlayerOf(old)] EXCEPT !.linkdead = FALSE, !.camping = TRUE]
<1>1. /\ client' = [client EXCEPT ![c] = InZone(@), ![old] = [Disconnected(@) EXCEPT !.listed = FALSE]]
      /\ player' = [player EXCEPT
           ![PlayerOf(old)] = [@ EXCEPT !.linkdead = FALSE, !.camping = TRUE],
           ![PlayerOf(c)] = Loaded(@)]
      /\ saving' = (saving \/ Saves(old))
      /\ Admit(c) /\ UNCHANGED found
  BY <1>9 DEF Supersede
<1>2. /\ old \in Clients /\ old # c /\ client[old] \in Client /\ client[c] \in Client
      /\ PlayerOf(c) \in Clients /\ PlayerOf(old) \in Clients
      /\ player[PlayerOf(c)] \in Player /\ player[PlayerOf(old)] \in Player
      /\ \A d \in Clients : d # old => ~Playing(d)
  BY <1>0, <1>9, OldClient
<1>3. /\ r \in Client /\ r.stream = "null" /\ r.stage = client[old].stage
      /\ r.key = client[old].key /\ r.player = client[old].player
      /\ r.saveOff = client[old].saveOff /\ r.hasZone = client[old].hasZone
  BY <1>2 DEF Disconnected, Client
<1>4. /\ client' \in [Clients -> Client] /\ client'[c] = InZone(client[c])
      /\ client'[old] = r
      /\ \A d \in Clients \ {c, old} : client'[d] = client[d]
  <2>1. client \in [Clients -> Client] /\ InZone(client[c]) \in Client
    BY <1>2, InZoneClient DEF IInv, TypeOK
  <2>2. client' = [client EXCEPT ![c] = InZone(client[c]), ![old] = r]
    BY <1>1, <1>2, <2>1
  <2> HIDE DEF r
  <2>. QED  BY <1>2, <1>3, <2>1, <2>2
<1>5. /\ player' \in [Clients -> Player] /\ player'[PlayerOf(c)].loaded
      /\ \A x \in Clients : player[x].loaded => player'[x].loaded
  <2>1. player \in [Clients -> Player]
    BY DEF IInv, TypeOK
  <2>2. p \in Player /\ p.loaded = player[PlayerOf(old)].loaded
    BY <1>2 DEF Player
  <2>3. \A q \in Player : Loaded(q) \in Player /\ Loaded(q).loaded
    BY DEF Loaded, Player
  <2>4. PICK q \in {player[PlayerOf(c)], p} :
          player' = [player EXCEPT ![PlayerOf(old)] = p, ![PlayerOf(c)] = Loaded(q)]
    BY <1>1, <1>2, <2>1
  <2> HIDE DEF p
  <2>5. Loaded(q) \in Player /\ Loaded(q).loaded
    BY <1>2, <2>2, <2>3, <2>4
  <2>. QED  BY <1>2, <2>1, <2>2, <2>4, <2>5
<1> HIDE DEF r, p
<1>6. \A d \in Clients : d # c => Alike(d) /\ ~Playing(d)'
  <2>1. Alike(old) /\ ~Playing(old)'
    BY <1>3, <1>4 DEF Alike, Playing
  <2>2. \A d \in Clients \ {c, old} : Alike(d) /\ ~Playing(d)'
    BY <1>2, <1>4 DEF Alike, Playing
  <2>. QED  BY <2>1, <2>2
<1>7. saving' \in BOOLEAN
  BY <1>1, <1>2 DEF Saves, Client, IInv, TypeOK
<1>8. Entered(c)
  BY <1>0, <1>1, <1>2, <1>4, <1>5, <1>6, <1>7, InZoneClient
     DEF Entered, Admit, PlayerOf, IInv, TypeOK
<1>. QED  BY <1>8, EnteredIInv

LEMMA EnterResumedIInv ==
  ASSUME IInv, NEW c \in Clients, EnterResumed(c)
  PROVE  IInv'
<1>1. Swapping(c) /\ InHand(c) /\ client[c] \in Client
  BY DEF EnterResumed, Swapping, InHand, IInv, TypeOK
<1>2. player[PlayerOf(c)].loaded /\ \A d \in Clients : ~Playing(d)
  BY <1>1 DEF IInv, SwapOK
<1>3. /\ client' \in [Clients -> Client] /\ client'[c] = InZone(client[c])
      /\ \A d \in Clients : d # c => client'[d] = client[d]
  <2>1. client' = [client EXCEPT ![c] = InZone(client[c])]
    BY DEF EnterResumed, IInv, TypeOK
  <2>. QED  BY <1>1, <2>1, InZoneClient, OneClient DEF IInv
<1>4. Entered(c)
  BY <1>1, <1>2, <1>3, InZoneClient
     DEF EnterResumed, Entered, Admit, Alike, Playing, PlayerOf, IInv, TypeOK
<1>. QED  BY <1>4, EnteredIInv

\* The swap of players, step by step.  What each step keeps: the client that
\* holds the name, the keys, and the stages of all but the one logging in.
Swaps(c) ==
  /\ InHand(c) /\ Swapping(c)'
  /\ client'[c].key = client[c].key
  /\ client'[c].hasZone = client[c].hasZone /\ client'[c].saveOff = client[c].saveOff
  /\ player'[client'[c].player].loaded
  /\ found' \in Clients /\ Admitted(found') /\ client'[found'].saveOff
  /\ byName' \in {byName, NoClient} /\ (byName' # NoClient => client'[byName].player = client[byName].player)
  /\ client' \in [Clients -> Client] /\ player' \in [Clients -> Player]
  /\ \A p \in Clients : player'[p].loaded = player[p].loaded
  /\ \A d \in Clients : d # c =>
       /\ client'[d].key = client[d].key /\ client'[d].stage = client[d].stage
       /\ ~Playing(d)'
       /\ client'[d].hasZone => \/ client'[d].saveOff
                                \/ /\ client[d].hasZone
                                   /\ client'[d].player = client[d].player
                                   /\ client'[d].saveOff = client[d].saveOff
  /\ UNCHANGED <<zoneAuth, issued, saving>>

LEMMA SwapsIInv ==
  ASSUME IInv, NEW c \in Clients, Swaps(c)
  PROVE  IInv'
<1> USE DEF IInv, Swaps
<1>1. \A d \in Clients : d # c => ~InHand(d) /\ ~InHand(d)' /\ ~Swapping(d)'
  <2>1. \A d \in Clients : d # c => ~InHand(d)
    BY DEF OneInHand
  <2>. QED  BY <2>1 DEF InHand, Swapping
<1>2. /\ \A d \in Clients : Admitted(d)' <=> Admitted(d)
      /\ \A d \in Clients : Admitted(d) => d # c
      /\ \A d \in Clients : ~Playing(d)'
  BY DEF Admitted, InHand, Swapping, Playing
<1>3. TypeOK'
  BY DEF TypeOK
<1>4. FoundIsLive'
  <2> SUFFICES ASSUME byName' # NoClient
               PROVE  Admitted(byName)' /\ player'[client'[byName'].player].loaded
    BY DEF FoundIsLive, Admitted, PlayerOf
  <2>1. byName' = byName /\ byName \in Clients /\ Admitted(byName) /\ player[client[byName].player].loaded
    BY DEF FoundIsLive, Admitted, PlayerOf, TypeOK
  <2>2. client[byName].player \in Clients
    BY <2>1 DEF TypeOK, Client
  <2>3. Admitted(byName)'
    BY <1>2, <2>1 DEF Admitted
  <2>. QED  BY <2>1, <2>2, <2>3
<1>5. PlayingIsFound'
  BY <1>2 DEF PlayingIsFound
<1>6. KeyAdmitsOnce' /\ KeysOK'
  <2>1. \A d \in Clients : client'[d].key = client[d].key
    OBVIOUS
  <2>2. \A d \in Clients : InHand(d)' => InHand(d)
    BY <1>1
  <2>. QED  BY <1>2, <2>1, <2>2 DEF KeyAdmitsOnce, KeysOK
<1>7. OneInHand'
  BY <1>1 DEF OneInHand
<1>8. SwapOK'
  BY <1>1, <1>2 DEF SwapOK, PlayerOf, Admitted
<1>9. ZoneOK'
  <2>1. \A d \in Clients : client[d].player \in Clients
    BY DEF TypeOK, Client
  <2>. QED  BY <2>1 DEF ZoneOK, PlayerOf
<1>. QED  BY <1>3, <1>4, <1>5, <1>6, <1>7, <1>8, <1>9

LEMMA TakePlayerIInv ==
  ASSUME IInv, NEW c \in Clients, TakePlayer(c)
  PROVE  IInv'
<1>0. InHand(c) /\ byName # NoClient
  BY DEF TakePlayer, InHand
<1>9. PICK old \in Clients : old = byName
  BY <1>0, OldClient
<1> DEFINE r == [client[c] EXCEPT !.stage = "took", !.player = PlayerOf(old)]
           o == [Closed(client[old]) EXCEPT !.saveOff = TRUE]
           p == [player[PlayerOf(old)] EXCEPT
                   !.returning = TRUE, !.camping = FALSE, !.linkdead = FALSE]
<1>1. /\ client' = [client EXCEPT
           ![c].stage = "took", ![c].player = PlayerOf(old),
           ![old] = [Closed(@) EXCEPT !.saveOff = TRUE]]
      /\ player' = [player EXCEPT ![PlayerOf(old)] =
           IF @.returning THEN @
           ELSE [@ EXCEPT !.returning = TRUE, !.camping = FALSE, !.linkdead = FALSE]]
      /\ found' = old /\ UNCHANGED <<byName, zoneAuth, issued, saving>>
  BY <1>9 DEF TakePlayer
<1>2. /\ old \in Clients /\ old # c /\ client[old] \in Client /\ client[c] \in Client
      /\ PlayerOf(old) \in Clients /\ player[PlayerOf(old)] \in Player
      /\ player[PlayerOf(old)].loaded /\ Admitted(old)
      /\ \A d \in Clients : d # old => ~Playing(d)
  BY <1>0, <1>9, OldClient
<1>3. /\ r \in Client /\ r.stage = "took" /\ r.player = PlayerOf(old)
      /\ r.key = client[c].key /\ r.hasZone = client[c].hasZone /\ r.saveOff = client[c].saveOff
  BY <1>2 DEF Client
<1>4. /\ o \in Client /\ o.stream # "up" /\ o.saveOff
      /\ o.stage = client[old].stage /\ o.key = client[old].key /\ o.player = client[old].player
  <2> DEFINE q == Closed(client[old])
  <2>1. /\ q \in Client /\ q.stream # "up" /\ q.stage = client[old].stage
        /\ q.key = client[old].key /\ q.player = client[old].player
    BY <1>2, ClosedClient
  <2> HIDE DEF q
  <2>. QED  BY <2>1 DEF Client, q
<1>5. /\ client' \in [Clients -> Client] /\ client'[c] = r /\ client'[old] = o
      /\ \A d \in Clients \ {c, old} : client'[d] = client[d]
  <2>1. client \in [Clients -> Client]
    BY DEF IInv, TypeOK
  <2>2. client' = [client EXCEPT ![c] = r, ![old] = o]
    BY <1>1, <1>2, <2>1 DEF Client
  <2> HIDE DEF r, o
  <2>. QED  BY <1>2, <1>3, <1>4, <2>1, <2>2
<1>6. /\ player' \in [Clients -> Player]
      /\ \A x \in Clients : player'[x].loaded = player[x].loaded
  <2>1. p \in Player /\ p.loaded = player[PlayerOf(old)].loaded
    BY <1>2 DEF Player
  <2>2. PICK q \in {player[PlayerOf(old)], p} : player' = [player EXCEPT ![PlayerOf(old)] = q]
    BY <1>1, <1>2 DEF IInv, TypeOK
  <2> HIDE DEF p
  <2>. QED  BY <1>2, <2>1, <2>2, OnePlayer DEF IInv
<1> HIDE DEF r, o
<1>7. Swaps(c)
  <2>1. \A d \in Clients \ {c, old} : ~Playing(d)'
    BY <1>2, <1>5 DEF Playing
  <2>2. ~Playing(old)'
    BY <1>4, <1>5 DEF Playing
  <2>3. Swapping(c)' /\ player'[client'[c].player].loaded
    BY <1>2, <1>3, <1>5, <1>6 DEF Swapping
  <2>4. byName' = old /\ client'[old].player = client[old].player
    BY <1>1, <1>4, <1>5, <1>9
  <2>5. \A d \in Clients : d # c =>
          /\ client'[d].key = client[d].key /\ client'[d].stage = client[d].stage
          /\ client'[d].hasZone => \/ client'[d].saveOff
                                   \/ /\ client[d].hasZone
                                      /\ client'[d].player = client[d].player
                                      /\ client'[d].saveOff = client[d].saveOff
    BY <1>4, <1>5
  <2>6. UNCHANGED <<zoneAuth, issued, saving>> /\ found' = old /\ byName' = byName
    BY <1>1
  <2>. QED  BY <1>0, <1>2, <1>3, <1>4, <1>5, <1>6, <1>9, <2>1, <2>2, <2>3, <2>4, <2>5, <2>6 DEF Swaps
<1>. QED  BY <1>7, SwapsIInv

\* The client that is being replaced, in the steps after TakePlayer.
LEMMA FoundClient ==
  ASSUME IInv, NEW c \in Clients, Swapping(c)
  PROVE  /\ found \in Clients /\ found # c /\ Admitted(found) /\ client[found].saveOff
         /\ client[found] \in Client /\ client[c] \in Client
         /\ player[client[c].player].loaded
         /\ \A d \in Clients : ~Playing(d)
<1>1. /\ found \in Clients /\ Admitted(found) /\ client[found].saveOff
      /\ player[client[c].player].loaded
      /\ \A d \in Clients : ~Playing(d)
  BY DEF IInv, SwapOK, PlayerOf
<1>2. found # c
  BY <1>1 DEF Swapping, Admitted
<1>. QED  BY <1>1, <1>2 DEF IInv, TypeOK

LEMMA LeaveIInv ==
  ASSUME IInv, NEW c \in Clients, LeaveBlank(c) \/ LeaveZone(c)
  PROVE  IInv'
<1>1. Swapping(c) /\ InHand(c) /\ found' = found /\ UNCHANGED <<player, zoneAuth, issued, saving>>
  BY DEF LeaveBlank, LeaveZone, Swapping, InHand
<1>2. PICK old \in Clients : old = found
  BY <1>1, FoundClient
<1>3. /\ old \in Clients /\ old # c /\ Admitted(old) /\ client[old].saveOff
      /\ client[old] \in Client /\ client[c] \in Client
      /\ player[client[c].player].loaded
      /\ \A d \in Clients : ~Playing(d)
  BY <1>1, <1>2, FoundClient
<1>4. PICK s \in {"left", "entering"}, o \in {[client[old] EXCEPT !.player = c],
                                              [client[old] EXCEPT !.hasZone = FALSE]} :
        client' = [client EXCEPT ![c] = [client[c] EXCEPT !.stage = s], ![old] = o]
  <2>1. client \in [Clients -> Client]
    BY DEF IInv, TypeOK
  <2>2. CASE LeaveBlank(c)
    BY <1>2, <1>3, <2>1, <2>2 DEF LeaveBlank, Client
  <2>3. CASE LeaveZone(c)
    BY <1>2, <1>3, <2>1, <2>3 DEF LeaveZone, Client
  <2>. QED  BY <2>2, <2>3
<1> DEFINE r == [client[c] EXCEPT !.stage = s]
<1>5. /\ r \in Client /\ r.stage = s /\ r.key = client[c].key /\ r.player = client[c].player
      /\ r.hasZone = client[c].hasZone /\ r.saveOff = client[c].saveOff
  BY <1>3 DEF Client
<1>6. /\ o \in Client /\ o.stage = client[old].stage /\ o.key = client[old].key /\ o.saveOff
  BY <1>3 DEF Client
<1>7. /\ client' \in [Clients -> Client] /\ client'[c] = r /\ client'[old] = o
      /\ \A d \in Clients \ {c, old} : client'[d] = client[d]
  <2>1. client \in [Clients -> Client]
    BY DEF IInv, TypeOK
  <2> HIDE DEF r
  <2>. QED  BY <1>3, <1>4, <1>5, <1>6, <2>1 DEF r
<1>8. /\ byName' \in {byName, NoClient}
      /\ byName' # NoClient => client'[byName].player = client[byName].player
  <2>1. CASE LeaveBlank(c)
    <3>1. byName = old => byName' = NoClient
      BY <1>2, <2>1 DEF LeaveBlank, RemoveClientFromMap, IInv, FoundIsLive, NoClient, Clients
    <3>2. byName' \in {byName, NoClient}
      BY <2>1 DEF LeaveBlank, RemoveClientFromMap
    <3>3. byName \in Clients \ {c, old} => client'[byName].player = client[byName].player
      BY <1>7
    <3>4. byName # c
      BY <1>1 DEF IInv, FoundIsLive, InHand, NoClient, Clients
    <3>. QED  BY <3>1, <3>2, <3>3, <3>4 DEF IInv, TypeOK
  <2>2. CASE LeaveZone(c)
    <3>1. byName' = byName
      BY <2>2 DEF LeaveZone
    <3>2. client' = [client EXCEPT ![c].stage = "entering", ![old].hasZone = FALSE]
      BY <1>2, <2>2 DEF LeaveZone
    <3>3. \A d \in Clients : client'[d].player = client[d].player
      BY <1>3, <3>2 DEF IInv, TypeOK, Client
    <3>. QED  BY <3>1, <3>3 DEF IInv, TypeOK
  <2>. QED  BY <2>1, <2>2
<1> HIDE DEF r
<1>9. Swaps(c)
  <2>1. \A d \in Clients : d # c => client'[d].key = client[d].key /\ client'[d].stage = client[d].stage
    BY <1>6, <1>7
  <2>2. \A d \in Clients : d # c => ~Playing(d)'
    <3>1. client'[old].stream = client[old].stream
      BY <1>3, <1>4, <1>7 DEF Client
    <3>. QED  BY <1>3, <1>6, <1>7, <3>1 DEF Playing
  <2>3. \A d \in Clients : d # c =>
          (client'[d].hasZone => \/ client'[d].saveOff
                                 \/ /\ client[d].hasZone
                                    /\ client'[d].player = client[d].player
                                    /\ client'[d].saveOff = client[d].saveOff)
    BY <1>6, <1>7
  <2>4. Swapping(c)' /\ player'[client'[c].player].loaded
    BY <1>1, <1>3, <1>5, <1>7 DEF Swapping
  <2>5. found' \in Clients /\ Admitted(found') /\ client'[found'].saveOff
    BY <1>1, <1>2, <1>3, <1>6, <1>7
  <2>6. player' \in [Clients -> Player]
    BY <1>1 DEF IInv, TypeOK
  <2>. QED  BY <1>1, <1>5, <1>7, <1>8, <2>1, <2>2, <2>3, <2>4, <2>5, <2>6 DEF Swaps
<1>. QED  BY <1>9, SwapsIInv

\* The database does not deliver: the login ends, and the old client may have
\* been told to go.
LEMMA EnterFailsOrdinary ==
  ASSUME IInv, NEW c \in Clients, EnterFails(c)
  PROVE  Ordinary
<1>1. /\ client[c] \in Client /\ client[c].player \in Clients /\ InHand(c) /\ ~Admitted(c)
      /\ UNCHANGED <<found, byName, zoneAuth, issued>>
  BY DEF EnterFails, InHand, Admitted, IInv, TypeOK, Client
<1> DEFINE r == Deleted(client[c])
<1>2. r \in Client /\ r.stage = "deleted" /\ r.hasZone = FALSE
  <2>1. NewClient(client[c].player) \in Client
    BY <1>1, LoginAssumption DEF Client, NewClient
  <2>. QED  BY <2>1 DEF Client, Deleted, NewClient
<1> HIDE DEF r
<1>3. client'[c] = r => StaysOut(c)
  BY <1>1, <1>2 DEF StaysOut, Outside
<1>4. CASE byName = NoClient
  <2>1. client' = [client EXCEPT ![c] = r] /\ UNCHANGED <<player, saving>>
    BY <1>4 DEF EnterFails, r, IInv, TypeOK
  <2>2. /\ client' \in [Clients -> Client] /\ client'[c] = r
        /\ \A d \in Clients : d # c => client'[d] = client[d]
    BY <1>2, <2>1, OneClient DEF IInv
  <2>. QED  BY <1>1, <1>3, <2>1, <2>2, OneClientOrdinary DEF IInv, TypeOK
<1>5. CASE byName # NoClient
  <2>1. PICK old \in Clients : old = byName
    BY <1>1, <1>5, OldClient
  <2>2. /\ old # c /\ client[old] \in Client /\ PlayerOf(old) \in Clients
        /\ player[PlayerOf(old)] \in Player
    BY <1>1, <1>5, <2>1, OldClient
  <2>3. PICK o \in {[Disconnected(client[old]) EXCEPT !.listed = FALSE], Closed(client[old])} :
          client' = [client EXCEPT ![c] = r, ![old] = o]
    <3>1. client \in [Clients -> Client]
      BY DEF IInv, TypeOK
    <3>. QED  BY <1>5, <2>1, <2>2, <3>1 DEF EnterFails, r
  <2>4. /\ o \in Client /\ o.stream # "up" /\ o.stage = client[old].stage
        /\ o.key = client[old].key /\ o.player = client[old].player
        /\ o.saveOff = client[old].saveOff /\ o.hasZone = client[old].hasZone
    BY <2>2, ClosedClient DEF Disconnected, Client
  <2>5. /\ client' \in [Clients -> Client] /\ client'[c] = r /\ client'[old] = o
        /\ \A d \in Clients \ {c, old} : client'[d] = client[d]
    <3>1. client \in [Clients -> Client]
      BY DEF IInv, TypeOK
    <3>. QED  BY <1>2, <2>2, <2>3, <2>4, <3>1
  <2>6. \A d \in Clients : StaysOut(d) \/ Alike(d)
    <3>1. Alike(old)
      BY <2>4, <2>5 DEF Alike
    <3>2. \A d \in Clients \ {c, old} : Alike(d)
      BY <2>5 DEF Alike
    <3>. QED  BY <1>3, <2>5, <3>1, <3>2
  <2>7. player' \in [Clients -> Player] /\ \A x \in Clients : player'[x].loaded = player[x].loaded
    <3>1. PICK q \in {player[PlayerOf(old)],
                      [player[PlayerOf(old)] EXCEPT !.linkdead = FALSE, !.camping = TRUE]} :
            player' = [player EXCEPT ![PlayerOf(old)] = q]
      BY <1>5, <2>1, <2>2 DEF EnterFails, IInv, TypeOK
    <3>2. q \in Player /\ q.loaded = player[PlayerOf(old)].loaded
      BY <2>2 DEF Player
    <3>. QED  BY <2>2, <3>1, <3>2, OnePlayer DEF IInv
  <2>8. saving' \in BOOLEAN
    BY <1>5, <2>1, <2>2 DEF EnterFails, Saves, Client, IInv, TypeOK
  <2>9. issued' \in issued..MaxKeys /\ zoneAuth' \subseteq 1..issued'
    BY <1>1, LoginAssumption DEF IInv, KeysOK, TypeOK
  <2>. QED  BY <1>1, <2>5, <2>6, <2>7, <2>8, <2>9 DEF Ordinary
<1>. QED  BY <1>4, <1>5

\* A removed client is deleted; the name forgets it.
LEMMA DeleteIInv ==
  ASSUME IInv, NEW c \in Clients, Delete(c)
  PROVE  IInv'
<1>1. /\ client[c] \in Client /\ client[c].player \in Clients
      /\ client[c].stage = "removed" /\ found # c
      /\ UNCHANGED <<player, found, zoneAuth, issued, saving>>
  BY DEF Delete, IInv, TypeOK, Client
<1> DEFINE r == Deleted(client[c])
<1>2. r \in Client /\ r.stage = "deleted" /\ r.hasZone = FALSE
  <2>1. NewClient(client[c].player) \in Client
    BY <1>1, LoginAssumption DEF Client, NewClient
  <2>. QED  BY <2>1 DEF Client, Deleted, NewClient
<1>3. client' = [client EXCEPT ![c] = r]
  BY DEF Delete, IInv, TypeOK
<1> HIDE DEF r
<1>4. /\ client' \in [Clients -> Client] /\ client'[c] = r
      /\ \A d \in Clients : d # c => client'[d] = client[d]
  BY <1>2, <1>3, OneClient DEF IInv
<1>5. byName' # c /\ byName' \in {byName, NoClient} /\ (byName # c => byName' = byName)
  BY DEF Delete, RemoveClientFromMap, IInv, FoundIsLive, NoClient, Clients
<1>6. /\ \A d \in Clients : Admitted(d)' => d # c /\ Admitted(d)
      /\ \A d \in Clients : d # c => (Admitted(d)' <=> Admitted(d))
      /\ \A d \in Clients : InHand(d)' => d # c /\ InHand(d)
      /\ \A d \in Clients : Swapping(d)' => d # c /\ Swapping(d)
      /\ \A d \in Clients : Playing(d)' => d # c /\ Playing(d)
  BY <1>2, <1>4 DEF Admitted, InHand, Swapping, Playing
<1>7. TypeOK'
  BY <1>1, <1>4, <1>5 DEF IInv, TypeOK
<1>8. FoundIsLive'
  BY <1>1, <1>4, <1>5 DEF IInv, FoundIsLive, PlayerOf, TypeOK
<1>9. PlayingIsFound'
  BY <1>5, <1>6 DEF IInv, PlayingIsFound
<1>10. KeyAdmitsOnce' /\ OneInHand' /\ KeysOK'
  BY <1>1, <1>4, <1>6 DEF IInv, KeyAdmitsOnce, OneInHand, KeysOK
<1>11. SwapOK'
  BY <1>1, <1>4, <1>6 DEF IInv, SwapOK, PlayerOf
<1>12. ZoneOK'
  BY <1>1, <1>2, <1>4 DEF IInv, ZoneOK, PlayerOf
<1>. QED  BY <1>7, <1>8, <1>9, <1>10, <1>11, <1>12 DEF IInv

-----------------------------------------------------------------------------
(* The specification *)

LEMMA NextIInv ==
  ASSUME IInv, [Next]_vars
  PROVE  IInv'
<1>1. CASE \E privileged \in BOOLEAN : UserToWorld(privileged)
  BY <1>1, UserToWorldOrdinary, OrdinaryIInv
<1>2. CASE \E c \in Clients : Connect(c) \/ Drop(c) \/ GiveUpStream(c)
  BY <1>2, ConnectOrdinary, DropOrdinary, GiveUpStreamOrdinary, OrdinaryIInv
<1>3. CASE \E c \in Clients : LoginByNumRequest(c) \/ RetryLogin(c) \/ LobbyDrop(c)
  BY <1>3, LoginIInv, LobbyDropOrdinary, OrdinaryIInv
<1>4. CASE \E c \in Clients : Enter(c)
  BY <1>4, EnterFreshIInv, TakePlayerIInv, LeaveIInv, EnterResumedIInv, SupersedeIInv, FollowIInv
     DEF Enter
<1>5. CASE \E c \in Clients : EnterFails(c)
  BY <1>5, EnterFailsOrdinary, OrdinaryIInv
<1>6. CASE \E c \in Clients : BeginPreCharInfo(c) \/ EnterWorld(c) \/ Camp(c) \/ Stand(c)
  BY <1>6, BeginPreCharInfoOrdinary, EnterWorldOrdinary, CampOrdinary, StandOrdinary, OrdinaryIInv
<1>7. CASE \E c \in Clients : Zone(c) \/ ReadyToZone(c) \/ SaveClient(c)
  BY <1>7, ZoneOrdinary, ReadyToZoneOrdinary, SaveClientOrdinary, OrdinaryIInv
<1>8. CASE \E c \in Clients : ZoneThread(c)
  BY <1>8, ProcessFailsOrdinary, TimerExpiresOrdinary, DeleteIInv, OrdinaryIInv DEF ZoneThread
<1>9. CASE Written \/ UNCHANGED vars
  BY <1>9, WrittenOrdinary, OrdinaryIInv
<1>. QED  BY <1>1, <1>2, <1>3, <1>4, <1>5, <1>6, <1>7, <1>8, <1>9 DEF Next

\* The strengthened invariant holds in every state of every behaviour.
THEOREM Strengthened == Spec => []IInv
<1>1. Init => IInv
  BY InitIInv
<1>2. IInv /\ [Next]_vars => IInv'
  BY NextIInv
<1>. QED  BY <1>1, <1>2, PTL DEF Spec

\* Clients, players and keys have their types, for any number of connections.
THEOREM TypeCorrect == Spec => []TypeOK
<1>1. IInv => TypeOK
  BY DEF IInv
<1>. QED  BY <1>1, Strengthened, PTL

\* HandleNewLogin never finds a client under the name that was deleted, or one
\* that has been left with a blank player.
THEOREM FoundLive == Spec => []FoundIsLive
<1>1. IInv => FoundIsLive
  BY DEF IInv
<1>. QED  BY <1>1, Strengthened, PTL

\* Two connections never play the character at once, through resumptions,
\* supersessions and moves between zones: who plays is who is found.
THEOREM PlayingFound == Spec => []PlayingIsFound
<1>1. IInv => PlayingIsFound
  BY DEF IInv
<1>. QED  BY <1>1, Strengthened, PTL

\* The client that is left with a blank player saves nothing any more.
THEOREM BlankNeverSaved == Spec => []BlankIsNeverSaved
<1>1. IInv => BlankIsNeverSaved
  BY DEF IInv, ZoneOK, BlankIsNeverSaved, Saves
<1>. QED  BY <1>1, Strengthened, PTL

\* However many connections present a key, and however long their logins are
\* delayed, it admits one.
THEOREM KeyOnce == Spec => []KeyAdmitsOnce
<1>1. IInv => KeyAdmitsOnce
  BY DEF IInv
<1>. QED  BY <1>1, Strengthened, PTL

=============================================================================
