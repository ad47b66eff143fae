---------------------------- MODULE PlayerGroups ----------------------------
(***************************************************************************)
(* Player groups: invitations, the groups themselves, and what becomes of  *)
(* a member who is between two zones.                                      *)
(*                                                                         *)
(* Each player has at most a pointer to a GroupMemberInfo, which the list  *)
(* of its group owns; the two are changed together, by the threads of all  *)
(* zones.  A section under MGroups or MPendingInvites is one step, and a   *)
(* command that takes more than one of them is several, during which its   *)
(* zone does nothing else.  One server without peers, which is then the    *)
(* primary one; raids, mentoring, bots, group options and the messages are *)
(* left out.  MakeLeader is no step: it refuses every player that has a    *)
(* GroupMemberInfo, and its callers offer it no other.                     *)
(*                                                                         *)
(* Some sequences go wrong for good: a null pointer is followed, a deleted *)
(* GroupMemberInfo stays in a list, or a player between two zones is taken *)
(* for one without a group and joins one, although another still lists him *)
(* or the client he is about to leave behind is the one that joins.  Then  *)
(* intact is false, and nothing is said of what the server does after that.*)
(***************************************************************************)
EXTENDS Naturals, FiniteSets, Sequences, SequencesExt

CONSTANTS
  Players,   \* one name each
  Zones,     \* one thread each
  MaxGroups, \* bound on the groups ever made
  MaxLeftBehind,  \* bound on the clients waiting to be deleted
  FullSize,  \* the size at which a group takes no more invitations: 6
  Nobody,
  Nowhere

ASSUME GroupAssumption ==
  /\ MaxGroups \in Nat
  /\ MaxLeftBehind \in Nat
  /\ FullSize \in Nat \ {0, 1}
  /\ Nobody \notin Players
  /\ Nowhere \notin Zones

VARIABLES
  created,   \* ids given to groups: 1..created
  m_groups,  \* the ids of the groups there are
  m_members, \* their lists of GroupMemberInfos
  gmi,       \* the group whose list holds the player's GroupMemberInfo
  m_pendingInvites,  \* whose invitation each player has not yet answered
  rejoin_group_id,   \* the group a player asks for when next he enters a zone
  zone,      \* the zone whose list of clients holds the player's client
  zoning,    \* players on their way out of it
  leftBehind,  \* players with a client that left its zone and is still to be deleted
  doing,     \* what each zone's thread is in the middle of
  intact

vars == <<created, m_groups, m_members, gmi, m_pendingInvites, rejoin_group_id,
          zone, zoning, leftBehind, doing, intact>>

GroupIds == 1..MaxGroups
NoGroup == 0

\* member: the info points to its player's client.
GroupMemberInfo == [name : Players, leader : BOOLEAN, member : BOOLEAN]

Idle == [op |-> "idle"]
Task ==
  {Idle}
    \cup [op : {"accepted"}, who : Players, leader : Players, here : BOOLEAN,
          group : GroupIds \cup {NoGroup}]
    \cup [op : {"join"}, who : Players, leader : Players]
    \cup [op : {"dissolve"}, group : GroupIds]

TypeOK ==
  /\ created \in 0..MaxGroups
  /\ m_groups \subseteq 1..created
  /\ m_members \in [GroupIds -> Seq(GroupMemberInfo)]
  /\ gmi \in [Players -> GroupIds \cup {NoGroup}]
  /\ m_pendingInvites \in [Players -> Players \cup {Nobody}]
  /\ rejoin_group_id \in [Players -> GroupIds \cup {NoGroup}]
  /\ zone \in [Players -> Zones \cup {Nowhere}]
  /\ zoning \subseteq Players
  /\ leftBehind \subseteq Players
  /\ doing \in [Zones -> Task]
  /\ intact \in BOOLEAN

Init ==
  /\ created = 0
  /\ m_groups = {}
  /\ m_members = [g \in GroupIds |-> <<>>]
  /\ gmi = [p \in Players |-> NoGroup]
  /\ m_pendingInvites = [p \in Players |-> Nobody]
  /\ rejoin_group_id = [p \in Players |-> NoGroup]
  /\ zone = [p \in Players |-> Nowhere]
  /\ zoning = {}
  /\ leftBehind = {}
  /\ doing = [z \in Zones |-> Idle]
  /\ intact = TRUE

-----------------------------------------------------------------------------
(* Parts of several operations *)

\* zone_list.GetClientByCharName finds a client.
Online(p) == zone[p] # Nowhere

\* The player's client can send commands, and its zone's thread takes one.
Commands(p) ==
  Online(p) /\ p \notin zoning /\ doing[zone[p]] = Idle

Leads(p) ==
  /\ gmi[p] # NoGroup
  /\ \E i \in ToSet(m_members[gmi[p]]) : i.name = p /\ i.leader

Size(g) == Len(m_members[g])

\* The list without the info that p points to.
Without(infos, p) ==
  LET mine == {n \in DOMAIN infos : infos[n].name = p /\ infos[n].member}
  IN  IF mine = {} THEN infos ELSE RemoveAt(infos, CHOOSE n \in mine : TRUE)

\* The list with p's info cut off from p.
Detached(infos, p) ==
  [n \in DOMAIN infos |->
    IF infos[n].name = p THEN [infos[n] EXCEPT !.member = FALSE] ELSE infos[n]]

Lists(g, p) == \E i \in ToSet(m_members[g]) : i.name = p

\* Variant: nobody is refused.
JoinsAgain(g, p) == g \in m_groups

\* AddGroupMember.  PlayerGroup::AddMember refuses a player that has a
\* GroupMemberInfo.
Joins(g, p) == g \in m_groups /\ gmi[p] = NoGroup

\* A player that joins is not listed by another group, and is not on his way
\* out of his zone: the client he returns with would not ask for this group.
JoinsForGood(g, p) ==
  Joins(g, p) => p \notin zoning /\ \A other \in GroupIds \ {g} : ~Lists(other, p)

AddMember(g, p, leads) ==
  IF Joins(g, p)
  THEN /\ m_members' = [m_members EXCEPT ![g] =
                         Append(@, [name |-> p, leader |-> leads, member |-> TRUE])]
       /\ gmi' = [gmi EXCEPT ![p] = g]
  ELSE UNCHANGED <<m_members, gmi>>

\* The rest of a RemoveGroupMember that thread z has begun in group g: a list
\* of one is to be dissolved, out of the lock.
ThenDissolve(z, g) ==
  doing' = IF Len(m_members'[g]) = 1
           THEN [doing EXCEPT ![z] = [op |-> "dissolve", group |-> g]]
           ELSE doing

\* Variant: the player keeps the pointer to the deleted info.
ForgetPlayer(g, p) ==
  /\ m_members' = [m_members EXCEPT ![g] = Without(@, p)]
  /\ UNCHANGED gmi

\* PlayerGroup::RemoveMember of a player of group g.
RemoveMember(g, p) ==
  /\ m_members' = [m_members EXCEPT ![g] = Without(@, p)]
  /\ gmi' = [gmi EXCEPT ![p] = NoGroup]

\* RemoveGroup: Disband lets go of the members whose clients are there, and the
\* group is deleted.
RemoveGroup(g) ==
  /\ m_groups' = m_groups \ {g}
  /\ m_members' = [m_members EXCEPT ![g] = <<>>]
  /\ gmi' = [p \in Players |->
              IF \E i \in ToSet(m_members[g]) : i.name = p /\ i.member
              THEN NoGroup ELSE gmi[p]]

-----------------------------------------------------------------------------
(* Invitations *)

\* COMMAND_GROUPINVITE and Invite.  A player without a group also gets an entry
\* of his own, so that he can be invited by nobody else.
Invite(p, t) ==
  /\ Commands(p)
  /\ Online(t)
  /\ gmi[p] = NoGroup \/ Leads(p)
  /\ p # t
  /\ gmi[t] = NoGroup
  /\ m_pendingInvites[t] = Nobody
  /\ \/ /\ gmi[p] # NoGroup
        /\ Size(gmi[p]) < FullSize
        /\ m_pendingInvites' = [m_pendingInvites EXCEPT ![t] = p]
     \/ /\ gmi[p] = NoGroup
        /\ m_pendingInvites[p] = Nobody
        /\ m_pendingInvites' = [m_pendingInvites EXCEPT ![t] = p, ![p] = p]
  /\ UNCHANGED <<created, m_groups, m_members, gmi, rejoin_group_id, zone,
                 zoning, leftBehind, doing, intact>>

DeclineInvite(p) ==
  LET leader == m_pendingInvites[p] IN
  /\ Commands(p)
  /\ leader # Nobody
  /\ m_pendingInvites' = [m_pendingInvites EXCEPT ![p] = Nobody, ![leader] = Nobody]
  /\ UNCHANGED <<created, m_groups, m_members, gmi, rejoin_group_id, zone,
                 zoning, leftBehind, doing, intact>>

\* The destructor of a client, which may run long after the player has arrived
\* elsewhere with another.
ClearPendingInvite(p) ==
  /\ p \in leftBehind
  /\ leftBehind' = leftBehind \ {p}
  /\ m_pendingInvites' = [m_pendingInvites EXCEPT ![p] = Nobody]
  /\ UNCHANGED <<created, m_groups, m_members, gmi, rejoin_group_id, zone, zoning,
                 doing, intact>>

\* AcceptInvite of an inviter who is no longer online: its result is 2.
LeaderIsGone(p) ==
  /\ ~Online(m_pendingInvites[p])
  /\ m_pendingInvites' = [m_pendingInvites EXCEPT ![p] = Nobody]
  /\ UNCHANGED <<created, m_groups, doing>>

\* Variant: the counter is read before it is incremented.
LastId == created

\* getUniqueGroupId
NextId == created + 1

\* AcceptInvite with result 0.  An inviter who has an entry of his own gets a
\* new group, unless he has one by now.  If he has no entry, the group is not
\* looked up.
Accepted(p) ==
  LET leader == m_pendingInvites[p]
      makes == m_pendingInvites[leader] # Nobody /\ gmi[leader] = NoGroup
      group == IF m_pendingInvites[leader] = Nobody THEN NoGroup
               ELSE IF makes THEN NextId ELSE gmi[leader]
  IN
  /\ Online(leader)
  /\ makes => created < MaxGroups
  /\ created' = IF makes THEN created + 1 ELSE created
  /\ m_groups' = IF makes THEN m_groups \cup {NextId} ELSE m_groups
  /\ m_pendingInvites' = [m_pendingInvites EXCEPT ![p] = Nobody, ![leader] = Nobody]
  /\ doing' = [doing EXCEPT ![zone[p]] =
                [op |-> "accepted", who |-> p, leader |-> leader, group |-> group,
                 here |-> zone[leader] = zone[p]]]

\* COMMAND_GROUP_ACCEPT_INVITE, as far as AcceptInvite.
AcceptInvite(p) ==
  /\ Commands(p)
  /\ m_pendingInvites[p] # Nobody
  /\ LeaderIsGone(p) \/ Accepted(p)
  /\ UNCHANGED <<m_members, gmi, rejoin_group_id, zone, zoning, leftBehind,
                 intact>>

\* The command goes on only if the inviter's client is in the same zone: the
\* inviter becomes the leader of the new group.
AddLeader(z) ==
  /\ doing[z].op = "accepted"
  /\ IF doing[z].here
     THEN /\ AddMember(doing[z].group, doing[z].leader, TRUE)
          /\ intact' = JoinsForGood(doing[z].group, doing[z].leader)
          /\ doing' = [doing EXCEPT ![z] =
                        [op |-> "join", who |-> @.who, leader |-> @.leader]]
     ELSE /\ doing' = [doing EXCEPT ![z] = Idle]
          /\ UNCHANGED <<m_members, gmi, intact>>
  /\ UNCHANGED <<created, m_groups, m_pendingInvites, rejoin_group_id, zone,
                 zoning, leftBehind>>

\* The player joins the group the inviter is then in; the inviter's
\* GroupMemberInfo is used without a look whether there is one.
AddAccepter(z) ==
  LET group == gmi[doing[z].leader] IN
  /\ doing[z].op = "join"
  /\ intact' = (group # NoGroup /\ JoinsForGood(group, doing[z].who))
  /\ AddMember(group, doing[z].who, FALSE)
  /\ doing' = [doing EXCEPT ![z] = Idle]
  /\ UNCHANGED <<created, m_groups, m_pendingInvites, rejoin_group_id, zone,
                 zoning, leftBehind>>

-----------------------------------------------------------------------------
(* Leaving and dissolving *)

\* COMMAND_GROUP_LEAVE
Leave(p) ==
  /\ Commands(p)
  /\ gmi[p] # NoGroup
  /\ RemoveMember(gmi[p], p)
  /\ ThenDissolve(zone[p], gmi[p])
  /\ UNCHANGED <<created, m_groups, m_pendingInvites, rejoin_group_id, zone,
                 zoning, leftBehind, intact>>

\* COMMAND_GROUP_KICK.  It takes the name of any player; whose group he is in
\* is not looked at, nor whether there is such a player.  The info of one in
\* another group is deleted and stays in that group's list.
Kick(p, t) ==
  /\ Commands(p)
  /\ Leads(p)
  /\ intact' = (Online(t) /\ gmi[t] = gmi[p])
  /\ IF intact'
     THEN RemoveMember(gmi[p], t) /\ ThenDissolve(zone[p], gmi[p])
     ELSE UNCHANGED <<m_members, gmi, doing>>
  /\ UNCHANGED <<created, m_groups, m_pendingInvites, rejoin_group_id, zone,
                 zoning, leftBehind>>

\* COMMAND_GROUPDISBAND
DisbandGroup(p) ==
  /\ Commands(p)
  /\ Leads(p)
  /\ RemoveGroup(gmi[p])
  /\ UNCHANGED <<created, m_pendingInvites, rejoin_group_id, zone, zoning,
                 leftBehind, doing, intact>>

\* The end of a RemoveGroupMember that left one member, whoever has joined
\* since.
DissolveGroup(z) ==
  /\ doing[z].op = "dissolve"
  /\ RemoveGroup(doing[z].group)
  /\ doing' = [doing EXCEPT ![z] = Idle]
  /\ UNCHANGED <<created, m_pendingInvites, rejoin_group_id, zone, zoning,
                 leftBehind, intact>>

-----------------------------------------------------------------------------
(* Coming and going *)

\* Variant: the id of the group is not kept.
DetachPlayer(p) ==
  /\ IF gmi[p] = NoGroup
     THEN UNCHANGED <<m_members, gmi>>
     ELSE /\ m_members' = [m_members EXCEPT ![gmi[p]] = Detached(@, p)]
          /\ gmi' = [gmi EXCEPT ![p] = NoGroup]
  /\ UNCHANGED rejoin_group_id

\* The player and his info let go of each other; the info stays in the list.
TempRemoveGroup(p) ==
  IF gmi[p] = NoGroup
  THEN UNCHANGED <<m_members, gmi, rejoin_group_id>>
  ELSE /\ rejoin_group_id' = [rejoin_group_id EXCEPT ![p] = gmi[p]]
       /\ m_members' = [m_members EXCEPT ![gmi[p]] = Detached(@, p)]
       /\ gmi' = [gmi EXCEPT ![p] = NoGroup]

\* Client::Zone
Zone(p) ==
  /\ Commands(p)
  /\ zoning' = zoning \cup {p}
  /\ TempRemoveGroup(p)
  /\ UNCHANGED <<created, m_groups, m_pendingInvites, zone, doing, intact,
                 leftBehind>>

\* ZoneServer::RemoveClient of a player that has left for another zone.
LeaveZone(p) ==
  /\ p \in zoning
  /\ doing[zone[p]] = Idle
  /\ zone' = [zone EXCEPT ![p] = Nowhere]
  /\ Cardinality(leftBehind) < MaxLeftBehind
  /\ leftBehind' = leftBehind \cup {p}
  /\ zoning' = zoning \ {p}
  /\ UNCHANGED <<created, m_groups, m_members, gmi, m_pendingInvites,
                 rejoin_group_id, doing, intact>>

\* ZoneServer::RemoveClient of a player that leaves the world.  A group of one
\* is not left: the destructor of the client detaches its member.  The id saved
\* with the character is that of his group, or the one before.
LeaveWorld(p) ==
  /\ Commands(p)
  /\ IF gmi[p] # NoGroup /\ Size(gmi[p]) > 1
     THEN /\ RemoveMember(gmi[p], p)
          /\ ThenDissolve(zone[p], gmi[p])
          /\ \E g \in {gmi[p], rejoin_group_id[p]} :
               rejoin_group_id' = [rejoin_group_id EXCEPT ![p] = g]
     ELSE TempRemoveGroup(p) /\ UNCHANGED doing
  /\ zone' = [zone EXCEPT ![p] = Nowhere]
  /\ Cardinality(leftBehind) < MaxLeftBehind
  /\ leftBehind' = leftBehind \cup {p}
  /\ UNCHANGED <<created, m_groups, m_pendingInvites, zoning, intact>>

\* World::RejoinGroup: the first info with the player's name points to him.
RejoinGroup(p) ==
  LET g == rejoin_group_id[p]
      mine == {n \in DOMAIN m_members[g] : m_members[g][n].name = p}
      first == CHOOSE n \in mine : \A m \in mine : n <= m
  IN
  IF g \in m_groups /\ mine # {}
  THEN /\ m_members' = [m_members EXCEPT ![g][first].member = TRUE]
       /\ gmi' = [gmi EXCEPT ![p] = g]
  ELSE UNCHANGED <<m_members, gmi>>

\* The client of a player who logs in, or arrives, is in zone z.
EnterZone(p, z) ==
  /\ ~Online(p)
  /\ doing[z] = Idle
  /\ zone' = [zone EXCEPT ![p] = z]
  /\ RejoinGroup(p)
  /\ UNCHANGED <<created, m_groups, m_pendingInvites, rejoin_group_id, zoning,
                 leftBehind, doing, intact>>

-----------------------------------------------------------------------------

Next ==
  /\ intact
  /\ \/ \E p, t \in Players : Invite(p, t) \/ Kick(p, t)
     \/ \E p \in Players :
          \/ DeclineInvite(p) \/ ClearPendingInvite(p) \/ AcceptInvite(p)
          \/ Leave(p) \/ DisbandGroup(p)
          \/ Zone(p) \/ LeaveZone(p) \/ LeaveWorld(p)
     \/ \E z \in Zones : AddLeader(z) \/ AddAccepter(z) \/ DissolveGroup(z)
     \/ \E p \in Players, z \in Zones : EnterZone(p, z)

Spec == Init /\ [][Next]_vars

-----------------------------------------------------------------------------
(* Properties *)

\* A player's GroupMemberInfo is in the list of a group there is, and an info
\* that points to a player is the one that player points to: neither side is
\* left behind when members leave, are kicked, change zones, or lose the group.
MemberInfoAgrees ==
  intact =>
    /\ \A p \in Players : gmi[p] # NoGroup =>
         /\ gmi[p] \in m_groups
         /\ \E i \in ToSet(m_members[gmi[p]]) : i.name = p /\ i.member
    /\ \A g \in GroupIds : \A i \in ToSet(m_members[g]) :
         i.member => gmi[i.name] = g

\* A group never lists a name twice, so RejoinGroup finds the only info there is.
NamedOnce ==
  intact =>
    \A g \in GroupIds : \A n, m \in DOMAIN m_members[g] :
      m_members[g][n].name = m_members[g][m].name => n = m

\* A player who is in a zone, and not on his way out of it, is in every group
\* that lists him: his place in a group is given back to him when he arrives.
ListedIsMember ==
  intact =>
    \A p \in Players, g \in GroupIds :
      Online(p) /\ p \notin zoning /\ Lists(g, p) => gmi[p] = g

\* "Error code if accepting the invite failed, 0 if successful"
\* (PlayerGroups.h): a player whose acceptance was successful is in the group
\* of the inviter when the command is done.
AcceptJoins ==
  [][\A z \in Zones :
       /\ doing[z].op \in {"accepted", "join"}
       /\ doing'[z] = Idle
       /\ intact'
       => /\ gmi'[doing[z].who] # NoGroup
          /\ gmi'[doing[z].who] = gmi'[doing[z].leader]]_vars

=============================================================================
