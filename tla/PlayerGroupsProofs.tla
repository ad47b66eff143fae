------------------------- MODULE PlayerGroupsProofs -------------------------
(***************************************************************************)
(* Player groups, for any number of players, zones and groups: pointers of *)
(* players and lists of groups agree, a list names nobody twice, and a     *)
(* player in a zone is in every group that lists him.                      *)
(***************************************************************************)
EXTENDS PlayerGroups, SequenceTheorems, TLAPS

\* The player's client is in a zone and is not about to leave it.
Here(p) == Online(p) /\ p \notin zoning

\* MemberInfoAgrees, of a server that is intact.
Agree ==
  /\ \A p \in Players : gmi[p] # NoGroup =>
       /\ gmi[p] \in m_groups
       /\ \E i \in ToSet(m_members[gmi[p]]) : i.name = p /\ i.member
  /\ \A g \in GroupIds : \A i \in ToSet(m_members[g]) :
       i.member => gmi[i.name] = g

Distinct(infos) ==
  \A n, m \in DOMAIN infos : infos[n].name = infos[m].name => n = m

OnceEach == \A g \in GroupIds : Distinct(m_members[g])

\* A player whom a group lists is in it, or will ask for it when he arrives.
Placed ==
  \A p \in Players, g \in GroupIds : Lists(g, p) =>
    IF Here(p) THEN gmi[p] = g ELSE rejoin_group_id[p] = g

MembersHere == \A p \in Players : gmi[p] # NoGroup => Here(p)

\* An id that is free has no list.
FreeIds == \A g \in GroupIds \ m_groups : m_members[g] = <<>>

ListsOK == Agree /\ OnceEach /\ Placed /\ MembersHere /\ FreeIds

\* Those a thread is about to add to a group stay in its zone.
TasksOK ==
  \A z \in Zones :
    /\ doing[z].op \in {"accepted", "join"} =>
         zone[doing[z].who] = z /\ doing[z].who \notin zoning
    /\ doing[z].op = "accepted" /\ doing[z].here => zone[doing[z].leader] = z

ZonesOK == TasksOK /\ \A p \in zoning : Online(p)

IInv == TypeOK /\ (intact => ListsOK /\ ZonesOK)

-----------------------------------------------------------------------------
(* Lists of infos *)

LEMMA AppendFacts ==
  ASSUME NEW infos \in Seq(GroupMemberInfo), NEW i \in GroupMemberInfo
  PROVE  /\ Append(infos, i) \in Seq(GroupMemberInfo)
         /\ ToSet(Append(infos, i)) = ToSet(infos) \cup {i}
         /\ Distinct(infos) /\ (\A j \in ToSet(infos) : j.name # i.name)
              => Distinct(Append(infos, i))
<1>1. /\ Append(infos, i) \in Seq(GroupMemberInfo)
      /\ Len(Append(infos, i)) = Len(infos) + 1
      /\ \A n \in 1..Len(infos) : Append(infos, i)[n] = infos[n]
      /\ Append(infos, i)[Len(infos) + 1] = i
  BY AppendProperties
<1>2. /\ DOMAIN infos = 1..Len(infos) /\ Len(infos) \in Nat
      /\ DOMAIN Append(infos, i) = 1..(Len(infos) + 1)
  BY <1>1
<1>3. ToSet(Append(infos, i)) = ToSet(infos) \cup {i}
  BY <1>1, <1>2 DEF ToSet
<1>4. ASSUME Distinct(infos), \A j \in ToSet(infos) : j.name # i.name
      PROVE  Distinct(Append(infos, i))
  BY <1>1, <1>2, <1>4 DEF Distinct, ToSet
<1>. QED  BY <1>1, <1>3, <1>4

LEMMA WithoutFacts ==
  ASSUME NEW infos \in Seq(GroupMemberInfo), NEW p
  PROVE  /\ Without(infos, p) \in Seq(GroupMemberInfo)
         /\ ToSet(Without(infos, p)) \subseteq ToSet(infos)
         /\ Distinct(infos) =>
              /\ Distinct(Without(infos, p))
              /\ \A i \in ToSet(infos) : i.name = p /\ i.member <=> i \notin ToSet(Without(infos, p))
<1> DEFINE mine == {n \in DOMAIN infos : infos[n].name = p /\ infos[n].member}
           at == CHOOSE n \in mine : TRUE
           rest == Without(infos, p)
           Old(n) == IF n < at THEN n ELSE n + 1
<1>1. DOMAIN infos = 1..Len(infos) /\ Len(infos) \in Nat
  OBVIOUS
<1>2. CASE mine = {}
  <2>1. rest = infos
    BY <1>2 DEF Without
  <2>. QED  BY <1>1, <1>2, <2>1 DEF ToSet
<1>3. CASE mine # {}
  <2>1. at \in 1..Len(infos) /\ infos[at].name = p /\ infos[at].member
    BY <1>1, <1>3
  <2>2. rest = RemoveAt(infos, at)
    BY <1>3 DEF Without
  <2>3. /\ rest \in Seq(GroupMemberInfo) /\ Len(rest) = Len(infos) - 1
        /\ \A n \in 1..(Len(infos) - 1) : rest[n] = infos[Old(n)]
    <3> HIDE DEF at, rest
    <3>1. rest = SubSeq(infos, 1, at - 1) \o SubSeq(infos, at + 1, Len(infos))
      BY <2>2 DEF RemoveAt
    <3> DEFINE left == SubSeq(infos, 1, at - 1)
               right == SubSeq(infos, at + 1, Len(infos))
    <3>2. /\ left \in Seq(GroupMemberInfo)
          /\ Len(left) = at - 1
          /\ \A n \in 1..(at - 1) : left[n] = infos[n]
      BY <1>1, <2>1
    <3>3. /\ right \in Seq(GroupMemberInfo)
          /\ Len(right) = IF at + 1 <= Len(infos) THEN Len(infos) - (at + 1) + 1 ELSE 0
          /\ \A n \in 1..(Len(infos) - (at + 1) + 1) : right[n] = infos[at + 1 + n - 1]
      <4>1. at + 1 \in Int /\ Len(infos) \in Int
            /\ \A n \in (at + 1)..Len(infos) : infos[n] \in GroupMemberInfo
        BY <1>1, <2>1
      <4>. QED  BY <4>1, SubSeqProperties
    <3>4. rest = left \o right
      BY <3>1
    <3> HIDE DEF left, right
    <3>5. /\ rest \in Seq(GroupMemberInfo)
          /\ Len(rest) = Len(left) + Len(right)
          /\ \A n \in 1..(Len(left) + Len(right)) :
               rest[n] = IF n <= Len(left) THEN left[n] ELSE right[n - Len(left)]
      BY <3>2, <3>3, <3>4, ConcatProperties
    <3>6. Len(right) = Len(infos) - at
      <4>1. at \in 1..Len(infos) /\ Len(infos) \in Nat
        BY <1>1, <2>1
      <4>2. Len(right) = IF at + 1 <= Len(infos) THEN Len(infos) - (at + 1) + 1 ELSE 0
        BY <3>3
      <4>. QED  BY <4>1, <4>2
    <3>7. Len(rest) = Len(infos) - 1
      BY <1>1, <2>1, <3>2, <3>5, <3>6
    <3>8. ASSUME NEW n \in 1..(Len(infos) - 1)
          PROVE  rest[n] = infos[Old(n)]
      <4>1. CASE n < at
        BY <4>1, <1>1, <2>1, <3>2, <3>5, <3>6
      <4>2. CASE n >= at
        <5>1. rest[n] = right[n - (at - 1)]
          <6>1. at \in 1..Len(infos) /\ Len(infos) \in Nat /\ n \in Nat
            BY <1>1, <2>1
          <6>2. n \in 1..(Len(left) + Len(right)) /\ ~(n <= Len(left))
            BY <6>1, <4>2, <3>2, <3>6
          <6>3. rest[n] = right[n - Len(left)]
            BY <6>2, <3>5
          <6>. QED  BY <6>3, <3>2
        <5>2. n - (at - 1) \in 1..(Len(infos) - (at + 1) + 1) /\ at + 1 + (n - (at - 1)) - 1 = n + 1
          BY <4>2, <1>1, <2>1
        <5>3. right[n - (at - 1)] = infos[n + 1]
          BY <3>3, <5>2
        <5>. QED  BY <4>2, <5>1, <5>3, <2>1, <1>1
      <4>. QED  BY <4>1, <4>2, <1>1, <2>1
    <3>. QED  BY <3>5, <3>7, <3>8
  <2> HIDE DEF at, rest
  <2>4. DOMAIN rest = 1..(Len(infos) - 1)
    BY <2>3
  <2>5. \A n \in DOMAIN rest : Old(n) \in DOMAIN infos \ {at} /\ rest[n] = infos[Old(n)]
    BY <1>1, <2>1, <2>3, <2>4
  <2>6. \A m \in DOMAIN infos \ {at} : \E n \in DOMAIN rest : Old(n) = m
    <3>. SUFFICES ASSUME NEW m \in 1..Len(infos), m # at
                  PROVE  \E n \in 1..(Len(infos) - 1) : Old(n) = m
      BY <1>1, <2>4
    <3>1. CASE m < at
      <4>1. m \in 1..(Len(infos) - 1) /\ Old(m) = m
        BY <3>1, <1>1, <2>1
      <4>. QED  BY <4>1
    <3>2. CASE m > at
      <4>1. m - 1 \in 1..(Len(infos) - 1) /\ Old(m - 1) = m
        BY <3>2, <1>1, <2>1
      <4>. QED  BY <4>1
    <3>. QED  BY <3>1, <3>2, <1>1, <2>1
  <2>7. \A n, m \in DOMAIN rest : Old(n) = Old(m) => n = m
    BY <1>1, <2>1, <2>4
  <2> HIDE DEF rest, at, Old, mine
  <2>8. ToSet(rest) \subseteq ToSet(infos)
    BY <2>5 DEF ToSet
  <2>9. ASSUME Distinct(infos)
        PROVE  Distinct(rest)
    BY <2>5, <2>7, <2>9 DEF Distinct
  <2>10. ASSUME Distinct(infos), NEW i \in ToSet(infos)
         PROVE  i.name = p /\ i.member <=> i \notin ToSet(rest)
    <3>1. ToSet(rest) = {infos[m] : m \in DOMAIN infos \ {at}}
      BY <2>5, <2>6 DEF ToSet
    <3>2. PICK n \in DOMAIN infos : infos[n] = i
      BY DEF ToSet
    <3>3. n = at <=> i.name = p /\ i.member
      BY <3>2, <2>1, <1>1, <2>10 DEF Distinct
    <3>4. i \in ToSet(rest) <=> n # at
      BY <3>1, <3>2, <2>10 DEF Distinct
    <3>. QED  BY <3>3, <3>4
  <2>. QED  BY <2>3, <2>8, <2>9, <2>10 DEF rest
<1>. QED  BY <1>2, <1>3

LEMMA DetachedFacts ==
  ASSUME NEW infos \in Seq(GroupMemberInfo), NEW p
  PROVE  /\ Detached(infos, p) \in Seq(GroupMemberInfo)
         /\ Distinct(infos) => Distinct(Detached(infos, p))
         /\ \A i \in ToSet(infos) : i.name # p => i \in ToSet(Detached(infos, p))
         /\ \A i \in ToSet(Detached(infos, p)) :
              \/ i.name # p /\ i \in ToSet(infos)
              \/ i.name = p /\ ~i.member /\ \E j \in ToSet(infos) : j.name = p
<1> DEFINE new == Detached(infos, p)
<1>1. DOMAIN infos = 1..Len(infos) /\ Len(infos) \in Nat
      /\ \A n \in DOMAIN infos : infos[n] \in GroupMemberInfo
  OBVIOUS
<1>2. /\ DOMAIN new = DOMAIN infos
      /\ \A n \in DOMAIN infos :
           /\ infos[n].name # p => new[n] = infos[n]
           /\ infos[n].name = p => new[n] = [infos[n] EXCEPT !.member = FALSE]
  BY DEF Detached
<1>3. \A n \in DOMAIN infos :
        /\ new[n] \in GroupMemberInfo /\ new[n].name = infos[n].name
        /\ infos[n].name = p => ~new[n].member
  BY <1>1, <1>2 DEF GroupMemberInfo
<1>4. new \in Seq(GroupMemberInfo)
  <2>1. new \in [1..Len(infos) -> GroupMemberInfo]
    BY <1>1, <1>3 DEF Detached
  <2>. QED  BY <1>1, <2>1, IsASeq
<1> HIDE DEF new
<1>5. Distinct(infos) => Distinct(new)
  BY <1>2, <1>3 DEF Distinct
<1>6. \A i \in ToSet(infos) : i.name # p => i \in ToSet(new)
  BY <1>2 DEF ToSet
<1>7. \A i \in ToSet(new) :
        \/ i.name # p /\ i \in ToSet(infos)
        \/ i.name = p /\ ~i.member /\ \E j \in ToSet(infos) : j.name = p
  BY <1>2, <1>3 DEF ToSet
<1>. QED  BY <1>4, <1>5, <1>6, <1>7 DEF new

-----------------------------------------------------------------------------
(* What operations on lists do to the lists and pointers together *)

Types == m_members \in [GroupIds -> Seq(GroupMemberInfo)]
           /\ gmi \in [Players -> GroupIds \cup {NoGroup}]

LEMMA IdFacts == NoGroup \notin GroupIds /\ \A g \in GroupIds : g # NoGroup
BY GroupAssumption DEF GroupIds, NoGroup

LEMMA ListedInfos ==
  ASSUME TypeOK
  PROVE  \A g \in GroupIds : \A i \in ToSet(m_members[g]) :
           i \in GroupMemberInfo /\ i.name \in Players
<1>. SUFFICES ASSUME NEW g \in GroupIds, NEW i \in ToSet(m_members[g])
              PROVE  i \in GroupMemberInfo /\ i.name \in Players
  OBVIOUS
<1>1. m_members[g] \in Seq(GroupMemberInfo)
  BY DEF TypeOK
<1>2. \A n \in DOMAIN m_members[g] : m_members[g][n] \in GroupMemberInfo
  BY <1>1
<1>3. i \in GroupMemberInfo
  BY <1>2 DEF ToSet
<1>. QED  BY <1>3 DEF GroupMemberInfo

\* No list and no pointer changes, and everybody stays where he is.
LEMMA SameLists ==
  ASSUME ListsOK, UNCHANGED <<m_members, gmi, rejoin_group_id>>,
         m_groups \subseteq m_groups',
         \A p \in Players : Here(p)' = Here(p)
  PROVE  ListsOK'
<1>1. Agree'
  BY DEF ListsOK, Agree
<1>2. OnceEach'
  BY DEF ListsOK, OnceEach
<1>3. Placed'
  BY DEF ListsOK, Placed, Lists
<1>4. MembersHere'
  BY DEF ListsOK, MembersHere
<1>5. FreeIds'
  BY DEF ListsOK, FreeIds
<1>. QED  BY <1>1, <1>2, <1>3, <1>4, <1>5 DEF ListsOK

\* A player joins, or is refused.
LEMMA JoinedLists ==
  ASSUME TypeOK, ListsOK, NEW g \in GroupIds \cup {NoGroup}, NEW p \in Players,
         NEW leads \in BOOLEAN, AddMember(g, p, leads),
         UNCHANGED <<m_groups, rejoin_group_id, zone, zoning>>,
         Online(p)
  PROVE  Types' /\ (JoinsForGood(g, p) => ListsOK')
<1>0. \A q \in Players : Here(q)' = Here(q)
  BY DEF Here, Online
<1>1. CASE ~Joins(g, p)
  <2>1. UNCHANGED <<m_members, gmi>>
    BY <1>1 DEF AddMember
  <2>. QED  BY <1>0, <2>1, SameLists DEF TypeOK, Types
<1>2. CASE Joins(g, p)
  <2> DEFINE i == [name |-> p, leader |-> leads, member |-> TRUE]
  <2>1. g \in GroupIds /\ g \in m_groups /\ gmi[p] = NoGroup
    BY <1>2, GroupAssumption DEF Joins, TypeOK, GroupIds
  <2>2. i \in GroupMemberInfo /\ i.name = p /\ i.member
    BY DEF GroupMemberInfo
  <2>3. /\ m_members' = [m_members EXCEPT ![g] = Append(m_members[g], i)]
        /\ gmi' = [gmi EXCEPT ![p] = g]
    BY <1>2 DEF AddMember
  <2> HIDE DEF i
  <2>4. \A h \in GroupIds : m_members[h] \in Seq(GroupMemberInfo)
    BY DEF TypeOK
  <2>5. /\ Append(m_members[g], i) \in Seq(GroupMemberInfo)
        /\ ToSet(Append(m_members[g], i)) = ToSet(m_members[g]) \cup {i}
        /\ Distinct(m_members[g]) /\ (\A j \in ToSet(m_members[g]) : j.name # i.name)
              => Distinct(Append(m_members[g], i))
    BY <2>1, <2>2, <2>4, AppendFacts
  <2>6. /\ ToSet(m_members'[g]) = ToSet(m_members[g]) \cup {i}
        /\ \A h \in GroupIds : h # g => m_members'[h] = m_members[h]
        /\ gmi'[p] = g
        /\ \A q \in Players : q # p => gmi'[q] = gmi[q]
    BY <2>1, <2>3, <2>5 DEF TypeOK
  <2>7. Types'
    BY <2>1, <2>3, <2>5 DEF TypeOK, Types
  <2>8. ASSUME JoinsForGood(g, p)
        PROVE  ListsOK'
    <3>1. Here(p) /\ \A h \in GroupIds : ~Lists(h, p)
      BY <1>2, <2>1, <2>8, IdFacts DEF JoinsForGood, ListsOK, Placed, Here
    <3>2. \A h \in GroupIds : \A j \in ToSet(m_members[h]) : j.name # p
      BY <3>1 DEF Lists
    <3>3. \A h \in GroupIds : \A j \in ToSet(m_members[h]) : j.name \in Players
      BY ListedInfos
    <3>4. Agree'
      <4>1. \A q \in Players : gmi'[q] # NoGroup =>
              /\ gmi'[q] \in m_groups'
              /\ \E j \in ToSet(m_members'[gmi'[q]]) : j.name = q /\ j.member
        <5>. SUFFICES ASSUME NEW q \in Players, gmi'[q] # NoGroup
                      PROVE  /\ gmi'[q] \in m_groups
                             /\ \E j \in ToSet(m_members'[gmi'[q]]) : j.name = q /\ j.member
          OBVIOUS
        <5>1. CASE q = p
          BY <5>1, <2>1, <2>2, <2>6
        <5>2. CASE q # p
          <6>1. gmi'[q] = gmi[q] /\ gmi[q] \in GroupIds
            BY <5>2, <2>6 DEF TypeOK
          <6>2. ToSet(m_members[gmi[q]]) \subseteq ToSet(m_members'[gmi[q]])
            BY <6>1, <2>6
          <6>. QED  BY <6>1, <6>2 DEF ListsOK, Agree
        <5>. QED  BY <5>1, <5>2
      <4>2. ASSUME NEW h \in GroupIds, NEW j \in ToSet(m_members'[h]), j.member
            PROVE  gmi'[j.name] = h
        <5>1. CASE j = i /\ h = g
          BY <5>1, <2>2, <2>6
        <5>2. CASE j \in ToSet(m_members[h])
          BY <5>2, <4>2, <3>2, <3>3, <2>6 DEF ListsOK, Agree
        <5>. QED  BY <5>1, <5>2, <2>6
      <4>. QED  BY <4>1, <4>2 DEF Agree
    <3>5. OnceEach'
      BY <2>1, <2>2, <2>3, <2>5, <2>6, <3>2 DEF ListsOK, OnceEach, TypeOK
    <3>6. Placed'
      <4>1. \A q \in Players, h \in GroupIds : Lists(h, q)' => Lists(h, q) \/ (h = g /\ q = p)
        BY <2>2, <2>6 DEF Lists
      <4>2. \A q \in Players, h \in GroupIds : Lists(h, q) => q # p
        BY <3>1
      <4>. QED  BY <4>1, <4>2, <3>1, <2>6, <1>0 DEF ListsOK, Placed
    <3>7. MembersHere'
      BY <3>1, <2>6, <1>0 DEF ListsOK, MembersHere
    <3>8. FreeIds'
      BY <2>1, <2>6 DEF ListsOK, FreeIds
    <3>. QED  BY <3>4, <3>5, <3>6, <3>7, <3>8 DEF ListsOK
  <2>. QED  BY <2>7, <2>8
<1>. QED  BY <1>1, <1>2

\* A player leaves his group, or is put out of it.
LEMMA RemovedLists ==
  ASSUME TypeOK, ListsOK, NEW p \in Players, gmi[p] # NoGroup,
         RemoveMember(gmi[p], p), UNCHANGED m_groups,
         \A q \in Players : q # p => Here(q)' = Here(q) /\ rejoin_group_id'[q] = rejoin_group_id[q]
  PROVE  Types' /\ ListsOK'
<1> DEFINE g == gmi[p]
<1>1. g \in GroupIds
  BY DEF TypeOK
<1>2. \A h \in GroupIds : m_members[h] \in Seq(GroupMemberInfo)
  BY DEF TypeOK
<1>3. /\ m_members' = [m_members EXCEPT ![g] = Without(m_members[g], p)]
      /\ gmi' = [gmi EXCEPT ![p] = NoGroup]
  BY DEF RemoveMember
<1>4. /\ Without(m_members[g], p) \in Seq(GroupMemberInfo)
      /\ ToSet(Without(m_members[g], p)) \subseteq ToSet(m_members[g])
      /\ Distinct(Without(m_members[g], p))
      /\ \A i \in ToSet(m_members[g]) :
           i.name = p /\ i.member <=> i \notin ToSet(Without(m_members[g], p))
  BY <1>1, <1>2, WithoutFacts DEF ListsOK, OnceEach
<1>5. /\ m_members'[g] = Without(m_members[g], p)
      /\ \A h \in GroupIds : h # g => m_members'[h] = m_members[h]
      /\ gmi'[p] = NoGroup
      /\ \A q \in Players : q # p => gmi'[q] = gmi[q]
  BY <1>1, <1>3 DEF TypeOK
<1> HIDE DEF g
<1>6. \A h \in GroupIds : ToSet(m_members'[h]) \subseteq ToSet(m_members[h])
  BY <1>4, <1>5
<1>7. \A h \in GroupIds : ~Lists(h, p)'
  <2>. SUFFICES ASSUME NEW h \in GroupIds, NEW i \in ToSet(m_members'[h]), i.name = p
                PROVE  FALSE
    BY DEF Lists
  <2>1. Here(p)
    BY DEF ListsOK, MembersHere
  <2>2. h = g
    BY <1>6, <2>1 DEF ListsOK, Placed, Lists, g
  <2>3. PICK j \in ToSet(m_members[g]) : j.name = p /\ j.member
    BY DEF ListsOK, Agree, g
  <2>4. i = j
    BY <1>1, <1>6, <2>2, <2>3 DEF ListsOK, OnceEach, Distinct, ToSet
  <2>. QED  BY <1>4, <1>5, <2>2, <2>3, <2>4
<1>8. Types'
  BY <1>1, <1>3, <1>4 DEF TypeOK, Types
<1>9. Agree'
  <2>1. ASSUME NEW q \in Players, gmi'[q] # NoGroup
        PROVE  /\ gmi'[q] \in m_groups'
               /\ \E i \in ToSet(m_members'[gmi'[q]]) : i.name = q /\ i.member
    <3>1. q # p /\ gmi'[q] = gmi[q] /\ gmi[q] \in GroupIds
      BY <2>1, <1>5 DEF TypeOK
    <3>2. PICK i \in ToSet(m_members[gmi[q]]) : i.name = q /\ i.member
      BY <2>1, <3>1 DEF ListsOK, Agree
    <3>3. i \in ToSet(m_members'[gmi[q]])
      BY <3>1, <3>2, <1>4, <1>5
    <3>. QED  BY <2>1, <3>1, <3>2, <3>3 DEF ListsOK, Agree
  <2>2. ASSUME NEW h \in GroupIds, NEW i \in ToSet(m_members'[h]), i.member
        PROVE  gmi'[i.name] = h
    <3>1. i \in ToSet(m_members[h]) /\ i.name \in Players /\ i.name # p
      BY <1>6, <1>7, ListedInfos DEF Lists
    <3>. QED  BY <2>2, <3>1, <1>5 DEF ListsOK, Agree
  <2>. QED  BY <2>1, <2>2 DEF Agree
<1>10. OnceEach'
  BY <1>4, <1>5 DEF ListsOK, OnceEach
<1>11. Placed'
  <2>1. \A q \in Players, h \in GroupIds : Lists(h, q)' => Lists(h, q) /\ q # p
    BY <1>6, <1>7 DEF Lists
  <2>. QED  BY <2>1, <1>5 DEF ListsOK, Placed
<1>12. MembersHere'
  BY <1>5 DEF ListsOK, MembersHere
<1>13. FreeIds'
  BY <1>5, <1>1 DEF ListsOK, FreeIds, Agree, g
<1>. QED  BY <1>8, <1>9, <1>10, <1>11, <1>12, <1>13 DEF ListsOK

\* A group is dissolved.
LEMMA DissolvedLists ==
  ASSUME TypeOK, ListsOK, NEW g \in GroupIds, RemoveGroup(g),
         UNCHANGED <<rejoin_group_id, zone, zoning>>
  PROVE  Types' /\ ListsOK' /\ m_groups' = m_groups \ {g}
<1> DEFINE Goes(q) == \E i \in ToSet(m_members[g]) : i.name = q /\ i.member
<1>0. \A q \in Players : Here(q)' = Here(q)
  BY DEF Here, Online
<1>1. /\ m_groups' = m_groups \ {g}
      /\ m_members' = [m_members EXCEPT ![g] = <<>>]
      /\ gmi' = [q \in Players |-> IF Goes(q) THEN NoGroup ELSE gmi[q]]
  BY DEF RemoveGroup
<1>2. /\ m_members'[g] = <<>>
      /\ \A h \in GroupIds : h # g => m_members'[h] = m_members[h]
      /\ \A q \in Players : gmi'[q] = IF Goes(q) THEN NoGroup ELSE gmi[q]
  BY <1>1 DEF TypeOK
<1>3. Types'
  <2>1. <<>> \in Seq(GroupMemberInfo)
    OBVIOUS
  <2>. QED  BY <1>1, <2>1 DEF TypeOK, Types
<1>4. ToSet(m_members'[g]) = {} /\ Distinct(m_members'[g])
  BY <1>2 DEF ToSet, Distinct
<1>5. \A q \in Players : Goes(q) <=> gmi[q] = g
  BY IdFacts DEF ListsOK, Agree
<1> HIDE DEF Goes
<1>6. Agree'
  <2>1. ASSUME NEW q \in Players, gmi'[q] # NoGroup
        PROVE  /\ gmi'[q] \in m_groups'
               /\ \E i \in ToSet(m_members'[gmi'[q]]) : i.name = q /\ i.member
    <3>1. gmi'[q] = gmi[q] /\ gmi[q] # g /\ gmi[q] \in GroupIds
      BY <2>1, <1>2, <1>5 DEF TypeOK
    <3>. QED  BY <2>1, <3>1, <1>1, <1>2 DEF ListsOK, Agree
  <2>2. ASSUME NEW h \in GroupIds, NEW i \in ToSet(m_members'[h]), i.member
        PROVE  gmi'[i.name] = h
    <3>1. h # g /\ i \in ToSet(m_members[h]) /\ i.name \in Players
      BY <1>2, <1>4, ListedInfos
    <3>. QED  BY <2>2, <3>1, <1>2, <1>5 DEF ListsOK, Agree
  <2>. QED  BY <2>1, <2>2 DEF Agree
<1>7. OnceEach'
  BY <1>2, <1>4 DEF ListsOK, OnceEach
<1>8. Placed'
  <2>1. \A q \in Players, h \in GroupIds : Lists(h, q)' => h # g /\ Lists(h, q)
    BY <1>2, <1>4 DEF Lists
  <2>. QED  BY <2>1, <1>0, <1>2, <1>5 DEF ListsOK, Placed
<1>9. MembersHere'
  BY <1>0, <1>2 DEF ListsOK, MembersHere
<1>10. FreeIds'
  BY <1>1, <1>2 DEF ListsOK, FreeIds
<1>. QED  BY <1>1, <1>3, <1>6, <1>7, <1>8, <1>9, <1>10 DEF ListsOK

\* A player lets go of his info on his way out.
LEMMA DetachedLists ==
  ASSUME TypeOK, ListsOK, NEW p \in Players, TempRemoveGroup(p), Here(p), ~Here(p)',
         UNCHANGED m_groups,
         \A q \in Players : q # p => Here(q)' = Here(q)
  PROVE  Types' /\ ListsOK' /\ rejoin_group_id' \in [Players -> GroupIds \cup {NoGroup}]
<1>1. CASE gmi[p] = NoGroup
  <2>1. UNCHANGED <<m_members, gmi, rejoin_group_id>>
    BY <1>1 DEF TempRemoveGroup
  <2>2. \A h \in GroupIds : ~Lists(h, p)
    BY <1>1, IdFacts DEF ListsOK, Placed
  <2>3. Types' /\ rejoin_group_id' \in [Players -> GroupIds \cup {NoGroup}]
    BY <2>1 DEF TypeOK, Types
  <2>4. Agree' /\ OnceEach' /\ FreeIds'
    BY <2>1 DEF ListsOK, Agree, OnceEach, FreeIds
  <2>5. Placed'
    BY <2>1, <2>2 DEF ListsOK, Placed, Lists
  <2>6. MembersHere'
    BY <2>1, <1>1 DEF ListsOK, MembersHere
  <2>. QED  BY <2>3, <2>4, <2>5, <2>6 DEF ListsOK
<1>2. CASE gmi[p] # NoGroup
  <2> DEFINE g == gmi[p]
             new == Detached(m_members[g], p)
  <2>1. g \in GroupIds
    BY <1>2 DEF TypeOK
  <2>2. /\ rejoin_group_id' = [rejoin_group_id EXCEPT ![p] = g]
        /\ m_members' = [m_members EXCEPT ![g] = new]
        /\ gmi' = [gmi EXCEPT ![p] = NoGroup]
    BY <1>2 DEF TempRemoveGroup
  <2>3. m_members[g] \in Seq(GroupMemberInfo) /\ Distinct(m_members[g])
    BY <2>1 DEF TypeOK, ListsOK, OnceEach
  <2>4. /\ new \in Seq(GroupMemberInfo) /\ Distinct(new)
        /\ \A i \in ToSet(m_members[g]) : i.name # p => i \in ToSet(new)
        /\ \A i \in ToSet(new) :
             \/ i.name # p /\ i \in ToSet(m_members[g])
             \/ i.name = p /\ ~i.member /\ \E j \in ToSet(m_members[g]) : j.name = p
    BY <2>3, DetachedFacts
  <2>5. /\ m_members'[g] = new
        /\ \A h \in GroupIds : h # g => m_members'[h] = m_members[h]
        /\ gmi'[p] = NoGroup /\ rejoin_group_id'[p] = g
        /\ \A q \in Players : q # p => gmi'[q] = gmi[q] /\ rejoin_group_id'[q] = rejoin_group_id[q]
    BY <2>1, <2>2 DEF TypeOK
  <2>6. Types' /\ rejoin_group_id' \in [Players -> GroupIds \cup {NoGroup}]
    BY <2>1, <2>2, <2>4 DEF TypeOK, Types
  <2> HIDE DEF new
  <2>8. \A h \in GroupIds : Lists(h, p) => h = g
    BY DEF ListsOK, Placed
  <2>9. \A h \in GroupIds : \A i \in ToSet(m_members'[h]) :
          \/ i.name # p /\ i \in ToSet(m_members[h])
          \/ i.name = p /\ ~i.member /\ h = g
    <3>1. ASSUME NEW i \in ToSet(m_members'[g])
          PROVE  \/ i.name # p /\ i \in ToSet(m_members[g])
                 \/ i.name = p /\ ~i.member
      BY <2>4, <2>5
    <3>2. ASSUME NEW h \in GroupIds, h # g, NEW i \in ToSet(m_members'[h])
          PROVE  i.name # p /\ i \in ToSet(m_members[h])
      BY <2>5, <2>8, <3>2 DEF Lists
    <3>. QED  BY <3>1, <3>2
  <2>10. Agree'
    <3>1. ASSUME NEW q \in Players, gmi'[q] # NoGroup
          PROVE  /\ gmi'[q] \in m_groups'
                 /\ \E i \in ToSet(m_members'[gmi'[q]]) : i.name = q /\ i.member
      <4>1. q # p /\ gmi'[q] = gmi[q] /\ gmi[q] \in GroupIds
        BY <3>1, <2>5 DEF TypeOK
      <4>2. PICK i \in ToSet(m_members[gmi[q]]) : i.name = q /\ i.member
        BY <3>1, <4>1 DEF ListsOK, Agree
      <4>3. i \in ToSet(m_members'[gmi[q]])
        BY <4>1, <4>2, <2>4, <2>5
      <4>. QED  BY <3>1, <4>1, <4>2, <4>3 DEF ListsOK, Agree
    <3>2. ASSUME NEW h \in GroupIds, NEW i \in ToSet(m_members'[h]), i.member
          PROVE  gmi'[i.name] = h
      <4>1. i \in ToSet(m_members[h]) /\ i.name \in Players /\ i.name # p
        BY <3>2, <2>9, ListedInfos
      <4>. QED  BY <3>2, <4>1, <2>5 DEF ListsOK, Agree
    <3>. QED  BY <3>1, <3>2 DEF Agree
  <2>11. OnceEach'
    BY <2>4, <2>5 DEF ListsOK, OnceEach
  <2>12. Placed'
    <3>1. \A q \in Players, h \in GroupIds : Lists(h, q)' => IF q = p THEN h = g ELSE Lists(h, q)
      BY <2>9 DEF Lists
    <3>. QED  BY <3>1, <2>5 DEF ListsOK, Placed
  <2>13. MembersHere'
    BY <2>5 DEF ListsOK, MembersHere
  <2>14. FreeIds'
    BY <1>2, <2>1, <2>5 DEF ListsOK, FreeIds, Agree
  <2>. QED  BY <2>6, <2>10, <2>11, <2>12, <2>13, <2>14 DEF ListsOK
<1>. QED  BY <1>1, <1>2

\* A player who arrives gets back his place, if there is one.
LEMMA RejoinedLists ==
  ASSUME TypeOK, ListsOK, NEW p \in Players, RejoinGroup(p), ~Here(p), Here(p)',
         UNCHANGED <<m_groups, rejoin_group_id>>,
         \A q \in Players : q # p => Here(q)' = Here(q)
  PROVE  Types' /\ ListsOK'
<1> DEFINE g == rejoin_group_id[p]
           mine == {n \in DOMAIN m_members[g] : m_members[g][n].name = p}
<1>0. gmi[p] = NoGroup
  BY DEF ListsOK, MembersHere
<1>1. CASE ~(g \in m_groups /\ mine # {})
  <2>1. UNCHANGED <<m_members, gmi>>
    BY <1>1 DEF RejoinGroup
  <2>2. \A h \in GroupIds : ~Lists(h, p)
    <3>. SUFFICES ASSUME NEW h \in GroupIds, NEW i \in ToSet(m_members[h]), i.name = p
                  PROVE  FALSE
      BY DEF Lists
    <3>1. h = g
      BY DEF ListsOK, Placed, Lists
    <3>2. PICK n \in DOMAIN m_members[h] : m_members[h][n] = i
      BY DEF ToSet
    <3>3. mine # {}
      BY <3>1, <3>2
    <3>4. m_members[h] # <<>>
      BY <3>2
    <3>. QED  BY <1>1, <3>1, <3>3, <3>4 DEF ListsOK, FreeIds
  <2>3. Types'
    BY <2>1 DEF TypeOK, Types
  <2>4. Agree' /\ OnceEach' /\ FreeIds'
    BY <2>1 DEF ListsOK, Agree, OnceEach, FreeIds
  <2>5. Placed'
    BY <2>1, <2>2 DEF ListsOK, Placed, Lists
  <2>6. MembersHere'
    BY <2>1, <1>0 DEF ListsOK, MembersHere
  <2>. QED  BY <2>3, <2>4, <2>5, <2>6 DEF ListsOK
<1>2. CASE g \in m_groups /\ mine # {}
  <2> DEFINE first == CHOOSE n \in mine : \A m \in mine : n <= m
             old == m_members[g]
             i == [old[first] EXCEPT !.member = TRUE]
             new == [old EXCEPT ![first] = i]
  <2>1. g \in GroupIds
    <3>1. g \in m_groups /\ m_groups \subseteq 1..created /\ created \in 0..MaxGroups
      BY <1>2 DEF TypeOK
    <3> HIDE DEF g
    <3>. QED  BY <3>1, GroupAssumption DEF GroupIds
  <2>2. old \in Seq(GroupMemberInfo) /\ Distinct(old)
    BY <2>1 DEF TypeOK, ListsOK, OnceEach
  <2>3. DOMAIN old = 1..Len(old) /\ Len(old) \in Nat
    BY <2>2
  <2>4. PICK at \in mine : mine = {at}
    BY <1>2, <2>2 DEF Distinct
  <2>5. at \in 1..Len(old) /\ old[at].name = p
    BY <2>3, <2>4
  <2>6. first = at
    BY <2>3, <2>4, <2>5
  <2>7. m_members' = [m_members EXCEPT ![g] = new] /\ gmi' = [gmi EXCEPT ![p] = g]
    <3>1. m_members' = [m_members EXCEPT ![g][first].member = TRUE] /\ gmi' = [gmi EXCEPT ![p] = g]
      BY <1>2 DEF RejoinGroup
    <3>. QED  BY <3>1
  <2> HIDE DEF mine, first
  <2>8. old[at] \in GroupMemberInfo
    BY <2>2, <2>5
  <2>9. i \in GroupMemberInfo /\ i.name = p /\ i.member
    BY <2>5, <2>6, <2>8 DEF GroupMemberInfo
  <2> HIDE DEF i
  <2>10. /\ new \in Seq(GroupMemberInfo) /\ DOMAIN new = DOMAIN old
         /\ new[at] = i
         /\ \A n \in DOMAIN old : n # at => new[n] = old[n] /\ old[n].name # p
    <3>1. new \in Seq(GroupMemberInfo)
      BY <2>2, <2>5, <2>6, <2>9, ExceptSeq
    <3>2. DOMAIN new = DOMAIN old /\ new[at] = i /\ \A n \in DOMAIN old : n # at => new[n] = old[n]
      BY <2>3, <2>5, <2>6
    <3>3. \A n \in DOMAIN old : n # at => old[n].name # p
      BY <2>4 DEF mine
    <3>. QED  BY <3>1, <3>2, <3>3
  <2> HIDE DEF new
  <2>11. Distinct(new)
    BY <2>2, <2>5, <2>9, <2>10 DEF Distinct
  <2>12. /\ \A j \in ToSet(new) : j = i \/ (j.name # p /\ j \in ToSet(old))
         /\ \A j \in ToSet(old) : j.name # p => j \in ToSet(new)
         /\ i \in ToSet(new)
    <3>1. /\ at \in DOMAIN old /\ old[at].name = p
          /\ ToSet(new) = {new[n] : n \in DOMAIN old}
          /\ ToSet(old) = {old[n] : n \in DOMAIN old}
      BY <2>3, <2>5, <2>10 DEF ToSet
    <3> HIDE DEF old
    <3>. QED  BY <3>1, <2>10
  <2>13. /\ m_members'[g] = new
         /\ \A h \in GroupIds : h # g => m_members'[h] = m_members[h]
         /\ gmi'[p] = g
         /\ \A q \in Players : q # p => gmi'[q] = gmi[q]
    BY <2>1, <2>7 DEF TypeOK
  <2>14. Types'
    BY <2>1, <2>7, <2>10 DEF TypeOK, Types
  <2>15. \A h \in GroupIds : Lists(h, p) => h = g
    BY DEF ListsOK, Placed
  <2>16. Agree'
    <3>1. ASSUME NEW q \in Players, gmi'[q] # NoGroup
          PROVE  /\ gmi'[q] \in m_groups'
                 /\ \E j \in ToSet(m_members'[gmi'[q]]) : j.name = q /\ j.member
      <4>1. CASE q = p
        BY <4>1, <1>2, <2>9, <2>12, <2>13
      <4>2. CASE q # p
        <5>1. gmi'[q] = gmi[q] /\ gmi[q] \in GroupIds
          BY <3>1, <4>2, <2>13 DEF TypeOK
        <5>2. PICK j \in ToSet(m_members[gmi[q]]) : j.name = q /\ j.member
          BY <3>1, <5>1 DEF ListsOK, Agree
        <5>3. j \in ToSet(m_members'[gmi[q]])
          BY <4>2, <5>1, <5>2, <2>12, <2>13
        <5>. QED  BY <3>1, <5>1, <5>2, <5>3 DEF ListsOK, Agree
      <4>. QED  BY <4>1, <4>2
    <3>2. ASSUME NEW h \in GroupIds, NEW j \in ToSet(m_members'[h]), j.member
          PROVE  gmi'[j.name] = h
      <4>1. CASE h = g /\ j = i
        BY <4>1, <2>9, <2>13
      <4>2. CASE ~(h = g /\ j = i)
        <5>1. j \in ToSet(m_members[h]) /\ j.name \in Players
          BY <4>2, <2>12, <2>13, ListedInfos
        <5>2. j.name # p
          BY <4>2, <5>1, <2>12, <2>13, <2>15 DEF Lists
        <5>. QED  BY <3>2, <5>1, <5>2, <2>13 DEF ListsOK, Agree
      <4>. QED  BY <4>1, <4>2
    <3>. QED  BY <3>1, <3>2 DEF Agree
  <2>17. OnceEach'
    BY <2>11, <2>13 DEF ListsOK, OnceEach
  <2>18. Placed'
    <3>1. \A q \in Players, h \in GroupIds : Lists(h, q)' => Lists(h, q) \/ (q = p /\ h = g)
      BY <2>9, <2>12, <2>13 DEF Lists
    <3>2. \A q \in Players, h \in GroupIds : Lists(h, q)' => IF q = p THEN h = g ELSE Lists(h, q)
      BY <3>1, <2>15
    <3>. QED  BY <3>2, <2>13 DEF ListsOK, Placed
  <2>19. MembersHere'
    BY <2>13 DEF ListsOK, MembersHere
  <2>20. FreeIds'
    BY <1>2, <2>1, <2>13 DEF ListsOK, FreeIds
  <2>. QED  BY <2>14, <2>16, <2>17, <2>18, <2>19, <2>20 DEF ListsOK
<1>. QED  BY <1>1, <1>2

-----------------------------------------------------------------------------
(* The initial state and the steps *)

LEMMA InitIInv == Init => IInv
<1> SUFFICES ASSUME Init PROVE IInv
  OBVIOUS
<1>1. \A g \in GroupIds : m_members[g] = <<>> /\ ToSet(m_members[g]) = {} /\ Distinct(m_members[g])
  BY DEF Init, ToSet, Distinct
<1>2. TypeOK
  <2>1. created \in 0..MaxGroups /\ m_groups \subseteq 1..created
    BY GroupAssumption DEF Init
  <2>2. m_members \in [GroupIds -> Seq(GroupMemberInfo)]
    <3>1. <<>> \in Seq(GroupMemberInfo)
      OBVIOUS
    <3>. QED  BY <3>1 DEF Init
  <2>3. doing \in [Zones -> Task]
    BY DEF Init, Task
  <2>. QED  BY <2>1, <2>2, <2>3 DEF Init, TypeOK
<1>3. ListsOK
  BY <1>1 DEF Init, ListsOK, Agree, OnceEach, Placed, Lists, MembersHere, FreeIds
<1>4. ZonesOK
  BY DEF Init, ZonesOK, TasksOK, Idle
<1>. QED  BY <1>2, <1>3, <1>4 DEF IInv

\* Whoever gives a command is in a zone whose thread is idle.
LEMMA CommandFacts ==
  ASSUME TypeOK, NEW p \in Players, Commands(p)
  PROVE  zone[p] \in Zones /\ doing[zone[p]] = Idle /\ Here(p)
BY DEF TypeOK, Commands, Online, Here

\* Steps that move nobody and give no thread anything to do.
LEMMA SameZones ==
  ASSUME ZonesOK, UNCHANGED <<zone, zoning, doing>>
  PROVE  ZonesOK' /\ \A p \in Players : Here(p)' = Here(p)
BY DEF ZonesOK, TasksOK, Here, Online

LEMMA InviteIInv ==
  ASSUME IInv, intact, NEW p \in Players, NEW t \in Players, Invite(p, t)
  PROVE  IInv'
<1>1. TypeOK'
  BY DEF Invite, IInv, TypeOK
<1>2. ZonesOK' /\ \A q \in Players : Here(q)' = Here(q)
  BY SameZones DEF Invite, IInv
<1>3. ListsOK'
  BY <1>2, SameLists DEF Invite, IInv
<1>. QED  BY <1>1, <1>2, <1>3 DEF IInv

LEMMA DeclineInviteIInv ==
  ASSUME IInv, intact, NEW p \in Players, DeclineInvite(p)
  PROVE  IInv'
<1>1. TypeOK'
  BY DEF DeclineInvite, IInv, TypeOK
<1>2. ZonesOK' /\ \A q \in Players : Here(q)' = Here(q)
  BY SameZones DEF DeclineInvite, IInv
<1>3. ListsOK'
  BY <1>2, SameLists DEF DeclineInvite, IInv
<1>. QED  BY <1>1, <1>2, <1>3 DEF IInv

LEMMA ClearPendingInviteIInv ==
  ASSUME IInv, intact, NEW p \in Players, ClearPendingInvite(p)
  PROVE  IInv'
<1>1. TypeOK'
  BY DEF ClearPendingInvite, IInv, TypeOK
<1>2. ZonesOK' /\ \A q \in Players : Here(q)' = Here(q)
  BY SameZones DEF ClearPendingInvite, IInv
<1>3. ListsOK'
  BY <1>2, SameLists DEF ClearPendingInvite, IInv
<1>. QED  BY <1>1, <1>2, <1>3 DEF IInv

LEMMA AcceptInviteIInv ==
  ASSUME IInv, intact, NEW p \in Players, AcceptInvite(p)
  PROVE  IInv'
<1> DEFINE leader == m_pendingInvites[p]
<1>1. zone[p] \in Zones /\ doing[zone[p]] = Idle /\ Here(p) /\ leader \in Players
  BY CommandFacts DEF AcceptInvite, IInv, TypeOK
<1>2. UNCHANGED <<m_members, gmi, rejoin_group_id, zone, zoning, leftBehind, intact>>
  BY DEF AcceptInvite
<1>3. CASE LeaderIsGone(p)
  <2>1. TypeOK'
    BY <1>2, <1>3 DEF LeaderIsGone, IInv, TypeOK
  <2>2. ZonesOK' /\ \A q \in Players : Here(q)' = Here(q)
    BY <1>2, <1>3, SameZones DEF LeaderIsGone, IInv
  <2>3. ListsOK'
    BY <1>2, <1>3, <2>2, SameLists DEF LeaderIsGone, IInv
  <2>. QED  BY <2>1, <2>2, <2>3 DEF IInv
<1>4. CASE Accepted(p)
  <2> DEFINE makes == m_pendingInvites[leader] # Nobody /\ gmi[leader] = NoGroup
             group == IF m_pendingInvites[leader] = Nobody THEN NoGroup
                      ELSE IF makes THEN NextId ELSE gmi[leader]
             task == [op |-> "accepted", who |-> p, leader |-> leader, group |-> group,
                      here |-> zone[leader] = zone[p]]
  <2>1. /\ makes => created < MaxGroups
        /\ created' = IF makes THEN created + 1 ELSE created
        /\ m_groups' = IF makes THEN m_groups \cup {NextId} ELSE m_groups
        /\ m_pendingInvites' = [m_pendingInvites EXCEPT ![p] = Nobody, ![leader] = Nobody]
        /\ doing' = [doing EXCEPT ![zone[p]] = task]
    BY <1>4 DEF Accepted
  <2>2. created \in 0..MaxGroups /\ m_groups \subseteq 1..created /\ gmi[leader] \in GroupIds \cup {NoGroup}
    BY <1>1 DEF IInv, TypeOK
  <2>3. /\ created' \in 0..MaxGroups /\ m_groups' \subseteq 1..created'
        /\ m_groups \subseteq m_groups'
        /\ group \in GroupIds \cup {NoGroup}
    <3>1. group \in {NextId, gmi[leader], NoGroup} /\ (group = NextId => makes \/ group \in {gmi[leader], NoGroup})
      OBVIOUS
    <3> HIDE DEF leader, makes, group
    <3>2. CASE makes
      <4>1. created < MaxGroups /\ created' = created + 1 /\ m_groups' = m_groups \cup {created + 1}
        BY <2>1, <3>2 DEF NextId
      <4>2. created \in Nat /\ MaxGroups \in Nat /\ created + 1 \in 1..MaxGroups
        BY <4>1, <2>2, GroupAssumption
      <4>3. created' \in 0..MaxGroups /\ 1..created \subseteq 1..created' /\ created + 1 \in 1..created'
        BY <4>1, <4>2
      <4>. QED  BY <4>1, <4>2, <4>3, <3>1, <2>2 DEF NextId, GroupIds
    <3>3. CASE ~makes
      BY <3>1, <3>3, <2>1, <2>2
    <3>. QED  BY <3>2, <3>3
  <2> HIDE DEF makes, group
  <2>4. task \in Task /\ task.op = "accepted" /\ task.who = p /\ task.leader = leader
        /\ (task.here <=> zone[leader] = zone[p])
    BY <1>1, <2>3 DEF Task
  <2> HIDE DEF task, leader
  <2>5. TypeOK'
    BY <1>1, <1>2, <2>1, <2>3, <2>4 DEF IInv, TypeOK
  <2>6. \A q \in Players : Here(q)' = Here(q)
    BY <1>2 DEF Here, Online
  <2>7. ListsOK'
    BY <1>2, <2>3, <2>6, SameLists DEF IInv
  <2>8. \A z \in Zones : doing'[z] = doing[z] \/ (z = zone[p] /\ doing'[z] = task)
    BY <1>1, <2>1 DEF IInv, TypeOK
  <2>9. ZonesOK'
    <3>1. TasksOK'
      BY <1>1, <1>2, <2>4, <2>8 DEF IInv, ZonesOK, TasksOK, Here
    <3>. QED  BY <3>1, <1>2 DEF IInv, ZonesOK, Online
  <2>. QED  BY <2>5, <2>7, <2>9 DEF IInv
<1>. QED  BY <1>3, <1>4 DEF AcceptInvite

\* Who and whom a thread is about to add are players, the group has an id or none.
LEMMA TaskFacts ==
  ASSUME TypeOK, NEW z \in Zones
  PROVE  /\ doing[z].op = "accepted" =>
              /\ doing[z].who \in Players /\ doing[z].leader \in Players
              /\ doing[z].here \in BOOLEAN /\ doing[z].group \in GroupIds \cup {NoGroup}
         /\ doing[z].op = "join" => doing[z].who \in Players /\ doing[z].leader \in Players
         /\ doing[z].op = "dissolve" => doing[z].group \in GroupIds
<1>1. doing[z] \in Task
  BY DEF TypeOK
<1>. QED  BY <1>1 DEF Task, Idle

\* A thread goes on with its task, or takes up one that adds nobody.
LEMMA NextTask ==
  ASSUME TypeOK, ZonesOK, NEW z \in Zones, NEW task,
         doing' = [doing EXCEPT ![z] = task],
         \/ task.op \notin {"accepted", "join"}
         \/ task.op = "join" /\ doing[z].op = "accepted" /\ task.who = doing[z].who,
         UNCHANGED <<zone, zoning>>
  PROVE  ZonesOK'
<1>1. \A y \in Zones : doing'[y] = IF y = z THEN task ELSE doing[y]
  BY DEF TypeOK
<1>2. TasksOK'
  BY <1>1 DEF ZonesOK, TasksOK
<1>. QED  BY <1>2 DEF ZonesOK, Online

LEMMA IdleFacts == Idle \in Task /\ Idle.op \notin {"accepted", "join"}
BY DEF Idle, Task

LEMMA AddLeaderIInv ==
  ASSUME IInv, intact, NEW z \in Zones, AddLeader(z)
  PROVE  IInv'
<1> DEFINE leader == doing[z].leader
           group == doing[z].group
<1>1. /\ TypeOK /\ ListsOK /\ ZonesOK /\ doing[z].op = "accepted"
      /\ UNCHANGED <<created, m_groups, m_pendingInvites, rejoin_group_id, zone, zoning, leftBehind>>
  BY DEF IInv, AddLeader
<1>2. leader \in Players /\ doing[z].who \in Players /\ group \in GroupIds \cup {NoGroup}
  BY <1>1, TaskFacts
<1>3. CASE doing[z].here
  <2> DEFINE task == [op |-> "join", who |-> doing[z].who, leader |-> doing[z].leader]
  <2>1. /\ AddMember(group, leader, TRUE)
        /\ intact' = JoinsForGood(group, leader)
        /\ doing' = [doing EXCEPT ![z] = task]
    BY <1>3 DEF AddLeader
  <2>2. Online(leader)
    BY <1>1, <1>3, GroupAssumption DEF ZonesOK, TasksOK, Online
  <2>3. Types' /\ (JoinsForGood(group, leader) => ListsOK')
    BY <1>1, <1>2, <2>1, <2>2, JoinedLists
  <2>4. task \in Task
    BY <1>2 DEF Task
  <2>5. ZonesOK'
    <3>1. task.op = "join" /\ task.who = doing[z].who
      OBVIOUS
    <3> HIDE DEF task
    <3>. QED  BY <1>1, <2>1, <3>1, NextTask
  <2>6. intact' \in BOOLEAN
    BY <2>1 DEF JoinsForGood
  <2>7. TypeOK'
    BY <1>1, <2>1, <2>3, <2>4, <2>6 DEF TypeOK, Types
  <2>. QED  BY <2>1, <2>3, <2>5, <2>7 DEF IInv
<1>4. CASE ~doing[z].here
  <2>1. doing' = [doing EXCEPT ![z] = Idle] /\ UNCHANGED <<m_members, gmi, intact>>
    BY <1>4 DEF AddLeader
  <2>2. TypeOK'
    BY <1>1, <2>1, IdleFacts DEF TypeOK
  <2>3. ZonesOK'
    BY <1>1, <2>1, IdleFacts, NextTask
  <2>4. ListsOK'
    BY <1>1, <2>1, SameLists DEF Here, Online
  <2>. QED  BY <2>2, <2>3, <2>4 DEF IInv
<1>. QED  BY <1>3, <1>4

LEMMA AddAccepterIInv ==
  ASSUME IInv, intact, NEW z \in Zones, AddAccepter(z)
  PROVE  IInv'
<1> DEFINE group == gmi[doing[z].leader]
           who == doing[z].who
<1>1. /\ TypeOK /\ ListsOK /\ ZonesOK /\ doing[z].op = "join"
      /\ UNCHANGED <<created, m_groups, m_pendingInvites, rejoin_group_id, zone, zoning, leftBehind>>
      /\ intact' = (group # NoGroup /\ JoinsForGood(group, who))
      /\ AddMember(group, who, FALSE)
      /\ doing' = [doing EXCEPT ![z] = Idle]
  BY DEF IInv, AddAccepter
<1>2. who \in Players /\ group \in GroupIds \cup {NoGroup}
  BY <1>1, TaskFacts DEF TypeOK
<1>3. Online(who)
  BY <1>1, GroupAssumption DEF ZonesOK, TasksOK, Online
<1>4. Types' /\ (JoinsForGood(group, who) => ListsOK')
  BY <1>1, <1>2, <1>3, JoinedLists
<1>5. ZonesOK'
  BY <1>1, IdleFacts, NextTask
<1>6. intact' \in BOOLEAN
  BY <1>1 DEF JoinsForGood
<1>7. TypeOK'
  BY <1>1, <1>4, <1>6, IdleFacts DEF TypeOK, Types
<1>. QED  BY <1>1, <1>4, <1>5, <1>7 DEF IInv

\* What comes after a removal.
LEMMA ThenDissolveFacts ==
  ASSUME TypeOK, ZonesOK, NEW z \in Zones, doing[z] = Idle, NEW g \in GroupIds,
         ThenDissolve(z, g)
  PROVE  /\ doing' \in [Zones -> Task]
         /\ UNCHANGED <<zone, zoning>> => ZonesOK'
         /\ \A y \in Zones : doing'[y] = doing[y] \/ (y = z /\ doing'[y].op = "dissolve")
<1> DEFINE task == [op |-> "dissolve", group |-> g]
<1>1. task \in Task /\ task.op = "dissolve"
  BY DEF Task
<1> HIDE DEF task
<1>2. CASE doing' = doing
  BY <1>2 DEF TypeOK, ZonesOK, TasksOK, Online
<1>3. CASE doing' = [doing EXCEPT ![z] = task]
  <2>1. doing' \in [Zones -> Task] /\ \A y \in Zones : doing'[y] = IF y = z THEN task ELSE doing[y]
    BY <1>1, <1>3 DEF TypeOK
  <2>2. UNCHANGED <<zone, zoning>> => ZonesOK'
    BY <1>1, <1>3, NextTask
  <2>. QED  BY <1>1, <2>1, <2>2
<1>. QED  BY <1>2, <1>3 DEF ThenDissolve, task

LEMMA LeaveIInv ==
  ASSUME IInv, intact, NEW p \in Players, Leave(p)
  PROVE  IInv'
<1>1. /\ TypeOK /\ ListsOK /\ ZonesOK /\ gmi[p] # NoGroup /\ gmi[p] \in GroupIds
      /\ zone[p] \in Zones /\ doing[zone[p]] = Idle
      /\ RemoveMember(gmi[p], p) /\ ThenDissolve(zone[p], gmi[p])
      /\ UNCHANGED <<created, m_groups, m_pendingInvites, rejoin_group_id, zone,
                     zoning, leftBehind, intact>>
  BY CommandFacts DEF IInv, Leave, TypeOK
<1>2. Types' /\ ListsOK'
  BY <1>1, RemovedLists DEF Here, Online
<1>3. doing' \in [Zones -> Task] /\ ZonesOK'
  BY <1>1, ThenDissolveFacts
<1>4. TypeOK'
  BY <1>1, <1>2, <1>3 DEF TypeOK, Types
<1>. QED  BY <1>2, <1>3, <1>4 DEF IInv

LEMMA KickIInv ==
  ASSUME IInv, intact, NEW p \in Players, NEW t \in Players, Kick(p, t)
  PROVE  IInv'
<1>1. /\ TypeOK /\ ListsOK /\ ZonesOK /\ gmi[p] # NoGroup /\ gmi[p] \in GroupIds
      /\ zone[p] \in Zones /\ doing[zone[p]] = Idle
      /\ UNCHANGED <<created, m_groups, m_pendingInvites, rejoin_group_id, zone,
                     zoning, leftBehind>>
  BY CommandFacts DEF IInv, Kick, Leads, TypeOK
<1>2. intact' \in BOOLEAN
  BY DEF Kick
<1>3. CASE intact'
  <2>1. gmi[t] = gmi[p] /\ RemoveMember(gmi[t], t) /\ ThenDissolve(zone[p], gmi[p])
    BY <1>3 DEF Kick
  <2>2. Types' /\ ListsOK'
    BY <1>1, <2>1, RemovedLists DEF Here, Online
  <2>3. doing' \in [Zones -> Task] /\ ZonesOK'
    BY <1>1, <2>1, ThenDissolveFacts
  <2>4. TypeOK'
    BY <1>1, <1>2, <2>2, <2>3 DEF TypeOK, Types
  <2>. QED  BY <2>2, <2>3, <2>4 DEF IInv
<1>4. CASE ~intact'
  <2>1. UNCHANGED <<m_members, gmi, doing>>
    BY <1>4 DEF Kick
  <2>2. TypeOK'
    BY <1>1, <1>2, <2>1 DEF TypeOK
  <2>. QED  BY <1>4, <2>2 DEF IInv
<1>. QED  BY <1>3, <1>4

LEMMA DisbandGroupIInv ==
  ASSUME IInv, intact, NEW p \in Players, DisbandGroup(p)
  PROVE  IInv'
<1>1. /\ TypeOK /\ ListsOK /\ ZonesOK /\ gmi[p] \in GroupIds /\ RemoveGroup(gmi[p])
      /\ UNCHANGED <<created, m_pendingInvites, rejoin_group_id, zone, zoning,
                     leftBehind, doing, intact>>
  BY DEF IInv, DisbandGroup, Leads, TypeOK
<1>2. Types' /\ ListsOK' /\ m_groups' \subseteq m_groups
  BY <1>1, DissolvedLists
<1>3. ZonesOK'
  BY <1>1, SameZones
<1>4. TypeOK'
  BY <1>1, <1>2 DEF TypeOK, Types
<1>. QED  BY <1>2, <1>3, <1>4 DEF IInv

LEMMA DissolveGroupIInv ==
  ASSUME IInv, intact, NEW z \in Zones, DissolveGroup(z)
  PROVE  IInv'
<1>1. /\ TypeOK /\ ListsOK /\ ZonesOK /\ doing[z].op = "dissolve"
      /\ RemoveGroup(doing[z].group) /\ doing' = [doing EXCEPT ![z] = Idle]
      /\ UNCHANGED <<created, m_pendingInvites, rejoin_group_id, zone, zoning,
                     leftBehind, intact>>
  BY DEF IInv, DissolveGroup
<1>2. doing[z].group \in GroupIds
  BY <1>1, TaskFacts
<1>3. Types' /\ ListsOK' /\ m_groups' \subseteq m_groups
  BY <1>1, <1>2, DissolvedLists
<1>4. ZonesOK'
  BY <1>1, IdleFacts, NextTask
<1>5. TypeOK'
  BY <1>1, <1>3, IdleFacts DEF TypeOK, Types
<1>. QED  BY <1>3, <1>4, <1>5 DEF IInv

\* The threads' tasks concern nobody in a zone whose thread is idle.
LEMMA IdleZone ==
  ASSUME TypeOK, ZonesOK, NEW p \in Players, zone[p] \in Zones => doing[zone[p]] = Idle
  PROVE  \A z \in Zones :
           /\ doing[z].op \in {"accepted", "join"} => doing[z].who # p
           /\ doing[z].op = "accepted" /\ doing[z].here => doing[z].leader # p
<1>. SUFFICES ASSUME NEW z \in Zones
              PROVE  /\ doing[z].op \in {"accepted", "join"} => doing[z].who # p
                     /\ doing[z].op = "accepted" /\ doing[z].here => doing[z].leader # p
  OBVIOUS
<1>1. doing[z].op \in {"accepted", "join"} => doing[z] # Idle
  BY IdleFacts
<1>. QED  BY <1>1 DEF ZonesOK, TasksOK

LEMMA ZoneIInv ==
  ASSUME IInv, intact, NEW p \in Players, Zone(p)
  PROVE  IInv'
<1>1. /\ TypeOK /\ ListsOK /\ ZonesOK
      /\ zone[p] \in Zones /\ doing[zone[p]] = Idle /\ Here(p)
      /\ zoning' = zoning \cup {p} /\ TempRemoveGroup(p)
      /\ UNCHANGED <<created, m_groups, m_pendingInvites, zone, doing, intact, leftBehind>>
  BY CommandFacts DEF IInv, Zone
<1>2. ~Here(p)' /\ \A q \in Players : q # p => Here(q)' = Here(q)
  BY <1>1 DEF Here, Online
<1>3. Types' /\ ListsOK' /\ rejoin_group_id' \in [Players -> GroupIds \cup {NoGroup}]
  BY <1>1, <1>2, DetachedLists
<1>4. TypeOK'
  BY <1>1, <1>3 DEF TypeOK, Types
<1>5. ZonesOK'
  <2>1. TasksOK'
    <3>1. \A z \in Zones :
            /\ doing[z].op \in {"accepted", "join"} => doing[z].who # p
            /\ doing[z].op = "accepted" /\ doing[z].here => doing[z].leader # p
      BY <1>1, IdleZone
    <3>. QED  BY <1>1, <3>1 DEF ZonesOK, TasksOK
  <2>. QED  BY <1>1, <2>1 DEF ZonesOK, Here, Online
<1>. QED  BY <1>3, <1>4, <1>5 DEF IInv

\* A player's client leaves its zone.
LEMMA GoneZones ==
  ASSUME TypeOK, ZonesOK, NEW p \in Players, zone[p] \in Zones => doing[zone[p]] = Idle,
         zone' = [zone EXCEPT ![p] = Nowhere], p \notin zoning', zoning' \subseteq zoning,
         \A z \in Zones : doing'[z] = doing[z] \/ doing'[z].op \notin {"accepted", "join"}
  PROVE  ZonesOK' /\ ~Here(p)'
<1>1. \A z \in Zones :
        /\ doing[z].op \in {"accepted", "join"} => doing[z].who # p
        /\ doing[z].op = "accepted" /\ doing[z].here => doing[z].leader # p
  BY IdleZone
<1>2. zone'[p] = Nowhere /\ \A q \in Players : q # p => zone'[q] = zone[q]
  BY DEF TypeOK
<1>3. TasksOK'
  <2>. SUFFICES ASSUME NEW z \in Zones
                PROVE  /\ doing'[z].op \in {"accepted", "join"} =>
                            zone'[doing'[z].who] = z /\ doing'[z].who \notin zoning'
                       /\ doing'[z].op = "accepted" /\ doing'[z].here => zone'[doing'[z].leader] = z
    BY DEF TasksOK
  <2>1. CASE doing'[z] = doing[z]
    BY <2>1, <1>1, <1>2, TaskFacts DEF ZonesOK, TasksOK
  <2>2. CASE doing'[z].op \notin {"accepted", "join"}
    BY <2>2
  <2>. QED  BY <2>1, <2>2
<1>4. \A q \in zoning' : Online(q)'
  BY <1>2 DEF ZonesOK, Online, TypeOK
<1>. QED  BY <1>2, <1>3, <1>4 DEF ZonesOK, Here, Online

LEMMA LeaveZoneIInv ==
  ASSUME IInv, intact, NEW p \in Players, LeaveZone(p)
  PROVE  IInv'
<1>1. /\ TypeOK /\ ListsOK /\ ZonesOK /\ p \in zoning /\ doing[zone[p]] = Idle
      /\ zone' = [zone EXCEPT ![p] = Nowhere]
      /\ leftBehind' = leftBehind \cup {p} /\ zoning' = zoning \ {p}
      /\ UNCHANGED <<created, m_groups, m_members, gmi, m_pendingInvites,
                     rejoin_group_id, doing, intact>>
  BY DEF IInv, LeaveZone
<1>2. ZonesOK' /\ ~Here(p)'
  BY <1>1, GoneZones
<1>3. \A q \in Players : Here(q)' = Here(q)
  BY <1>1, <1>2 DEF Here, Online, TypeOK
<1>4. ListsOK'
  BY <1>1, <1>3, SameLists
<1>5. TypeOK'
  BY <1>1 DEF TypeOK
<1>. QED  BY <1>2, <1>4, <1>5 DEF IInv

LEMMA LeaveWorldIInv ==
  ASSUME IInv, intact, NEW p \in Players, LeaveWorld(p)
  PROVE  IInv'
<1>1. /\ TypeOK /\ ListsOK /\ ZonesOK
      /\ zone[p] \in Zones /\ doing[zone[p]] = Idle /\ Here(p)
      /\ zone' = [zone EXCEPT ![p] = Nowhere]
      /\ leftBehind' = leftBehind \cup {p}
      /\ UNCHANGED <<created, m_groups, m_pendingInvites, zoning, intact>>
  BY CommandFacts DEF IInv, LeaveWorld
<1>2. \A q \in Players : q # p => Here(q)' = Here(q)
  BY <1>1 DEF Here, Online, TypeOK
<1>3. CASE gmi[p] # NoGroup /\ Size(gmi[p]) > 1
  <2>1. /\ RemoveMember(gmi[p], p) /\ ThenDissolve(zone[p], gmi[p])
        /\ \E g \in {gmi[p], rejoin_group_id[p]} :
             rejoin_group_id' = [rejoin_group_id EXCEPT ![p] = g]
    BY <1>3 DEF LeaveWorld
  <2>2. gmi[p] \in GroupIds
    BY <1>1, <1>3 DEF TypeOK
  <2>3. /\ rejoin_group_id' \in [Players -> GroupIds \cup {NoGroup}]
        /\ \A q \in Players : q # p => rejoin_group_id'[q] = rejoin_group_id[q]
    BY <1>1, <2>1 DEF TypeOK
  <2>4. Types' /\ ListsOK'
    BY <1>1, <1>2, <1>3, <2>1, <2>3, RemovedLists
  <2>5. /\ doing' \in [Zones -> Task]
        /\ \A z \in Zones : doing'[z] = doing[z] \/ doing'[z].op = "dissolve"
    BY <1>1, <2>1, <2>2, ThenDissolveFacts
  <2>6. ZonesOK'
    BY <1>1, <2>5, GoneZones DEF Here
  <2>7. TypeOK'
    BY <1>1, <2>3, <2>4, <2>5 DEF TypeOK, Types
  <2>. QED  BY <2>4, <2>6, <2>7 DEF IInv
<1>4. CASE ~(gmi[p] # NoGroup /\ Size(gmi[p]) > 1)
  <2>1. TempRemoveGroup(p) /\ UNCHANGED doing
    BY <1>4 DEF LeaveWorld
  <2>2. ZonesOK' /\ ~Here(p)'
    BY <1>1, <2>1, GoneZones DEF Here
  <2>3. Types' /\ ListsOK' /\ rejoin_group_id' \in [Players -> GroupIds \cup {NoGroup}]
    BY <1>1, <1>2, <2>1, <2>2, DetachedLists
  <2>4. TypeOK'
    BY <1>1, <2>1, <2>3 DEF TypeOK, Types
  <2>. QED  BY <2>2, <2>3, <2>4 DEF IInv
<1>. QED  BY <1>3, <1>4

LEMMA EnterZoneIInv ==
  ASSUME IInv, intact, NEW p \in Players, NEW z \in Zones, EnterZone(p, z)
  PROVE  IInv'
<1>1. /\ TypeOK /\ ListsOK /\ ZonesOK /\ zone[p] = Nowhere
      /\ zone' = [zone EXCEPT ![p] = z] /\ RejoinGroup(p)
      /\ UNCHANGED <<created, m_groups, m_pendingInvites, rejoin_group_id, zoning,
                     leftBehind, doing, intact>>
  BY DEF IInv, EnterZone, Online
<1>2. zone'[p] = z /\ \A q \in Players : q # p => zone'[q] = zone[q]
  BY <1>1 DEF TypeOK
<1>3. /\ ~Here(p) /\ Here(p)'
      /\ \A q \in Players : q # p => Here(q)' = Here(q)
  BY <1>1, <1>2, GroupAssumption DEF Here, Online, ZonesOK
<1>4. Types' /\ ListsOK'
  BY <1>1, <1>3, RejoinedLists
<1>5. ZonesOK'
  <2>1. TasksOK'
    BY <1>1, <1>2, TaskFacts, GroupAssumption DEF ZonesOK, TasksOK
  <2>. QED  BY <1>1, <1>2, <2>1 DEF ZonesOK, Online, TypeOK
<1>6. TypeOK'
  BY <1>1, <1>4 DEF TypeOK, Types
<1>. QED  BY <1>4, <1>5, <1>6 DEF IInv

LEMMA NextIInv == IInv /\ [Next]_vars => IInv'
<1> SUFFICES ASSUME IInv, [Next]_vars PROVE IInv'
  OBVIOUS
<1>1. CASE UNCHANGED vars
  <2>1. TypeOK'
    BY <1>1 DEF IInv, vars, TypeOK
  <2>2. CASE intact
    <3>1. ListsOK'
      BY <1>1, <2>2, SameLists DEF IInv, vars, Here, Online
    <3>2. ZonesOK'
      BY <1>1, <2>2, SameZones DEF IInv, vars
    <3>. QED  BY <2>1, <3>1, <3>2 DEF IInv
  <2>3. CASE ~intact
    BY <1>1, <2>1, <2>3 DEF IInv, vars
  <2>. QED  BY <2>2, <2>3
<1>2. CASE Next
  <2> USE <1>2 DEF Next
  <2>1. CASE \E p, t \in Players : Invite(p, t) \/ Kick(p, t)
    BY <2>1, InviteIInv, KickIInv
  <2>2. CASE \E p \in Players : DeclineInvite(p) \/ ClearPendingInvite(p) \/ AcceptInvite(p)
    BY <2>2, DeclineInviteIInv, ClearPendingInviteIInv, AcceptInviteIInv
  <2>3. CASE \E p \in Players : Leave(p) \/ DisbandGroup(p)
    BY <2>3, LeaveIInv, DisbandGroupIInv
  <2>4. CASE \E p \in Players : Zone(p) \/ LeaveZone(p) \/ LeaveWorld(p)
    BY <2>4, ZoneIInv, LeaveZoneIInv, LeaveWorldIInv
  <2>5. CASE \E z \in Zones : AddLeader(z) \/ AddAccepter(z) \/ DissolveGroup(z)
    BY <2>5, AddLeaderIInv, AddAccepterIInv, DissolveGroupIInv
  <2>6. CASE \E p \in Players, z \in Zones : EnterZone(p, z)
    BY <2>6, EnterZoneIInv
  <2>. QED  BY <2>1, <2>2, <2>3, <2>4, <2>5, <2>6
<1>. QED  BY <1>1, <1>2

-----------------------------------------------------------------------------

\* The invariant that carries the others, through every command and every
\* arrival and departure in every order.
THEOREM Strengthened == Spec => []IInv
<1>. QED  BY InitIInv, NextIInv, PTL DEF Spec

\* Groups, invitations and tasks keep their types, whatever goes wrong.
THEOREM TypeCorrect == Spec => []TypeOK
<1>1. IInv => TypeOK
  BY DEF IInv
<1>. QED  BY <1>1, Strengthened, PTL

\* Pointers of players and lists of groups agree, for any number of zones whose
\* threads change them.
THEOREM InfoAgrees == Spec => []MemberInfoAgrees
<1>1. IInv => MemberInfoAgrees
  BY DEF IInv, ListsOK, Agree, MemberInfoAgrees
<1>. QED  BY <1>1, Strengthened, PTL

\* A group lists nobody twice, so RejoinGroup finds the right info.
THEOREM NamesOnce == Spec => []NamedOnce
<1>1. IInv => NamedOnce
  BY DEF IInv, ListsOK, OnceEach, Distinct, NamedOnce
<1>. QED  BY <1>1, Strengthened, PTL

\* Whoever arrives has his place in the group that kept one for him.
THEOREM ListedMembers == Spec => []ListedIsMember
<1>1. IInv => ListedIsMember
  BY DEF IInv, ListsOK, Placed, Here, ListedIsMember
<1>. QED  BY <1>1, Strengthened, PTL

=============================================================================
