-------------------------- MODULE InventoryProofs --------------------------
(***************************************************************************)
(* What a player carries, for any items, bags and places: every item is at *)
(* one place and all structures agree which, what is in a bag is in reach, *)
(* and the commands that rearrange keep the totals.                        *)
(***************************************************************************)
EXTENDS Inventory, FiniteSetTheorems, SequenceTheorems,
        WellFoundedInduction, TLAPS

\* The details of an item hold every index of the list.
IndicesFit == NoIndex <= IndexWidth

PlacesOK == \A p \in Places : items[p] # Nothing => at[items[p]] = p

AtOK ==
  \A x \in Items : at[x] \in Places =>
    items[at[x]] = x \/ adding = [op |-> "place", item |-> x]

\* The item in the hands of the script has a place but is not at it yet.
PlacingOK ==
  adding.op = "place" => at[adding.item] \in Places /\ ~Listed(adding.item)

WornOK ==
  /\ \A x \in Items : at[x] = Worn <=> \E s \in WornSlots : worn[s] = x
  /\ \A s \in WornSlots : worn[s] # Nothing => CanBeWorn(worn[s], s)

Distinct(seq) == \A n, m \in DOMAIN seq : seq[n] = seq[m] => n = m

OverflowOK ==
  /\ Distinct(overflowItems)
  /\ \A x \in Items :
       at[x] = Overflow <=> \E n \in DOMAIN overflowItems : overflowItems[n] = x

IndexOK ==
  /\ \A x \in Items : /\ index[x] = NoIndex <=> ~Listed(x)
                      /\ Listed(x) => indexed_items[index[x]] = x
  /\ \A i \in Indices : indexed_items[i] # Nothing => index[indexed_items[i]] = i

\* No bag is in a bag, and a bag with something in it is at a place itself.
BagsOK ==
  /\ ~BagInBag
  /\ \A p \in Places : items[p] # Nothing => IsPlace(p)

CountOK ==
  \A x \in Items : /\ at[x] = Gone => count[x] = 0
                   /\ x \notin Stacks => count[x] <= 1

\* A two-handed weapon for which the shield was taken off has still its place.
DoingOK ==
  doing.op = "equip" => Listed(doing.item) /\ worn["primary"] = Nothing

ListOK == PlacesOK /\ AtOK /\ PlacingOK /\ IndexOK

ItemsOK == ListOK /\ BagsOK /\ WornOK /\ OverflowOK /\ CountOK

IInv == TypeOK /\ (intact => ItemsOK /\ DoingOK)

\* The part of TypeOK about the list and the equipment.
ListTypeOK ==
  /\ items \in [Places -> Items \cup {Nothing}]
  /\ at \in [Items -> Places \cup {Gone, Overflow, Worn}]
  /\ indexed_items \in [Indices -> Items \cup {Nothing}]
  /\ index \in [Items -> Indices \cup {NoIndex}]
  /\ worn \in [WornSlots -> Items \cup {Nothing}]

-----------------------------------------------------------------------------
(* Constants, and the choices of places and indices *)

LEMMA Facts ==
  /\ NoIndex \in Nat
  /\ Nothing \notin Items
  /\ Gone \notin Places /\ Overflow \notin Places /\ Worn \notin Places
  /\ Gone # Overflow /\ Gone # Worn /\ Overflow # Worn
  /\ Bags \subseteq Items /\ Stacks \subseteq Items
  /\ \A x \in TwoHanded \cup Shields : x \in Items /\ x \notin Bags /\ x \notin Stacks
  /\ \A x \in Bags : x \notin Stacks
  /\ BASE_INVENTORY \notin Bags /\ BANK \notin Bags
BY InventoryAssumption, FS_CardinalityType DEF NoIndex, Items

LEMMA IndexFacts ==
  /\ Indices \subseteq Nat
  /\ NoIndex \notin Indices
  /\ IndicesFit => \A i \in Indices : i % IndexWidth = i
<1>1. NoIndex \in Nat /\ IndexWidth \in Nat \ {0}
  BY Facts, InventoryAssumption
<1>. HIDE DEF NoIndex
<1>2. ASSUME IndicesFit, NEW i \in Indices PROVE i % IndexWidth = i
  <2>1. i \in Nat /\ i < IndexWidth
    BY <1>1, <1>2 DEF IndicesFit, Indices
  <2>. QED  BY <1>1, <2>1
<1>. QED  BY <1>1, <1>2 DEF Indices

LEMMA LeastOf ==
  ASSUME NEW S \in SUBSET Nat, S # {}
  PROVE  \E m \in S : \A n \in S : m <= n
<1>1. PICK m \in S : \A n \in S : ~ (<<n, m>> \in OpToRel(<, Nat))
  BY NatLessThanWellFounded, WFMin
<1>2. \A n \in S : ~(n < m)
  BY <1>1 DEF OpToRel
<1>. QED  BY <1>2

\* The first of some places is one of them.
LEMMA FirstOf ==
  ASSUME NEW S \in SUBSET Places, S # {}
  PROVE  First(S) \in S
<1>1. \A p \in Places : p[2] \in Nat
  BY InventoryAssumption DEF Places
<1> DEFINE N == {p[2] : p \in S}
<1>2. N \in SUBSET Nat /\ N # {}
  BY <1>1
<1>3. \E m \in N : \A n \in N : m <= n
  <2>. HIDE DEF N
  <2>. QED  BY <1>2, LeastOf
<1>4. \E p \in S : \A q \in S : p[2] <= q[2]
  BY <1>3
<1>. QED  BY <1>4 DEF First

\* An index is free, if one is.
LEMMA LowestFreeOf ==
  ASSUME NEW indexed \in [Indices -> Items \cup {Nothing}],
         \E i \in Indices : indexed[i] = Nothing
  PROVE  LowestFree(indexed) \in Indices /\ indexed[LowestFree(indexed)] = Nothing
<1> DEFINE S == {i \in Indices : indexed[i] = Nothing}
<1>1. PICK m \in S : \A n \in S : m <= n
  BY LeastOf, IndexFacts
<1>2. ASSUME NEW j \in 0..(m - 1) PROVE indexed[j] # Nothing
  <2>1. m \in Nat /\ j \in Nat /\ ~(m <= j)
    BY IndexFacts
  <2>2. j \in Indices
    BY <2>1, Facts DEF Indices
  <2>. QED  BY <1>1, <2>1, <2>2
<1>3. \E i \in Indices : indexed[i] = Nothing /\ \A j \in 0..(i - 1) : indexed[j] # Nothing
  BY <1>1, <1>2
<1>. QED  BY <1>3 DEF LowestFree

\* There is an index for an item that the list does not have.
LEMMA AnIndexIsFree ==
  ASSUME TypeOK, IndexOK, NEW x \in Items, ~Listed(x)
  PROVE  \E i \in Indices : indexed_items[i] = Nothing
<1>1. SUFFICES ASSUME \A i \in Indices : indexed_items[i] # Nothing
               PROVE  FALSE
  OBVIOUS
<1>2. \A i \in Indices : indexed_items[i] # x
  BY IndexFacts, Facts DEF IndexOK
<1>3. indexed_items \in [Indices -> Items \ {x}]
  BY <1>1, <1>2 DEF TypeOK
<1>4. /\ IsFiniteSet(Items \ {x})
      /\ Cardinality(Items \ {x}) = NoIndex - 1
  BY InventoryAssumption, FS_RemoveElement DEF NoIndex
<1>5. IsFiniteSet(Indices) /\ Cardinality(Indices) = NoIndex
  <2>. HIDE DEF NoIndex
  <2>. QED  BY Facts, FS_Interval DEF Indices
<1>6. \E i, j \in Indices : i # j /\ indexed_items[i] = indexed_items[j]
  <2>. HIDE DEF NoIndex
  <2>1. Cardinality(Items \ {x}) < Cardinality(Indices)
    BY <1>4, <1>5, Facts
  <2>. QED  BY <1>3, <1>4, <1>5, <2>1, FS_PigeonHole
<1>. QED  BY <1>1, <1>6 DEF IndexOK

\* An item the list has is at the place of its details.
LEMMA ListedAt ==
  ASSUME PlacesOK, NEW x \in Items
  PROVE  Listed(x) <=> at[x] \in Places /\ items[at[x]] = x
BY Facts DEF PlacesOK, Listed

LEMMA IndexedListed ==
  ASSUME IndexOK, NEW x \in Items
  PROVE  /\ Indexed(x) => Listed(x)
         /\ Listed(x) => (index[x] \in Indices => IndexOf(x) = index[x])
BY Facts, IndexFacts DEF IndexOK, Indexed, IndexOf

\* The free places that the code finds are free, and places.
LEMMA FreeInBagsFacts ==
  ASSUME TypeOK, NEW c, NEW p \in FreeInBags(c)
  PROVE  p \in Places /\ items[p] = Nothing /\ IsPlace(p)
<1> DEFINE open == {q \in Places : /\ q[1] = c
                                   /\ items[q] \in Bags
                                   /\ FreeIn(items[q]) # {}}
<1>1. open # {} /\ p \in FreeIn(items[First(open)])
  BY DEF FreeInBags
<1>2. First(open) \in open
  BY <1>1, FirstOf
<1>3. p \in Places /\ p[1] = items[First(open)] /\ items[p] = Nothing
  BY <1>1 DEF FreeIn
<1>. QED  BY <1>2, <1>3 DEF IsPlace, Listed

LEMMA PlacesForFacts ==
  ASSUME TypeOK, NEW x, PlacesFor(x) # {}
  PROVE  LET p == First(PlacesFor(x)) IN
         p \in Places /\ items[p] = Nothing /\ IsPlace(p)
<1>1. PlacesFor(x) \in SUBSET Places
  BY FreeInBagsFacts DEF PlacesFor, FreeIn
<1>2. First(PlacesFor(x)) \in PlacesFor(x)
  BY <1>1, FirstOf
<1>3. \A p \in FreeIn(BASE_INVENTORY) : p \in Places /\ items[p] = Nothing /\ IsPlace(p)
  BY Facts DEF FreeIn, IsPlace
<1>. QED  BY <1>2, <1>3, FreeInBagsFacts DEF PlacesFor

LEMMA FreePlacesFacts ==
  ASSUME TypeOK, NEW c \in {BASE_INVENTORY, BANK}, FreePlaces(c) # {}
  PROVE  LET p == First(FreePlaces(c)) IN
         p \in Places /\ items[p] = Nothing /\ IsPlace(p)
<1>1. FreePlaces(c) \in SUBSET Places
  BY FreeInBagsFacts DEF FreePlaces, FreeIn
<1>2. First(FreePlaces(c)) \in FreePlaces(c)
  BY <1>1, FirstOf
<1>3. \A p \in FreeIn(c) : p \in Places /\ items[p] = Nothing /\ IsPlace(p)
  BY Facts DEF FreeIn, IsPlace
<1>. QED  BY <1>2, <1>3, FreeInBagsFacts DEF FreePlaces

\* A free place in a bag the list has.
LEMMA FreeInFacts ==
  ASSUME TypeOK, NEW q \in Places, items[q] \in Bags, FreeIn(items[q]) # {}
  PROVE  LET p == First(FreeIn(items[q])) IN
         p \in Places /\ p[1] = items[q] /\ items[p] = Nothing /\ IsPlace(p)
<1>1. First(FreeIn(items[q])) \in FreeIn(items[q])
  BY FirstOf DEF FreeIn
<1>. QED  BY <1>1 DEF FreeIn, IsPlace, Listed

-----------------------------------------------------------------------------
(* An item comes to a free place *)

LEMMA AddItemIndices ==
  ASSUME TypeOK, IndexOK, IndicesFit, NEW x \in Items, ~Listed(x),
         NEW p \in Places, items[p] = Nothing,
         AddItem(x, p, indexed_items)
  PROVE  /\ items' = [items EXCEPT ![p] = x]
         /\ items' \in [Places -> Items \cup {Nothing}]
         /\ indexed_items' \in [Indices -> Items \cup {Nothing}]
         /\ index' \in [Items -> Indices \cup {NoIndex}]
         /\ \A z \in Items : Listed(z)' <=> Listed(z) \/ z = x
         /\ IndexOK'
<1> DEFINE new_index == LowestFree(indexed_items)
<1>1. new_index \in Indices /\ indexed_items[new_index] = Nothing
  <2>1. \E i \in Indices : indexed_items[i] = Nothing
    BY AnIndexIsFree
  <2>2. indexed_items \in [Indices -> Items \cup {Nothing}]
    BY DEF TypeOK
  <2>. QED  BY <2>1, <2>2, LowestFreeOf
<1>2. /\ items' = [items EXCEPT ![p] = x]
      /\ indexed_items' = [indexed_items EXCEPT ![new_index] = x]
      /\ index' = [index EXCEPT ![x] = new_index]
  BY <1>1, IndexFacts DEF AddItem
<1>. HIDE DEF new_index
<1>3. /\ items' \in [Places -> Items \cup {Nothing}]
      /\ indexed_items' \in [Indices -> Items \cup {Nothing}]
      /\ index' \in [Items -> Indices \cup {NoIndex}]
  BY <1>1, <1>2 DEF TypeOK
<1>4. \A z \in Items : Listed(z)' <=> Listed(z) \/ z = x
  BY <1>2, Facts DEF TypeOK, Listed
<1>5. IndexOK'
  <2>1. ASSUME NEW z \in Items
        PROVE  /\ index'[z] = NoIndex <=> ~Listed(z)'
               /\ Listed(z)' => indexed_items'[index'[z]] = z
    BY <1>1, <1>2, <1>4, IndexFacts, Facts DEF TypeOK, IndexOK
  <2>2. ASSUME NEW i \in Indices, indexed_items'[i] # Nothing
        PROVE  index'[indexed_items'[i]] = i
    <3>1. CASE i = new_index
      BY <1>1, <1>2, <3>1 DEF TypeOK
    <3>2. CASE i # new_index
      <4>1. indexed_items'[i] = indexed_items[i] /\ indexed_items[i] \in Items
        BY <1>2, <2>2, <3>2 DEF TypeOK
      <4>2. indexed_items[i] # x
        BY <2>2, <4>1, IndexFacts DEF IndexOK
      <4>. QED  BY <1>2, <2>2, <4>1, <4>2 DEF TypeOK, IndexOK
    <3>. QED  BY <3>1, <3>2
  <2>. QED  BY <2>1, <2>2 DEF IndexOK
<1>. QED  BY <1>2, <1>3, <1>4, <1>5

LEMMA AddItemPlaces ==
  ASSUME TypeOK, PlacesOK, AtOK, PlacingOK, NEW x \in Items, ~Listed(x),
         NEW p \in Places, items[p] = Nothing,
         items' = [items EXCEPT ![p] = x],
         at' = [at EXCEPT ![x] = p],
         \A z \in Items : Listed(z)' <=> Listed(z) \/ z = x,
         \/ adding' = adding /\ (adding.op = "place" => adding.item # x)
         \/ adding = [op |-> "place", item |-> x] /\ adding' = NotAdding
  PROVE  PlacesOK' /\ AtOK' /\ PlacingOK'
<1>1. PlacesOK'
  BY Facts DEF TypeOK, PlacesOK, Listed
<1>2. ASSUME NEW z \in Items, at'[z] \in Places
      PROVE  items'[at'[z]] = z \/ adding' = [op |-> "place", item |-> z]
  <2>1. CASE z = x
    BY <2>1 DEF TypeOK
  <2>2. CASE z # x
    <3>1. at'[z] = at[z]
      BY <2>2 DEF TypeOK
    <3>2. CASE items[at[z]] = z
      BY <1>2, <3>1, <3>2, Facts DEF TypeOK
    <3>3. CASE adding = [op |-> "place", item |-> z]
      <4>1. adding.item = z
        BY <3>3
      <4>. QED  BY <2>2, <3>3, <4>1
    <3>. QED  BY <1>2, <3>1, <3>2, <3>3 DEF AtOK
  <2>. QED  BY <2>1, <2>2
<1>3. PlacingOK'
  <2>1. ASSUME adding' = adding, adding.op = "place"
        PROVE  at'[adding.item] \in Places /\ ~Listed(adding.item)'
    <3>1. adding.item \in Items
      BY <2>1 DEF TypeOK, Decision, NotAdding
    <3>2. adding.item # x
      BY <2>1 DEF NotAdding
    <3>. QED  BY <2>1, <3>1, <3>2 DEF TypeOK, PlacingOK
  <2>2. ASSUME adding' = NotAdding PROVE adding'.op # "place"
    BY <2>2 DEF NotAdding
  <2>. QED  BY <2>1, <2>2 DEF PlacingOK
<1>. QED  BY <1>1, <1>2, <1>3 DEF AtOK

\* An item goes where no bag is in a bag after it.
LEMMA AddItemBags ==
  ASSUME TypeOK, BagsOK, NEW x \in Items, NEW p \in Places, IsPlace(p),
         items' = [items EXCEPT ![p] = x],
         \A z \in Items : Listed(z)' <=> Listed(z) \/ z = x,
         x \notin Bags \/ ~BagInBag'
  PROVE  BagsOK'
<1>1. ~BagInBag'
  BY Facts DEF TypeOK, BagsOK, BagInBag
<1>2. \A q \in Places : items'[q] # Nothing => IsPlace(q)'
  BY Facts DEF TypeOK, BagsOK, IsPlace
<1>. QED  BY <1>1, <1>2 DEF BagsOK

-----------------------------------------------------------------------------
(* Items change places *)

LEMMA PutAtPlaces ==
  ASSUME TypeOK, ListOK, NEW x \in Items, Listed(x),
         NEW p \in Places, p # at[x], PutAt(x, p),
         UNCHANGED <<indexed_items, index, adding>>
  PROVE  /\ items' \in [Places -> Items \cup {Nothing}]
         /\ at' \in [Items -> Places \cup {Gone, Overflow, Worn}]
         /\ \A z \in Items : Listed(z)' <=> Listed(z)
         /\ \A z \in Items : at'[z] = at[z] \/ (at[z] \in Places /\ at'[z] \in Places)
         /\ ListOK'
<1>0. PlacesOK /\ AtOK /\ PlacingOK /\ IndexOK
  BY DEF ListOK
<1>1. at[x] \in Places /\ items[at[x]] = x
  BY <1>0, ListedAt
<1>2. /\ items' = [items EXCEPT ![at[x]] = items[p], ![p] = x]
      /\ at' = [z \in Items |->
                 IF z = x THEN p ELSE IF z = items[p] THEN at[x] ELSE at[z]]
  BY DEF PutAt
<1>3. /\ items'[p] = x
      /\ items'[at[x]] = items[p]
      /\ \A q \in Places : q # p /\ q # at[x] => items'[q] = items[q]
      /\ items' \in [Places -> Items \cup {Nothing}]
  BY <1>1, <1>2 DEF TypeOK
<1>4. /\ items[p] # x
      /\ items[p] # Nothing => at[items[p]] = p
  BY <1>0, Facts DEF PlacesOK
<1>5. at' \in [Items -> Places \cup {Gone, Overflow, Worn}]
  BY <1>1, <1>2 DEF TypeOK
<1>6. \A z \in Items : Listed(z)' <=> Listed(z)
  <2>1. ASSUME NEW z \in Items, NEW q \in Places, items[q] = z
        PROVE  \E r \in Places : items'[r] = z
    <3>1. q = p \/ q = at[x] \/ items'[q] = z
      BY <1>3, <2>1
    <3>. QED  BY <1>1, <1>3, <2>1, <3>1
  <2>2. ASSUME NEW z \in Items, NEW q \in Places, items'[q] = z
        PROVE  \E r \in Places : items[r] = z
    <3>1. q = p \/ q = at[x] \/ items[q] = z
      BY <1>3, <2>2
    <3>. QED  BY <1>1, <1>3, <2>2, <3>1
  <2>. QED  BY <2>1, <2>2 DEF Listed
<1>7. \A z \in Items : at'[z] = at[z] \/ (at[z] \in Places /\ at'[z] \in Places)
  BY <1>1, <1>2, <1>4, Facts
<1>8. PlacesOK'
  <2> SUFFICES ASSUME NEW q \in Places, items'[q] # Nothing
               PROVE  at'[items'[q]] = q
    BY DEF PlacesOK
  <2>1. CASE q = p
    BY <1>2, <1>3, <2>1
  <2>2. CASE q = at[x]
    BY <1>2, <1>3, <1>4, <2>2 DEF TypeOK
  <2>3. CASE q # p /\ q # at[x]
    <3>1. items'[q] = items[q] /\ items[q] \in Items /\ at[items[q]] = q
      BY <1>0, <1>3, <2>3 DEF TypeOK, PlacesOK
    <3>2. items[q] # x /\ items[q] # items[p]
      BY <1>4, <2>3, <3>1, Facts
    <3>. QED  BY <1>2, <3>1, <3>2
  <2>. QED  BY <2>1, <2>2, <2>3
<1>9. AtOK'
  <2> SUFFICES ASSUME NEW z \in Items, at'[z] \in Places
               PROVE  items'[at'[z]] = z \/ adding = [op |-> "place", item |-> z]
    BY DEF AtOK
  <2>1. CASE z = x
    BY <1>2, <1>3, <2>1
  <2>2. CASE z # x /\ z = items[p]
    BY <1>2, <1>3, <2>2
  <2>3. CASE z # x /\ z # items[p]
    <3>1. at'[z] = at[z]
      BY <1>2, <2>3
    <3>. QED  BY <1>0, <1>1, <1>3, <2>3, <3>1 DEF AtOK
  <2>. QED  BY <2>1, <2>2, <2>3
<1>10. PlacingOK'
  <2> SUFFICES ASSUME adding.op = "place"
               PROVE  at'[adding.item] \in Places /\ ~Listed(adding.item)'
    BY DEF PlacingOK
  <2>1. adding.item \in Items
    BY DEF TypeOK, Decision, NotAdding
  <2>. QED  BY <1>0, <1>6, <1>7, <2>1 DEF PlacingOK
<1>11. IndexOK'
  BY <1>0, <1>6 DEF IndexOK
<1>. QED  BY <1>3, <1>5, <1>6, <1>7, <1>8, <1>9, <1>10, <1>11 DEF ListOK

LEMMA PutAtBags ==
  ASSUME TypeOK, PlacesOK, BagsOK, NEW x \in Items, Listed(x),
         NEW p \in Places, IsPlace(p), PutAt(x, p),
         \A z \in Items : Listed(z)' <=> Listed(z),
         ~BagInBag'
  PROVE  BagsOK'
<1>1. at[x] \in Places /\ items[at[x]] = x
  BY ListedAt
<1>2. IsPlace(at[x])
  BY <1>1, Facts DEF BagsOK
<1>3. \A q \in Places : q # p /\ q # at[x] => items'[q] = items[q]
  BY <1>1 DEF TypeOK, PutAt
<1>4. \A q \in Places : items'[q] # Nothing => IsPlace(q)
  BY <1>2, <1>3 DEF BagsOK
<1>5. \A q \in Places : IsPlace(q) => IsPlace(q)'
  BY Facts DEF IsPlace
<1>. QED  BY <1>4, <1>5 DEF BagsOK

-----------------------------------------------------------------------------
(* Items leave the list *)

LEMMA RemoveItems ==
  ASSUME TypeOK, ListOK, NEW lost \in SUBSET Items, \A z \in lost : Listed(z),
         items' = [p \in Places |-> IF items[p] \in lost THEN Nothing ELSE items[p]],
         indexed_items' = [i \in Indices |->
           IF \E z \in lost : index[z] = i THEN Nothing ELSE indexed_items[i]],
         index' = [z \in Items |-> IF z \in lost THEN NoIndex ELSE index[z]],
         at' \in [Items -> Places \cup {Gone, Overflow, Worn}],
         \A z \in Items : IF z \in lost THEN at'[z] \notin Places ELSE at'[z] = at[z],
         UNCHANGED adding
  PROVE  /\ items' \in [Places -> Items \cup {Nothing}]
         /\ indexed_items' \in [Indices -> Items \cup {Nothing}]
         /\ index' \in [Items -> Indices \cup {NoIndex}]
         /\ \A z \in Items : Listed(z)' <=> Listed(z) /\ z \notin lost
         /\ ListOK'
<1>0. PlacesOK /\ AtOK /\ PlacingOK /\ IndexOK
  BY DEF ListOK
<1>1. /\ items' \in [Places -> Items \cup {Nothing}]
      /\ indexed_items' \in [Indices -> Items \cup {Nothing}]
      /\ index' \in [Items -> Indices \cup {NoIndex}]
  BY DEF TypeOK
<1>2. \A z \in Items : Listed(z)' <=> Listed(z) /\ z \notin lost
  BY Facts DEF Listed
<1>3. PlacesOK'
  BY <1>0 DEF PlacesOK, TypeOK
<1>4. AtOK'
  BY <1>0 DEF AtOK
<1>5. PlacingOK'
  <2> SUFFICES ASSUME adding.op = "place"
               PROVE  at'[adding.item] \in Places /\ ~Listed(adding.item)'
    BY DEF PlacingOK
  <2>1. adding.item \in Items
    BY DEF TypeOK, Decision, NotAdding
  <2>. QED  BY <1>0, <1>2, <2>1 DEF PlacingOK
<1>6. IndexOK'
  <2>1. ASSUME NEW z \in Items
        PROVE  /\ index'[z] = NoIndex <=> ~Listed(z)'
               /\ Listed(z)' => indexed_items'[index'[z]] = z
    <3>1. CASE z \in lost
      BY <1>2, <3>1
    <3>2. CASE z \notin lost /\ Listed(z)
      <4>1. index'[z] = index[z] /\ index[z] \in Indices /\ indexed_items[index[z]] = z
        BY <1>0, <3>2 DEF TypeOK, IndexOK
      <4>2. ~ \E y \in lost : index[y] = index[z]
        BY <1>0, <3>2, <4>1 DEF IndexOK
      <4>. QED  BY <1>0, <1>2, <3>2, <4>1, <4>2 DEF IndexOK
    <3>3. CASE z \notin lost /\ ~Listed(z)
      BY <1>0, <1>2, <3>3 DEF IndexOK
    <3>. QED  BY <3>1, <3>2, <3>3
  <2>2. ASSUME NEW i \in Indices, indexed_items'[i] # Nothing
        PROVE  index'[indexed_items'[i]] = i
    BY <1>0, <2>2 DEF TypeOK, IndexOK
  <2>. QED  BY <2>1, <2>2 DEF IndexOK
<1>. QED  BY <1>1, <1>2, <1>3, <1>4, <1>5, <1>6 DEF ListOK

\* A bag goes with what is in it.
LEMMA RemoveBags ==
  ASSUME TypeOK, BagsOK, NEW lost \in SUBSET Items,
         items' = [p \in Places |-> IF items[p] \in lost THEN Nothing ELSE items[p]],
         \A z \in Items : Listed(z)' <=> Listed(z) /\ z \notin lost,
         \A p \in Places : p[1] \in lost /\ items[p] # Nothing => items[p] \in lost
  PROVE  BagsOK'
<1>1. ~BagInBag'
  BY Facts DEF BagsOK, BagInBag
<1>2. \A q \in Places : items'[q] # Nothing => IsPlace(q)'
  BY Facts DEF BagsOK, IsPlace
<1>. QED  BY <1>1, <1>2 DEF BagsOK

-----------------------------------------------------------------------------
(* Taking off, putting on *)

\* What is worn is at no place, in one slot, and no bag.
LEMMA WornFacts ==
  ASSUME TypeOK, ListOK, WornOK, NEW slot \in WornSlots, worn[slot] # Nothing
  PROVE  /\ worn[slot] \in Items \ Bags
         /\ at[worn[slot]] = Worn
         /\ ~Listed(worn[slot])
         /\ adding.op = "place" => adding.item # worn[slot]
         /\ \A s \in WornSlots : worn[s] = worn[slot] => s = slot
<1>1. worn[slot] \in Items \ Bags /\ at[worn[slot]] = Worn
  BY Facts DEF TypeOK, WornOK, CanBeWorn
<1>2. ~Listed(worn[slot])
  BY <1>1, ListedAt, Facts DEF ListOK
<1>3. adding.op = "place" => adding.item # worn[slot]
  BY <1>1, Facts DEF ListOK, PlacingOK
<1>4. \A s \in WornSlots : worn[s] = worn[slot] => s = slot
  BY DEF WornOK, CanBeWorn
<1>. QED  BY <1>1, <1>2, <1>3, <1>4

LEMMA TakeOffToFacts ==
  ASSUME TypeOK, ItemsOK, IndicesFit, NEW slot \in WornSlots, worn[slot] # Nothing,
         NEW p \in Places, items[p] = Nothing, IsPlace(p), TakeOffTo(slot, p),
         UNCHANGED <<count, overflowItems, adding>>
  PROVE  /\ ListTypeOK' /\ ItemsOK'
         /\ \A s \in WornSlots : s # slot => worn'[s] = worn[s]
         /\ \A z \in Items : Listed(z) => Listed(z)'
         /\ \A z \in Items : at'[z] = Gone <=> at[z] = Gone
<1> DEFINE x == worn[slot]
<1>0. ListOK /\ PlacesOK /\ AtOK /\ PlacingOK /\ IndexOK /\ BagsOK /\ WornOK
      /\ OverflowOK /\ CountOK
  BY DEF ItemsOK, ListOK
<1>1. /\ x \in Items \ Bags /\ at[x] = Worn /\ ~Listed(x)
      /\ adding.op = "place" => adding.item # x
      /\ \A s \in WornSlots : worn[s] = x => s = slot
  BY <1>0, WornFacts
<1>2. /\ AddItem(x, p, indexed_items)
      /\ at' = [at EXCEPT ![x] = p]
      /\ worn' = [worn EXCEPT ![slot] = Nothing]
  BY DEF TakeOffTo
<1>. HIDE DEF x
<1>3. /\ items' = [items EXCEPT ![p] = x]
      /\ items' \in [Places -> Items \cup {Nothing}]
      /\ indexed_items' \in [Indices -> Items \cup {Nothing}]
      /\ index' \in [Items -> Indices \cup {NoIndex}]
      /\ \A z \in Items : Listed(z)' <=> Listed(z) \/ z = x
      /\ IndexOK'
  BY <1>0, <1>1, <1>2, AddItemIndices
<1>4. PlacesOK' /\ AtOK' /\ PlacingOK'
  BY <1>0, <1>1, <1>2, <1>3, AddItemPlaces
<1>5. BagsOK'
  BY <1>0, <1>1, <1>3, AddItemBags
<1>6. at' \in [Items -> Places \cup {Gone, Overflow, Worn}]
      /\ worn' \in [WornSlots -> Items \cup {Nothing}]
  BY <1>1, <1>2 DEF TypeOK
<1>7. /\ at'[x] = p
      /\ \A z \in Items : z # x => at'[z] = at[z]
      /\ worn'[slot] = Nothing
      /\ \A s \in WornSlots : s # slot => worn'[s] = worn[s]
  BY <1>1, <1>2 DEF TypeOK
<1>8. WornOK'
  <2>1. ASSUME NEW z \in Items PROVE at'[z] = Worn <=> \E s \in WornSlots : worn'[s] = z
    <3>1. CASE z = x
      BY <1>1, <1>7, <3>1, Facts
    <3>2. CASE z # x
      <4>1. (\E s \in WornSlots : worn[s] = z) <=> (\E s \in WornSlots : worn'[s] = z)
        BY <1>7, <3>2, Facts DEF x
      <4>. QED  BY <1>0, <1>7, <3>2, <4>1 DEF WornOK
    <3>. QED  BY <3>1, <3>2
  <2>2. ASSUME NEW s \in WornSlots, worn'[s] # Nothing PROVE CanBeWorn(worn'[s], s)
    BY <1>0, <1>7, <2>2 DEF WornOK
  <2>. QED  BY <2>1, <2>2 DEF WornOK, CanBeWorn, SlotOf
<1>9. \A z \in Items : (at'[z] = Gone <=> at[z] = Gone)
                       /\ (at'[z] = Overflow <=> at[z] = Overflow)
  BY <1>1, <1>7, Facts
<1>10. OverflowOK' /\ CountOK'
  BY <1>0, <1>9 DEF OverflowOK, CountOK
<1>. QED
  BY <1>3, <1>4, <1>5, <1>6, <1>7, <1>8, <1>9, <1>10 DEF ListTypeOK, ItemsOK, ListOK

LEMMA ListUnchanged ==
  ASSUME TypeOK, ItemsOK,
         UNCHANGED <<items, at, indexed_items, index, worn, count, overflowItems, adding>>
  PROVE  ListTypeOK' /\ ItemsOK'
<1>1. ListTypeOK'
  BY DEF TypeOK, ListTypeOK
<1>2. ListOK' /\ BagsOK'
  BY DEF ItemsOK, ListOK, PlacesOK, AtOK, PlacingOK, IndexOK, BagsOK, BagInBag, IsPlace, Listed
<1>3. WornOK' /\ OverflowOK' /\ CountOK'
  BY DEF ItemsOK, WornOK, OverflowOK, CountOK, CanBeWorn, SlotOf
<1>. QED  BY <1>1, <1>2, <1>3 DEF ItemsOK

LEMMA TakeOffFacts ==
  ASSUME TypeOK, ItemsOK, IndicesFit, NEW slot \in WornSlots, worn[slot] # Nothing,
         TakeOff(slot), UNCHANGED <<count, overflowItems, adding>>
  PROVE  /\ ListTypeOK' /\ ItemsOK'
         /\ \A s \in WornSlots : s # slot => worn'[s] = worn[s]
         /\ \A z \in Items : Listed(z) => Listed(z)'
         /\ \A z \in Items : at'[z] = Gone <=> at[z] = Gone
<1>1. CASE PlacesFor(worn[slot]) = {}
  <2>1. UNCHANGED <<items, at, indexed_items, index, worn>>
    BY <1>1 DEF TakeOff
  <2>. QED  BY <2>1, ListUnchanged DEF Listed
<1>2. CASE PlacesFor(worn[slot]) # {}
  <2> DEFINE p == First(PlacesFor(worn[slot]))
  <2>1. p \in Places /\ items[p] = Nothing /\ IsPlace(p)
    BY <1>2, PlacesForFacts
  <2>2. TakeOffTo(slot, p)
    BY <1>2 DEF TakeOff, TakeOffTo
  <2>. HIDE DEF p
  <2>. QED  BY <2>1, <2>2, TakeOffToFacts
<1>. QED  BY <1>1, <1>2

LEMMA ChangeFacts ==
  ASSUME TypeOK, ItemsOK, IndicesFit, NEW slot \in WornSlots, worn[slot] # Nothing,
         NEW p \in Places, CanBeWorn(items[p], slot), Change(slot, p),
         UNCHANGED <<count, overflowItems, adding>>
  PROVE  /\ ListTypeOK' /\ ItemsOK'
         /\ \A z \in Items : at'[z] = Gone <=> at[z] = Gone
<1> DEFINE x == worn[slot]
           y == items[p]
           indexed == [indexed_items EXCEPT ![index[y]] = Nothing]
           new_index == LowestFree(indexed)
<1>0. ListOK /\ PlacesOK /\ AtOK /\ PlacingOK /\ IndexOK /\ BagsOK /\ WornOK
      /\ OverflowOK /\ CountOK
  BY DEF ItemsOK, ListOK
<1>1. /\ x \in Items \ Bags /\ at[x] = Worn /\ ~Listed(x)
      /\ adding.op = "place" => adding.item # x
      /\ \A s \in WornSlots : worn[s] = x => s = slot
  BY <1>0, WornFacts
<1>2. y \in Items \ Bags /\ at[y] = p /\ Listed(y) /\ y # x
  BY <1>0, <1>1, Facts DEF CanBeWorn, PlacesOK, Listed
<1>3. index[y] \in Indices /\ indexed_items[index[y]] = y
  BY <1>0, <1>2 DEF TypeOK, IndexOK
<1>4. /\ indexed \in [Indices -> Items \cup {Nothing}]
      /\ indexed[index[y]] = Nothing
  BY <1>3 DEF TypeOK
<1>5. new_index \in Indices /\ indexed[new_index] = Nothing
  <2>. HIDE DEF indexed
  <2>. QED  BY <1>3, <1>4, LowestFreeOf
<1>6. /\ items' = [items EXCEPT ![p] = x]
      /\ at' = [at EXCEPT ![x] = p, ![y] = Worn]
      /\ indexed_items' = [indexed EXCEPT ![new_index] = x]
      /\ index' = [index EXCEPT ![y] = NoIndex, ![x] = new_index]
      /\ worn' = [worn EXCEPT ![slot] = y]
  BY <1>5, IndexFacts DEF Change
<1>7. /\ \A i \in Indices : i # index[y] => indexed[i] = indexed_items[i]
      /\ \A q \in Places : items[q] = y => q = p
  BY <1>0, <1>2, <1>3, Facts DEF TypeOK, PlacesOK
<1>8. y = items[p]
  OBVIOUS
<1>9. x = worn[slot]
  OBVIOUS
<1>. HIDE DEF x, y, indexed, new_index
<1>10. /\ items' \in [Places -> Items \cup {Nothing}]
       /\ at' \in [Items -> Places \cup {Gone, Overflow, Worn}]
       /\ indexed_items' \in [Indices -> Items \cup {Nothing}]
       /\ index' \in [Items -> Indices \cup {NoIndex}]
       /\ worn' \in [WornSlots -> Items \cup {Nothing}]
  BY <1>1, <1>2, <1>4, <1>5, <1>6 DEF TypeOK
<1>11. /\ items'[p] = x /\ \A q \in Places : q # p => items'[q] = items[q]
       /\ at'[x] = p /\ at'[y] = Worn
       /\ \A z \in Items : z # x /\ z # y => at'[z] = at[z]
       /\ worn'[slot] = y
       /\ \A s \in WornSlots : s # slot => worn'[s] = worn[s]
  BY <1>1, <1>2, <1>6 DEF TypeOK
<1>12. \A z \in Items : Listed(z)' <=> (Listed(z) /\ z # y) \/ z = x
  <2>1. ASSUME NEW z \in Items, NEW q \in Places, items[q] = z, z # y
        PROVE  items'[q] = z
    BY <1>8, <1>11, <2>1
  <2>2. ASSUME NEW z \in Items, NEW q \in Places, items'[q] = z, z # x
        PROVE  items[q] = z /\ z # y
    BY <1>7, <1>11, <2>2
  <2>. QED  BY <1>11, <2>1, <2>2 DEF Listed
<1>13. PlacesOK'
  <2> SUFFICES ASSUME NEW q \in Places, items'[q] # Nothing
               PROVE  at'[items'[q]] = q
    BY DEF PlacesOK
  <2>1. CASE q = p
    BY <1>11, <2>1
  <2>2. CASE q # p
    <3>1. items'[q] = items[q] /\ items[q] \in Items /\ at[items[q]] = q
      BY <1>0, <1>11, <2>2 DEF TypeOK, PlacesOK
    <3>2. items[q] # x /\ items[q] # y
      BY <1>1, <1>7, <2>2 DEF Listed
    <3>. QED  BY <1>11, <3>1, <3>2
  <2>. QED  BY <2>1, <2>2
<1>14. AtOK'
  <2> SUFFICES ASSUME NEW z \in Items, at'[z] \in Places
               PROVE  items'[at'[z]] = z \/ adding = [op |-> "place", item |-> z]
    BY DEF AtOK
  <2>1. CASE z = x \/ z = y
    BY <1>11, <2>1, Facts
  <2>2. CASE z # x /\ z # y
    BY <1>0, <1>8, <1>11, <2>2 DEF AtOK
  <2>. QED  BY <2>1, <2>2
<1>15. PlacingOK'
  <2> SUFFICES ASSUME adding.op = "place"
               PROVE  at'[adding.item] \in Places /\ ~Listed(adding.item)'
    BY DEF PlacingOK
  <2>1. adding.item \in Items
    BY DEF TypeOK, Decision, NotAdding
  <2>. QED  BY <1>0, <1>1, <1>2, <1>11, <1>12, <2>1 DEF PlacingOK
<1>16. IndexOK'
  <2>1. /\ index'[x] = new_index /\ index'[y] = NoIndex
        /\ \A z \in Items : z # x /\ z # y => index'[z] = index[z]
        /\ indexed_items'[new_index] = x
        /\ \A i \in Indices : i # new_index => indexed_items'[i] = indexed[i]
    BY <1>1, <1>2, <1>4, <1>5, <1>6 DEF TypeOK
  <2>2. ASSUME NEW z \in Items
        PROVE  /\ index'[z] = NoIndex <=> ~Listed(z)'
               /\ Listed(z)' => indexed_items'[index'[z]] = z
    <3>1. CASE z = x \/ z = y
      BY <1>2, <1>5, <1>12, <2>1, <3>1, IndexFacts
    <3>2. CASE z # x /\ z # y /\ ~Listed(z)
      BY <1>0, <1>12, <2>1, <3>2 DEF IndexOK
    <3>3. CASE z # x /\ z # y /\ Listed(z)
      <4>1. index'[z] = index[z] /\ index[z] \in Indices /\ indexed_items[index[z]] = z
        BY <1>0, <2>1, <3>3 DEF TypeOK, IndexOK
      <4>2. index[z] # index[y]
        BY <1>3, <3>3, <4>1
      <4>3. indexed[index[z]] = z
        BY <1>7, <4>1, <4>2
      <4>4. index[z] # new_index
        BY <1>5, <4>3, Facts
      <4>. QED  BY <1>12, <2>1, <3>3, <4>1, <4>3, <4>4, IndexFacts
    <3>. QED  BY <3>1, <3>2, <3>3
  <2>3. ASSUME NEW i \in Indices, indexed_items'[i] # Nothing
        PROVE  index'[indexed_items'[i]] = i
    <3>1. CASE i = new_index
      BY <2>1, <3>1
    <3>2. CASE i # new_index
      <4>1. indexed_items'[i] = indexed_items[i] /\ i # index[y]
        BY <1>4, <1>7, <2>1, <2>3, <3>2
      <4>2. indexed_items[i] \in Items /\ index[indexed_items[i]] = i
        BY <1>0, <2>3, <4>1 DEF TypeOK, IndexOK
      <4>3. indexed_items[i] # y /\ indexed_items[i] # x
        BY <1>0, <1>1, <4>1, <4>2, IndexFacts DEF IndexOK
      <4>. QED  BY <2>1, <4>1, <4>2, <4>3
    <3>. QED  BY <3>1, <3>2
  <2>. QED  BY <2>2, <2>3 DEF IndexOK
<1>17. BagsOK'
  <2>1. ~BagInBag'
    BY <1>0, <1>1, <1>11 DEF BagsOK, BagInBag
  <2>2. \A q \in Places : items'[q] # Nothing => IsPlace(q)
    BY <1>0, <1>2, <1>8, <1>11, Facts DEF BagsOK
  <2>3. \A q \in Places : IsPlace(q) => IsPlace(q)'
    BY <1>2, <1>12, Facts DEF IsPlace
  <2>. QED  BY <2>1, <2>2, <2>3 DEF BagsOK
<1>18. WornOK'
  <2>1. ASSUME NEW z \in Items PROVE at'[z] = Worn <=> \E s \in WornSlots : worn'[s] = z
    <3>1. CASE z = x
      BY <1>1, <1>2, <1>11, <3>1, Facts
    <3>2. CASE z = y
      BY <1>11, <3>2
    <3>3. CASE z # x /\ z # y
      <4>1. (\E s \in WornSlots : worn[s] = z) <=> (\E s \in WornSlots : worn'[s] = z)
        BY <1>9, <1>11, <3>3
      <4>. QED  BY <1>0, <1>11, <3>3, <4>1 DEF WornOK
    <3>. QED  BY <3>1, <3>2, <3>3
  <2>2. ASSUME NEW s \in WornSlots, worn'[s] # Nothing PROVE CanBeWorn(worn'[s], s)
    BY <1>0, <1>8, <1>11, <2>2 DEF WornOK
  <2>. QED  BY <2>1, <2>2 DEF WornOK, CanBeWorn, SlotOf
<1>19. \A z \in Items : (at'[z] = Gone <=> at[z] = Gone)
                        /\ (at'[z] = Overflow <=> at[z] = Overflow)
  BY <1>1, <1>2, <1>11, Facts
<1>20. OverflowOK' /\ CountOK'
  BY <1>0, <1>19 DEF OverflowOK, CountOK
<1>. QED
  BY <1>10, <1>13, <1>14, <1>15, <1>16, <1>17, <1>18, <1>19, <1>20
  DEF ListTypeOK, ItemsOK, ListOK

LEMMA UnequipItemFacts ==
  ASSUME TypeOK, ItemsOK, IndicesFit, NEW slot \in WornSlots,
         NEW to \in Places \cup {Anywhere}, UnequipItem(slot, to),
         UNCHANGED <<count, overflowItems, adding>>
  PROVE  /\ ListTypeOK' /\ ItemsOK'
         /\ \A z \in Items : at'[z] = Gone <=> at[z] = Gone
<1>1. CASE UNCHANGED <<items, at, indexed_items, index, worn>>
  BY <1>1, ListUnchanged
<1>2. CASE worn[slot] # Nothing /\ TakeOff(slot)
  BY <1>2, TakeOffFacts
<1>3. CASE worn[slot] # Nothing /\ to \in Places /\ CanBeWorn(items[to], slot)
           /\ Change(slot, to)
  BY <1>3, ChangeFacts
<1>4. CASE worn[slot] # Nothing /\ to \in Places /\ items[to] \in Bags
           /\ FreeIn(items[to]) # {} /\ TakeOffTo(slot, First(FreeIn(items[to])))
  <2> DEFINE p == First(FreeIn(items[to]))
  <2>1. p \in Places /\ items[p] = Nothing /\ IsPlace(p)
    BY <1>4, FreeInFacts
  <2>2. TakeOffTo(slot, p)
    BY <1>4
  <2>. HIDE DEF p
  <2>. QED  BY <1>4, <2>1, <2>2, TakeOffToFacts
<1>5. CASE worn[slot] # Nothing /\ to \in Places /\ items[to] = Nothing
           /\ IsPlace(to) /\ TakeOffTo(slot, to)
  BY <1>5, TakeOffToFacts
<1>. QED  BY <1>1, <1>2, <1>3, <1>4, <1>5 DEF UnequipItem

LEMMA WearFacts ==
  ASSUME TypeOK, ItemsOK, NEW x \in TwoHanded \cup Shields, Listed(x),
         worn[SlotOf(x)] = Nothing, Wear(x),
         UNCHANGED <<count, overflowItems, adding>>
  PROVE  /\ ListTypeOK' /\ ItemsOK'
         /\ \A z \in Items : at'[z] = Gone <=> at[z] = Gone
<1> DEFINE slot == SlotOf(x)
<1>0. ListOK /\ PlacesOK /\ AtOK /\ PlacingOK /\ IndexOK /\ BagsOK /\ WornOK
      /\ OverflowOK /\ CountOK
  BY DEF ItemsOK, ListOK
<1>1. /\ x \in Items \ Bags /\ at[x] \in Places /\ items[at[x]] = x
      /\ index[x] \in Indices /\ indexed_items[index[x]] = x
      /\ slot \in WornSlots /\ worn[slot] = Nothing /\ CanBeWorn(x, slot)
  <2>1. x \in Items \ Bags
    BY Facts
  <2>2. at[x] \in Places /\ items[at[x]] = x
    BY <1>0, <2>1, ListedAt
  <2>3. index[x] \in Indices /\ indexed_items[index[x]] = x
    BY <1>0, <2>1 DEF TypeOK, IndexOK
  <2>. QED  BY <2>1, <2>2, <2>3 DEF WornSlots, SlotOf, CanBeWorn
<1>2. /\ items' = [items EXCEPT ![at[x]] = Nothing]
      /\ at' = [at EXCEPT ![x] = Worn]
      /\ indexed_items' = [indexed_items EXCEPT ![index[x]] = Nothing]
      /\ index' = [index EXCEPT ![x] = NoIndex]
      /\ worn' = [worn EXCEPT ![slot] = x]
  BY DEF Wear
<1>. HIDE DEF slot
<1>3. items' = [p \in Places |-> IF items[p] \in {x} THEN Nothing ELSE items[p]]
  BY <1>0, <1>1, <1>2, Facts DEF TypeOK, PlacesOK
<1>4. /\ indexed_items' = [i \in Indices |->
           IF \E z \in {x} : index[z] = i THEN Nothing ELSE indexed_items[i]]
      /\ index' = [z \in Items |-> IF z \in {x} THEN NoIndex ELSE index[z]]
  BY <1>1, <1>2 DEF TypeOK
<1>5. /\ at' \in [Items -> Places \cup {Gone, Overflow, Worn}]
      /\ at'[x] = Worn
      /\ \A z \in Items : z # x => at'[z] = at[z]
      /\ worn' \in [WornSlots -> Items \cup {Nothing}]
      /\ worn'[slot] = x
      /\ \A s \in WornSlots : s # slot => worn'[s] = worn[s]
  BY <1>1, <1>2 DEF TypeOK
<1>6. /\ items' \in [Places -> Items \cup {Nothing}]
      /\ indexed_items' \in [Indices -> Items \cup {Nothing}]
      /\ index' \in [Items -> Indices \cup {NoIndex}]
      /\ \A z \in Items : Listed(z)' <=> Listed(z) /\ z \notin {x}
      /\ ListOK'
  <2>1. {x} \in SUBSET Items /\ \A z \in {x} : Listed(z)
    BY <1>1
  <2>2. \A z \in Items : IF z \in {x} THEN at'[z] \notin Places ELSE at'[z] = at[z]
    BY <1>5, Facts
  <2>. QED  BY <1>0, <1>3, <1>4, <1>5, <2>1, <2>2, RemoveItems
<1>7. BagsOK'
  <2>1. \A p \in Places : p[1] \in {x} => p[1] \notin Bags
    BY <1>1
  <2>2. \A p \in Places : p[1] \in Items => p[1] \in Bags
    BY InventoryAssumption DEF Places
  <2>. QED  BY <1>0, <1>1, <1>3, <1>6, <2>1, <2>2, RemoveBags
<1>8. WornOK'
  <2>1. ASSUME NEW z \in Items PROVE at'[z] = Worn <=> \E s \in WornSlots : worn'[s] = z
    <3>1. CASE z = x
      BY <1>1, <1>5, <3>1
    <3>2. CASE z # x
      <4>1. (\E s \in WornSlots : worn[s] = z) <=> (\E s \in WornSlots : worn'[s] = z)
        BY <1>1, <1>5, <3>2, Facts
      <4>. QED  BY <1>0, <1>5, <3>2, <4>1 DEF WornOK
    <3>. QED  BY <3>1, <3>2
  <2>2. ASSUME NEW s \in WornSlots, worn'[s] # Nothing PROVE CanBeWorn(worn'[s], s)
    BY <1>0, <1>1, <1>5, <2>2 DEF WornOK
  <2>. QED  BY <2>1, <2>2 DEF WornOK, CanBeWorn, SlotOf
<1>9. \A z \in Items : (at'[z] = Gone <=> at[z] = Gone)
                       /\ (at'[z] = Overflow <=> at[z] = Overflow)
  BY <1>1, <1>5, Facts
<1>10. OverflowOK' /\ CountOK'
  BY <1>0, <1>9 DEF OverflowOK, CountOK
<1>. QED  BY <1>5, <1>6, <1>7, <1>8, <1>9, <1>10 DEF ListTypeOK, ItemsOK

-----------------------------------------------------------------------------
(* Totals *)

LEMMA Pairs == \A a, b, c, d : <<a, b>> = <<c, d>> => a = c /\ b = d
OBVIOUS

LEMMA HoldingsUnchanged ==
  ASSUME UNCHANGED count, \A z \in Items : at'[z] = Gone <=> at[z] = Gone
  PROVE  Holdings' = Holdings
<1>1. Pieces' = Pieces
  BY DEF Pieces
<1>2. {z \in Items \ Stacks : at'[z] # Gone} = {z \in Items \ Stacks : at[z] # Gone}
  OBVIOUS
<1>. QED  BY <1>1, <1>2 DEF Holdings

\* Pieces that go from one stack to another are as many there as they were.
LEMMA TransferKeepsPieces ==
  ASSUME TypeOK, count' \in [Items -> 0..stack_count],
         NEW x \in Stacks, NEW y \in Stacks, x # y,
         NEW k \in Nat, count'[x] = count[x] - k, count'[y] = count[y] + k,
         \A z \in Items : z # x /\ z # y => count'[z] = count[z]
  PROVE  Cardinality(Pieces') = Cardinality(Pieces)
<1> DEFINE rest == count[x] - k
           f == [u \in Pieces |-> IF u[1] = x /\ u[2] > rest
                                  THEN <<y, (u[2] - rest) + count[y]>> ELSE u]
<1>1. /\ count[x] \in Nat /\ count[y] \in Nat /\ rest \in Nat /\ stack_count \in Nat
      /\ rest <= count[x] /\ count[y] + k <= stack_count
      /\ count[x] = rest + k /\ count[x] <= stack_count
  <2>1. /\ count[x] \in Nat /\ count[y] \in Nat /\ stack_count \in Nat
        /\ count'[x] \in Nat /\ count'[y] <= stack_count /\ count[x] <= stack_count
    BY Facts, InventoryAssumption DEF TypeOK
  <2>. QED  BY <2>1
<1>2. /\ count'[x] = rest
      /\ \A z \in Stacks : count[z] \in Nat /\ count'[z] \in Nat
      /\ \A z \in Stacks : z # x /\ z # y => count'[z] = count[z]
  BY Facts, InventoryAssumption DEF TypeOK
<1>. HIDE DEF rest
<1>3. \A a, b : <<a, b>> \in Pieces <=>
        a \in Stacks /\ b \in 1..stack_count /\ b <= count[a]
  BY DEF Pieces
<1>4. \A a, b : <<a, b>> \in Pieces' <=>
        a \in Stacks /\ b \in 1..stack_count /\ b <= count'[a]
  BY DEF Pieces
<1>5. /\ \A u \in Pieces : u = <<u[1], u[2]>>
      /\ \A u \in Pieces' : u = <<u[1], u[2]>>
  BY DEF Pieces
<1>6. f \in [Pieces -> Pieces']
  <2> SUFFICES ASSUME NEW u \in Pieces PROVE f[u] \in Pieces'
    OBVIOUS
  <2> DEFINE a == u[1]
             b == u[2]
  <2>1. u = <<a, b>> /\ a \in Stacks /\ b \in 1..stack_count /\ b <= count[a]
    BY <1>3, <1>5
  <2>2. CASE a = x /\ b > rest
    <3>1. f[u] = <<y, (b - rest) + count[y]>>
      BY <2>2
    <3>. HIDE DEF f, a, b
    <3>2. (b - rest) + count[y] \in 1..stack_count /\ (b - rest) + count[y] <= count[y] + k
      BY <1>1, <2>1, <2>2
    <3>. QED  BY <1>4, <3>1, <3>2
  <2>3. CASE ~(a = x /\ b > rest)
    <3>1. f[u] = u
      BY <2>3
    <3>. HIDE DEF f, a, b
    <3>2. b <= count'[a]
      BY <1>1, <1>2, <2>1, <2>3
    <3>. QED  BY <1>4, <2>1, <3>1, <3>2
  <2>. QED  BY <2>2, <2>3
<1>7. ASSUME NEW u \in Pieces, NEW v \in Pieces, f[u] = f[v] PROVE u = v
  <2> DEFINE a == u[1]
             b == u[2]
             c == v[1]
             d == v[2]
  <2>1. /\ u = <<a, b>> /\ a \in Stacks /\ b \in 1..stack_count /\ b <= count[a]
        /\ v = <<c, d>> /\ c \in Stacks /\ d \in 1..stack_count /\ d <= count[c]
    BY <1>3, <1>5
  <2>2. (IF a = x /\ b > rest THEN <<y, (b - rest) + count[y]>> ELSE <<a, b>>)
          = IF c = x /\ d > rest THEN <<y, (d - rest) + count[y]>> ELSE <<c, d>>
    BY <1>7, <2>1
  <2>. HIDE DEF f, a, b, c, d
  <2>3. CASE a = x /\ b > rest /\ c = x /\ d > rest
    <3>1. (b - rest) + count[y] = (d - rest) + count[y]
      BY <2>2, <2>3, Pairs
    <3>2. b = d
      BY <1>1, <2>1, <3>1
    <3>. QED  BY <2>1, <2>3, <3>2
  <2>4. CASE a = x /\ b > rest /\ ~(c = x /\ d > rest)
    <3>1. c = y /\ d = (b - rest) + count[y]
      BY <2>2, <2>4, Pairs
    <3>. QED  BY <1>1, <2>1, <2>4, <3>1
  <2>5. CASE ~(a = x /\ b > rest) /\ c = x /\ d > rest
    <3>1. a = y /\ b = (d - rest) + count[y]
      BY <2>2, <2>5, Pairs
    <3>. QED  BY <1>1, <2>1, <2>5, <3>1
  <2>6. CASE ~(a = x /\ b > rest) /\ ~(c = x /\ d > rest)
    BY <2>1, <2>2, <2>6
  <2>. QED  BY <2>3, <2>4, <2>5, <2>6
<1>8. ASSUME NEW v \in Pieces' PROVE \E u \in Pieces : f[u] = v
  <2> DEFINE c == v[1]
             d == v[2]
  <2>1. v = <<c, d>> /\ c \in Stacks /\ d \in 1..stack_count /\ d <= count'[c]
    BY <1>4, <1>5
  <2>2. CASE c = y /\ d > count[y]
    <3> DEFINE e == (d - count[y]) + rest
    <3>1. e \in 1..stack_count /\ e <= count[x] /\ e > rest
          /\ (e - rest) + count[y] = d
      <4>. HIDE DEF c, d, f
      <4>1. d <= count[y] + k
        BY <2>1, <2>2
      <4>. QED  BY <1>1, <2>1, <2>2, <4>1
    <3>2. <<x, e>> \in Pieces
      BY <1>3, <3>1
    <3>3. f[<<x, e>>] = <<y, (e - rest) + count[y]>>
      BY <3>1, <3>2
    <3>. QED  BY <2>1, <2>2, <3>1, <3>2, <3>3
  <2>3. CASE ~(c = y /\ d > count[y])
    <3>1. d <= count[c] /\ ~(c = x /\ d > rest)
      <4>. HIDE DEF c, d, f
      <4>. QED  BY <1>1, <1>2, <2>1, <2>3
    <3>2. v \in Pieces
      BY <1>3, <2>1, <3>1
    <3>3. f[v] = v
      BY <3>1, <3>2
    <3>. QED  BY <3>2, <3>3
  <2>. QED  BY <2>2, <2>3
<1>9. f \in Bijection(Pieces, Pieces')
  <2>. HIDE DEF f
  <2>. QED  BY <1>6, <1>7, <1>8 DEF Bijection, Injection, Surjection, IsInjective
<1>10. IsFiniteSet(Pieces)
  <2>1. IsFiniteSet(Stacks)
    BY InventoryAssumption, FS_Subset DEF Items
  <2>2. IsFiniteSet(1..stack_count)
    <3>1. 1 \in Int /\ stack_count \in Int
      BY <1>1
    <3>. QED  BY <3>1, FS_Interval
  <2>3. IsFiniteSet(Stacks \X (1..stack_count))
    BY <2>1, <2>2, FS_Product
  <2>. QED  BY <2>3, FS_Subset DEF Pieces
<1>. QED  BY <1>9, <1>10, FS_Bijection DEF ExistsBijection

LEMMA TransferKeepsHoldings ==
  ASSUME TypeOK, count' \in [Items -> 0..stack_count],
         NEW x \in Stacks, NEW y \in Stacks, x # y,
         NEW k \in Nat, count'[x] = count[x] - k, count'[y] = count[y] + k,
         \A z \in Items : z # x /\ z # y => count'[z] = count[z],
         \A z \in Items \ Stacks : at'[z] = at[z]
  PROVE  Holdings' = Holdings
<1>1. Cardinality(Pieces') = Cardinality(Pieces)
  BY TransferKeepsPieces
<1>2. {z \in Items \ Stacks : at'[z] # Gone} = {z \in Items \ Stacks : at[z] # Gone}
  OBVIOUS
<1>. QED  BY <1>1, <1>2 DEF Holdings

-----------------------------------------------------------------------------
(* Moving *)

LEMMA PutAtFacts ==
  ASSUME TypeOK, ItemsOK, NEW x \in Items, Listed(x),
         NEW p \in Places, IsPlace(p), p # at[x], PutAt(x, p),
         UNCHANGED <<indexed_items, index, count, overflowItems, worn, adding>>
  PROVE  /\ ListTypeOK'
         /\ ~BagInBag' => ItemsOK'
         /\ \A z \in Items : at'[z] = Gone <=> at[z] = Gone
<1>0. ListOK /\ PlacesOK /\ BagsOK /\ WornOK /\ OverflowOK /\ CountOK
  BY DEF ItemsOK, ListOK
<1>1. /\ items' \in [Places -> Items \cup {Nothing}]
      /\ at' \in [Items -> Places \cup {Gone, Overflow, Worn}]
      /\ \A z \in Items : Listed(z)' <=> Listed(z)
      /\ \A z \in Items : at'[z] = at[z] \/ (at[z] \in Places /\ at'[z] \in Places)
      /\ ListOK'
  BY <1>0, PutAtPlaces
<1>2. ListTypeOK'
  BY <1>1 DEF TypeOK, ListTypeOK
<1>3. \A z \in Items : /\ at'[z] = Gone <=> at[z] = Gone
                       /\ at'[z] = Overflow <=> at[z] = Overflow
                       /\ at'[z] = Worn <=> at[z] = Worn
  BY <1>1, Facts
<1>4. WornOK' /\ OverflowOK' /\ CountOK'
  BY <1>0, <1>3 DEF WornOK, OverflowOK, CountOK, CanBeWorn, SlotOf
<1>5. ~BagInBag' => BagsOK'
  BY <1>0, <1>1, PutAtBags
<1>. QED  BY <1>1, <1>2, <1>3, <1>4, <1>5 DEF ItemsOK

LEMMA MergeFacts ==
  ASSUME TypeOK, ItemsOK, NEW x \in Items, Listed(x),
         NEW p \in Places, p # at[x], Merge(x, items[p]),
         UNCHANGED <<overflowItems, worn, adding>>
  PROVE  /\ ListTypeOK' /\ ItemsOK'
         /\ count' \in [Items -> 0..stack_count]
         /\ doing' \in Rest /\ doing'.op = "destroy"
         /\ Holdings' = Holdings
<1> DEFINE y == items[p]
<1>0. ListOK /\ PlacesOK /\ AtOK /\ PlacingOK /\ IndexOK /\ BagsOK /\ WornOK
      /\ OverflowOK /\ CountOK
  BY DEF ItemsOK, ListOK
<1>1. /\ x \in Stacks /\ y \in Stacks /\ y \in Items /\ x # y
      /\ at[x] \in Places /\ items[at[x]] = x /\ at[y] = p
      /\ index[x] \in Indices /\ indexed_items[index[x]] = x
      /\ IndexOf(x) = index[x]
      /\ count[x] + count[y] <= stack_count
  <2>1. x \in Stacks /\ y \in Stacks /\ count[x] + count[y] <= stack_count
    BY DEF Merge, Combines, Fits
  <2>2. y \in Items /\ at[y] = p
    BY <1>0, <2>1, Facts DEF PlacesOK
  <2>3. at[x] \in Places /\ items[at[x]] = x
    BY <1>0, ListedAt
  <2>4. index[x] \in Indices /\ indexed_items[index[x]] = x
    BY <1>0 DEF TypeOK, IndexOK
  <2>5. IndexOf(x) = index[x]
    BY <1>0, <2>4, IndexedListed
  <2>. QED  BY <2>1, <2>2, <2>3, <2>4, <2>5
<1>2. /\ count' = [count EXCEPT ![y] = @ + count[x], ![x] = 0]
      /\ items' = [items EXCEPT ![at[x]] = Nothing]
      /\ at' = [at EXCEPT ![x] = Gone]
      /\ indexed_items' = [indexed_items EXCEPT ![index[x]] = Nothing]
      /\ index' = [index EXCEPT ![x] = NoIndex]
      /\ doing' = [op |-> "destroy", index |-> index[x]]
  BY <1>1 DEF Merge
<1>. HIDE DEF y
<1>3. items' = [q \in Places |-> IF items[q] \in {x} THEN Nothing ELSE items[q]]
  BY <1>0, <1>1, <1>2, Facts DEF TypeOK, PlacesOK
<1>4. /\ indexed_items' = [i \in Indices |->
           IF \E z \in {x} : index[z] = i THEN Nothing ELSE indexed_items[i]]
      /\ index' = [z \in Items |-> IF z \in {x} THEN NoIndex ELSE index[z]]
  BY <1>1, <1>2 DEF TypeOK
<1>5. /\ at' \in [Items -> Places \cup {Gone, Overflow, Worn}]
      /\ at'[x] = Gone
      /\ \A z \in Items : z # x => at'[z] = at[z]
  BY <1>1, <1>2 DEF TypeOK
<1>6. /\ items' \in [Places -> Items \cup {Nothing}]
      /\ indexed_items' \in [Indices -> Items \cup {Nothing}]
      /\ index' \in [Items -> Indices \cup {NoIndex}]
      /\ \A z \in Items : Listed(z)' <=> Listed(z) /\ z \notin {x}
      /\ ListOK'
  <2>1. {x} \in SUBSET Items /\ \A z \in {x} : Listed(z)
    OBVIOUS
  <2>2. \A z \in Items : IF z \in {x} THEN at'[z] \notin Places ELSE at'[z] = at[z]
    BY <1>5, Facts
  <2>. QED  BY <1>0, <1>3, <1>4, <1>5, <2>1, <2>2, RemoveItems
<1>7. BagsOK'
  <2>1. \A q \in Places : q[1] \notin {x}
    BY <1>1, InventoryAssumption DEF Places, Items
  <2>. QED  BY <1>0, <1>3, <1>6, <2>1, RemoveBags
<1>8. ListTypeOK'
  BY <1>5, <1>6 DEF TypeOK, ListTypeOK
<1>9. \A z \in Items : /\ at'[z] = Overflow <=> at[z] = Overflow
                       /\ at'[z] = Worn <=> at[z] = Worn
  BY <1>1, <1>5, Facts
<1>10. WornOK' /\ OverflowOK'
  BY <1>0, <1>9 DEF WornOK, OverflowOK, CanBeWorn, SlotOf
<1>11. /\ count' \in [Items -> 0..stack_count]
       /\ count'[x] = 0
       /\ \A z \in Items : z # x /\ z # y => count'[z] = count[z]
  <2>1. count[x] + count[y] \in 0..stack_count /\ 0 \in 0..stack_count
    <3>1. count[x] \in Nat /\ count[y] \in Nat /\ stack_count \in Nat
      BY <1>1, InventoryAssumption DEF TypeOK
    <3>. QED  BY <1>1, <3>1
  <2>2. count[y] + count[x] = count[x] + count[y]
    BY <1>1, InventoryAssumption DEF TypeOK
  <2>. QED  BY <1>1, <1>2, <2>1, <2>2 DEF TypeOK
<1>12. CountOK'
  <2>1. ASSUME NEW z \in Items, at'[z] = Gone PROVE count'[z] = 0
    BY <1>0, <1>1, <1>5, <1>11, <2>1, Facts DEF CountOK
  <2>2. ASSUME NEW z \in Items, z \notin Stacks PROVE count'[z] <= 1
    BY <1>0, <1>1, <1>11, <2>2 DEF CountOK
  <2>. QED  BY <2>1, <2>2 DEF CountOK
<1>13. doing' \in Rest /\ doing'.op = "destroy"
  BY <1>1, <1>2 DEF Rest
<1>14. Holdings' = Holdings
  <2>1. count[x] \in Nat /\ count[y] \in Nat
    BY <1>1, InventoryAssumption DEF TypeOK
  <2>2. count'[x] = count[x] - count[x] /\ count'[y] = count[y] + count[x]
    BY <1>1, <1>2, <1>11, <2>1 DEF TypeOK
  <2>3. \A z \in Items \ Stacks : at'[z] = at[z]
    BY <1>1, <1>5
  <2>. QED  BY <1>1, <1>11, <2>1, <2>2, <2>3, TransferKeepsHoldings
<1>. QED  BY <1>6, <1>7, <1>8, <1>10, <1>11, <1>12, <1>13, <1>14 DEF ItemsOK

LEMMA FillFacts ==
  ASSUME TypeOK, ItemsOK, NEW x \in Items, Listed(x),
         NEW p \in Places, p # at[x], Fill(x, items[p]),
         UNCHANGED <<overflowItems, worn, adding>>
  PROVE  /\ ListTypeOK' /\ ItemsOK'
         /\ count' \in [Items -> 0..stack_count]
         /\ Holdings' = Holdings
<1> DEFINE y == items[p]
           k == stack_count - count[y]
<1>0. ListOK /\ PlacesOK /\ AtOK /\ PlacingOK /\ IndexOK /\ BagsOK /\ WornOK
      /\ OverflowOK /\ CountOK
  BY DEF ItemsOK, ListOK
<1>1. /\ x \in Stacks /\ y \in Stacks /\ y \in Items /\ x # y
      /\ at[x] \in Places /\ at[y] = p
      /\ ~(count[x] + count[y] <= stack_count)
  <2>1. x \in Stacks /\ y \in Stacks /\ ~(count[x] + count[y] <= stack_count)
    BY DEF Fill, Combines, Fits
  <2>2. y \in Items /\ at[y] = p
    BY <1>0, <2>1, Facts DEF PlacesOK
  <2>3. at[x] \in Places
    BY <1>0, ListedAt
  <2>. QED  BY <2>1, <2>2, <2>3
<1>2. /\ count' = [count EXCEPT ![y] = stack_count, ![x] = @ - k]
      /\ UNCHANGED <<items, at, indexed_items, index>>
  BY DEF Fill
<1>3. k = stack_count - count[y]
  OBVIOUS
<1>. HIDE DEF y, k
<1>4. count[x] - k \in 0..stack_count /\ stack_count \in 0..stack_count
  <2>1. /\ count[x] \in Nat /\ count[y] \in Nat /\ stack_count \in Nat
        /\ count[x] <= stack_count /\ count[y] <= stack_count
    BY <1>1, InventoryAssumption DEF TypeOK
  <2>. QED  BY <1>1, <1>3, <2>1
<1>5. /\ count' \in [Items -> 0..stack_count]
      /\ \A z \in Items : z # x /\ z # y => count'[z] = count[z]
  BY <1>1, <1>2, <1>4 DEF TypeOK
<1>6. ListTypeOK'
  BY <1>2 DEF TypeOK, ListTypeOK
<1>7. ListOK' /\ BagsOK'
  BY <1>0, <1>2 DEF ListOK, PlacesOK, AtOK, PlacingOK, IndexOK, BagsOK, BagInBag,
                    IsPlace, Listed
<1>8. WornOK' /\ OverflowOK'
  BY <1>0, <1>2 DEF WornOK, OverflowOK, CanBeWorn, SlotOf
<1>9. CountOK'
  <2>1. ASSUME NEW z \in Items, at'[z] = Gone PROVE count'[z] = 0
    BY <1>0, <1>1, <1>2, <1>5, <2>1, Facts DEF CountOK
  <2>2. ASSUME NEW z \in Items, z \notin Stacks PROVE count'[z] <= 1
    BY <1>0, <1>1, <1>5, <2>2 DEF CountOK
  <2>. QED  BY <2>1, <2>2 DEF CountOK
<1>10. Holdings' = Holdings
  <2>1. k \in Nat /\ count[x] - k = count'[x] /\ count'[y] = count[y] + k
    <3>1. count[y] \in 0..stack_count /\ stack_count \in Nat
      BY <1>1, InventoryAssumption DEF TypeOK
    <3>2. count'[y] = stack_count /\ count'[x] = count[x] - k
      BY <1>1, <1>2 DEF TypeOK
    <3>. QED  BY <1>3, <3>1, <3>2
  <2>2. \A z \in Items \ Stacks : at'[z] = at[z]
    BY <1>2
  <2>. QED  BY <1>1, <1>5, <2>1, <2>2, TransferKeepsHoldings
<1>. QED  BY <1>5, <1>6, <1>7, <1>8, <1>9, <1>10 DEF ItemsOK

LEMMA SplitFacts ==
  ASSUME TypeOK, ItemsOK, IndicesFit, NEW x \in Items, Listed(x),
         NEW p \in Places, IsPlace(p), NEW charges \in 1..stack_count,
         Split(x, p, charges),
         UNCHANGED <<overflowItems, worn, adding>>
  PROVE  /\ ListTypeOK' /\ ItemsOK'
         /\ count' \in [Items -> 0..stack_count]
         /\ Holdings' = Holdings
<1>0. ListOK /\ PlacesOK /\ AtOK /\ PlacingOK /\ IndexOK /\ BagsOK /\ WornOK
      /\ OverflowOK /\ CountOK
  BY DEF ItemsOK, ListOK
<1>1. PICK new \in Stacks :
        /\ New(new)
        /\ count' = [count EXCEPT ![x] = @ - charges, ![new] = charges]
        /\ at' = [at EXCEPT ![new] = p]
        /\ AddItem(new, p, indexed_items)
  BY DEF Split
<1>2. /\ new \in Items \ Bags /\ at[new] = Gone /\ ~Listed(new)
      /\ adding.op = "place" => adding.item # new
      /\ items[p] = Nothing /\ count[x] > charges
  <2>1. new \in Items \ Bags /\ at[new] = Gone
    BY <1>1, Facts DEF New
  <2>2. ~Listed(new)
    BY <1>0, <2>1, ListedAt, Facts
  <2>3. adding.op = "place" => adding.item # new
    BY <1>0, <2>1, Facts DEF PlacingOK
  <2>. QED  BY <2>1, <2>2, <2>3 DEF Split
<1>3. /\ items' = [items EXCEPT ![p] = new]
      /\ items' \in [Places -> Items \cup {Nothing}]
      /\ indexed_items' \in [Indices -> Items \cup {Nothing}]
      /\ index' \in [Items -> Indices \cup {NoIndex}]
      /\ \A z \in Items : Listed(z)' <=> Listed(z) \/ z = new
      /\ IndexOK'
  BY <1>0, <1>1, <1>2, AddItemIndices
<1>4. PlacesOK' /\ AtOK' /\ PlacingOK'
  BY <1>0, <1>1, <1>2, <1>3, AddItemPlaces
<1>5. BagsOK'
  BY <1>0, <1>2, <1>3, AddItemBags
<1>6. /\ at' \in [Items -> Places \cup {Gone, Overflow, Worn}]
      /\ at'[new] = p
      /\ \A z \in Items : z # new => at'[z] = at[z]
  BY <1>1, <1>2 DEF TypeOK
<1>7. \A z \in Items : /\ at'[z] = Overflow <=> at[z] = Overflow
                       /\ at'[z] = Worn <=> at[z] = Worn
  BY <1>2, <1>6, Facts
<1>8. WornOK' /\ OverflowOK'
  BY <1>0, <1>7 DEF WornOK, OverflowOK, CanBeWorn, SlotOf
<1>9. /\ x # new
      /\ count[x] - charges \in 0..stack_count /\ charges \in 0..stack_count
      /\ x \in Stacks
  <2>1. /\ count[x] \in Nat /\ charges \in Nat \ {0} /\ stack_count \in Nat
        /\ count[x] <= stack_count
    BY InventoryAssumption DEF TypeOK
  <2>2. at[x] # Gone
    BY <1>0, ListedAt, Facts
  <2>3. x \in Stacks
    BY <1>0, <1>2, <2>1 DEF CountOK
  <2>. QED  BY <1>2, <2>1, <2>2, <2>3
<1>10. /\ count' \in [Items -> 0..stack_count]
       /\ \A z \in Items : z # x /\ z # new => count'[z] = count[z]
  BY <1>1, <1>2, <1>9 DEF TypeOK
<1>11. CountOK'
  <2>0. at[x] # Gone
    BY <1>0, ListedAt, Facts
  <2>1. ASSUME NEW z \in Items, at'[z] = Gone PROVE count'[z] = 0
    BY <1>0, <1>6, <1>10, <2>0, <2>1, Facts DEF CountOK
  <2>2. ASSUME NEW z \in Items, z \notin Stacks PROVE count'[z] <= 1
    BY <1>0, <1>1, <1>9, <1>10, <2>2 DEF CountOK
  <2>. QED  BY <2>1, <2>2 DEF CountOK
<1>12. ListTypeOK'
  BY <1>3, <1>6 DEF TypeOK, ListTypeOK
<1>13. Holdings' = Holdings
  <2>1. charges \in Nat /\ count[new] = 0
    BY <1>0, <1>2 DEF CountOK
  <2>2. count'[x] = count[x] - charges /\ count'[new] = count[new] + charges
    BY <1>1, <1>2, <1>9, <2>1 DEF TypeOK
  <2>3. \A z \in Items \ Stacks : at'[z] = at[z]
    BY <1>6
  <2>. QED  BY <1>9, <1>10, <2>1, <2>2, <2>3, TransferKeepsHoldings
<1>. QED  BY <1>3, <1>4, <1>5, <1>8, <1>10, <1>11, <1>12, <1>13 DEF ItemsOK, ListOK

-----------------------------------------------------------------------------
(* Getting items *)

\* A new item gets a place that it is not at yet.
LEMMA GivenPlace ==
  ASSUME TypeOK, ItemsOK, adding = NotAdding,
         NEW x \in Items, NEW n \in 1..stack_count, x \in Stacks \/ n = 1, at[x] = Gone,
         NEW p \in Places,
         at' = [at EXCEPT ![x] = p],
         count' = [count EXCEPT ![x] = n],
         adding' = [op |-> "place", item |-> x],
         UNCHANGED <<items, indexed_items, index, overflowItems, worn>>
  PROVE  /\ ListTypeOK' /\ ItemsOK'
         /\ count' \in [Items -> 0..stack_count]
         /\ adding' \in Decision
<1>0. ListOK /\ PlacesOK /\ AtOK /\ PlacingOK /\ IndexOK /\ BagsOK /\ WornOK
      /\ OverflowOK /\ CountOK
  BY DEF ItemsOK, ListOK
<1>1. ~Listed(x)
  BY <1>0, ListedAt, Facts
<1>2. /\ at' \in [Items -> Places \cup {Gone, Overflow, Worn}]
      /\ at'[x] = p
      /\ \A z \in Items : z # x => at'[z] = at[z]
  BY DEF TypeOK
<1>3. PlacesOK'
  BY <1>0, <1>1, <1>2 DEF TypeOK, PlacesOK, Listed
<1>4. AtOK'
  <2> SUFFICES ASSUME NEW z \in Items, at'[z] \in Places
               PROVE  items[at'[z]] = z \/ adding' = [op |-> "place", item |-> z]
    BY DEF AtOK
  <2>1. adding # [op |-> "place", item |-> z]
    BY DEF NotAdding
  <2>. QED  BY <1>0, <1>2, <2>1 DEF AtOK
<1>5. PlacingOK'
  BY <1>1, <1>2 DEF PlacingOK, Listed
<1>6. IndexOK' /\ BagsOK'
  BY <1>0 DEF IndexOK, BagsOK, BagInBag, IsPlace, Listed
<1>7. \A z \in Items : /\ at'[z] = Overflow <=> at[z] = Overflow
                       /\ at'[z] = Worn <=> at[z] = Worn
  BY <1>2, Facts
<1>8. WornOK' /\ OverflowOK'
  BY <1>0, <1>7 DEF WornOK, OverflowOK, CanBeWorn, SlotOf
<1>9. n \in 0..stack_count
  BY InventoryAssumption
<1>10. /\ count' \in [Items -> 0..stack_count]
       /\ count'[x] = n
       /\ \A z \in Items : z # x => count'[z] = count[z]
  BY <1>9 DEF TypeOK
<1>11. CountOK'
  BY <1>0, <1>2, <1>10, Facts DEF CountOK
<1>12. adding' \in Decision
  BY DEF Decision
<1>. QED
  BY <1>2, <1>3, <1>4, <1>5, <1>6, <1>8, <1>10, <1>11, <1>12
  DEF TypeOK, ListTypeOK, ItemsOK, ListOK

\* A new item for which there is no place.
LEMMA GivenOverflow ==
  ASSUME TypeOK, ItemsOK, adding = NotAdding,
         NEW x \in Items, NEW n \in 1..stack_count, x \in Stacks \/ n = 1, at[x] = Gone,
         AddOverflowItem(x),
         count' = [count EXCEPT ![x] = n],
         UNCHANGED <<items, indexed_items, index, worn, adding>>
  PROVE  /\ ListTypeOK' /\ ItemsOK'
         /\ count' \in [Items -> 0..stack_count]
         /\ overflowItems' \in Seq(Items) /\ Len(overflowItems') <= MaxOverflow
<1>0. ListOK /\ PlacesOK /\ AtOK /\ PlacingOK /\ IndexOK /\ BagsOK /\ WornOK
      /\ OverflowOK /\ CountOK
  BY DEF ItemsOK, ListOK
<1>1. ~Listed(x)
  BY <1>0, ListedAt, Facts
<1>2. /\ at' \in [Items -> Places \cup {Gone, Overflow, Worn}]
      /\ at'[x] = Overflow
      /\ \A z \in Items : z # x => at'[z] = at[z]
  BY DEF TypeOK, AddOverflowItem
<1>3. PlacesOK'
  BY <1>0, <1>1, <1>2 DEF TypeOK, PlacesOK, Listed
<1>4. AtOK' /\ PlacingOK'
  BY <1>0, <1>2, Facts DEF AtOK, PlacingOK, NotAdding
<1>6. IndexOK' /\ BagsOK'
  BY <1>0 DEF IndexOK, BagsOK, BagInBag, IsPlace, Listed
<1>7. \A z \in Items : at'[z] = Worn <=> at[z] = Worn
  BY <1>2, Facts
<1>8. WornOK'
  BY <1>0, <1>7 DEF WornOK, CanBeWorn, SlotOf
<1>9. n \in 0..stack_count
  BY InventoryAssumption
<1>10. /\ count' \in [Items -> 0..stack_count]
       /\ count'[x] = n
       /\ \A z \in Items : z # x => count'[z] = count[z]
  BY <1>9 DEF TypeOK
<1>11. CountOK'
  BY <1>0, <1>2, <1>10, Facts DEF CountOK
<1>12. /\ overflowItems \in Seq(Items) /\ Len(overflowItems) < MaxOverflow
       /\ overflowItems' = Append(overflowItems, x)
  BY DEF TypeOK, AddOverflowItem
<1>13. /\ overflowItems' \in Seq(Items)
       /\ Len(overflowItems') = Len(overflowItems) + 1
       /\ \A m \in 1..Len(overflowItems) : overflowItems'[m] = overflowItems[m]
       /\ overflowItems'[Len(overflowItems) + 1] = x
  BY <1>12, AppendProperties
<1>14. /\ DOMAIN overflowItems = 1..Len(overflowItems) /\ Len(overflowItems) \in Nat
       /\ DOMAIN overflowItems' = 1..(Len(overflowItems) + 1)
  BY <1>12, <1>13
<1>15. \A m \in DOMAIN overflowItems : overflowItems[m] # x
  BY <1>0, Facts DEF OverflowOK
<1>16. Distinct(overflowItems')
  BY <1>0, <1>13, <1>14, <1>15 DEF OverflowOK, Distinct
<1>17. \A z \in Items : at'[z] = Overflow <=> \E m \in DOMAIN overflowItems' : overflowItems'[m] = z
  <2> SUFFICES ASSUME NEW z \in Items
               PROVE  at'[z] = Overflow <=> \E m \in DOMAIN overflowItems' : overflowItems'[m] = z
    OBVIOUS
  <2>1. CASE z = x
    BY <1>2, <1>13, <1>14, <2>1
  <2>2. CASE z # x
    <3>1. (\E m \in DOMAIN overflowItems : overflowItems[m] = z)
            <=> (\E m \in DOMAIN overflowItems' : overflowItems'[m] = z)
      BY <1>13, <1>14, <2>2
    <3>. QED  BY <1>0, <1>2, <2>2, <3>1 DEF OverflowOK
  <2>. QED  BY <2>1, <2>2
<1>18. Len(overflowItems') <= MaxOverflow
  BY <1>12, <1>13, <1>14, InventoryAssumption
<1>. QED
  BY <1>2, <1>3, <1>4, <1>6, <1>8, <1>10, <1>11, <1>13, <1>16, <1>17, <1>18
  DEF TypeOK, ListTypeOK, ItemsOK, ListOK, OverflowOK

LEMMA StackChoicesFacts ==
  ASSUME TypeOK, NEW n, NEW onto \in StackChoices(n), onto # Nothing
  PROVE  onto \in Stacks
<1> DEFINE fits(c) == {p \in Places : /\ p[1] = c
                                      /\ items[p] \in Stacks
                                      /\ count[items[p]] + n <= stack_count}
<1>1. \A c : fits(c) # {} => items[First(fits(c))] \in Stacks
  <2> TAKE c
  <2> HAVE fits(c) # {}
  <2>1. First(fits(c)) \in fits(c)
    BY FirstOf
  <2>. QED  BY <2>1
<1>2. CASE fits(BASE_INVENTORY) # {}
  BY <1>1, <1>2 DEF StackChoices
<1>3. CASE fits(BASE_INVENTORY) = {}
  <2>1. PICK b \in {c \in Bags : fits(c) # {}} : onto = items[First(fits(b))]
    BY <1>3 DEF StackChoices
  <2>. QED  BY <1>1, <2>1
<1>. QED  BY <1>2, <1>3

LEMMA GainPreserves ==
  ASSUME IInv, intact, NEW x \in Items, NEW n \in 1..stack_count, Gain(x, n)
  PROVE  IInv'
<1>1. TypeOK /\ ItemsOK /\ DoingOK
  BY DEF IInv
<1>2. /\ adding = NotAdding /\ at[x] = Gone /\ (x \in Stacks \/ n = 1)
      /\ UNCHANGED <<items, indexed_items, index, worn, doing, intact>>
  BY DEF Gain, New
<1>3. DoingOK'
  BY <1>1, <1>2 DEF DoingOK, Listed
<1>4. PICK onto \in IF x \in Stacks THEN StackChoices(n) ELSE {Nothing} :
       \/ /\ onto # Nothing
          /\ adding' = [op |-> "stack", onto |-> onto, quantity |-> n]
          /\ UNCHANGED <<at, count, overflowItems>>
       \/ /\ onto = Nothing
          /\ PlacesFor(x) # {}
          /\ at' = [at EXCEPT ![x] = First(PlacesFor(x))]
          /\ count' = [count EXCEPT ![x] = n]
          /\ adding' = [op |-> "place", item |-> x]
          /\ UNCHANGED overflowItems
       \/ /\ onto = Nothing
          /\ PlacesFor(x) = {}
          /\ AddOverflowItem(x)
          /\ count' = [count EXCEPT ![x] = n]
          /\ UNCHANGED adding
  BY DEF Gain
<1>5. CASE /\ onto # Nothing
           /\ adding' = [op |-> "stack", onto |-> onto, quantity |-> n]
           /\ UNCHANGED <<at, count, overflowItems>>
  <2>1. onto \in Stacks
    BY <1>1, <1>4, <1>5, StackChoicesFacts
  <2>2. adding' \in Decision
    BY <1>5, <2>1 DEF Decision
  <2>3. TypeOK'
    BY <1>1, <1>2, <1>5, <2>2 DEF TypeOK
  <2>4. AtOK' /\ PlacingOK'
    BY <1>1, <1>2, <1>5 DEF ItemsOK, ListOK, AtOK, PlacingOK, NotAdding
  <2>5. PlacesOK' /\ IndexOK' /\ BagsOK'
    BY <1>1, <1>2, <1>5 DEF ItemsOK, ListOK, PlacesOK, IndexOK, BagsOK, BagInBag, IsPlace, Listed
  <2>6. WornOK' /\ OverflowOK' /\ CountOK'
    BY <1>1, <1>2, <1>5 DEF ItemsOK, WornOK, OverflowOK, CountOK, CanBeWorn, SlotOf
  <2>. QED  BY <1>3, <2>3, <2>4, <2>5, <2>6 DEF IInv, ItemsOK, ListOK
<1>6. CASE /\ PlacesFor(x) # {}
           /\ at' = [at EXCEPT ![x] = First(PlacesFor(x))]
           /\ count' = [count EXCEPT ![x] = n]
           /\ adding' = [op |-> "place", item |-> x]
           /\ UNCHANGED overflowItems
  <2> DEFINE p == First(PlacesFor(x))
  <2>1. p \in Places
    BY <1>1, <1>6, PlacesForFacts
  <2>2. at' = [at EXCEPT ![x] = p]
    BY <1>6
  <2>. HIDE DEF p
  <2>3. /\ ListTypeOK' /\ ItemsOK'
        /\ count' \in [Items -> 0..stack_count]
        /\ adding' \in Decision
    BY <1>1, <1>2, <1>6, <2>1, <2>2, GivenPlace
  <2>. QED  BY <1>1, <1>2, <1>3, <1>6, <2>3 DEF IInv, TypeOK, ListTypeOK
<1>7. CASE /\ AddOverflowItem(x)
           /\ count' = [count EXCEPT ![x] = n]
           /\ UNCHANGED adding
  <2>1. /\ ListTypeOK' /\ ItemsOK'
        /\ count' \in [Items -> 0..stack_count]
        /\ overflowItems' \in Seq(Items) /\ Len(overflowItems') <= MaxOverflow
    BY <1>1, <1>2, <1>7, GivenOverflow
  <2>. QED  BY <1>1, <1>2, <1>3, <1>7, <2>1 DEF IInv, TypeOK, ListTypeOK
<1>. QED  BY <1>4, <1>5, <1>6, <1>7

LEMMA GainInBankPreserves ==
  ASSUME IInv, intact, NEW x \in Items, NEW n \in 1..stack_count, GainInBank(x, n)
  PROVE  IInv'
<1>1. TypeOK /\ ItemsOK /\ DoingOK
  BY DEF IInv
<1>2. /\ adding = NotAdding /\ at[x] = Gone /\ (x \in Stacks \/ n = 1)
      /\ count' = [count EXCEPT ![x] = n]
      /\ UNCHANGED <<items, indexed_items, index, worn, doing, intact>>
  BY DEF GainInBank, New
<1>3. DoingOK'
  BY <1>1, <1>2 DEF DoingOK, Listed
<1>4. CASE /\ FreePlaces(BANK) # {}
           /\ at' = [at EXCEPT ![x] = First(FreePlaces(BANK))]
           /\ adding' = [op |-> "place", item |-> x]
           /\ UNCHANGED overflowItems
  <2> DEFINE p == First(FreePlaces(BANK))
  <2>1. p \in Places
    BY <1>1, <1>4, FreePlacesFacts
  <2>2. at' = [at EXCEPT ![x] = p]
    BY <1>4
  <2>. HIDE DEF p
  <2>3. /\ ListTypeOK' /\ ItemsOK'
        /\ count' \in [Items -> 0..stack_count]
        /\ adding' \in Decision
    BY <1>1, <1>2, <1>4, <2>1, <2>2, GivenPlace
  <2>. QED  BY <1>1, <1>2, <1>3, <1>4, <2>3 DEF IInv, TypeOK, ListTypeOK
<1>5. CASE AddOverflowItem(x) /\ UNCHANGED adding
  <2>1. /\ ListTypeOK' /\ ItemsOK'
        /\ count' \in [Items -> 0..stack_count]
        /\ overflowItems' \in Seq(Items) /\ Len(overflowItems') <= MaxOverflow
    BY <1>1, <1>2, <1>5, GivenOverflow
  <2>. QED  BY <1>1, <1>2, <1>3, <1>5, <2>1 DEF IInv, TypeOK, ListTypeOK
<1>. QED  BY <1>4, <1>5 DEF GainInBank

LEMMA FinishStackPreserves ==
  ASSUME IInv, intact, FinishStack
  PROVE  IInv'
<1> DEFINE onto == adding.onto
           both == count[onto] + adding.quantity
<1>1. TypeOK /\ ItemsOK /\ DoingOK
  BY DEF IInv
<1>2. /\ onto \in Stacks /\ onto \in Items /\ adding.quantity \in Nat
      /\ adding.op = "stack"
  <2>1. adding \in [op : {"stack"}, onto : Stacks, quantity : 1..stack_count]
    BY <1>1 DEF FinishStack, TypeOK, Decision, NotAdding
  <2>. QED  BY <2>1, Facts, InventoryAssumption
<1>3. /\ intact' = (at[onto] # Gone /\ both <= stack_count)
      /\ count' = IF intact' THEN [count EXCEPT ![onto] = both] ELSE count
      /\ adding' = NotAdding
      /\ UNCHANGED <<items, at, indexed_items, index, overflowItems, worn, doing>>
  BY DEF FinishStack
<1>4. both \in Nat
  BY <1>1, <1>2, InventoryAssumption DEF TypeOK
<1>. HIDE DEF onto, both
<1>5. CASE ~intact'
  <2>1. TypeOK'
    BY <1>1, <1>3, <1>5 DEF TypeOK, Decision
  <2>. QED  BY <1>5, <2>1 DEF IInv
<1>6. CASE intact'
  <2>0. at[onto] # Gone /\ both <= stack_count
    BY <1>3, <1>6, Zenon
  <2>1. both \in 0..stack_count /\ at[onto] # Gone
    BY <1>4, <2>0, InventoryAssumption
  <2>2. /\ count' \in [Items -> 0..stack_count]
        /\ \A z \in Items : z # onto => count'[z] = count[z]
    BY <1>1, <1>2, <1>3, <1>6, <2>1 DEF TypeOK
  <2>3. TypeOK'
    BY <1>1, <1>3, <2>2 DEF TypeOK, Decision
  <2>4. AtOK' /\ PlacingOK'
    <3>1. \A z : adding # [op |-> "place", item |-> z]
      BY <1>2
    <3>. QED  BY <1>1, <1>3, <3>1 DEF ItemsOK, ListOK, AtOK, PlacingOK, NotAdding
  <2>5. PlacesOK' /\ IndexOK' /\ BagsOK'
    BY <1>1, <1>3 DEF ItemsOK, ListOK, PlacesOK, IndexOK, BagsOK, BagInBag, IsPlace, Listed
  <2>6. WornOK' /\ OverflowOK'
    BY <1>1, <1>3 DEF ItemsOK, WornOK, OverflowOK, CanBeWorn, SlotOf
  <2>7. CountOK'
    BY <1>1, <1>2, <1>3, <2>1, <2>2 DEF ItemsOK, CountOK
  <2>8. DoingOK'
    BY <1>1, <1>3 DEF DoingOK, Listed
  <2>. QED  BY <2>3, <2>4, <2>5, <2>6, <2>7, <2>8 DEF IInv, ItemsOK, ListOK
<1>. QED  BY <1>5, <1>6

LEMMA FinishPlacePreserves ==
  ASSUME IInv, intact, IndicesFit, FinishPlace
  PROVE  IInv'
<1> DEFINE x == adding.item
<1>1. TypeOK /\ ItemsOK /\ DoingOK
  BY DEF IInv
<1>2. ListOK /\ PlacesOK /\ AtOK /\ PlacingOK /\ IndexOK /\ BagsOK /\ WornOK
      /\ OverflowOK /\ CountOK
  BY <1>1 DEF ItemsOK, ListOK
<1>3. x \in Items /\ adding = [op |-> "place", item |-> x]
  <2>1. adding \in [op : {"place"}, item : Items]
    BY <1>1 DEF FinishPlace, TypeOK, Decision, NotAdding
  <2>. QED  BY <2>1
<1>4. at[x] \in Places /\ ~Listed(x)
  BY <1>2 DEF PlacingOK, FinishPlace
<1>5. adding' = NotAdding /\ UNCHANGED <<at, count, overflowItems, worn, doing>>
  BY DEF FinishPlace
<1>6. CASE items[at[x]] = Nothing /\ IsPlace(at[x])
  <2>1. AddItem(x, at[x], indexed_items) /\ intact' = ~BagInBag'
    BY <1>6 DEF FinishPlace
  <2>. HIDE DEF x
  <2>2. /\ items' = [items EXCEPT ![at[x]] = x]
        /\ items' \in [Places -> Items \cup {Nothing}]
        /\ indexed_items' \in [Indices -> Items \cup {Nothing}]
        /\ index' \in [Items -> Indices \cup {NoIndex}]
        /\ \A z \in Items : Listed(z)' <=> Listed(z) \/ z = x
        /\ IndexOK'
    BY <1>1, <1>2, <1>3, <1>4, <1>6, <2>1, AddItemIndices
  <2>3. at' = [at EXCEPT ![x] = at[x]]
    BY <1>1, <1>5 DEF TypeOK
  <2>4. PlacesOK' /\ AtOK' /\ PlacingOK'
    BY <1>1, <1>2, <1>3, <1>4, <1>5, <1>6, <2>2, <2>3, AddItemPlaces
  <2>5. TypeOK'
    BY <1>1, <1>5, <2>1, <2>2 DEF TypeOK, Decision
  <2>6. ~BagInBag' => BagsOK'
    BY <1>1, <1>2, <1>3, <1>4, <1>6, <2>2, AddItemBags
  <2>7. WornOK' /\ OverflowOK' /\ CountOK'
    BY <1>2, <1>5 DEF WornOK, OverflowOK, CountOK, CanBeWorn, SlotOf
  <2>8. DoingOK'
    <3>1. doing.op = "equip" => doing.item \in Items
      BY <1>1, Facts DEF TypeOK, Rest, Idle
    <3>. QED  BY <1>1, <1>5, <2>2, <3>1 DEF DoingOK
  <2>9. intact' => ~BagInBag'
    BY <2>1
  <2>. QED  BY <2>2, <2>4, <2>5, <2>6, <2>7, <2>8, <2>9 DEF IInv, ItemsOK, ListOK
<1>7. CASE ~(items[at[x]] = Nothing /\ IsPlace(at[x]))
  <2>1. intact' = FALSE /\ UNCHANGED <<items, indexed_items, index>>
    BY <1>7 DEF FinishPlace
  <2>2. TypeOK'
    BY <1>1, <1>5, <2>1 DEF TypeOK, Decision
  <2>. QED  BY <2>1, <2>2 DEF IInv
<1>. QED  BY <1>6, <1>7

-----------------------------------------------------------------------------
(* Losing items *)

LEMMA LoseFacts ==
  ASSUME TypeOK, ItemsOK, NEW x \in Items, Listed(x), Lose(x),
         UNCHANGED <<overflowItems, worn, adding>>
  PROVE  /\ ListTypeOK'
         /\ count' \in [Items -> 0..stack_count]
         /\ at[x][1] = BASE_INVENTORY \/ Contents(x) = {} => ItemsOK'
<1> DEFINE lost == {x} \cup (IF at[x][1] = BASE_INVENTORY THEN Contents(x) ELSE {})
<1>0. ListOK /\ PlacesOK /\ AtOK /\ PlacingOK /\ IndexOK /\ BagsOK /\ WornOK
      /\ OverflowOK /\ CountOK
  BY DEF ItemsOK, ListOK
<1>1. /\ items' = [p \in Places |-> IF items[p] \in lost THEN Nothing ELSE items[p]]
      /\ at' = [z \in Items |-> IF z \in lost THEN Gone ELSE at[z]]
      /\ indexed_items' = [i \in Indices |->
           IF \E z \in lost : index[z] = i THEN Nothing ELSE indexed_items[i]]
      /\ index' = [z \in Items |-> IF z \in lost THEN NoIndex ELSE index[z]]
      /\ count' = [z \in Items |-> IF z \in lost THEN 0 ELSE count[z]]
  BY DEF Lose
<1>2. lost \in SUBSET Items /\ \A z \in lost : Listed(z)
  BY DEF TypeOK, Contents, Listed
<1>3. ASSUME at[x][1] = BASE_INVENTORY \/ Contents(x) = {},
             NEW p \in Places, p[1] \in lost, items[p] # Nothing
      PROVE  items[p] \in lost
  <2>1. p[1] \in Bags
    BY <1>2, <1>3, InventoryAssumption DEF Places
  <2>2. ASSUME NEW q \in Places, q[1] = x, items[q] = p[1] PROVE FALSE
    <3>1. q[1] \in Bags
      BY <2>2, InventoryAssumption DEF Places
    <3>. QED  BY <1>0, <2>1, <2>2, <3>1 DEF BagsOK, BagInBag
  <2>3. p[1] = x
    BY <1>3, <2>2 DEF Contents
  <2>. QED  BY <1>3, <2>3 DEF Contents
<1>. HIDE DEF lost
<1>4. at' \in [Items -> Places \cup {Gone, Overflow, Worn}]
  BY <1>1 DEF TypeOK
<1>5. \A z \in Items : IF z \in lost THEN at'[z] = Gone /\ at[z] \in Places
                                     ELSE at'[z] = at[z]
  BY <1>0, <1>1, <1>2, ListedAt
<1>6. /\ items' \in [Places -> Items \cup {Nothing}]
      /\ indexed_items' \in [Indices -> Items \cup {Nothing}]
      /\ index' \in [Items -> Indices \cup {NoIndex}]
      /\ \A z \in Items : Listed(z)' <=> Listed(z) /\ z \notin lost
      /\ ListOK'
  <2>1. \A z \in Items : IF z \in lost THEN at'[z] \notin Places ELSE at'[z] = at[z]
    BY <1>5, Facts
  <2>. QED  BY <1>0, <1>1, <1>2, <1>4, <2>1, RemoveItems
<1>7. at[x][1] = BASE_INVENTORY \/ Contents(x) = {} => BagsOK'
  <2> HAVE at[x][1] = BASE_INVENTORY \/ Contents(x) = {}
  <2>. QED  BY <1>0, <1>1, <1>2, <1>3, <1>6, RemoveBags
<1>8. \A z \in Items : /\ at'[z] = Overflow <=> at[z] = Overflow
                       /\ at'[z] = Worn <=> at[z] = Worn
  BY <1>5, Facts
<1>9. WornOK' /\ OverflowOK'
  BY <1>0, <1>8 DEF WornOK, OverflowOK, CanBeWorn, SlotOf
<1>10. 0 \in 0..stack_count
  BY InventoryAssumption
<1>11. count' \in [Items -> 0..stack_count]
  BY <1>1, <1>10 DEF TypeOK
<1>12. CountOK'
  <2>1. \A z \in Items : IF z \in lost THEN count'[z] = 0 ELSE count'[z] = count[z]
    BY <1>1
  <2>. QED  BY <1>0, <1>5, <2>1 DEF CountOK
<1>13. ListTypeOK'
  BY <1>4, <1>6 DEF TypeOK, ListTypeOK
<1>. QED  BY <1>6, <1>7, <1>9, <1>11, <1>12, <1>13 DEF ItemsOK

LEMMA DestroyItemPreserves ==
  ASSUME IInv, intact, NEW x \in Items, DestroyItem(x)
  PROVE  IInv'
<1>1. TypeOK /\ ItemsOK
  BY DEF IInv
<1>2. /\ Lose(x) /\ Listed(x)
      /\ intact' = (at[x][1] = BASE_INVENTORY \/ Contents(x) = {})
      /\ doing = Idle
      /\ UNCHANGED <<overflowItems, worn, adding, doing>>
  BY <1>1, IndexedListed DEF DestroyItem, ItemsOK, ListOK
<1>3. /\ ListTypeOK'
      /\ count' \in [Items -> 0..stack_count]
      /\ at[x][1] = BASE_INVENTORY \/ Contents(x) = {} => ItemsOK'
  BY <1>1, <1>2, LoseFacts
<1>4. DoingOK'
  BY <1>2 DEF DoingOK, Idle
<1>5. intact' \in BOOLEAN /\ (intact' => at[x][1] = BASE_INVENTORY \/ Contents(x) = {})
  BY <1>2
<1>. QED  BY <1>1, <1>2, <1>3, <1>4, <1>5 DEF IInv, TypeOK, ListTypeOK

LEMMA RemoveItemPreserves ==
  ASSUME IInv, intact, NEW x \in Items, NEW n \in 1..stack_count, RemoveItem(x, n)
  PROVE  IInv'
<1>1. TypeOK /\ ItemsOK
  BY DEF IInv
<1>2. /\ Listed(x) /\ at[x][1] # BANK /\ doing = Idle
      /\ UNCHANGED <<overflowItems, worn, adding, doing, intact>>
  BY DEF RemoveItem
<1>3. DoingOK'
  BY <1>2 DEF DoingOK, Idle
<1>4. CASE Lose(x)
  <2>1. /\ ListTypeOK'
        /\ count' \in [Items -> 0..stack_count]
        /\ at[x][1] = BASE_INVENTORY \/ Contents(x) = {} => ItemsOK'
    BY <1>1, <1>2, <1>4, LoseFacts
  <2>2. at[x][1] = BASE_INVENTORY \/ Contents(x) = {}
    <3>1. CASE x \in Bags
      <4>1. at[x] \in Places /\ items[at[x]] = x
        BY <1>1, <1>2, ListedAt DEF ItemsOK, ListOK
      <4>2. at[x][1] \notin Bags
        BY <1>1, <3>1, <4>1 DEF ItemsOK, BagsOK, BagInBag
      <4>. QED  BY <1>2, <4>1, <4>2 DEF Places
    <3>2. CASE x \notin Bags
      BY <3>2, InventoryAssumption DEF Contents, Places
    <3>. QED  BY <3>1, <3>2
  <2>. QED  BY <1>1, <1>2, <1>3, <2>1, <2>2 DEF IInv, TypeOK, ListTypeOK
<1>5. CASE /\ x \notin Bags /\ count[x] > n
           /\ count' = [count EXCEPT ![x] = @ - n]
           /\ UNCHANGED <<items, at, indexed_items, index>>
  <2>1. count[x] - n \in 0..stack_count /\ count[x] - n <= count[x]
    <3>1. count[x] \in Nat /\ n \in Nat /\ stack_count \in Nat /\ count[x] <= stack_count
      BY <1>1, InventoryAssumption DEF TypeOK
    <3>. QED  BY <1>5, <3>1
  <2>2. /\ count' \in [Items -> 0..stack_count]
        /\ count'[x] = count[x] - n
        /\ \A z \in Items : z # x => count'[z] = count[z]
    BY <1>1, <1>5, <2>1 DEF TypeOK
  <2>3. at[x] # Gone
    BY <1>1, <1>2, ListedAt, Facts DEF ItemsOK, ListOK
  <2>4. CountOK'
    <3>1. count[x] \in Nat
      BY <1>1, InventoryAssumption DEF TypeOK
    <3>2. ASSUME NEW z \in Items, at'[z] = Gone PROVE count'[z] = 0
      BY <1>1, <1>5, <2>2, <2>3, <3>2 DEF ItemsOK, CountOK
    <3>3. ASSUME NEW z \in Items, z \notin Stacks PROVE count'[z] <= 1
      <4>1. CASE z = x
        <5>1. count[x] <= 1
          BY <1>1, <3>3, <4>1 DEF ItemsOK, CountOK
        <5>. QED  BY <2>1, <2>2, <3>1, <4>1, <5>1
      <4>2. CASE z # x
        BY <1>1, <2>2, <3>3, <4>2 DEF ItemsOK, CountOK
      <4>. QED  BY <4>1, <4>2
    <3>. QED  BY <3>2, <3>3 DEF CountOK
  <2>5. ListOK' /\ BagsOK'
    BY <1>1, <1>2, <1>5 DEF ItemsOK, ListOK, PlacesOK, AtOK, PlacingOK, IndexOK,
                            BagsOK, BagInBag, IsPlace, Listed
  <2>6. WornOK' /\ OverflowOK'
    BY <1>1, <1>2, <1>5 DEF ItemsOK, WornOK, OverflowOK, CanBeWorn, SlotOf
  <2>7. TypeOK'
    BY <1>1, <1>2, <1>5, <2>2 DEF TypeOK
  <2>. QED  BY <1>3, <2>4, <2>5, <2>6, <2>7 DEF IInv, ItemsOK
<1>. QED  BY <1>4, <1>5 DEF RemoveItem

-----------------------------------------------------------------------------
(* Commands that rearrange: the invariant, and the totals *)

LEMMA MoveSteps ==
  ASSUME IInv, intact, IndicesFit, NEW x \in Items, NEW p \in Places,
         NEW charges \in 0..stack_count, Move(x, p, charges)
  PROVE  IInv' /\ Holdings' = Holdings
<1>1. TypeOK /\ ItemsOK
  BY DEF IInv
<1>2. /\ doing = Idle /\ Listed(x) /\ p # at[x] /\ IsPlace(p)
      /\ intact' = ~BagInBag'
      /\ UNCHANGED <<overflowItems, worn, adding>>
  BY <1>1, IndexedListed DEF Move, ItemsOK, ListOK
<1>3. intact' \in BOOLEAN /\ (intact' => ~BagInBag')
  BY <1>2
<1>4. Idle \in Rest /\ Idle.op # "equip"
  BY DEF Rest, Idle
<1>5. ASSUME ListTypeOK', count' \in [Items -> 0..stack_count],
             doing' \in Rest, doing'.op # "equip", ~BagInBag' => ItemsOK'
      PROVE  IInv'
  BY <1>1, <1>2, <1>3, <1>5 DEF IInv, TypeOK, ListTypeOK, DoingOK
<1>6. ASSUME NEW q \in Places, IsPlace(q), q # at[x], PutAt(x, q),
             UNCHANGED <<indexed_items, index, count, doing>>
      PROVE  IInv' /\ Holdings' = Holdings
  <2>1. /\ ListTypeOK'
        /\ ~BagInBag' => ItemsOK'
        /\ \A z \in Items : at'[z] = Gone <=> at[z] = Gone
    BY <1>1, <1>2, <1>6, PutAtFacts
  <2>2. count' \in [Items -> 0..stack_count]
    BY <1>1, <1>6 DEF TypeOK
  <2>. QED  BY <1>2, <1>4, <1>5, <1>6, <2>1, <2>2, HoldingsUnchanged
<1>7. CASE MoveSome(x, p, charges)
  <2>1. CASE Merge(x, items[p])
    BY <1>1, <1>2, <1>5, <2>1, MergeFacts
  <2>2. CASE Fill(x, items[p])
    <3>1. ListTypeOK' /\ ItemsOK' /\ count' \in [Items -> 0..stack_count] /\ Holdings' = Holdings
      BY <1>1, <1>2, <2>2, FillFacts
    <3>2. doing' = doing
      BY <2>2 DEF Fill
    <3>. QED  BY <1>2, <1>4, <1>5, <3>1, <3>2
  <2>3. CASE Split(x, p, charges)
    <3>1. charges \in 1..stack_count
      BY <1>7, InventoryAssumption DEF MoveSome
    <3>2. ListTypeOK' /\ ItemsOK' /\ count' \in [Items -> 0..stack_count] /\ Holdings' = Holdings
      BY <1>1, <1>2, <2>3, <3>1, SplitFacts
    <3>3. doing' = doing
      BY <2>3 DEF Split
    <3>. QED  BY <1>2, <1>4, <1>5, <3>2, <3>3
  <2>4. CASE PutAt(x, p) /\ UNCHANGED <<indexed_items, index, count, doing>>
    BY <1>2, <1>6, <2>4
  <2>. QED  BY <1>7, <2>1, <2>2, <2>3, <2>4 DEF MoveSome
<1>8. CASE MoveAll(x, p, charges)
  <2>1. UNCHANGED <<indexed_items, index, count, doing>>
    BY <1>8 DEF MoveAll
  <2>2. CASE items[p] \in Bags /\ FreeIn(items[p]) # {}
    <3> DEFINE q == First(FreeIn(items[p]))
    <3>1. q \in Places /\ items[q] = Nothing /\ IsPlace(q)
      BY <1>1, <2>2, FreeInFacts
    <3>2. PutAt(x, q)
      BY <1>8, <2>2 DEF MoveAll
    <3>. HIDE DEF q
    <3>3. q # at[x]
      BY <1>1, <1>2, <3>1, ListedAt, Facts DEF ItemsOK, ListOK
    <3>. QED  BY <1>6, <2>1, <3>1, <3>2, <3>3
  <2>3. CASE ~(items[p] \in Bags /\ FreeIn(items[p]) # {})
    <3>1. PutAt(x, p)
      BY <1>8, <2>3 DEF MoveAll
    <3>. QED  BY <1>2, <1>6, <2>1, <3>1
  <2>. QED  BY <2>2, <2>3
<1>. QED  BY <1>7, <1>8 DEF Move

LEMMA DestroyMergedSteps ==
  ASSUME IInv, intact, DestroyMerged
  PROVE  IInv' /\ Holdings' = Holdings
<1>1. TypeOK /\ ItemsOK
  BY DEF IInv
<1>2. /\ intact' \in BOOLEAN /\ doing' = Idle
      /\ UNCHANGED <<items, at, indexed_items, index, count, overflowItems, worn, adding>>
  BY DEF DestroyMerged
<1>3. ListTypeOK' /\ ItemsOK'
  BY <1>1, <1>2, ListUnchanged
<1>4. DoingOK' /\ doing' \in Rest
  BY <1>2 DEF DoingOK, Rest, Idle
<1>. QED  BY <1>1, <1>2, <1>3, <1>4, HoldingsUnchanged DEF IInv, TypeOK, ListTypeOK

\* The first overflow item leaves the vector.
LEMMA PopToFacts ==
  ASSUME TypeOK, ItemsOK, IndicesFit, overflowItems # <<>>,
         NEW p \in Places, items[p] = Nothing, IsPlace(p), PopTo(p),
         UNCHANGED <<count, worn, adding>>
  PROVE  /\ ListTypeOK'
         /\ overflowItems' \in Seq(Items) /\ Len(overflowItems') <= MaxOverflow
         /\ ~BagInBag' => ItemsOK'
         /\ \A z \in Items : at'[z] = Gone <=> at[z] = Gone
<1> DEFINE x == Head(overflowItems)
           N == Len(overflowItems)
<1>0. ListOK /\ PlacesOK /\ AtOK /\ PlacingOK /\ IndexOK /\ BagsOK /\ WornOK
      /\ OverflowOK /\ CountOK
  BY DEF ItemsOK, ListOK
<1>1. /\ overflowItems \in Seq(Items) /\ N \in Nat \ {0} /\ N <= MaxOverflow
      /\ DOMAIN overflowItems = 1..N
      /\ x = overflowItems[1] /\ x \in Items
  BY DEF TypeOK
<1>2. /\ AddItem(x, p, indexed_items)
      /\ at' = [at EXCEPT ![x] = p]
      /\ overflowItems' = Tail(overflowItems)
  BY DEF PopTo
<1>3. /\ overflowItems' \in Seq(Items)
      /\ Len(overflowItems') = N - 1
      /\ DOMAIN overflowItems' = 1..(N - 1)
      /\ \A m \in 1..(N - 1) : overflowItems'[m] = overflowItems[m + 1]
  BY <1>1, <1>2, HeadTailProperties
<1>. HIDE DEF x, N
<1>4. /\ at[x] = Overflow /\ ~Listed(x)
      /\ adding.op = "place" => adding.item # x
  <2>1. at[x] = Overflow
    BY <1>0, <1>1 DEF OverflowOK
  <2>. QED  BY <1>0, <1>1, <2>1, ListedAt, Facts DEF PlacingOK
<1>5. /\ items' = [items EXCEPT ![p] = x]
      /\ items' \in [Places -> Items \cup {Nothing}]
      /\ indexed_items' \in [Indices -> Items \cup {Nothing}]
      /\ index' \in [Items -> Indices \cup {NoIndex}]
      /\ \A z \in Items : Listed(z)' <=> Listed(z) \/ z = x
      /\ IndexOK'
  BY <1>0, <1>1, <1>2, <1>4, AddItemIndices
<1>6. PlacesOK' /\ AtOK' /\ PlacingOK'
  BY <1>0, <1>1, <1>2, <1>4, <1>5, AddItemPlaces
<1>7. ~BagInBag' => BagsOK'
  BY <1>0, <1>1, <1>5, AddItemBags
<1>8. /\ at' \in [Items -> Places \cup {Gone, Overflow, Worn}]
      /\ at'[x] = p
      /\ \A z \in Items : z # x => at'[z] = at[z]
  BY <1>1, <1>2 DEF TypeOK
<1>9. \A z \in Items : /\ at'[z] = Gone <=> at[z] = Gone
                       /\ at'[z] = Worn <=> at[z] = Worn
  BY <1>4, <1>8, Facts
<1>10. WornOK' /\ CountOK'
  BY <1>0, <1>9 DEF WornOK, CountOK, CanBeWorn, SlotOf
<1>11. Distinct(overflowItems')
  <2> SUFFICES ASSUME NEW n \in 1..(N - 1), NEW m \in 1..(N - 1),
                      overflowItems'[n] = overflowItems'[m]
               PROVE  n = m
    BY <1>3 DEF Distinct
  <2>1. n + 1 \in 1..N /\ m + 1 \in 1..N
    BY <1>1
  <2>2. overflowItems[n + 1] = overflowItems[m + 1]
    BY <1>3
  <2>3. n + 1 = m + 1
    BY <1>0, <1>1, <2>1, <2>2 DEF OverflowOK, Distinct
  <2>. QED  BY <2>3
<1>12. \A z \in Items : at'[z] = Overflow <=> \E m \in DOMAIN overflowItems' : overflowItems'[m] = z
  <2> SUFFICES ASSUME NEW z \in Items
               PROVE  at'[z] = Overflow <=> \E m \in 1..(N - 1) : overflowItems'[m] = z
    BY <1>3
  <2>1. at[z] = Overflow <=> \E m \in 1..N : overflowItems[m] = z
    BY <1>0, <1>1 DEF OverflowOK
  <2>2. \A m \in 1..(N - 1) : m + 1 \in 1..N /\ m + 1 # 1
    BY <1>1
  <2>3. \A m \in 1..N : m # 1 => m - 1 \in 1..(N - 1) /\ (m - 1) + 1 = m
    BY <1>1
  <2>4. 1 \in 1..N
    BY <1>1
  <2>5. CASE z = x
    <3>1. at'[z] # Overflow
      BY <1>8, <2>5, Facts
    <3>2. \A m \in 1..(N - 1) : overflowItems[m + 1] # x
      BY <1>0, <1>1, <2>2, <2>4 DEF OverflowOK, Distinct
    <3>. QED  BY <1>3, <2>5, <3>1, <3>2
  <2>6. CASE z # x
    <3>1. (\E m \in 1..N : overflowItems[m] = z)
            => \E m \in 1..(N - 1) : overflowItems'[m] = z
      BY <1>1, <1>3, <2>3, <2>6
    <3>2. (\E m \in 1..(N - 1) : overflowItems'[m] = z)
            => \E m \in 1..N : overflowItems[m] = z
      BY <1>3, <2>2
    <3>. QED  BY <1>8, <2>1, <2>6, <3>1, <3>2
  <2>. QED  BY <2>5, <2>6
<1>13. ListTypeOK'
  BY <1>5, <1>8 DEF TypeOK, ListTypeOK
<1>14. Len(overflowItems') <= MaxOverflow
  BY <1>1, <1>3, InventoryAssumption
<1>. QED
  BY <1>3, <1>5, <1>6, <1>7, <1>9, <1>10, <1>11, <1>12, <1>13, <1>14
  DEF ItemsOK, ListOK, OverflowOK

LEMMA PopSteps ==
  ASSUME IInv, intact, IndicesFit, Pop
  PROVE  IInv' /\ Holdings' = Holdings
<1>1. TypeOK /\ ItemsOK
  BY DEF IInv
<1>2. doing = Idle /\ overflowItems # <<>> /\ UNCHANGED <<count, worn, adding, doing>>
  BY DEF Pop
<1>3. PICK p \in Places : items[p] = Nothing /\ IsPlace(p) /\ PopTo(p)
  <2>1. CASE \E p \in Places : items[p] = Nothing /\ IsPlace(p) /\ PopTo(p)
    BY <2>1
  <2>2. ASSUME NEW c \in {BASE_INVENTORY, BANK}, FreePlaces(c) # {}, PopTo(First(FreePlaces(c)))
        PROVE  \E p \in Places : items[p] = Nothing /\ IsPlace(p) /\ PopTo(p)
    <3> DEFINE q == First(FreePlaces(c))
    <3>1. q \in Places /\ items[q] = Nothing /\ IsPlace(q)
      BY <1>1, <2>2, FreePlacesFacts
    <3>2. PopTo(q)
      BY <2>2
    <3>. HIDE DEF q
    <3>. QED  BY <3>1, <3>2
  <2>. QED  BY <2>1, <2>2 DEF Pop
<1>4. /\ ListTypeOK'
      /\ overflowItems' \in Seq(Items) /\ Len(overflowItems') <= MaxOverflow
      /\ ~BagInBag' => ItemsOK'
      /\ \A z \in Items : at'[z] = Gone <=> at[z] = Gone
  BY <1>1, <1>2, <1>3, PopToFacts
<1>5. intact' \in BOOLEAN /\ (intact' => ~BagInBag')
  BY <1>3 DEF PopTo
<1>6. DoingOK'
  BY <1>2 DEF DoingOK, Idle
<1>7. TypeOK'
  BY <1>1, <1>2, <1>4, <1>5 DEF TypeOK, ListTypeOK
<1>. QED  BY <1>2, <1>4, <1>5, <1>6, <1>7, HoldingsUnchanged DEF IInv

LEMMA UnequipSteps ==
  ASSUME IInv, intact, IndicesFit, NEW slot \in WornSlots, NEW to \in Places \cup {Anywhere},
         UnequipItem(slot, to), UNCHANGED <<count, overflowItems, adding, intact>>,
         doing' \in Rest, doing'.op # "equip"
  PROVE  IInv' /\ Holdings' = Holdings
<1>1. TypeOK /\ ItemsOK
  BY DEF IInv
<1>2. /\ ListTypeOK' /\ ItemsOK'
      /\ \A z \in Items : at'[z] = Gone <=> at[z] = Gone
  BY <1>1, UnequipItemFacts
<1>3. TypeOK'
  BY <1>1, <1>2 DEF TypeOK, ListTypeOK
<1>. QED  BY <1>2, <1>3, HoldingsUnchanged DEF IInv, DoingOK

LEMMA EquipSteps ==
  ASSUME IInv, intact, IndicesFit, NEW x \in TwoHanded \cup Shields, Equip(x)
  PROVE  IInv' /\ Holdings' = Holdings
<1>1. TypeOK /\ ItemsOK
  BY DEF IInv
<1>2. x \in Items /\ Listed(x) /\ UNCHANGED <<count, overflowItems, adding, intact>>
  BY <1>1, IndexedListed, Facts DEF Equip, ItemsOK, ListOK
<1>3. ASSUME ListTypeOK', ItemsOK', doing' \in Rest, DoingOK',
             \A z \in Items : at'[z] = Gone <=> at[z] = Gone
      PROVE  IInv' /\ Holdings' = Holdings
  <2>1. TypeOK'
    BY <1>1, <1>2, <1>3 DEF TypeOK, ListTypeOK
  <2>. QED  BY <1>2, <1>3, <2>1, HoldingsUnchanged DEF IInv
<1>4. CASE SlotIsFree(x) /\ NeedsBothHands(x) /\ TakeOff("secondary")
           /\ doing' = [op |-> "equip", item |-> x]
  <2>1. /\ x \in TwoHanded /\ "secondary" \in WornSlots /\ worn["secondary"] # Nothing
        /\ worn["primary"] = Nothing
    BY <1>4 DEF NeedsBothHands, WornSlots, SlotIsFree, SlotOf
  <2>2. /\ ListTypeOK' /\ ItemsOK'
        /\ \A s \in WornSlots : s # "secondary" => worn'[s] = worn[s]
        /\ \A z \in Items : Listed(z) => Listed(z)'
        /\ \A z \in Items : at'[z] = Gone <=> at[z] = Gone
    BY <1>1, <1>2, <1>4, <2>1, TakeOffFacts
  <2>3. doing' \in Rest
    BY <1>4, <2>1 DEF Rest
  <2>4. DoingOK'
    BY <1>2, <1>4, <2>1, <2>2 DEF DoingOK, WornSlots, Listed
  <2>. QED  BY <1>3, <2>2, <2>3, <2>4
<1>5. CASE SlotIsFree(x) /\ Wear(x)
  <2>1. worn[SlotOf(x)] = Nothing /\ doing' = Idle
    BY <1>5 DEF SlotIsFree, Wear
  <2>2. /\ ListTypeOK' /\ ItemsOK'
        /\ \A z \in Items : at'[z] = Gone <=> at[z] = Gone
    BY <1>1, <1>2, <1>5, <2>1, WearFacts
  <2>3. doing' \in Rest /\ DoingOK'
    BY <2>1 DEF Rest, Idle, DoingOK
  <2>. QED  BY <1>3, <2>2, <2>3
<1>6. CASE EquipInstead(x)
  <2> DEFINE slot == SlotOf(x)
             p == at[x]
  <2>1. /\ slot \in WornSlots /\ worn[slot] # Nothing
        /\ p \in Places /\ items[p] = x /\ CanBeWorn(items[p], slot)
        /\ Change(slot, p)
    <3>1. p \in Places /\ items[p] = x
      BY <1>1, <1>2, ListedAt DEF ItemsOK, ListOK
    <3>. QED  BY <1>6, <3>1 DEF EquipInstead, CanBeWorn, SlotOf, WornSlots
  <2>2. doing' \in Rest /\ DoingOK'
    <3>1. \/ doing' = Idle
          \/ doing' = [op |-> "unequip", slot |-> "secondary", to |-> Anywhere]
      BY <1>6 DEF EquipInstead
    <3>. QED  BY <3>1 DEF Rest, Idle, DoingOK, WornSlots
  <2>. HIDE DEF slot, p
  <2>3. /\ ListTypeOK' /\ ItemsOK'
        /\ \A z \in Items : at'[z] = Gone <=> at[z] = Gone
    BY <1>1, <1>2, <2>1, ChangeFacts
  <2>. QED  BY <1>3, <2>2, <2>3
<1>. QED  BY <1>4, <1>5, <1>6 DEF Equip, EquipFree

LEMMA FinishEquipSteps ==
  ASSUME IInv, intact, FinishEquip
  PROVE  IInv' /\ Holdings' = Holdings
<1> DEFINE x == doing.item
<1>1. TypeOK /\ ItemsOK /\ DoingOK
  BY DEF IInv
<1>2. x \in TwoHanded /\ Listed(x) /\ worn[SlotOf(x)] = Nothing
  <2>1. doing \in [op : {"equip"}, item : TwoHanded]
    BY <1>1 DEF FinishEquip, TypeOK, Rest, Idle
  <2>. QED  BY <1>1, <2>1 DEF DoingOK, SlotOf
<1>3. Wear(x) /\ UNCHANGED <<count, overflowItems, adding, intact>>
  BY DEF FinishEquip
<1>. HIDE DEF x
<1>4. /\ ListTypeOK' /\ ItemsOK'
      /\ \A z \in Items : at'[z] = Gone <=> at[z] = Gone
  BY <1>1, <1>2, <1>3, WearFacts
<1>5. doing' \in Rest /\ DoingOK'
  BY <1>3 DEF Wear, Rest, Idle, DoingOK
<1>6. TypeOK'
  BY <1>1, <1>3, <1>4, <1>5 DEF TypeOK, ListTypeOK
<1>. QED  BY <1>3, <1>4, <1>5, <1>6, HoldingsUnchanged DEF IInv

LEMMA RearrangeSteps ==
  ASSUME IInv, intact, IndicesFit, Rearrange
  PROVE  IInv' /\ Holdings' = Holdings
<1>1. CASE \E x \in Items, p \in Places, charges \in 0..stack_count : Move(x, p, charges)
  BY <1>1, MoveSteps
<1>2. CASE DestroyMerged
  BY <1>2, DestroyMergedSteps
<1>3. CASE Pop
  BY <1>3, PopSteps
<1>4. ASSUME NEW slot \in WornSlots, NEW to \in Places \cup {Anywhere}, Unequip(slot, to)
      PROVE  IInv' /\ Holdings' = Holdings
  <2>1. /\ UnequipItem(slot, to)
        /\ doing' = [op |-> "unequip", slot |-> slot, to |-> to]
        /\ UNCHANGED <<count, overflowItems, adding, intact>>
    BY <1>4 DEF Unequip
  <2>2. doing' \in Rest /\ doing'.op # "equip"
    BY <2>1 DEF Rest
  <2>. QED  BY <2>1, <2>2, UnequipSteps
<1>5. CASE UnequipAgain
  <2>1. doing \in [op : {"unequip"}, slot : WornSlots, to : Places \cup {Anywhere}]
    BY <1>5 DEF UnequipAgain, IInv, TypeOK, Rest, Idle
  <2>2. doing.slot \in WornSlots /\ doing.to \in Places \cup {Anywhere}
    BY <2>1
  <2>3. /\ UnequipItem(doing.slot, doing.to)
        /\ doing' = Idle
        /\ UNCHANGED <<count, overflowItems, adding, intact>>
    BY <1>5 DEF UnequipAgain
  <2>4. doing' \in Rest /\ doing'.op # "equip"
    BY <2>3 DEF Rest, Idle
  <2>. QED  BY <2>2, <2>3, <2>4, UnequipSteps
<1>6. CASE \E x \in TwoHanded \cup Shields : Equip(x)
  BY <1>6, EquipSteps
<1>7. CASE FinishEquip
  BY <1>7, FinishEquipSteps
<1>. QED  BY <1>1, <1>2, <1>3, <1>4, <1>5, <1>6, <1>7 DEF Rearrange

-----------------------------------------------------------------------------
(* The invariant *)

LEMMA InitInv == Init => IInv
<1>1. SUFFICES ASSUME Init PROVE IInv
  OBVIOUS
<1>2. 0 \in 0..stack_count
  BY InventoryAssumption
<1>3. TypeOK
  BY <1>1, <1>2, InventoryAssumption DEF Init, TypeOK, Decision, Rest
<1>4. \A x : ~Listed(x) \/ x = Nothing
  BY <1>1 DEF Init, Listed
<1>5. ListOK
  BY <1>1, <1>4, Facts DEF Init, ListOK, PlacesOK, AtOK, PlacingOK, IndexOK, NotAdding
<1>6. BagsOK
  BY <1>1, Facts DEF Init, BagsOK, BagInBag
<1>7. WornOK /\ OverflowOK
  BY <1>1, Facts DEF Init, WornOK, OverflowOK, Distinct
<1>8. CountOK /\ DoingOK
  BY <1>1 DEF Init, CountOK, DoingOK, Idle
<1>. QED  BY <1>3, <1>5, <1>6, <1>7, <1>8 DEF IInv, ItemsOK

LEMMA NextInv ==
  ASSUME IndicesFit, IInv, [Next]_vars
  PROVE  IInv'
<1>1. CASE intact /\ Rearrange
  BY <1>1, RearrangeSteps
<1>2. CASE intact /\ GainOrLose
  BY <1>2, GainPreserves, GainInBankPreserves, RemoveItemPreserves, FinishStackPreserves,
     FinishPlacePreserves, DestroyItemPreserves DEF GainOrLose
<1>3. CASE UNCHANGED vars
  <2>1. UNCHANGED <<items, at, indexed_items, index, worn, count, overflowItems, adding,
                    doing, intact>>
    BY <1>3 DEF vars
  <2>2. TypeOK'
    BY <2>1 DEF IInv, TypeOK
  <2>3. intact' => ItemsOK'
    BY <2>1, ListUnchanged DEF IInv
  <2>4. intact' => DoingOK'
    BY <2>1 DEF IInv, DoingOK, Listed
  <2>. QED  BY <2>2, <2>3, <2>4 DEF IInv
<1>. QED  BY <1>1, <1>2, <1>3 DEF Next

LEMMA Invariance == ASSUME IndicesFit PROVE Spec => []IInv
<1>1. Init => IInv
  BY InitInv
<1>2. IInv /\ [Next]_vars => IInv'
  BY NextInv
<1>. QED  BY <1>1, <1>2, PTL DEF Spec

\* All of the inventory's structures hold what they are meant to hold: places,
\* indices and counts that exist, and no overflow items beyond the limit.
THEOREM TypeCorrect == ASSUME IndicesFit PROVE Spec => []TypeOK
<1>1. IInv => TypeOK
  BY DEF IInv
<1>. QED  BY <1>1, Invariance, PTL

\* Every item is at one place only, and the map of places, the details of the
\* item, the equipment list, the overflow items and the indices agree which.
THEOREM OnePlaceEach == Spec => []PlacesAgree
<1>1. CASE IndicesFit
  <2>1. IInv => PlacesAgree
    <3> SUFFICES ASSUME IInv, intact PROVE PlacesAgree
      BY DEF PlacesAgree
    <3>0. TypeOK /\ PlacesOK /\ AtOK /\ IndexOK /\ WornOK /\ OverflowOK
      BY DEF IInv, ItemsOK, ListOK
    <3>1. \A x \in Items : x \in InList <=> Listed(x)
      BY Facts DEF InList, Listed
    <3>2. InList \subseteq Items
      BY <3>0 DEF InList, TypeOK
    <3>3. ASSUME NEW x \in Items
          PROVE  at[x] = Overflow <=>
                   Cardinality({n \in DOMAIN overflowItems : overflowItems[n] = x}) = 1
      <4> DEFINE S == {n \in DOMAIN overflowItems : overflowItems[n] = x}
      <4>1. IsFiniteSet(S)
        <5>1. DOMAIN overflowItems = 1..Len(overflowItems) /\ Len(overflowItems) \in Int
          BY <3>0 DEF TypeOK
        <5>2. IsFiniteSet(1..Len(overflowItems))
          BY <5>1, FS_Interval
        <5>. QED  BY <5>1, <5>2, FS_Subset
      <4>2. at[x] = Overflow <=> S # {}
        BY <3>0 DEF OverflowOK
      <4>3. \A n, m \in S : n = m
        BY <3>0 DEF OverflowOK, Distinct
      <4>. HIDE DEF S
      <4>4. ASSUME NEW n \in S PROVE S = {n}
        BY <4>3
      <4>5. S # {} <=> \E n : S = {n}
        BY <4>4
      <4>. QED  BY <4>1, <4>2, <4>5, FS_Singleton DEF S
    <3>. QED
      BY <3>0, <3>1, <3>2, <3>3
      DEF PlacesAgree, PlacesOK, AtOK, IndexOK, WornOK
  <2>. QED  BY <1>1, <2>1, Invariance, PTL
<1>2. CASE ~IndicesFit
  <2>1. PlacesAgree
    BY <1>2 DEF PlacesAgree, IndicesFit
  <2>. QED  BY <2>1, PTL
<1>. QED  BY <1>1, <1>2

\* Whatever is in a bag can be got at, as long as no bag got into another and
\* none was destroyed with its contents.
THEOREM BagsInReach == ASSUME IndicesFit PROVE Spec => []InReach
<1>1. IInv => InReach
  <2> SUFFICES ASSUME IInv, intact, NEW p \in Places, p[1] \in Bags, items[p] # Nothing
               PROVE  \E q \in Places : q[1] \notin Bags /\ items[q] = p[1]
    BY DEF InReach
  <2>1. PICK q \in Places : items[q] = p[1]
    BY DEF IInv, ItemsOK, BagsOK, IsPlace, Listed
  <2>2. q[1] \notin Bags
    BY <2>1 DEF IInv, ItemsOK, BagsOK, BagInBag
  <2>. QED  BY <2>1, <2>2
<1>. QED  BY <1>1, Invariance, PTL

\* No command that moves, merges, splits, puts on, takes off or takes out of the
\* overflow duplicates an item or loses one.
THEOREM TotalsKept == ASSUME IndicesFit PROVE Spec => RearrangingKeepsTotals
<1>1. IInv /\ [Next]_vars => [intact' /\ Holdings' # Holdings => GainOrLose]_vars
  <2> SUFFICES ASSUME IInv, Next PROVE Holdings' # Holdings => GainOrLose
    OBVIOUS
  <2>1. CASE Rearrange
    BY <2>1, RearrangeSteps DEF Next
  <2>2. CASE GainOrLose
    BY <2>2
  <2>. QED  BY <2>1, <2>2 DEF Next
<1>. QED  BY <1>1, Invariance, PTL DEF Spec, RearrangingKeepsTotals

=============================================================================
