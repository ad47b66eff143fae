----------------------------- MODULE Inventory -----------------------------
(***************************************************************************)
(* What a player carries: his PlayerItemList, the list of what he wears,   *)
(* and the commands that rearrange them.                                   *)
(*                                                                         *)
(* An item is in several structures at once: the map of places, the map of *)
(* indices by which the client names it, its own details, the vector of    *)
(* overflow items or the equipment list.  Every operation changes some of  *)
(* them, and none changes them all under one lock.  The zone's thread runs *)
(* the player's commands; a script of another thread may give him an item  *)
(* at the same time, in two steps: where to is decided under the lock that *)
(* is then released.                                                       *)
(*                                                                         *)
(* A bag keeps its contents wherever it is.  Left out: appearance items,   *)
(* quivers, locked items (nothing is being crafted or sold by the player), *)
(* lore, prices, the shared bank and the house vault, other kinds of items *)
(* to wear, and what refuses a command in combat.                          *)
(*                                                                         *)
(* Some sequences go wrong for good: a bag gets into a bag, a bag in the   *)
(* bank is destroyed with its contents still listed, or the decision of    *)
(* the script is overtaken by a command.  Then intact is false, and        *)
(* nothing is said of what follows.  Nor is it of a player whose indices   *)
(* do not all fit into the details of an item.                             *)
(***************************************************************************)
EXTENDS Naturals, FiniteSets, Sequences

CONSTANTS
  Bags,
  Stacks,     \* objects of one kind of item that stacks
  TwoHanded,  \* weapons for the primary slot, ITEM_WIELD_TYPE_TWO_HAND
  Shields,    \* for the secondary slot
  NUM_INV_SLOTS,
  NUM_BANK_SLOTS,
  num_slots,    \* of every bag
  stack_count,  \* how many of them one stackable item may be
  IndexWidth,   \* 2^8: the index in the details is an int8, in the list an int32
  MaxOverflow,  \* 255
  MaxItems,     \* bound on the items he has
  BASE_INVENTORY,
  BANK,
  Overflow, Worn, Gone,  \* of an item that is at no place
  Anywhere,   \* for the first free place
  Nothing

Items == Bags \cup Stacks \cup TwoHanded \cup Shields

\* Where an item can be put: inv_slot_id and slot_id.
Places ==
  ({BASE_INVENTORY} \X (0..(NUM_INV_SLOTS - 1)))
    \cup ({BANK} \X (0..(NUM_BANK_SLOTS - 1)))
    \cup (Bags \X (0..(num_slots - 1)))

ASSUME InventoryAssumption ==
  /\ IsFiniteSet(Items)
  /\ Bags \cap Stacks = {} /\ Bags \cap TwoHanded = {} /\ Bags \cap Shields = {}
  /\ Stacks \cap TwoHanded = {} /\ Stacks \cap Shields = {}
  /\ TwoHanded \cap Shields = {}
  /\ NUM_INV_SLOTS \in Nat /\ NUM_BANK_SLOTS \in Nat /\ num_slots \in Nat \ {0}
  /\ stack_count \in Nat \ {0, 1}
  /\ IndexWidth \in Nat \ {0}
  /\ MaxOverflow \in Nat /\ MaxItems \in Nat
  /\ BASE_INVENTORY # BANK
  /\ BASE_INVENTORY \notin Items /\ BANK \notin Items
  /\ Nothing \notin Items
  /\ Overflow \notin Places /\ Worn \notin Places /\ Gone \notin Places
  /\ Anywhere \notin Places
  /\ Overflow # Worn /\ Overflow # Gone /\ Worn # Gone

VARIABLES
  items,          \* the item at each place
  at,             \* inv_slot_id and slot_id in the details of each item
  indexed_items,  \* the item with each index
  index,          \* the index in the details of each item
  count,          \* how many each item is; none if it does not exist
  overflowItems,
  worn,           \* the equipment list
  adding,         \* the decision of the script's thread
  doing,          \* what is left of the command of the zone's thread
  intact

vars == <<items, at, indexed_items, index, count, overflowItems, worn, adding,
          doing, intact>>

\* An item out of the list has no index that is used.
NoIndex == Cardinality(Items)
Indices == 0..(NoIndex - 1)

WornSlots == {"primary", "secondary"}
SlotOf(x) == IF x \in TwoHanded THEN "primary" ELSE "secondary"

NotAdding == [op |-> "none"]
Idle == [op |-> "idle"]

Decision ==
  {NotAdding}
    \cup [op : {"stack"}, onto : Stacks, quantity : 1..stack_count]
    \cup [op : {"place"}, item : Items]

Rest ==
  {Idle}
    \cup [op : {"destroy"}, index : Indices]
    \cup [op : {"equip"}, item : TwoHanded]
    \cup [op : {"unequip"}, slot : WornSlots, to : Places \cup {Anywhere}]

TypeOK ==
  /\ items \in [Places -> Items \cup {Nothing}]
  /\ at \in [Items -> Places \cup {Gone, Overflow, Worn}]
  /\ indexed_items \in [Indices -> Items \cup {Nothing}]
  /\ index \in [Items -> Indices \cup {NoIndex}]
  /\ count \in [Items -> 0..stack_count]
  /\ overflowItems \in Seq(Items)
  /\ Len(overflowItems) <= MaxOverflow
  /\ worn \in [WornSlots -> Items \cup {Nothing}]
  /\ adding \in Decision
  /\ doing \in Rest
  /\ intact \in BOOLEAN

Init ==
  /\ items = [p \in Places |-> Nothing]
  /\ at = [x \in Items |-> Gone]
  /\ indexed_items = [i \in Indices |-> Nothing]
  /\ index = [x \in Items |-> NoIndex]
  /\ count = [x \in Items |-> 0]
  /\ overflowItems = <<>>
  /\ worn = [s \in WornSlots |-> Nothing]
  /\ adding = NotAdding
  /\ doing = Idle
  /\ intact = TRUE

-----------------------------------------------------------------------------
(* Places and indices *)

\* GetItemFromUniqueID finds the item.
Listed(x) == \E p \in Places : items[p] = x

FreeIn(c) == {p \in Places : p[1] = c /\ items[p] = Nothing}

First(places) == CHOOSE p \in places : \A q \in places : p[2] <= q[2]

\* The free places of the first bag in c that has any.
FreeInBags(c) ==
  LET open == {p \in Places : /\ p[1] = c
                              /\ items[p] \in Bags
                              /\ FreeIn(items[p]) # {}}
  IN IF open = {} THEN {} ELSE FreeIn(items[First(open)])

\* GetFirstFreeSlot, GetFirstFreeBankSlot: the first of these.
FreePlaces(c) == IF FreeIn(c) # {} THEN FreeIn(c) ELSE FreeInBags(c)

\* AssignItemToFreeSlot: bags first, but no bags into bags.
PlacesFor(x) ==
  IF x \in Bags \/ FreeInBags(BASE_INVENTORY) = {}
  THEN FreeIn(BASE_INVENTORY)
  ELSE FreeInBags(BASE_INVENTORY)

\* The item that the client names by its index in the list.
Indexed(x) == \E i \in Indices : indexed_items[i] = x

IndexOf(x) == CHOOSE i \in Indices : indexed_items[i] = x

LowestFree(indexed) ==
  CHOOSE i \in Indices : indexed[i] = Nothing /\ \A j \in 0..(i - 1) : indexed[j] # Nothing

\* PlayerItemList::AddItem of x at p.  It does not look at what is there.
AddItem(x, p, indexed) ==
  LET new_index == LowestFree(indexed) IN
  /\ items' = [items EXCEPT ![p] = x]
  /\ indexed_items' = [indexed EXCEPT ![new_index] = x]
  /\ index' = [index EXCEPT ![x] = new_index % IndexWidth]

\* A place that the code takes for one.
IsPlace(p) == p[1] \in Bags => Listed(p[1])

BagInBag == \E p \in Places : p[1] \in Bags /\ items[p] \in Bags

\* Not an item of the player's, nor in the hands of the script.
New(x) ==
  /\ at[x] = Gone
  /\ Cardinality({z \in Items : at[z] # Gone}) < MaxItems
  /\ adding.op = "stack" => x # adding.onto

-----------------------------------------------------------------------------
(* Getting items *)

\* What CanStack and the test for the inventory may come to, for a new item of
\* n: a bag in the bank that is looked at first hides a stack in another bag.
StackChoices(n) ==
  LET fits(c) == {p \in Places : /\ p[1] = c
                                 /\ items[p] \in Stacks
                                 /\ count[items[p]] + n <= stack_count}
      found == {b \in Bags : fits(b) # {}}
  IN
  IF fits(BASE_INVENTORY) # {} THEN {items[First(fits(BASE_INVENTORY))]}
  ELSE IF found = {} THEN {Nothing}
  ELSE {IF at[b][1] = BASE_INVENTORY THEN items[First(fits(b))] ELSE Nothing :
        b \in found}

AddOverflowItem(x) ==
  /\ Len(overflowItems) < MaxOverflow
  /\ overflowItems' = Append(overflowItems, x)
  /\ at' = [at EXCEPT ![x] = Overflow]

\* Player::AddItem in the script's thread, up to the release of the lock.
Gain(x, n) ==
  /\ adding = NotAdding
  /\ New(x)
  /\ x \in Stacks \/ n = 1
  /\ \E onto \in IF x \in Stacks THEN StackChoices(n) ELSE {Nothing} :
       \/ /\ onto # Nothing
          /\ adding' = [op |-> "stack", onto |-> onto, quantity |-> n]
          /\ UNCHANGED <<at, count, overflowItems>>
       \/ /\ onto = Nothing
          /\ PlacesFor(x) # {}
          /\ at' = [at EXCEPT ![x] = First(PlacesFor(x))]
          /\ count' = [count EXCEPT ![x] = n]
          /\ adding' = [op |-> "place", item |-> x]
          /\ UNCHANGED overflowItems
       \/ /\ onto = Nothing
          /\ PlacesFor(x) = {}
          /\ AddOverflowItem(x)
          /\ count' = [count EXCEPT ![x] = n]
          /\ UNCHANGED adding
  /\ UNCHANGED <<items, indexed_items, index, worn, doing, intact>>

\* Player::AddItemToBank, up to the release of the lock.
GainInBank(x, n) ==
  /\ adding = NotAdding
  /\ New(x)
  /\ x \in Stacks \/ n = 1
  /\ count' = [count EXCEPT ![x] = n]
  /\ \/ /\ FreePlaces(BANK) # {}
        /\ at' = [at EXCEPT ![x] = First(FreePlaces(BANK))]
        /\ adding' = [op |-> "place", item |-> x]
        /\ UNCHANGED overflowItems
     \/ /\ FreePlaces(BANK) = {}
        /\ AddOverflowItem(x)
        /\ UNCHANGED adding
  /\ UNCHANGED <<items, indexed_items, index, worn, doing, intact>>

\* PlayerItemList::Stack.  The item that was found may be gone by now, or have
\* grown.
FinishStack ==
  LET onto == adding.onto
      both == count[onto] + adding.quantity
  IN
  /\ adding.op = "stack"
  /\ intact' = (at[onto] # Gone /\ both <= stack_count)
  /\ count' = IF intact' THEN [count EXCEPT ![onto] = both] ELSE count
  /\ adding' = NotAdding
  /\ UNCHANGED <<items, at, indexed_items, index, overflowItems, worn, doing>>

\* PlayerItemList::AddItem.  The place may be taken by now, or its bag gone.
FinishPlace ==
  LET x == adding.item IN
  /\ adding.op = "place"
  /\ IF items[at[x]] = Nothing /\ IsPlace(at[x])
     THEN AddItem(x, at[x], indexed_items) /\ intact' = ~BagInBag'
     ELSE intact' = FALSE /\ UNCHANGED <<items, indexed_items, index>>
  /\ adding' = NotAdding
  /\ UNCHANGED <<at, count, overflowItems, worn, doing>>

-----------------------------------------------------------------------------
(* Moving items *)

\* Variant: the item that makes room keeps its details.
PutOnly(x, p) ==
  /\ items' = [items EXCEPT ![at[x]] = items[p], ![p] = x]
  /\ at' = [at EXCEPT ![x] = p]

\* x goes to p, and what is there to where x was.
PutAt(x, p) ==
  /\ items' = [items EXCEPT ![at[x]] = items[p], ![p] = x]
  /\ at' = [z \in Items |->
             IF z = x THEN p ELSE IF z = items[p] THEN at[x] ELSE at[z]]

\* Both are of the kind that stacks, and there is room in the second.
Combines(x, y) ==
  x \in Stacks /\ y \in Stacks /\ count[y] < stack_count

\* Variant: the limit of a stack is not looked at.
FitsAlways(x, y) == count[x] + count[y] > 0

Fits(x, y) == count[x] + count[y] <= stack_count

\* All of x is added to y, whatever the number in the command.  What is left of
\* the command is to destroy the item with the index of x.
Merge(x, y) ==
  /\ Combines(x, y) /\ Fits(x, y)
  /\ count' = [count EXCEPT ![y] = @ + count[x], ![x] = 0]
  /\ items' = [items EXCEPT ![at[x]] = Nothing]
  /\ at' = [at EXCEPT ![x] = Gone]
  /\ indexed_items' = [indexed_items EXCEPT ![IndexOf(x)] = Nothing]
  /\ index' = [index EXCEPT ![x] = NoIndex]
  /\ doing' = [op |-> "destroy", index |-> IndexOf(x)]

\* Variant: the rest is not taken off.
FillUp(x, y) ==
  /\ Combines(x, y) /\ ~Fits(x, y)
  /\ count' = [count EXCEPT ![y] = stack_count]
  /\ UNCHANGED <<items, at, indexed_items, index, doing>>

\* y takes as many as it can.
Fill(x, y) ==
  /\ Combines(x, y) /\ ~Fits(x, y)
  /\ count' = [count EXCEPT ![y] = stack_count, ![x] = @ - (stack_count - count[y])]
  /\ UNCHANGED <<items, at, indexed_items, index, doing>>

\* A part of x becomes a new item.
Split(x, p, charges) ==
  /\ items[p] = Nothing
  /\ count[x] > charges
  /\ \E new \in Stacks :
       /\ New(new)
       /\ count' = [count EXCEPT ![x] = @ - charges, ![new] = charges]
       /\ at' = [at EXCEPT ![new] = p]
       /\ AddItem(new, p, indexed_items)
  /\ UNCHANGED doing

\* PlayerItemList::MoveItem with a number of items.  If all of x is moved, it
\* changes places with another kind of item, or with a full stack.  A part of x
\* goes to a free place only.
MoveSome(x, p, charges) ==
  LET y == items[p]
      same == x \in Stacks /\ y \in Stacks
  IN
  /\ charges > 0
  /\ \/ Merge(x, y) \/ Fill(x, y)
     \/ ~same /\ Split(x, p, charges)
     \/ /\ IF same THEN count[y] = stack_count ELSE count[x] = charges
        /\ PutAt(x, p)
        /\ UNCHANGED <<indexed_items, index, count, doing>>

\* The same without a number: into the bag at p if it has room, else to p, and
\* what is there to the place of x.
MoveAll(x, p, charges) ==
  LET y == items[p] IN
  /\ charges = 0
  /\ IF y \in Bags /\ FreeIn(y) # {}
     THEN PutAt(x, First(FreeIn(y)))
     ELSE PutAt(x, p)
  /\ UNCHANGED <<indexed_items, index, count, doing>>

\* COMMAND_INVENTORY, move.  A client asks for no more of x than there are.
Move(x, p, charges) ==
  /\ doing = Idle
  /\ Indexed(x)
  /\ charges <= count[x]
  /\ p # at[x]
  /\ IsPlace(p)
  /\ x \in Bags => p[1] \notin Bags /\ items[p] \notin Bags
  /\ MoveSome(x, p, charges) \/ MoveAll(x, p, charges)
  /\ intact' = ~BagInBag'
  /\ UNCHANGED <<overflowItems, worn, adding>>

\* The end of Player::MoveInventoryItem after a merge, which has already taken
\* the index off the list: DestroyItem finds nothing, or what has got that
\* index since.
DestroyMerged ==
  /\ doing.op = "destroy"
  /\ intact' = (indexed_items[doing.index] = Nothing)
  /\ doing' = Idle
  /\ UNCHANGED <<items, at, indexed_items, index, count, overflowItems, worn,
                 adding>>

\* The first overflow item goes to p.
PopTo(p) ==
  LET x == Head(overflowItems) IN
  /\ AddItem(x, p, indexed_items)
  /\ at' = [at EXCEPT ![x] = p]
  /\ overflowItems' = Tail(overflowItems)
  /\ intact' = ~BagInBag'

\* COMMAND_INVENTORY, pop: to the first free place of the inventory or of the
\* bank, or to a free one that the player has chosen.
Pop ==
  /\ doing = Idle
  /\ overflowItems # <<>>
  /\ \/ \E c \in {BASE_INVENTORY, BANK} :
          FreePlaces(c) # {} /\ PopTo(First(FreePlaces(c)))
     \/ \E p \in Places : items[p] = Nothing /\ IsPlace(p) /\ PopTo(p)
  /\ UNCHANGED <<count, worn, adding, doing>>

-----------------------------------------------------------------------------
(* Losing items *)

Contents(x) == {items[p] : p \in {q \in Places : q[1] = x /\ items[q] # Nothing}}

\* Variant: what is in a bag stays listed.
LoseAlone(x) ==
  LET lost == {x} IN
  /\ items' = [p \in Places |-> IF items[p] \in lost THEN Nothing ELSE items[p]]
  /\ at' = [z \in Items |-> IF z \in lost THEN Gone ELSE at[z]]
  /\ indexed_items' = [i \in Indices |->
       IF \E z \in lost : index[z] = i THEN Nothing ELSE indexed_items[i]]
  /\ index' = [z \in Items |-> IF z \in lost THEN NoIndex ELSE index[z]]
  /\ count' = [z \in Items |-> IF z \in lost THEN 0 ELSE count[z]]

\* RemoveItem, DestroyItem: a bag goes with what is in it, if it is a bag of the
\* inventory.
Lose(x) ==
  LET lost == {x} \cup (IF at[x][1] = BASE_INVENTORY THEN Contents(x) ELSE {}) IN
  /\ items' = [p \in Places |-> IF items[p] \in lost THEN Nothing ELSE items[p]]
  /\ at' = [z \in Items |-> IF z \in lost THEN Gone ELSE at[z]]
  /\ indexed_items' = [i \in Indices |->
       IF \E z \in lost : index[z] = i THEN Nothing ELSE indexed_items[i]]
  /\ index' = [z \in Items |-> IF z \in lost THEN NoIndex ELSE index[z]]
  /\ count' = [z \in Items |-> IF z \in lost THEN 0 ELSE count[z]]

\* COMMAND_INVENTORY, destroy.
DestroyItem(x) ==
  /\ doing = Idle
  /\ Indexed(x)
  /\ Lose(x)
  /\ intact' = (at[x][1] = BASE_INVENTORY \/ Contents(x) = {})
  /\ UNCHANGED <<overflowItems, worn, adding, doing>>

\* Client::RemoveItem of an item that was found by its kind, out of the bank.
RemoveItem(x, quantity) ==
  /\ doing = Idle
  /\ Listed(x) /\ at[x][1] # BANK
  /\ IF x \notin Bags /\ count[x] > quantity
     THEN /\ count' = [count EXCEPT ![x] = @ - quantity]
          /\ UNCHANGED <<items, at, indexed_items, index>>
     ELSE Lose(x)
  /\ UNCHANGED <<overflowItems, worn, adding, doing, intact>>

-----------------------------------------------------------------------------
(* Wearing items *)

\* UnequipItem to the first free place, or not at all.
TakeOff(slot) ==
  LET x == worn[slot] IN
  IF PlacesFor(x) = {}
  THEN UNCHANGED <<items, at, indexed_items, index, worn>>
  ELSE /\ AddItem(x, First(PlacesFor(x)), indexed_items)
       /\ at' = [at EXCEPT ![x] = First(PlacesFor(x))]
       /\ worn' = [worn EXCEPT ![slot] = Nothing]

\* UnequipItem to a place with an item that can be worn instead.  Its index is
\* free again before the other one gets an index.
Change(slot, p) ==
  LET x == worn[slot]
      to_item == items[p]
      indexed == [indexed_items EXCEPT ![index[to_item]] = Nothing]
      new_index == LowestFree(indexed)
  IN
  /\ items' = [items EXCEPT ![p] = x]
  /\ at' = [at EXCEPT ![x] = p, ![to_item] = Worn]
  /\ indexed_items' = [indexed EXCEPT ![new_index] = x]
  /\ index' = [index EXCEPT ![to_item] = NoIndex, ![x] = new_index % IndexWidth]
  /\ worn' = [worn EXCEPT ![slot] = to_item]

\* The item of the slot goes to p, which is free.
TakeOffTo(slot, p) ==
  /\ AddItem(worn[slot], p, indexed_items)
  /\ at' = [at EXCEPT ![worn[slot]] = p]
  /\ worn' = [worn EXCEPT ![slot] = Nothing]

CanBeWorn(x, slot) == x \in TwoHanded \cup Shields /\ SlotOf(x) = slot

\* Player::UnequipItem
UnequipItem(slot, to) ==
  LET y == items[to] IN
  IF worn[slot] = Nothing THEN UNCHANGED <<items, at, indexed_items, index, worn>>
  ELSE IF to = Anywhere THEN TakeOff(slot)
  ELSE IF CanBeWorn(y, slot) THEN Change(slot, to)
  ELSE IF y \in Bags /\ FreeIn(y) # {} THEN TakeOffTo(slot, First(FreeIn(y)))
  ELSE IF y = Nothing /\ IsPlace(to) THEN TakeOffTo(slot, to)
  ELSE UNCHANGED <<items, at, indexed_items, index, worn>>

\* COMMAND_INVENTORY, unequip.  It calls UnequipItem, and then
\* Client::UnequipItem with the same arguments, which calls it again.
Unequip(slot, to) ==
  /\ doing = Idle
  /\ worn[slot] # Nothing
  /\ UnequipItem(slot, to)
  /\ doing' = [op |-> "unequip", slot |-> slot, to |-> to]
  /\ UNCHANGED <<count, overflowItems, adding, intact>>

UnequipAgain ==
  /\ doing.op = "unequip"
  /\ UnequipItem(doing.slot, doing.to)
  /\ doing' = Idle
  /\ UNCHANGED <<count, overflowItems, adding, intact>>

\* The end of Player::EquipItem: x leaves the list and is worn.
Wear(x) ==
  /\ items' = [items EXCEPT ![at[x]] = Nothing]
  /\ at' = [at EXCEPT ![x] = Worn]
  /\ indexed_items' = [indexed_items EXCEPT ![index[x]] = Nothing]
  /\ index' = [index EXCEPT ![x] = NoIndex]
  /\ worn' = [worn EXCEPT ![SlotOf(x)] = x]
  /\ doing' = Idle

\* EquipmentItemList::GetFreeSlot
SlotIsFree(x) ==
  /\ worn[SlotOf(x)] = Nothing
  /\ x \in Shields => worn["primary"] = Nothing

\* Something is to be taken off for a weapon that needs both hands.
NeedsBothHands(x) == x \in TwoHanded /\ worn["secondary"] # Nothing

\* COMMAND_INVENTORY, equip, for a slot that is free.  For a two-handed weapon
\* the shield is taken off first, if there is a place for it; the weapon itself
\* still has its own.
EquipFree(x) ==
  /\ SlotIsFree(x)
  /\ IF NeedsBothHands(x)
     THEN TakeOff("secondary") /\ doing' = [op |-> "equip", item |-> x]
     ELSE Wear(x)

\* The same for a slot that is not: the two items change places.
EquipInstead(x) ==
  /\ worn[SlotOf(x)] # Nothing
  /\ Change(SlotOf(x), at[x])
  /\ doing' = IF NeedsBothHands(x)
              THEN [op |-> "unequip", slot |-> "secondary", to |-> Anywhere]
              ELSE Idle

Equip(x) ==
  /\ doing = Idle
  /\ Indexed(x)
  /\ EquipFree(x) \/ EquipInstead(x)
  /\ UNCHANGED <<count, overflowItems, adding, intact>>

FinishEquip ==
  /\ doing.op = "equip"
  /\ Wear(doing.item)
  /\ UNCHANGED <<count, overflowItems, adding, intact>>

-----------------------------------------------------------------------------

\* Commands that rearrange what the player has.
Rearrange ==
  \/ \E x \in Items, p \in Places, charges \in 0..stack_count : Move(x, p, charges)
  \/ DestroyMerged
  \/ Pop
  \/ \E slot \in WornSlots, to \in Places \cup {Anywhere} : Unequip(slot, to)
  \/ UnequipAgain
  \/ \E x \in TwoHanded \cup Shields : Equip(x)
  \/ FinishEquip

GainOrLose ==
  \/ \E x \in Items, n \in 1..stack_count :
       Gain(x, n) \/ GainInBank(x, n) \/ RemoveItem(x, n)
  \/ FinishStack
  \/ FinishPlace
  \/ \E x \in Items : DestroyItem(x)

Next == intact /\ (Rearrange \/ GainOrLose)

Spec == Init /\ [][Next]_vars

-----------------------------------------------------------------------------
(* Properties *)

\* What is stacked, piece by piece.
Pieces == {u \in Stacks \X (1..stack_count) : u[2] <= count[u[1]]}

\* What the player has, wherever it is.
Holdings == <<{x \in Items \ Stacks : at[x] # Gone}, Cardinality(Pieces)>>

\* The items the list has at a place.
InList == {items[p] : p \in Places} \ {Nothing}

\* An item of the player's is at one place only, and everybody agrees which: the
\* map of places and its details; or the equipment list, in its slot; or the
\* overflow items, once.  An item is at a place if and only if it has an index,
\* and no other has that index.
PlacesAgree ==
  intact /\ NoIndex <= IndexWidth =>
    /\ \A p \in Places : items[p] # Nothing => at[items[p]] = p
    /\ \A x \in Items :
         /\ at[x] \in Places =>
              \/ items[at[x]] = x
              \/ adding = [op |-> "place", item |-> x]
         /\ at[x] = Worn <=> \E s \in WornSlots : worn[s] = x
         /\ at[x] = Overflow <=>
              Cardinality({n \in DOMAIN overflowItems : overflowItems[n] = x}) = 1
         /\ index[x] = NoIndex <=> x \notin InList
    /\ \A s \in WornSlots : worn[s] # Nothing => CanBeWorn(worn[s], s)
    /\ \A i \in Indices : indexed_items[i] # Nothing => index[indexed_items[i]] = i
    /\ \A x \in InList : indexed_items[index[x]] = x

\* PlayerItemList::MoveItem says of a bag that is moved: "can't put bags with
\* items into other bags".  No bag that has something in it is in a bag.
NoFullBagInBag ==
  \A p \in Places : p[1] \in Bags /\ items[p] \in Bags => Contents(items[p]) = {}

\* Whatever is in a bag can be got at: the bag is at a place of the inventory or
\* of the bank.
InReach ==
  intact =>
    \A p \in Places : p[1] \in Bags /\ items[p] # Nothing =>
      \E q \in Places : q[1] \notin Bags /\ items[q] = p[1]

\* What a player has changes only when something is given to him or taken from
\* him: no command that moves, merges, splits, puts on, takes off or takes out of
\* the overflow duplicates an item or loses one.
RearrangingKeepsTotals ==
  [][intact' /\ Holdings' # Holdings => GainOrLose]_vars

=============================================================================
