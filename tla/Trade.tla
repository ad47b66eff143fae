------------------------------- MODULE Trade -------------------------------
(***************************************************************************)
(* Trades between players: class Trade (source/WorldServer/Trade.cpp), the *)
(* trade commands that call it (Commands.cpp), and what a completed trade  *)
(* does to purses (Player::AddCoins, RemoveCoins) and to inventories       *)
(* (Client::AddItem, RemoveItem).                                          *)
(*                                                                         *)
(* The players of a trade are in one zone, and one thread runs the         *)
(* commands of a zone's players: a command is one step.  At most one Trade *)
(* is shared by two players, so its fields are kept by player.             *)
(*                                                                         *)
(* Items are abstracted to counts: a player's items of one kind are one    *)
(* stack, which is what unique_id identifies.  Kinds a player may not      *)
(* trade at all (locked, equipped, banked, NO_TRADE, HEIRLOOM) are left    *)
(* out, and so are bots.                                                   *)
(***************************************************************************)
EXTENDS Integers, FiniteSets

CONSTANTS
  Player,       \* players in one zone
  None,         \* no trade
  Kind,         \* kinds of items
  Lore,         \* those a player may own only one stack of
  MaxSlots,     \* trade_max_slots, 12 or 6
  Width,        \* 2^32: the range of an int32
  StartPurse,   \* each player's coins
  StartBag,     \* each player's items
  Amounts,      \* amounts of coin the commands name, in copper
  MaxCommands,  \* bound: offers made or taken back, coins and items used
  Quiet         \* whether a trader's purse and bag change by his trade only

Slot == 0..(MaxSlots - 1)
Purse == [plat : Nat, gold : 0..99, silver : 0..99, copper : 0..99]
Goods == [kind : Kind, quantity : Nat \ {0}]

ASSUME TradeAssumption ==
  /\ None \notin Player \X Player
  /\ Lore \subseteq Kind
  /\ MaxSlots \in Nat /\ MaxCommands \in Nat
  /\ Width \in Nat \ {0}
  /\ StartPurse \in [Player -> Purse]
  /\ StartBag \in [Player -> [Kind -> Nat]]
  /\ \A p \in Player : \A k \in Lore : StartBag[p][k] <= 1
  /\ Amounts \subseteq Nat
  /\ Quiet \in BOOLEAN

VARIABLES
  purse,     \* coin_plat, coin_gold, coin_silver and coin_copper
  bag,       \* how many items of each kind a player has
  trade,     \* Entity::trade: <<trader1, trader2>> or None
  open,      \* Trade objects that were made and not deleted
  coins,     \* trader1_coins and trader2_coins
  items,     \* trader1_items and trader2_items
  accepted,  \* trader1_accepted and trader2_accepted
  commands   \* bounded by MaxCommands

goods == <<purse, bag>>
offers == <<coins, items, accepted>>
vars == <<goods, trade, open, offers, commands>>

TypeOK ==
  /\ purse \in [Player -> Purse]
  /\ bag \in [Player -> [Kind -> Nat]]
  /\ trade \in [Player -> (Player \X Player) \cup {None}]
  /\ open \subseteq Player \X Player
  /\ coins \in [Player -> Nat]
  /\ \A p \in Player : DOMAIN items[p] \subseteq Slot /\ \A s \in DOMAIN items[p] : items[p][s] \in Goods
  /\ DOMAIN items = Player
  /\ accepted \in [Player -> BOOLEAN]
  /\ commands \in 0..MaxCommands

Nothing == [s \in {} |-> None]

Init ==
  /\ purse = StartPurse
  /\ bag = StartBag
  /\ trade = [p \in Player |-> None]
  /\ open = {}
  /\ coins = [p \in Player |-> 0]
  /\ items = [p \in Player |-> Nothing]
  /\ accepted = [p \in Player |-> FALSE]
  /\ commands = 0

-----------------------------------------------------------------------------
(* Coins.                                                                  *)

Plat == 1000000
Gold == 10000
Silver == 100

\* What a purse is worth, in copper.
Worth(c) == Plat * c.plat + Gold * c.gold + Silver * c.silver + c.copper

\* What RemoveCoins and HasCoins make of it: each product is an int32, even
\* though their sum is not.
TotalCoins(c) ==
  ((Plat * c.plat) % Width) + ((Gold * c.gold) % Width) + ((Silver * c.silver) % Width) + c.copper

HasCoins(c, amount) == TotalCoins(c) >= amount

\* Variant: a full hundred of copper is not carried to the silver.
AddCoinsUncarried(c, amount) ==
  LET silver == c.silver + ((amount % Gold) \div Silver)
      gold == c.gold + ((amount % Plat) \div Gold) + (silver \div 100)
  IN  [plat |-> (c.plat + (amount \div Plat) + (gold \div 100)) % Width,
       gold |-> gold % 100, silver |-> silver % 100, copper |-> (c.copper + (amount % Silver)) % 100]

\* The amount is split by denomination, then each full hundred is carried.
AddCoins(c, amount) ==
  LET copper == c.copper + (amount % Silver)
      silver == c.silver + ((amount % Gold) \div Silver) + (copper \div 100)
      gold == c.gold + ((amount % Plat) \div Gold) + (silver \div 100)
  IN  [plat |-> (c.plat + (amount \div Plat) + (gold \div 100)) % Width,
       gold |-> gold % 100, silver |-> silver % 100, copper |-> copper % 100]

Empty == [plat |-> 0, gold |-> 0, silver |-> 0, copper |-> 0]

\* Coins a player does not have are not taken, and nobody asks.
RemoveCoins(c, amount) ==
  IF HasCoins(c, amount) THEN AddCoins(Empty, TotalCoins(c) - amount) ELSE c

-----------------------------------------------------------------------------
(* Items.                                                                  *)

\* How many items of a kind a player offers.
Offered(p, k) ==
  IF \E s \in DOMAIN items[p] : items[p][s].kind = k
  THEN items[p][CHOOSE s \in DOMAIN items[p] : items[p][s].kind = k].quantity
  ELSE 0

\* Variant: the whole stack goes.
RemoveStack(count, quantity) == IF quantity > 0 THEN 0 ELSE count

\* Client::RemoveItem: part of the stack, or all there is.
RemoveItem(count, quantity) == IF count > quantity THEN count - quantity ELSE 0

\* Variant: a second stack of a lore item is accepted.
AddItemAlways(k, count, quantity) == count + quantity

\* Client::AddItem: an item the player may not have is deleted.
AddItem(k, count, quantity) ==
  IF k \in Lore /\ count > 0 THEN count ELSE count + quantity

-----------------------------------------------------------------------------
(* The life of a trade.                                                    *)

Tradee(t, p) == IF p = t[1] THEN t[2] ELSE t[1]
Traders(t) == {t[1], t[2]}

\* A field that gets the same value for both players of a trade.
ForBoth(t, f, v) == [p \in Player |-> IF p \in Traders(t) THEN v ELSE f[p]]

\* The constructor's values, which stand for a deleted trade's as well.
Blank(t) ==
  /\ coins' = ForBoth(t, coins, 0)
  /\ items' = ForBoth(t, items, Nothing)
  /\ accepted' = ForBoth(t, accepted, FALSE)

\* Command_TradeStart.
TradeStart(p, q) ==
  /\ p # q
  /\ trade[p] = None /\ trade[q] = None
  /\ Blank(<<p, q>>)
  /\ open' = open \cup {<<p, q>>}
  /\ trade' = ForBoth(<<p, q>>, trade, <<p, q>>)
  /\ UNCHANGED <<goods, commands>>

\* Variant: only the player who ends the trade forgets it.
ForgetAlone(t, p) == trade' = [trade EXCEPT ![p] = None]

\* Both players' pointers are cleared.
Forget(t, p) == trade' = ForBoth(t, trade, None)

\* The command that ended the trade deletes it.
End(t, p) ==
  /\ Forget(t, p)
  /\ open' = open \ {t}
  /\ Blank(t)

\* Command_TradeCancel, Command_TradeReject, and TerminateTrade for a player
\* who leaves the zone.
CancelTrade(p) ==
  /\ trade[p] # None
  /\ End(trade[p], p)
  /\ UNCHANGED <<goods, commands>>

\* CompleteTrade: each trader gives and then gets; trader1's items were copied
\* before they were taken.
CompleteTrade(t) ==
  /\ purse' = [p \in Player |->
                IF p \in Traders(t)
                THEN AddCoins(RemoveCoins(purse[p], coins[p]), coins[Tradee(t, p)])
                ELSE purse[p]]
  /\ bag' = [p \in Player |->
              IF p \in Traders(t)
              THEN [k \in Kind |->
                      LET left == RemoveItem(bag[p][k], Offered(p, k))
                          given == Offered(Tradee(t, p), k)
                      IN  IF given = 0 THEN left ELSE AddItem(k, left, given)]
              ELSE bag[p]]

\* SetTradeAccepted, and the end of Command_TradeAccept.
SetTradeAccepted(p) ==
  /\ trade[p] # None
  /\ LET t == trade[p]
     IN  \/ /\ accepted[Tradee(t, p)]
            /\ CompleteTrade(t)
            /\ End(t, p)
         \/ /\ ~accepted[Tradee(t, p)]
            /\ accepted' = [accepted EXCEPT ![p] = TRUE]
            /\ UNCHANGED <<goods, trade, open, coins, items>>
  /\ UNCHANGED commands

-----------------------------------------------------------------------------
(* Offers.  They may change after either player accepted.                  *)

\* A player who trades gives one of the commands below.
Command(p) ==
  /\ trade[p] # None
  /\ commands < MaxCommands
  /\ commands' = commands + 1
  /\ UNCHANGED <<goods, trade, open, accepted>>

\* Variant: each amount is compared with the purse, their sum is not.
AddCoinSingly(p, amount) ==
  /\ Command(p)
  /\ HasCoins(purse[p], amount)
  /\ coins' = [coins EXCEPT ![p] = @ + amount]
  /\ UNCHANGED items

\* AddCoinToTrade adds the amount and takes it back if it is too much.
AddCoinToTrade(p, amount) ==
  /\ Command(p)
  /\ HasCoins(purse[p], coins[p] + amount)
  /\ coins' = [coins EXCEPT ![p] = @ + amount]
  /\ UNCHANGED items

\* Variant: more can be taken back than was offered.
RemoveCoinFreely(p, amount) ==
  /\ Command(p)
  /\ coins' = [coins EXCEPT ![p] = @ - amount]
  /\ UNCHANGED items

RemoveCoinFromTrade(p, amount) ==
  /\ Command(p)
  /\ coins' = [coins EXCEPT ![p] = IF amount >= @ THEN 0 ELSE @ - amount]
  /\ UNCHANGED items

\* Variant: an item may be offered in two slots.
AddItemAgain(p, k, quantity, slot) ==
  /\ Command(p)
  /\ quantity \in 1..bag[p][k]
  /\ items' = [items EXCEPT ![p] =
                 [s \in DOMAIN items[p] \cup {slot} |->
                    IF s = slot THEN [kind |-> k, quantity |-> quantity] ELSE items[p][s]]]
  /\ UNCHANGED coins

\* AddItemToTrade, with CheckItem.  A slot in use is used again; slot 255, the
\* next free slot, is one of the slots.
AddItemToTrade(p, k, quantity, slot) ==
  /\ Command(p)
  /\ quantity \in 1..bag[p][k]
  /\ \A s \in DOMAIN items[p] : items[p][s].kind # k
  /\ items' = [items EXCEPT ![p] =
                 [s \in DOMAIN items[p] \cup {slot} |->
                    IF s = slot THEN [kind |-> k, quantity |-> quantity] ELSE items[p][s]]]
  /\ UNCHANGED coins

RemoveItemFromTrade(p, slot) ==
  /\ Command(p)
  /\ slot \in DOMAIN items[p]
  /\ items' = [items EXCEPT ![p] = [s \in DOMAIN items[p] \ {slot} |-> items[p][s]]]
  /\ UNCHANGED coins

\* What a player does with his own coins and items, in a trade or not.
Use(p) ==
  /\ Quiet => trade[p] = None
  /\ commands < MaxCommands
  /\ commands' = commands + 1
  /\ UNCHANGED <<trade, open, offers>>

\* Merchants, mail, repairs: RemoveCoins called from elsewhere.
Spend(p, amount) ==
  /\ Use(p)
  /\ amount > 0 /\ HasCoins(purse[p], amount)
  /\ purse' = [purse EXCEPT ![p] = RemoveCoins(purse[p], amount)]
  /\ UNCHANGED bag

\* Items are consumed, sold or destroyed: RemoveItem called from elsewhere.
\* The last item of an offered stack stays: without it the trade's pointer
\* would dangle, and what follows has no meaning.
UseItem(p, k) ==
  /\ Use(p)
  /\ bag[p][k] > IF Offered(p, k) > 0 THEN 1 ELSE 0
  /\ bag' = [bag EXCEPT ![p][k] = RemoveItem(@, 1)]
  /\ UNCHANGED purse

-----------------------------------------------------------------------------
Offer(p) ==
  \/ \E amount \in Amounts : AddCoinToTrade(p, amount) \/ RemoveCoinFromTrade(p, amount)
  \/ \E k \in Kind, slot \in Slot :
       \E quantity \in 1..bag[p][k] : AddItemToTrade(p, k, quantity, slot)
  \/ \E slot \in Slot : RemoveItemFromTrade(p, slot)

Next ==
  \E p \in Player :
    \/ \E q \in Player : TradeStart(p, q)
    \/ CancelTrade(p)
    \/ SetTradeAccepted(p)
    \/ Offer(p)
    \/ \E amount \in Amounts : Spend(p, amount)
    \/ \E k \in Kind : UseItem(p, k)

Spec == Init /\ [][Next]_vars

-----------------------------------------------------------------------------
(* Properties.                                                             *)

\* Entity::trade is never a pointer to a Trade that was deleted, and never to
\* one of two other players: whoever ends a trade ends it for both.
TradeIsShared ==
  /\ \A p \in Player : trade[p] # None => trade[p] \in open /\ p \in Traders(trade[p])
  /\ \A t \in open : \A p \in Traders(t) : trade[p] = t

\* Nobody offers more coins than he has, until the very end of the trade, if
\* he spends none meanwhile
\* (Trade.cpp:158: "tried to add more coins then they had").
CoinsAreCovered ==
  \A p \in Player : trade[p] # None => HasCoins(purse[p], coins[p])

\* An offered item is offered once, and the player has that many.
ItemsAreCovered ==
  \A p \in Player : trade[p] # None =>
    \A s \in DOMAIN items[p] :
      /\ items[p][s].quantity <= bag[p][items[p][s].kind]
      /\ \A r \in DOMAIN items[p] : items[p][r].kind = items[p][s].kind => r = s

\* Something is moved only between two players, and none of it is made or
\* destroyed.
Moves(amount, later) ==
  \/ \A p \in Player : later[p] = amount[p]
  \/ \E p, q \in Player :
       /\ p # q
       /\ later[p] + later[q] = amount[p] + amount[q]
       /\ \A r \in Player \ {p, q} : later[r] = amount[r]

\* No two players together own as many coins as an int32 can count.
CoinsFit == \A p, q \in Player : p # q => Worth(purse[p]) + Worth(purse[q]) < Width

\* The end of a trade neither makes nor destroys coins, whatever has to be
\* changed and carried between the four denominations.
CoinsConserved ==
  [][open' # open /\ CoinsFit =>
       Moves([p \in Player |-> Worth(purse[p])], [p \in Player |-> Worth(purse'[p])])]_vars

\* The end of a trade neither makes nor destroys items, even if items of a
\* kind go both ways.  A lore item may be lost: see LoreIsUnique.
ItemsConserved ==
  [][open' # open =>
       \A k \in Kind \ Lore :
         Moves([p \in Player |-> bag[p][k]], [p \in Player |-> bag'[p][k]])]_vars

\* No trade gives a player a second stack of a lore item.
LoreIsUnique == \A p \in Player : \A k \in Lore : bag[p][k] <= 1
=============================================================================
