---------------------------- MODULE TradeProofs ----------------------------
(***************************************************************************)
(* Proofs about Trade, for any number of players, kinds, slots and         *)
(* commands.  What a trade promises about purses and bags holds under the  *)
(* assumption Quiet: nothing in the code makes a trader's offer follow     *)
(* what he spends meanwhile.                                               *)
(***************************************************************************)
EXTENDS Trade, TLAPS

-----------------------------------------------------------------------------
(* Types.                                                                  *)

\* What a player's side of the window may hold.
ItemsType(f) == DOMAIN f \subseteq Slot /\ \A s \in DOMAIN f : f[s] \in Goods

\* The denominations are positive; nothing more is needed of them here.
LEMMA Denominations == Plat \in Nat \ {0} /\ Gold \in Nat \ {0} /\ Silver \in Nat \ {0}
BY SMT DEF Plat, Gold, Silver

\* Division with remainder.
LEMMA Division ==
  ASSUME NEW a \in Nat, NEW d \in Nat \ {0}
  PROVE  /\ a \div d \in Nat /\ a % d \in Nat
         /\ a % d < d
         /\ a = d * (a \div d) + (a % d)
BY SMT

\* The denominations stay within their hundreds.
LEMMA AddCoinsType ==
  ASSUME NEW c \in Purse, NEW amount \in Nat
  PROVE  AddCoins(c, amount) \in Purse
<1> DEFINE copper == c.copper + (amount % Silver)
           silver == c.silver + ((amount % Gold) \div Silver) + (copper \div 100)
           gold == c.gold + ((amount % Plat) \div Gold) + (silver \div 100)
           plat == c.plat + (amount \div Plat) + (gold \div 100)
<1>1. c.plat \in Nat /\ c.gold \in Nat /\ c.silver \in Nat /\ c.copper \in Nat
  BY DEF Purse
<1>2. amount % Silver \in Nat /\ amount % Gold \in Nat /\ amount % Plat \in Nat /\ amount \div Plat \in Nat
  BY Denominations, Division
<1>3. (amount % Gold) \div Silver \in Nat /\ (amount % Plat) \div Gold \in Nat
  BY <1>2, Denominations, Division
<1>4. AddCoins(c, amount) =
        [plat |-> plat % Width, gold |-> gold % 100, silver |-> silver % 100, copper |-> copper % 100]
  BY DEF AddCoins
<1>5. copper \in Nat
  BY <1>1, <1>2
<1>6. silver \in Nat
  <2> HIDE DEF copper
  <2>1. copper \div 100 \in Nat
    BY <1>5, Division
  <2> QED  BY <1>1, <1>3, <2>1
<1>7. gold \in Nat
  <2> HIDE DEF silver
  <2>1. silver \div 100 \in Nat
    BY <1>6, Division
  <2> QED  BY <1>1, <1>3, <2>1
<1>8. plat \in Nat
  <2> HIDE DEF gold
  <2>1. gold \div 100 \in Nat
    BY <1>7, Division
  <2> QED  BY <1>1, <1>2, <2>1
<1> HIDE DEF copper, silver, gold, plat
<1>9. plat % Width \in Nat
  BY <1>8, Division, TradeAssumption
<1>10. gold % 100 \in 0..99 /\ silver % 100 \in 0..99 /\ copper % 100 \in 0..99
  BY <1>5, <1>6, <1>7
<1> QED
  BY <1>4, <1>9, <1>10 DEF Purse

\* The coins of a purse add up to a natural number.
LEMMA TotalCoinsType ==
  ASSUME NEW c \in Purse
  PROVE  TotalCoins(c) \in Nat
<1>1. (Plat * c.plat) % Width \in Nat /\ (Gold * c.gold) % Width \in Nat
      /\ (Silver * c.silver) % Width \in Nat /\ c.copper \in Nat
  BY TradeAssumption, Denominations DEF Purse
<1> QED
  BY <1>1 DEF TotalCoins

\* What is left of a purse is a purse.
LEMMA RemoveCoinsType ==
  ASSUME NEW c \in Purse, NEW amount \in Nat
  PROVE  RemoveCoins(c, amount) \in Purse
<1>1. Empty \in Purse
  BY DEF Empty, Purse
<1>2. CASE HasCoins(c, amount)
  <2>1. TotalCoins(c) - amount \in Nat
    BY <1>2, TotalCoinsType DEF HasCoins
  <2> QED
    BY <1>1, <1>2, <2>1, AddCoinsType DEF RemoveCoins
<1> QED
  BY <1>2 DEF RemoveCoins

\* An offer of a kind is a number of items, none if there is no offer.
LEMMA OfferedType ==
  ASSUME NEW p \in Player, NEW k \in Kind, ItemsType(items[p])
  PROVE  /\ Offered(p, k) \in Nat
         /\ Offered(p, k) # 0 =>
              \E s \in DOMAIN items[p] : items[p][s].kind = k /\ Offered(p, k) = items[p][s].quantity
<1> DEFINE mine == {s \in DOMAIN items[p] : items[p][s].kind = k}
<1>1. CASE \E s \in DOMAIN items[p] : items[p][s].kind = k
  <2> DEFINE chosen == CHOOSE s \in DOMAIN items[p] : items[p][s].kind = k
  <2>1. chosen \in DOMAIN items[p] /\ items[p][chosen].kind = k
    BY <1>1
  <2>2. Offered(p, k) = items[p][chosen].quantity
    BY <1>1 DEF Offered
  <2>3. items[p][chosen] \in Goods
    BY <2>1 DEF ItemsType
  <2> QED
    BY <2>1, <2>2, <2>3 DEF Goods
<1> QED
  BY <1>1 DEF Offered

\* A fresh window, or that of a trade that was deleted: nothing on either side.
LEMMA BlankType ==
  ASSUME TypeOK, NEW t, Blank(t)
  PROVE  /\ coins' \in [Player -> Nat] /\ accepted' \in [Player -> BOOLEAN]
         /\ DOMAIN items' = Player /\ \A p \in Player : ItemsType(items'[p])
         /\ \A p \in Traders(t) \cap Player : coins'[p] = 0 /\ DOMAIN items'[p] = {}
         /\ \A p \in Player \ Traders(t) : coins'[p] = coins[p] /\ items'[p] = items[p]
<1>1. ItemsType(Nothing) /\ DOMAIN Nothing = {}
  BY DEF ItemsType, Nothing
<1> QED
  BY <1>1 DEF TypeOK, Blank, ForBoth, ItemsType

\* Completion leaves purses and bags.
LEMMA CompleteType ==
  ASSUME TypeOK, NEW t \in Player \X Player, CompleteTrade(t)
  PROVE  purse' \in [Player -> Purse] /\ bag' \in [Player -> [Kind -> Nat]]
<1>1. \A p \in Traders(t) : p \in Player /\ Tradee(t, p) \in Player
  BY DEF Traders, Tradee
<1>2. ASSUME NEW p \in Traders(t)
      PROVE  AddCoins(RemoveCoins(purse[p], coins[p]), coins[Tradee(t, p)]) \in Purse
  <2>1. purse[p] \in Purse /\ coins[p] \in Nat /\ coins[Tradee(t, p)] \in Nat
    BY <1>1 DEF TypeOK
  <2> QED
    BY <2>1, RemoveCoinsType, AddCoinsType
<1>3. purse' \in [Player -> Purse]
  BY <1>2 DEF TypeOK, CompleteTrade
<1>4. ASSUME NEW p \in Traders(t), NEW k \in Kind,
             NEW left, left = RemoveItem(bag[p][k], Offered(p, k)),
             NEW given, given = Offered(Tradee(t, p), k)
      PROVE  left \in Nat /\ AddItem(k, left, given) \in Nat
  <2>1. Offered(p, k) \in Nat /\ given \in Nat
    BY <1>1, <1>4, OfferedType DEF TypeOK, ItemsType
  <2>2. bag[p][k] \in Nat
    BY <1>1 DEF TypeOK
  <2>3. left \in Nat
    BY <1>4, <2>1, <2>2 DEF RemoveItem
  <2> QED
    BY <2>1, <2>3 DEF AddItem
<1>5. bag' \in [Player -> [Kind -> Nat]]
  BY <1>4 DEF TypeOK, CompleteTrade
<1> QED
  BY <1>3, <1>5

-----------------------------------------------------------------------------
(* Every trade has its two players, and every player the trade he is in.   *)

IInv == TypeOK /\ TradeIsShared

LEMMA InitIInv == Init => IInv
<1> SUFFICES ASSUME Init PROVE IInv
  OBVIOUS
<1>1. DOMAIN Nothing = {}
  BY DEF Nothing
<1>2. TypeOK
  BY <1>1, TradeAssumption DEF Init, TypeOK
<1>3. TradeIsShared
  BY DEF Init, TradeIsShared
<1> QED
  BY <1>2, <1>3 DEF IInv

LEMMA StartStep ==
  ASSUME IInv, NEW p \in Player, NEW q \in Player, TradeStart(p, q)
  PROVE  IInv'
<1> DEFINE t == <<p, q>>
<1>1. t \in Player \X Player /\ t # None /\ Traders(t) = {p, q}
  BY TradeAssumption DEF Traders
<1>2. trade' \in [Player -> (Player \X Player) \cup {None}] /\ open' \subseteq Player \X Player
  BY <1>1 DEF IInv, TypeOK, TradeStart, ForBoth
<1>3. TypeOK'
  BY <1>2, BlankType DEF IInv, TypeOK, TradeStart, ItemsType, goods
<1>4. \A r \in Player : trade'[r] = IF r \in {p, q} THEN t ELSE trade[r]
  BY <1>1 DEF TradeStart, ForBoth
<1>5. \A o \in open : p \notin Traders(o) /\ q \notin Traders(o)
  <2>1. \A o \in open : o # None
    BY TradeAssumption DEF IInv, TypeOK
  <2> QED
    BY <2>1 DEF IInv, TradeIsShared, TradeStart
<1>6. \A r \in Player : trade'[r] # None => trade'[r] \in open' /\ r \in Traders(trade'[r])
  BY <1>1, <1>4 DEF IInv, TradeIsShared, TradeStart
<1>7. \A o \in open' : \A r \in Traders(o) : trade'[r] = o
  <2>1. \A o \in open : \A r \in Traders(o) : r \in Player
    BY DEF IInv, TypeOK, Traders
  <2> QED
    BY <1>1, <1>4, <1>5, <2>1 DEF IInv, TradeIsShared, TradeStart
<1> QED
  BY <1>3, <1>6, <1>7 DEF IInv, TradeIsShared

\* Whoever ends the trade ends it for both.
LEMMA EndStep ==
  ASSUME IInv, NEW p \in Player, trade[p] # None, End(trade[p], p)
  PROVE  /\ trade' \in [Player -> (Player \X Player) \cup {None}] /\ open' \subseteq Player \X Player
         /\ \A r \in Player : trade'[r] # None => trade'[r] = trade[r] /\ r \notin Traders(trade[p])
         /\ TradeIsShared'
<1> DEFINE t == trade[p]
<1>1. t \in open /\ t \in Player \X Player
  BY DEF IInv, TypeOK, TradeIsShared
<1>2. \A r \in Player : trade'[r] = IF r \in Traders(t) THEN None ELSE trade[r]
  BY DEF End, Forget, ForBoth
<1>3. trade' \in [Player -> (Player \X Player) \cup {None}] /\ open' = open \ {t}
  BY DEF IInv, TypeOK, End, Forget, ForBoth
<1>4. \A r \in Player : trade'[r] # None => trade'[r] \in open' /\ r \in Traders(trade'[r])
  <2> SUFFICES ASSUME NEW r \in Player, trade'[r] # None
               PROVE  trade'[r] \in open' /\ r \in Traders(trade'[r])
    OBVIOUS
  <2>1. trade'[r] = trade[r] /\ r \notin Traders(t)
    BY <1>2
  <2>2. trade[r] \in open /\ r \in Traders(trade[r])
    BY <2>1 DEF IInv, TradeIsShared
  <2> QED
    BY <1>3, <2>1, <2>2
<1>5. \A o \in open' : \A r \in Traders(o) : trade'[r] = o
  <2> SUFFICES ASSUME NEW o \in open', NEW r \in Traders(o)
               PROVE  trade'[r] = o
    OBVIOUS
  <2>1. o \in open /\ o # t
    BY <1>3
  <2>2. trade[r] = o /\ r \in Player
    BY <2>1 DEF IInv, TypeOK, TradeIsShared, Traders
  <2>3. r \notin Traders(t)
    BY <1>1, <2>1, <2>2 DEF IInv, TradeIsShared
  <2> QED
    BY <1>2, <2>2, <2>3
<1> QED
  BY <1>2, <1>3, <1>4, <1>5 DEF TradeIsShared, IInv, TypeOK

LEMMA CancelStep ==
  ASSUME IInv, NEW p \in Player, CancelTrade(p)
  PROVE  IInv'
<1>1. trade[p] # None /\ End(trade[p], p)
  BY DEF CancelTrade
<1>2. TypeOK'
  BY <1>1, EndStep, BlankType DEF IInv, TypeOK, CancelTrade, End, ItemsType, goods
<1> QED
  BY <1>1, <1>2, EndStep DEF IInv

LEMMA AcceptStep ==
  ASSUME IInv, NEW p \in Player, SetTradeAccepted(p)
  PROVE  IInv'
<1> DEFINE t == trade[p]
<1>1. t # None /\ t \in Player \X Player
  BY DEF SetTradeAccepted, IInv, TypeOK
<1>2. CASE CompleteTrade(t) /\ End(t, p)
  <2>1. purse' \in [Player -> Purse] /\ bag' \in [Player -> [Kind -> Nat]]
    BY <1>1, <1>2, CompleteType DEF IInv
  <2>2. TypeOK'
    BY <1>1, <1>2, <2>1, EndStep, BlankType DEF IInv, TypeOK, SetTradeAccepted, End, ItemsType
  <2> QED
    BY <1>1, <1>2, <2>2, EndStep DEF IInv
<1>3. CASE accepted' = [accepted EXCEPT ![p] = TRUE] /\ UNCHANGED <<goods, trade, open, coins, items>>
  BY <1>3 DEF IInv, TypeOK, TradeIsShared, SetTradeAccepted, goods
<1> QED
  BY <1>2, <1>3 DEF SetTradeAccepted

\* What no offer touches.
LEMMA CommandStep ==
  ASSUME IInv, NEW p \in Player, Command(p),
         coins' \in [Player -> Nat], DOMAIN items' = Player, \A r \in Player : ItemsType(items'[r])
  PROVE  IInv'
BY TradeAssumption DEF IInv, TypeOK, TradeIsShared, Command, ItemsType, goods

LEMMA OfferStep ==
  ASSUME IInv, NEW p \in Player, Offer(p)
  PROVE  IInv'
<1>1. ASSUME NEW amount \in Amounts, AddCoinToTrade(p, amount) \/ RemoveCoinFromTrade(p, amount)
      PROVE  IInv'
  <2>1. coins[p] \in Nat /\ amount \in Nat
    BY TradeAssumption DEF IInv, TypeOK
  <2>2. coins' \in [Player -> Nat]
    BY <1>1, <2>1 DEF IInv, TypeOK, AddCoinToTrade, RemoveCoinFromTrade
  <2>3. items' = items /\ Command(p)
    BY <1>1 DEF AddCoinToTrade, RemoveCoinFromTrade
  <2> QED
    BY <2>2, <2>3, CommandStep DEF IInv, TypeOK, ItemsType
<1>2. ASSUME NEW k \in Kind, NEW slot \in Slot, NEW quantity \in 1..bag[p][k],
             AddItemToTrade(p, k, quantity, slot)
      PROVE  IInv'
  <2>1. bag[p][k] \in Nat
    BY DEF IInv, TypeOK
  <2>2. [kind |-> k, quantity |-> quantity] \in Goods
    BY <2>1 DEF Goods
  <2>3. ItemsType(items'[p])
    BY <1>2, <2>2 DEF IInv, TypeOK, AddItemToTrade, ItemsType
  <2>4. DOMAIN items' = Player /\ \A r \in Player : ItemsType(items'[r])
    BY <1>2, <2>3 DEF IInv, TypeOK, AddItemToTrade, ItemsType
  <2> QED
    BY <1>2, <2>4, CommandStep DEF IInv, TypeOK, AddItemToTrade
<1>3. ASSUME NEW slot \in Slot, RemoveItemFromTrade(p, slot)
      PROVE  IInv'
  <2>1. DOMAIN items' = Player /\ \A r \in Player : ItemsType(items'[r])
    BY <1>3 DEF IInv, TypeOK, RemoveItemFromTrade, ItemsType
  <2> QED
    BY <1>3, <2>1, CommandStep DEF IInv, TypeOK, RemoveItemFromTrade
<1> QED
  BY <1>1, <1>2, <1>3 DEF Offer

LEMMA SpendStep ==
  ASSUME IInv, NEW p \in Player, NEW amount \in Amounts, Spend(p, amount)
  PROVE  IInv'
<1>1. RemoveCoins(purse[p], amount) \in Purse
  BY RemoveCoinsType, TradeAssumption DEF IInv, TypeOK
<1> QED
  BY <1>1, TradeAssumption DEF IInv, TypeOK, TradeIsShared, Spend, Use, offers

LEMMA UseItemStep ==
  ASSUME IInv, NEW p \in Player, NEW k \in Kind, UseItem(p, k)
  PROVE  IInv'
<1>1. RemoveItem(bag[p][k], 1) \in Nat
  BY DEF IInv, TypeOK, RemoveItem
<1>2. bag' \in [Player -> [Kind -> Nat]]
  BY <1>1 DEF IInv, TypeOK, UseItem
<1> QED
  BY <1>2, TradeAssumption DEF IInv, TypeOK, TradeIsShared, UseItem, Use, offers

LEMMA NextIInv == IInv /\ [Next]_vars => IInv'
<1> SUFFICES ASSUME IInv, [Next]_vars PROVE IInv'
  OBVIOUS
<1>1. CASE UNCHANGED vars
  BY <1>1 DEF IInv, TypeOK, TradeIsShared, vars, goods, offers
<1>2. CASE Next
  BY <1>2, StartStep, CancelStep, AcceptStep, OfferStep, SpendStep, UseItemStep DEF Next
<1> QED
  BY <1>1, <1>2

\* Trade objects, pointers and offers have their types in every state.
THEOREM TypeCorrect == Spec => []TypeOK
<1>1. Spec => []IInv
  BY InitIInv, NextIInv, PTL DEF Spec
<1> QED
  BY <1>1, PTL DEF IInv

\* No player keeps a pointer to a trade that ended, and none shares a trade
\* with anyone but the one he trades with, however starts, ends and departures
\* of any number of players are interleaved.
THEOREM TradesAreShared == Spec => []TradeIsShared
<1>1. Spec => []IInv
  BY InitIInv, NextIInv, PTL DEF Spec
<1> QED
  BY <1>1, PTL DEF IInv

-----------------------------------------------------------------------------
(* Offers are covered as long as traders use nothing but in their trade.   *)

\* The inductive invariant: a player's side of the window is covered, and
\* nobody trades with himself.
Covered ==
  /\ CoinsAreCovered
  /\ ItemsAreCovered
  /\ LoreIsUnique
  /\ \A o \in open : o[1] # o[2]

\* Who offers a kind has as many of it.
LEMMA OfferedCovered ==
  ASSUME TypeOK, ItemsAreCovered, NEW p \in Player, trade[p] # None, NEW k \in Kind
  PROVE  Offered(p, k) \in Nat /\ Offered(p, k) <= bag[p][k]
<1>1. Offered(p, k) \in Nat /\
      (Offered(p, k) # 0 => \E s \in DOMAIN items[p] : items[p][s].kind = k /\ Offered(p, k) = items[p][s].quantity)
  BY OfferedType DEF TypeOK, ItemsType
<1>2. bag[p][k] \in Nat
  BY DEF TypeOK
<1> QED
  BY <1>1, <1>2 DEF ItemsAreCovered

\* Both traders of a trade are in it.
LEMMA BothTrade ==
  ASSUME IInv, NEW p \in Player, trade[p] # None, NEW q, q = Tradee(trade[p], p)
  PROVE  /\ p \in Traders(trade[p]) /\ q \in Player /\ q \in Traders(trade[p]) /\ trade[q] = trade[p]
         /\ Traders(trade[p]) = {p, q} /\ Tradee(trade[p], q) \in {p, q}
         /\ trade[p] \in open /\ trade[p] \in Player \X Player
<1>1. trade[p] \in open /\ trade[p] \in Player \X Player /\ p \in Traders(trade[p])
  BY DEF IInv, TypeOK, TradeIsShared
<1>2. q \in Player /\ q \in Traders(trade[p]) /\ Traders(trade[p]) = {p, q}
  BY <1>1 DEF Traders, Tradee
<1> QED
  BY <1>1, <1>2 DEF IInv, TradeIsShared, Tradee, Traders

LEMMA InitCovered == Init => Covered
BY TradeAssumption DEF Init, Covered, CoinsAreCovered, ItemsAreCovered, LoreIsUnique

\* A start leaves a window with nothing in it.
LEMMA StartCovered ==
  ASSUME IInv, Covered, NEW p \in Player, NEW q \in Player, TradeStart(p, q)
  PROVE  Covered'
<1> DEFINE t == <<p, q>>
<1>1. Traders(t) = {p, q} /\ p # q
  BY DEF Traders, TradeStart
<1>2. UNCHANGED <<purse, bag>> /\ open' = open \cup {t} /\ Blank(t)
  BY DEF TradeStart, goods
<1>3. \A r \in Player \ {p, q} : trade'[r] = trade[r]
  BY <1>1 DEF TradeStart, ForBoth, IInv, TypeOK
<1>4. \A r \in Player : r \in {p, q} => coins'[r] = 0 /\ DOMAIN items'[r] = {}
  BY <1>1, <1>2, BlankType DEF IInv
<1>5. \A r \in Player \ {p, q} : coins'[r] = coins[r] /\ items'[r] = items[r]
  BY <1>1, <1>2, BlankType DEF IInv
<1>6. \A r \in Player : HasCoins(purse[r], 0)
  BY TotalCoinsType DEF HasCoins, IInv, TypeOK
<1>7. CoinsAreCovered'
  BY <1>2, <1>3, <1>4, <1>5, <1>6 DEF Covered, CoinsAreCovered
<1>8. ItemsAreCovered'
  BY <1>2, <1>3, <1>4, <1>5 DEF Covered, ItemsAreCovered
<1> QED
  BY <1>1, <1>2, <1>7, <1>8 DEF Covered, LoreIsUnique

\* The end of a trade leaves nothing to cover; others do not see it.
LEMMA EndCovered ==
  ASSUME IInv, Covered, NEW p \in Player, trade[p] # None, End(trade[p], p),
         \A r \in Player \ Traders(trade[p]) : purse'[r] = purse[r] /\ bag'[r] = bag[r]
  PROVE  CoinsAreCovered' /\ ItemsAreCovered' /\ \A o \in open' : o[1] # o[2]
<1>1. \A r \in Player : trade'[r] # None => trade'[r] = trade[r] /\ r \notin Traders(trade[p])
  BY EndStep
<1>2. \A r \in Player \ Traders(trade[p]) : coins'[r] = coins[r] /\ items'[r] = items[r]
  BY BlankType DEF IInv, End
<1>3. CoinsAreCovered'
  BY <1>1, <1>2 DEF Covered, CoinsAreCovered
<1>4. ItemsAreCovered'
  BY <1>1, <1>2 DEF Covered, ItemsAreCovered
<1> QED
  BY <1>3, <1>4 DEF Covered, End

\* A lore item is given to a player who has none, or to nobody.
LEMMA CompleteLore ==
  ASSUME IInv, Covered, NEW p \in Player, trade[p] # None, CompleteTrade(trade[p])
  PROVE  LoreIsUnique'
<1> DEFINE t == trade[p]
<1> SUFFICES ASSUME NEW r \in Player, NEW k \in Lore
             PROVE  bag'[r][k] <= 1
  BY DEF LoreIsUnique
<1>1. k \in Kind /\ bag[r][k] \in Nat /\ bag[r][k] <= 1
  BY TradeAssumption DEF IInv, TypeOK, Covered, LoreIsUnique
<1>2. CASE r \notin Traders(t)
  BY <1>1, <1>2 DEF CompleteTrade
<1>3. CASE r \in Traders(t)
  <2> DEFINE q == Tradee(t, r)
             left == RemoveItem(bag[r][k], Offered(r, k))
             given == Offered(q, k)
  <2>1. trade[r] = t /\ q \in Player /\ trade[q] = t
    BY <1>3, BothTrade DEF IInv, TradeIsShared
  <2>2. Offered(r, k) \in Nat /\ given \in Nat /\ given <= bag[q][k]
    BY <1>1, <2>1, OfferedCovered DEF IInv, Covered
  <2>3. bag[q][k] \in Nat /\ bag[q][k] <= 1
    BY <1>1, <2>1 DEF IInv, TypeOK, Covered, LoreIsUnique
  <2>4. left \in Nat /\ left <= 1
    BY <1>1, <2>2 DEF RemoveItem
  <2>5. bag'[r][k] = IF given = 0 THEN left ELSE AddItem(k, left, given)
    BY <1>1, <1>3 DEF CompleteTrade
  <2> HIDE DEF left, given
  <2> QED
    BY <2>2, <2>3, <2>4, <2>5 DEF AddItem
<1> QED
  BY <1>2, <1>3

LEMMA CancelCovered ==
  ASSUME IInv, Covered, NEW p \in Player, CancelTrade(p)
  PROVE  Covered'
<1>1. trade[p] # None /\ End(trade[p], p) /\ UNCHANGED goods
  BY DEF CancelTrade
<1>2. CoinsAreCovered' /\ ItemsAreCovered' /\ \A o \in open' : o[1] # o[2]
  BY <1>1, EndCovered DEF goods
<1> QED
  BY <1>1, <1>2 DEF Covered, LoreIsUnique, goods

LEMMA AcceptCovered ==
  ASSUME IInv, Covered, NEW p \in Player, SetTradeAccepted(p)
  PROVE  Covered'
<1> DEFINE t == trade[p]
<1>1. t # None
  BY DEF SetTradeAccepted
<1>2. CASE CompleteTrade(t) /\ End(t, p)
  <2>1. \A r \in Player \ Traders(t) : purse'[r] = purse[r] /\ bag'[r] = bag[r]
    BY <1>2 DEF CompleteTrade
  <2>2. CoinsAreCovered' /\ ItemsAreCovered' /\ \A o \in open' : o[1] # o[2]
    BY <1>1, <1>2, <2>1, EndCovered
  <2> QED
    BY <1>1, <1>2, <2>2, CompleteLore DEF Covered
<1>3. CASE UNCHANGED <<goods, trade, open, coins, items>>
  BY <1>3 DEF Covered, CoinsAreCovered, ItemsAreCovered, LoreIsUnique, goods
<1> QED
  BY <1>1, <1>2, <1>3 DEF SetTradeAccepted

\* Less is asked of a purse that covered more.
LEMMA OfferCovered ==
  ASSUME IInv, Covered, NEW p \in Player, Offer(p)
  PROVE  Covered'
<1>1. ASSUME NEW amount \in Amounts, AddCoinToTrade(p, amount) \/ RemoveCoinFromTrade(p, amount)
      PROVE  Covered'
  <2>1. Command(p) /\ items' = items
    BY <1>1 DEF AddCoinToTrade, RemoveCoinFromTrade
  <2>2. coins[p] \in Nat /\ amount \in Nat /\ TotalCoins(purse[p]) \in Nat
    BY TotalCoinsType, TradeAssumption DEF IInv, TypeOK
  <2>3. HasCoins(purse[p], coins[p])
    BY <2>1 DEF Covered, CoinsAreCovered, Command
  <2>4. HasCoins(purse[p], coins'[p]) /\ \A r \in Player \ {p} : coins'[r] = coins[r]
    BY <1>1, <2>2, <2>3 DEF AddCoinToTrade, RemoveCoinFromTrade, HasCoins, IInv, TypeOK
  <2> QED
    BY <2>1, <2>4 DEF Covered, CoinsAreCovered, ItemsAreCovered, LoreIsUnique, Command, goods
<1>2. ASSUME NEW k \in Kind, NEW slot \in Slot, NEW quantity \in 1..bag[p][k],
             AddItemToTrade(p, k, quantity, slot)
      PROVE  Covered'
  <2>1. Command(p) /\ coins' = coins
    BY <1>2 DEF AddItemToTrade
  <2> DEFINE offer == [kind |-> k, quantity |-> quantity]
  <2>2. /\ DOMAIN items'[p] = DOMAIN items[p] \cup {slot}
        /\ \A s \in DOMAIN items'[p] : items'[p][s] = IF s = slot THEN offer ELSE items[p][s]
        /\ \A r \in Player \ {p} : items'[r] = items[r]
    BY <1>2 DEF AddItemToTrade, IInv, TypeOK
  <2>3. \A s \in DOMAIN items[p] : items[p][s].kind # k
    BY <1>2 DEF AddItemToTrade
  <2>4. quantity <= bag[p][k]
    BY DEF IInv, TypeOK
  <2>5. ItemsAreCovered'
    BY <2>1, <2>2, <2>3, <2>4 DEF Covered, ItemsAreCovered, Command, goods
  <2> QED
    BY <2>1, <2>5 DEF Covered, CoinsAreCovered, LoreIsUnique, Command, goods
<1>3. ASSUME NEW slot \in Slot, RemoveItemFromTrade(p, slot)
      PROVE  Covered'
  <2>1. Command(p) /\ coins' = coins
    BY <1>3 DEF RemoveItemFromTrade
  <2>2. /\ DOMAIN items'[p] = DOMAIN items[p] \ {slot}
        /\ \A s \in DOMAIN items'[p] : items'[p][s] = items[p][s]
        /\ \A r \in Player \ {p} : items'[r] = items[r]
    BY <1>3 DEF RemoveItemFromTrade, IInv, TypeOK
  <2>3. ItemsAreCovered'
    BY <2>1, <2>2 DEF Covered, ItemsAreCovered, Command, goods
  <2> QED
    BY <2>1, <2>3 DEF Covered, CoinsAreCovered, LoreIsUnique, Command, goods
<1> QED
  BY <1>1, <1>2, <1>3 DEF Offer

\* Who does not trade may spend what he likes.
LEMMA UseCovered ==
  ASSUME Quiet, IInv, Covered, NEW p \in Player,
         (\E amount \in Amounts : Spend(p, amount)) \/ (\E k \in Kind : UseItem(p, k))
  PROVE  Covered'
<1>1. trade[p] = None /\ UNCHANGED <<trade, open, coins, items>>
  BY DEF Spend, UseItem, Use, offers
<1>2. \A r \in Player \ {p} : purse'[r] = purse[r] /\ bag'[r] = bag[r]
  BY DEF Spend, UseItem, IInv, TypeOK
<1>3. CoinsAreCovered' /\ ItemsAreCovered'
  BY <1>1, <1>2 DEF Covered, CoinsAreCovered, ItemsAreCovered
<1>4. \A k \in Kind : bag'[p][k] <= bag[p][k] /\ bag'[p][k] \in Nat
  BY DEF Spend, UseItem, RemoveItem, IInv, TypeOK
<1>5. LoreIsUnique'
  <2> SUFFICES ASSUME NEW r \in Player, NEW k \in Lore
               PROVE  bag'[r][k] <= 1
    BY DEF LoreIsUnique
  <2>1. k \in Kind /\ bag[r][k] <= 1 /\ bag[r][k] \in Nat
    BY TradeAssumption DEF IInv, TypeOK, Covered, LoreIsUnique
  <2> QED
    BY <1>2, <1>4, <2>1
<1> QED
  BY <1>1, <1>3, <1>5 DEF Covered

LEMMA NextCovered == ASSUME Quiet PROVE IInv /\ Covered /\ [Next]_vars => Covered'
<1> SUFFICES ASSUME IInv, Covered, [Next]_vars PROVE Covered'
  OBVIOUS
<1>1. CASE UNCHANGED vars
  BY <1>1 DEF Covered, CoinsAreCovered, ItemsAreCovered, LoreIsUnique, vars, goods, offers
<1>2. CASE Next
  BY <1>2, StartCovered, CancelCovered, AcceptCovered, OfferCovered, UseCovered DEF Next
<1> QED
  BY <1>1, <1>2

LEMMA InvariantHolds == ASSUME Quiet PROVE Spec => [](IInv /\ Covered)
<1>1. Init => IInv /\ Covered
  BY InitIInv, InitCovered
<1>2. IInv /\ Covered /\ [Next]_vars => (IInv /\ Covered)'
  BY NextIInv, NextCovered
<1> QED
  BY <1>1, <1>2, PTL DEF Spec

\* As long as traders spend only in their trade, what each offers is his to
\* give, whatever is offered, taken back and accepted in which order.
THEOREM CoinsCovered == ASSUME Quiet PROVE Spec => []CoinsAreCovered
BY InvariantHolds, PTL DEF Covered

\* Under the same assumption no item is offered twice, or by one without it.
THEOREM ItemsCovered == ASSUME Quiet PROVE Spec => []ItemsAreCovered
BY InvariantHolds, PTL DEF Covered

\* Under the same assumption no trade doubles a lore item.
THEOREM LoreUnique == ASSUME Quiet PROVE Spec => []LoreIsUnique
BY InvariantHolds, PTL DEF Covered

-----------------------------------------------------------------------------
(* What a trade gives one player it takes from the other.                  *)

\* What the denominations are to each other.
LEMMA Hundreds == Silver = 100 /\ Gold = 100 * Silver /\ Plat = 100 * Gold
BY SMT DEF Plat, Gold, Silver

\* What so many coins of each denomination are in copper.
InCopper(plat, gold, silver, copper) == Plat * plat + Gold * gold + Silver * silver + copper

LEMMA WorthType ==
  ASSUME NEW c \in Purse
  PROVE  Worth(c) \in Nat
<1>1. c.plat \in Nat /\ c.gold \in Nat /\ c.silver \in Nat /\ c.copper \in Nat
  BY DEF Purse
<1>2. Plat * c.plat \in Nat /\ Gold * c.gold \in Nat /\ Silver * c.silver \in Nat
  BY <1>1, SMT DEF Plat, Gold, Silver
<1> QED
  BY <1>1, <1>2 DEF Worth

\* An amount is the sum of what it is split into.
LEMMA Split ==
  ASSUME NEW amount \in Nat
  PROVE  LET p == amount \div Plat
             g == (amount % Plat) \div Gold
             s == (amount % Gold) \div Silver
             c == amount % Silver
         IN  p \in Nat /\ g \in Nat /\ s \in Nat /\ c \in Nat /\ amount = InCopper(p, g, s, c)
BY SMT DEF InCopper, Plat, Gold, Silver

\* Carrying a hundred of one denomination to the next changes no worth.
LEMMA Carry ==
  ASSUME NEW p \in Nat, NEW g \in Nat, NEW s \in Nat, NEW c \in Nat,
         NEW silver \in Nat, silver = s + (c \div 100),
         NEW gold \in Nat, gold = g + (silver \div 100),
         NEW plat \in Nat, plat = p + (gold \div 100)
  PROVE  InCopper(p, g, s, c) = InCopper(plat, gold % 100, silver % 100, c % 100)
BY SMT DEF InCopper, Plat, Gold, Silver

\* A number below Width is its own remainder.
LEMMA Fits ==
  ASSUME NEW a \in Nat, a < Width
  PROVE  a % Width = a
<1>1. Width \in Nat \ {0}
  BY TradeAssumption
<1>2. a \div Width \in Nat /\ a % Width \in Nat /\ a = Width * (a \div Width) + (a % Width)
  BY <1>1, Division
<1>3. CASE a \div Width >= 1
  <2>1. Width * (a \div Width) >= Width
    BY <1>1, <1>2, <1>3
  <2> QED
    BY <1>1, <1>2, <2>1
<1> QED
  BY <1>1, <1>2, <1>3

\* AddCoins adds: nothing is lost in the split or the carries, as long as the
\* sum fits.
LEMMA WorthOfAdd ==
  ASSUME NEW c \in Purse, NEW amount \in Nat, Worth(c) + amount < Width
  PROVE  Worth(AddCoins(c, amount)) = Worth(c) + amount
<1> DEFINE p == amount \div Plat
           g == (amount % Plat) \div Gold
           s == (amount % Gold) \div Silver
           k == amount % Silver
           pp == c.plat + p
           gg == c.gold + g
           ss == c.silver + s
           copper == c.copper + k
           silver == ss + (copper \div 100)
           gold == gg + (silver \div 100)
           plat == pp + (gold \div 100)
<1>1. c.plat \in Nat /\ c.gold \in Nat /\ c.silver \in Nat /\ c.copper \in Nat
  BY DEF Purse
<1>2. p \in Nat /\ g \in Nat /\ s \in Nat /\ k \in Nat /\ amount = InCopper(p, g, s, k)
  BY Split
<1>3. AddCoins(c, amount) =
        [plat |-> plat % Width, gold |-> gold % 100, silver |-> silver % 100, copper |-> copper % 100]
  BY DEF AddCoins
<1> HIDE DEF p, g, s, k
<1>4. pp \in Nat /\ gg \in Nat /\ ss \in Nat /\ copper \in Nat
  BY <1>1, <1>2
<1>5. Worth(c) + amount = InCopper(pp, gg, ss, copper)
  BY <1>1, <1>2, SMT DEF InCopper, Worth, Plat, Gold, Silver
<1> HIDE DEF pp, gg, ss, copper
<1>6. silver \in Nat /\ gold \in Nat /\ plat \in Nat
  <2>1. silver \in Nat
    BY <1>4, Division
  <2> HIDE DEF silver
  <2>2. gold \in Nat
    BY <1>4, <2>1, Division
  <2> HIDE DEF gold
  <2> QED  BY <1>4, <2>1, <2>2, Division
<1>7. silver = ss + (copper \div 100) /\ gold = gg + (silver \div 100) /\ plat = pp + (gold \div 100)
  OBVIOUS
<1> HIDE DEF silver, gold, plat
<1>8. InCopper(pp, gg, ss, copper) = InCopper(plat, gold % 100, silver % 100, copper % 100)
  BY <1>4, <1>6, <1>7, Carry
<1>9. gold % 100 \in Nat /\ silver % 100 \in Nat /\ copper % 100 \in Nat
  BY <1>4, <1>6, Division
<1>10. Worth(c) + amount = InCopper(plat, gold % 100, silver % 100, copper % 100)
  BY <1>5, <1>8
<1>11. plat < Width
  <2>1. plat <= InCopper(plat, gold % 100, silver % 100, copper % 100)
    BY <1>6, <1>9, SMT DEF InCopper, Plat, Gold, Silver
  <2>2. Worth(c) + amount \in Nat
    BY WorthType
  <2> QED
    BY <1>6, <1>10, <2>1, <2>2, TradeAssumption
<1>12. plat % Width = plat
  BY <1>6, <1>11, Fits
<1> QED
  BY <1>3, <1>10, <1>12 DEF Worth, InCopper

\* What RemoveCoins counts is what the purse is worth, if that fits.
LEMMA TotalExact ==
  ASSUME NEW c \in Purse, Worth(c) < Width
  PROVE  TotalCoins(c) = Worth(c)
<1>1. c.plat \in Nat /\ c.gold \in Nat /\ c.silver \in Nat /\ c.copper \in Nat
  BY DEF Purse
<1>2. Plat * c.plat \in Nat /\ Gold * c.gold \in Nat /\ Silver * c.silver \in Nat
  BY <1>1, SMT DEF Plat, Gold, Silver
<1>3. Plat * c.plat < Width /\ Gold * c.gold < Width /\ Silver * c.silver < Width
  BY <1>1, <1>2, TradeAssumption DEF Worth
<1> QED
  BY <1>2, <1>3, Fits DEF TotalCoins, Worth

\* A covered amount is taken, and nothing else.
LEMMA WorthOfRemove ==
  ASSUME NEW c \in Purse, NEW amount \in Nat, Worth(c) < Width, HasCoins(c, amount)
  PROVE  amount <= Worth(c) /\ Worth(RemoveCoins(c, amount)) = Worth(c) - amount
<1>1. TotalCoins(c) = Worth(c) /\ Worth(c) \in Nat
  BY TotalExact, WorthType
<1>2. amount <= Worth(c) /\ Worth(c) - amount \in Nat
  BY <1>1 DEF HasCoins
<1>3. Empty \in Purse /\ Worth(Empty) = 0
  BY SMT DEF Empty, Purse, Worth, Plat, Gold, Silver
<1>4. Worth(Empty) + (Worth(c) - amount) < Width
  BY <1>1, <1>2, <1>3, TradeAssumption
<1>5. Worth(AddCoins(Empty, Worth(c) - amount)) = Worth(c) - amount
  BY <1>2, <1>3, <1>4, WorthOfAdd
<1> QED
  BY <1>1, <1>2, <1>5 DEF RemoveCoins

\* Only the two players of a completed trade are concerned.
LEMMA CompletionOnly ==
  ASSUME IInv, NEW p \in Player, SetTradeAccepted(p), open' # open
  PROVE  CompleteTrade(trade[p]) /\ trade[p] # None
BY DEF SetTradeAccepted

\* Coins change hands, and their worth with them.
LEMMA CompleteCoins ==
  ASSUME IInv, Covered, CoinsFit,
         NEW p \in Player, trade[p] # None, NEW q, q = Tradee(trade[p], p), p # q,
         CompleteTrade(trade[p])
  PROVE  Worth(purse'[p]) = (Worth(purse[p]) - coins[p]) + coins[q]
<1> DEFINE t == trade[p]
<1>1. q \in Player /\ trade[q] = t /\ p \in Traders(t)
  BY BothTrade
<1>2. purse[p] \in Purse /\ purse[q] \in Purse /\ coins[p] \in Nat /\ coins[q] \in Nat
  BY <1>1 DEF IInv, TypeOK
<1>3. Worth(purse[p]) \in Nat /\ Worth(purse[q]) \in Nat
  BY <1>2, WorthType
<1>4. Worth(purse[p]) + Worth(purse[q]) < Width
  BY <1>1 DEF CoinsFit
<1>5. Worth(purse[p]) < Width /\ Worth(purse[q]) < Width
  BY <1>3, <1>4, TradeAssumption
<1>6. HasCoins(purse[p], coins[p]) /\ HasCoins(purse[q], coins[q])
  BY <1>1 DEF Covered, CoinsAreCovered
<1> DEFINE left == RemoveCoins(purse[p], coins[p])
<1>7. left \in Purse /\ coins[p] <= Worth(purse[p]) /\ Worth(left) = Worth(purse[p]) - coins[p]
  BY <1>2, <1>5, <1>6, RemoveCoinsType, WorthOfRemove
<1>8. coins[q] <= Worth(purse[q])
  BY <1>2, <1>5, <1>6, WorthOfRemove
<1> HIDE DEF left
<1>9. Worth(left) + coins[q] < Width
  BY <1>2, <1>3, <1>4, <1>7, <1>8, TradeAssumption
<1>10. Worth(AddCoins(left, coins[q])) = Worth(left) + coins[q]
  BY <1>2, <1>7, <1>9, WorthOfAdd
<1>11. purse'[p] = AddCoins(left, coins[q])
  BY <1>1 DEF CompleteTrade, left
<1> QED
  BY <1>7, <1>10, <1>11

\* Items change hands.
LEMMA CompleteItems ==
  ASSUME IInv, Covered, NEW k \in Kind \ Lore,
         NEW p \in Player, trade[p] # None, NEW q, q = Tradee(trade[p], p),
         CompleteTrade(trade[p])
  PROVE  bag'[p][k] = (bag[p][k] - Offered(p, k)) + Offered(q, k)
<1> DEFINE t == trade[p]
<1>1. q \in Player /\ trade[q] = t /\ p \in Traders(t)
  BY BothTrade
<1>2. Offered(p, k) \in Nat /\ Offered(p, k) <= bag[p][k] /\ Offered(q, k) \in Nat /\ bag[p][k] \in Nat
  BY <1>1, OfferedCovered DEF IInv, TypeOK, Covered
<1> DEFINE left == RemoveItem(bag[p][k], Offered(p, k))
<1>3. left = bag[p][k] - Offered(p, k)
  BY <1>2 DEF RemoveItem
<1>4. bag'[p][k] = IF Offered(q, k) = 0 THEN left ELSE AddItem(k, left, Offered(q, k))
  BY <1>1 DEF CompleteTrade
<1> HIDE DEF left
<1> QED
  BY <1>2, <1>3, <1>4 DEF AddItem

\* A step that opens or ends a trade is a start, a cancellation or a
\* completion.
LEMMA OpenChanges ==
  ASSUME IInv, [Next]_vars, open' # open
  PROVE  \/ UNCHANGED goods
         \/ \E p \in Player : trade[p] # None /\ CompleteTrade(trade[p])
<1>1. CASE UNCHANGED vars
  BY <1>1 DEF vars
<1>2. ASSUME NEW p \in Player,
             \/ \E q \in Player : TradeStart(p, q)
             \/ CancelTrade(p)
      PROVE  UNCHANGED goods
  BY <1>2 DEF TradeStart, CancelTrade
<1>3. ASSUME NEW p \in Player,
             \/ Offer(p)
             \/ \E amount \in Amounts : Spend(p, amount)
             \/ \E k \in Kind : UseItem(p, k)
      PROVE  FALSE
  BY <1>3 DEF Offer, AddCoinToTrade, RemoveCoinFromTrade, AddItemToTrade, RemoveItemFromTrade, Command,
              Spend, UseItem, Use
<1> QED
  BY <1>1, <1>2, <1>3, CompletionOnly DEF Next

\* Two players complete a trade, each the other's tradee.
LEMMA TwoTraders ==
  ASSUME IInv, Covered, NEW p \in Player, trade[p] # None, NEW q, q = Tradee(trade[p], p)
  PROVE  /\ q \in Player /\ p # q /\ trade[q] = trade[p] /\ p = Tradee(trade[q], q)
         /\ Traders(trade[p]) = {p, q}
<1>1. q \in Player /\ p \in Traders(trade[p]) /\ trade[q] = trade[p] /\ Traders(trade[p]) = {p, q}
      /\ trade[p] \in open /\ trade[p] \in Player \X Player
  BY BothTrade
<1> QED
  BY <1>1 DEF Covered, Tradee, Traders

LEMMA CoinsStep ==
  ASSUME IInv, Covered, CoinsFit, [Next]_vars, open' # open
  PROVE  Moves([p \in Player |-> Worth(purse[p])], [p \in Player |-> Worth(purse'[p])])
<1>1. CASE UNCHANGED goods
  BY <1>1 DEF Moves, goods
<1>2. ASSUME NEW p \in Player, trade[p] # None, CompleteTrade(trade[p])
      PROVE  Moves([r \in Player |-> Worth(purse[r])], [r \in Player |-> Worth(purse'[r])])
  <2> DEFINE q == Tradee(trade[p], p)
  <2>1. q \in Player /\ p # q /\ trade[q] = trade[p] /\ p = Tradee(trade[q], q) /\ Traders(trade[p]) = {p, q}
    BY <1>2, TwoTraders
  <2> HIDE DEF q
  <2>2. Worth(purse'[p]) = (Worth(purse[p]) - coins[p]) + coins[q]
    BY <1>2, <2>1, CompleteCoins DEF q
  <2>3. Worth(purse'[q]) = (Worth(purse[q]) - coins[q]) + coins[p]
    BY <1>2, <2>1, CompleteCoins
  <2>4. \A r \in Player \ {p, q} : purse'[r] = purse[r]
    BY <1>2, <2>1 DEF CompleteTrade
  <2>5. Worth(purse[p]) \in Nat /\ Worth(purse[q]) \in Nat /\ coins[p] \in Nat /\ coins[q] \in Nat
    BY <2>1, WorthType DEF IInv, TypeOK
  <2>6. Worth(purse'[p]) + Worth(purse'[q]) = Worth(purse[p]) + Worth(purse[q])
    BY <2>2, <2>3, <2>5
  <2> QED
    BY <2>1, <2>4, <2>6 DEF Moves
<1> QED
  BY <1>1, <1>2, OpenChanges

LEMMA ItemsStep ==
  ASSUME IInv, Covered, [Next]_vars, open' # open, NEW k \in Kind \ Lore
  PROVE  Moves([p \in Player |-> bag[p][k]], [p \in Player |-> bag'[p][k]])
<1>1. CASE UNCHANGED goods
  BY <1>1 DEF Moves, goods
<1>2. ASSUME NEW p \in Player, trade[p] # None, CompleteTrade(trade[p])
      PROVE  Moves([r \in Player |-> bag[r][k]], [r \in Player |-> bag'[r][k]])
  <2> DEFINE q == Tradee(trade[p], p)
  <2>1. q \in Player /\ p # q /\ trade[q] = trade[p] /\ p = Tradee(trade[q], q) /\ Traders(trade[p]) = {p, q}
    BY <1>2, TwoTraders
  <2> HIDE DEF q
  <2>2. bag'[p][k] = (bag[p][k] - Offered(p, k)) + Offered(q, k)
    BY <1>2, <2>1, CompleteItems DEF q
  <2>3. bag'[q][k] = (bag[q][k] - Offered(q, k)) + Offered(p, k)
    BY <1>2, <2>1, CompleteItems
  <2>4. \A r \in Player \ {p, q} : bag'[r][k] = bag[r][k]
    BY <1>2, <2>1 DEF CompleteTrade
  <2>5. bag[p][k] \in Nat /\ bag[q][k] \in Nat /\ Offered(p, k) \in Nat /\ Offered(q, k) \in Nat
    BY <1>2, <2>1, OfferedCovered DEF IInv, TypeOK, Covered
  <2>6. bag'[p][k] + bag'[q][k] = bag[p][k] + bag[q][k]
    BY <2>2, <2>3, <2>5
  <2> QED
    BY <2>1, <2>4, <2>6 DEF Moves
<1> QED
  BY <1>1, <1>2, OpenChanges

\* As long as traders spend only in their trade and what two players own
\* together fits into an int32, the end of a trade conserves coins: taking
\* them from one purse and carrying them into another is exact.
THEOREM CoinsAreConserved == ASSUME Quiet PROVE Spec => CoinsConserved
<1>1. IInv /\ Covered /\ [Next]_vars =>
        [open' # open /\ CoinsFit =>
           Moves([p \in Player |-> Worth(purse[p])], [p \in Player |-> Worth(purse'[p])])]_vars
  BY CoinsStep
<1> QED
  BY InvariantHolds, <1>1, PTL DEF Spec, CoinsConserved

\* Under the same assumption the end of a trade conserves the items of every
\* kind that is not lore.
THEOREM ItemsAreConserved == ASSUME Quiet PROVE Spec => ItemsConserved
<1>1. IInv /\ Covered /\ [Next]_vars =>
        [open' # open =>
           \A k \in Kind \ Lore : Moves([p \in Player |-> bag[p][k]], [p \in Player |-> bag'[p][k]])]_vars
  BY ItemsStep
<1> QED
  BY InvariantHolds, <1>1, PTL DEF Spec, ItemsConserved
============================================================================
