\* Two traders and a third player, four commands between them; purses and bags of
\* traders change by their trade only.
CONSTANTS
  ann = ann
  bob = bob
  cid = cid
  sword = sword
  ale = ale
  None = None
  Player <- Three
  Kind = {sword, ale}
  Lore = {sword}
  MaxSlots = 2
  Width = 1073741824
  StartPurse <- Purses
  StartBag <- Bags
  Amounts = {1, 999901}
  MaxCommands = 4
  Quiet = TRUE
SPECIFICATION Spec
INVARIANTS TradeIsShared CoinsAreCovered ItemsAreCovered LoreIsUnique
PROPERTIES CoinsConserved ItemsConserved
