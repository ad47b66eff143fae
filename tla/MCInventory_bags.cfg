CONSTANTS
  Bags = {b1, b2}
  Stacks = {s1, s2}
  TwoHanded = {w1, w2}
  Shields = {h1}
  NUM_INV_SLOTS = 2
  NUM_BANK_SLOTS = 1
  num_slots = 1
  stack_count = 2
  IndexWidth = 256
  MaxOverflow = 1
  MaxItems = 4
  BASE_INVENTORY = inventory
  BANK = bank
  Overflow = Overflow
  Worn = Worn
  Gone = Gone
  Anywhere = Anywhere
  Nothing = Nothing
SPECIFICATION Spec
INVARIANT NoFullBagInBag
SYMMETRY Symmetry
CHECK_DEADLOCK FALSE
