---------------------------- MODULE MCInventory ----------------------------
EXTENDS Inventory, TLC

Symmetry ==
  Permutations(Bags) \cup Permutations(Stacks) \cup Permutations(TwoHanded)
    \cup Permutations(Shields)

=============================================================================
