--------------------------- MODULE MCPlayerGroups ---------------------------
EXTENDS PlayerGroups, TLC

Symmetry == Permutations(Players) \cup Permutations(Zones)

=============================================================================
