CONSTANTS
  Players = {p1, p2, p3}
  Zones = {z1, z2}
  MaxGroups = 2
  MaxLeftBehind = 1
  FullSize = 3
  Nobody = Nobody
  Nowhere = Nowhere
SPECIFICATION Spec
SYMMETRY Symmetry
INVARIANTS TypeOK  NamedOnce 
CHECK_DEADLOCK FALSE
