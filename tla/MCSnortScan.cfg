SPECIFICATION Spec
CONSTANTS
  Pairs = {p1, p2, p3}
  Prios = {1, 2}
  PrioWeight = 2
  timespan_seconds = 1
  print_max_items = 2
  MaxEvents = 4
  MaxTime = 3
SYMMETRY PairSymmetry
INVARIANTS
  HitsAccountedFor
  OutIsCurrent
PROPERTIES
  ListStaysWhileSent
