SPECIFICATION Spec
CONSTANTS
  Pairs = {p1, p2}
  Prios = {1, 2}
  PrioWeight = 2
  timespan_seconds = 1
  print_max_items = 2
  MaxEvents = 3
  MaxTime = 3
INVARIANTS
  TimespanObserved
