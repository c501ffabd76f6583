SPECIFICATION FairSpec
CONSTANTS
  Items = {i1, i2, i3, i4}
  Keys = {1, 2, 3}
  MaxSorts = 2
INVARIANTS
  ChainIsOrder
  SortKeepsItems
PROPERTIES
  SortReturns
