SPECIFICATION FairSpec
CONSTANTS
  Hosts = {h1, h2}
  Lengths = {1}
  timespan_seconds = 1
  print_interval_seconds = 1
  print_max_items = 2
  MaxPackets = 3
  MaxTime = 4
INVARIANTS
  PairsUnique
  SumsUpToDate
  TableIsExact
PROPERTIES
  PacketsAreCounted
