SPECIFICATION Spec
CONSTANTS
  Procs = {p1, p2}
  Ips = {10}
  Macs = {1}
  Names = {n1, n2}
  MaxLines = 1
  MaxPg = 9
  MaxReaders = 1
  MaxTxnid = 5
  MaxFaults = 2
  CacheKeeps = FALSE
SYMMETRY Symmetry
INVARIANTS
  SnapshotsIntact
  CommittedIsDurable
  PagesAccountedFor
  RowsAreComplete
PROPERTIES
  
  ImplementsScanStore
