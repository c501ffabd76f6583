SPECIFICATION Spec
CONSTANTS
  Keys = {1, 2, 3, 4, 5, 6}
  Data = {"empty", "small", "other", "big"}
  KeySize <- MCKeySize
  DataSize <- MCDataSize
  Values <- MCValues
  Cap = 12
  MaxOps = 2
INVARIANTS
  LookupsAgree
  
  CommittedPagesUntouched
  PagesAndCountersAgree
  CursorFollowsTable
