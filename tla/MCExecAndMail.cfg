SPECIFICATION FairSpec
CONSTANTS
  MaxLines = 4
  bufferMaxLines = 2
  waitTimeout = 1
INVARIANTS
  TypeOK
  LinesInOrder
  ReadIntoIsTail
  BufferBounded
  ExitIsClean
PROPERTIES
  BufferFrozenDuringSend
  ImplementsSpool
  ImplementsFairSpool
  MainComesBack
