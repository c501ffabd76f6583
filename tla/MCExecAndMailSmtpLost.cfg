SPECIFICATION SpecSmtp
CONSTANTS
  MaxLines = 2
  bufferMaxLines = 2
  waitTimeout = 0
  MaxCalls = 2
  MaxReplyLines = 1
  MaxOpen = 2
INVARIANTS
  EveryLineMailed
