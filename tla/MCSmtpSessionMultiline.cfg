SPECIFICATION Spec
CONSTANTS
  MaxCalls = 1
  MaxReplyLines = 2
  MaxOpen = 1
INVARIANTS
  ErrorIsReported
