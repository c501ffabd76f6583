SPECIFICATION FairSpecSmtp
CONSTANTS
  MaxLines = 3
  bufferMaxLines = 2
  waitTimeout = 1
  MaxCalls = 3
  MaxReplyLines = 1
  MaxOpen = 2
INVARIANTS
  
  MailedAtMostOnceInOrder
  WritesInLockstep
  ZeroMeansTaken
  OpenSocketsAreFailures
PROPERTIES
  CallsReturn
  ImplementsExecAndMail
