SPECIFICATION FairSpec
CONSTANTS
  Clients = {c1, c2}
  Inputs <- MCInputs
  MaxBytes = 3
  LISTEN_BACKLOG = 1
  MaxLeft = 1
INVARIANTS
  ClientsGetTheirOwn
  BlocksAreClosed
PROPERTIES
  EveryoneIsServed
