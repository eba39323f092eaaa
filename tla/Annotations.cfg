SPECIFICATION FairSpec
CHECK_DEADLOCK FALSE
CONSTANTS
  a1 = a1
  a2 = a2
  Attempt <- TwoAttempts
  None = None
  MaxAsks = 2
  MaxFaults = 1
INVARIANTS
  TypeOK
  OwnVerdict
  TurnKeepsRow
  EndIsReported
PROPERTIES
  PendingSettles
