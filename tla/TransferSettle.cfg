SPECIFICATION FairSpec
CONSTANTS
  f1 = f1
  Workers = {w1, w2}
  Files <- OneFile
  Messages <- ScanRetried
  MoveToFlagged <- FlagAll
  MaxDeliver = 2
  FaultKinds <- BenignFaults
  MaxFaults = 1
INVARIANTS HandledWhenSettled RemovalAnnounced
PROPERTIES SecondCopyNeedsRace LeavesQuarantine
CHECK_DEADLOCK FALSE
