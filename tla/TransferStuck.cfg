SPECIFICATION Spec
CONSTANTS
  f1 = f1
  Workers = {w1}
  Files <- OneFile
  Messages <- BothPass
  MoveToFlagged <- FlagAll
  MaxDeliver = 3
  FaultKinds <- StatFault
  MaxFaults = 1
INVARIANTS HandledWhenSettled
CHECK_DEADLOCK FALSE
