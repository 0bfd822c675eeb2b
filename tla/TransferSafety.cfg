SPECIFICATION Spec
CONSTANTS
  f1 = f1
  Workers = {w1, w2}
  Files <- OneFile
  Messages <- ScanRetried
  MoveToFlagged <- DeleteInfected
  MaxDeliver = 2
  FaultKinds <- AllFaults
  MaxFaults = 2
SYMMETRY Replicas
INVARIANTS TypeOK ReleasedOnlyIfPassed NeverLost AnnouncedOncePerReplica
PROPERTIES ImplementsDisposition
CHECK_DEADLOCK FALSE
