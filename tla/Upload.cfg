SPECIFICATION FairSpec
CONSTANTS
  Files <- Uploads
  FileTypes <- Types
  DefaultFile = 10
  DefaultChunk = 2
  Lower <- Extensions
  MinPart = 2
  FaultKinds <- AllFaults
  MaxFaults = 3
INVARIANTS TypeOK WholeFile
PROPERTIES StartedIsAssembled
CHECK_DEADLOCK FALSE
