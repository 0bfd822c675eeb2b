SPECIFICATION Spec
CONSTANTS
  Files <- TextFile
  FileTypes <- ShippedText
  DefaultFile = 200
  DefaultChunk = 5
  Lower <- Extensions
  MinPart = 5
  FaultKinds <- NoFaults
  MaxFaults = 0
INVARIANTS FinalizesWhenAllUploaded
CHECK_DEADLOCK FALSE
