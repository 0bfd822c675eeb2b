SPECIFICATION Spec
CONSTANTS
  Files <- CapitalPdf
  FileTypes <- Types
  DefaultFile = 10
  DefaultChunk = 2
  Lower <- Extensions
  MinPart = 2
  FaultKinds <- AllFaults
  MaxFaults = 1
INVARIANTS WholeFile
CHECK_DEADLOCK FALSE
