SPECIFICATION Spec
CONSTANTS
  pdf = pdf
  virus = virus
  named = named
  disguised = disguised
  Replicas = {r1, r2}
  Files <- OneFile
  MimeTypes <- TheTypes
  Major <- TheMajor
  Extensions <- TheExtensions
  FileTypes <- Configured
  Fallback <- BuiltIn
  Content <- TheContent
  Infected <- WithVirus
  OkNamed <- WithOk
  Good <- Decided
  MoveToFlagged <- FlagAll
  MaxDeliver = 2
  FaultKinds <- CheckFault
  MaxFaults = 1
INVARIANTS RejectedOnlyIfBad
CHECK_DEADLOCK FALSE
