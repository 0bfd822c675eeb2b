SPECIFICATION FairSpec
CONSTANTS
  pdf = pdf
  virus = virus
  named = named
  disguised = disguised
  Replicas = {r1, r2}
  Files <- ThreeFiles
  MimeTypes <- TheTypes
  Major <- TheMajor
  Extensions <- TheExtensions
  FileTypes <- Configured
  Fallback <- BuiltIn
  Content <- TheContent
  Infected <- WithVirus
  OkNamed <- WithOk
  Good <- Decided
  MoveToFlagged <- FlagAll
  MaxDeliver = 3
  FaultKinds <- AllFaults
  MaxFaults = 2
CONSTRAINT FewAtOnce
INVARIANTS TypeOK SettledOnlyIfReported ContradictsOnlyOnError MovedOnlyIfAsked ReleasedIsAllowed
PROPERTIES QueuedIsJudged
CHECK_DEADLOCK FALSE
