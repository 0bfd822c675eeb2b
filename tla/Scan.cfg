SPECIFICATION FairSpec
CONSTANTS
  virus = virus
  clean = clean
  named = named
  Scans <- ThreeScans
  Probes = {p1}
  Length <- Chunks
  Infected <- BothInfected
  OkNamed <- OneNamed
  MaxLengths <- Limits
  FaultKinds <- AllFaults
  MaxFaults = 2
CONSTRAINT FewAtOnce
INVARIANTS TypeOK VerdictOnWholeFile TimerGuards
PROPERTIES ImplementsVerdict ScanSettles UnharmedIsJudged InputReleased ProbeAnswered
CHECK_DEADLOCK FALSE
