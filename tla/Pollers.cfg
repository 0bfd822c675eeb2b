SPECIFICATION FairSpec
CONSTANTS
  Replicas = {r1, r2}
  Pollers <- TwoPollers
  InitialStreams <- Upgraded
  MaxReconnectAttempts = 1
  MaxFaults = 1
INVARIANTS TypeOK 
PROPERTIES SettledStreamsStay PollingStarts LoopRecovers
CHECK_DEADLOCK FALSE
