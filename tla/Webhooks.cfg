SPECIFICATION FairSpec
CONSTANTS
  e1 = e1
  e2 = e2
  e3 = e3
  Events <- ThreeEvents
  Enabled = TRUE
  EventEnabled <- TwoEnabled
  OwnUrl <- OneUrl
  GlobalUrl = TRUE
  Retries = 3
  FaultKinds <- AllFaults
  MaxFaults = 4
INVARIANTS TypeOK DuplicatesAreFaults
PROPERTIES Reaches DeliveryEnds
CHECK_DEADLOCK FALSE
