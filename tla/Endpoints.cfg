SPECIFICATION FairSpec
CONSTANTS
  b1 = b1
  b2 = b2
  s3key = s3key
  typo = typo
  nocont = nocont
  create = create
  mixed = mixed
  wrong = wrong
  delete1 = delete1
  delete2 = delete2
  o1 = o1
  o2 = o2
  f1 = f1
  fetch1 = fetch1
  fetch2 = fetch2
  store = store
  remove = remove
  Creates <- TheCreates
  Deletes <- TheDeletes
  Fetches <- TheFetches
  Stores <- TheStores
  Removals <- TheRemovals
  Targets <- TheTargets
  Blobs <- TheBlobs
  Foreign <- TheForeign
  Unknown <- TheUnknown
  NoContainer <- TheNoContainer
  Old <- TheOld
  Objects <- TheObjects
  Files <- TheFiles
  ObjectOf <- TheObjectOf
  FileOf <- TheFileOf
  FaultKinds <- AllFaults
  MaxFaults = 1
  MaxRequests = 3
INVARIANTS TypeOK DeletedOnce SuccessIsWhole CopiedWhole
PROPERTIES RequestsAnswered
CHECK_DEADLOCK FALSE
