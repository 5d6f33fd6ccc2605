\* Three searches, a queue with one place.
SPECIFICATION FairSpec
CONSTANTS
  Requests = {r1, r2, r3}
  QueueLimit = 1
  NoRequest = NoRequest
INVARIANTS
  DiscoveryTracked
  OneOutstanding
  ShowsLatestAnswer
  WorkerReleased
PROPERTIES
  SearchEnds
  CloseReturns
CHECK_DEADLOCK FALSE
