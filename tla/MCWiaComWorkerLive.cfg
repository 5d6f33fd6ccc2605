\* Two requests, a backend that need only return when cancelled.
SPECIFICATION FairSpec
CONSTANTS
  Requests = {r1, r2}
  QueueLimit = 1
  MaxStarts = 1
  NoRequest = NoRequest
PROPERTIES
  ShutdownReturns
  StartReturns
  CancelledAnswered
  AcceptedAnswered
