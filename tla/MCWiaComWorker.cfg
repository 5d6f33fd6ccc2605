\* Three interchangeable requests, a queue of two, a restart.
SPECIFICATION Spec
CONSTANTS
  Requests = {r1, r2, r3}
  QueueLimit = 2
  MaxStarts = 2
  NoRequest = NoRequest
SYMMETRY Symmetric
INVARIANTS
  NoTerminate
  ComLifetime
  NoStrandedRequest
  SnapshotSettles
  CancelBelongsToRequest
PROPERTY ImplementsService
