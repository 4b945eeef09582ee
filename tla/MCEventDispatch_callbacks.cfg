\* Two workers, two callbacks, a fault, and a lease that may expire under its
\* worker.
SPECIFICATION Spec
CONSTANTS
  w1 = w1
  w2 = w2
  p1 = p1
  r1 = r1
  Events <- TwoCallbacks
  Contents <- CallbackContents
  RoomOf <- CallbackRooms
  ActorOf <- CallbackActors
  Synced <- SyncedContacts
  Deployments = {1}
  RoutesOf <- CallbackRoutes
  Fickle = {}
  Results <- SomeResults
  Workers = {w1, w2}
  BatchSize = 2
  MaxAttempts = 2
  MaxFaults = 1
  MaxOverruns = 1
SYMMETRY WorkerSymmetry
INVARIANT OneResult
INVARIANT FailedForCause
PROPERTY RecordsStand
PROPERTY SettledStands
