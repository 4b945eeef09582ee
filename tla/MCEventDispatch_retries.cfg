\* Two workers and one message whose plugins fail and succeed one by one; an operator
\* starts and stops one of them.
SPECIFICATION FairSpec
CONSTANTS
  w1 = w1
  w2 = w2
  p1 = p1
  r1 = r1
  Events <- OneMessage
  Contents <- MessageContents
  RoomOf <- MessageRooms
  ActorOf <- MessageActors
  Synced = {}
  Deployments <- TwoDeployments
  RoutesOf <- MessageRoutes
  Fickle = {2}
  Results <- OneReply
  Workers = {w1, w2}
  BatchSize = 2
  MaxAttempts = 2
  MaxFaults = 1
  MaxOverruns = 1
INVARIANT HandledByAll
INVARIANT AttemptLimit
PROPERTY EveryEventSettled
