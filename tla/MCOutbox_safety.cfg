\* Every interleaving of two workers over the two messages of one account, with
\* leases that may expire at any moment.
SPECIFICATION Spec
CONSTANTS
  w1 = w1
  w2 = w2
  a1 = a1
  a2 = a2
  Workers = {w1, w2}
  Accounts = {a1}
  Messages <- TwoMessages
  AccountOf <- OneSender
  Expiring = {1}
  Authorized = {}
  MaxConcurrent = 1
  MaxAttempts = 2
  DefiniteStatus = TRUE
  MaxFaults = 1
SYMMETRY WorkerSymmetry
INVARIANT TypeOK
INVARIANT OneInFlight
INVARIANT NoDuplicateDelivery
INVARIANT TruthfulStatus
INVARIANT SerialSends
INVARIANT AnswerRecorded
PROPERTY TransitionsFollowTable
PROPERTY ImplementsCourier
