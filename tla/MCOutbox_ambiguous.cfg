\* A 408 or 5xx status after which the provider has sent the message all the
\* same: the answer is retried.
SPECIFICATION Spec
CONSTANTS
  w1 = w1
  w2 = w2
  a1 = a1
  a2 = a2
  Workers = {w1, w2}
  Accounts = {a1}
  Messages <- TwoMessages
  AccountOf <- OneSender
  Expiring = {}
  Authorized = {}
  MaxConcurrent = 1
  MaxAttempts = 2
  DefiniteStatus = FALSE
  MaxFaults = 0
INVARIANT NoDuplicateDelivery
