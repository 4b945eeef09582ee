\* One worker, two accounts with work, a batch of one account at a time.
SPECIFICATION FairSpec
CONSTANTS
  w1 = w1
  w2 = w2
  a1 = a1
  a2 = a2
  Workers = {w1}
  Accounts = {a1, a2}
  Messages <- TwoMessages
  AccountOf <- TwoSenders
  Expiring = {1}
  Authorized = {1}
  MaxConcurrent = 1
  MaxAttempts = 2
  DefiniteStatus = TRUE
  MaxFaults = 1
PROPERTY EventuallySettled
