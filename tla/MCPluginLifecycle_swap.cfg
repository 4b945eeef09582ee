CONSTANTS
  Requests = {o1, o2}
  Workers = {w1}
  MaxRevisions = 2
  MaxEpochs = 3
  MaxRestarts = 1
SPECIFICATION Spec
INVARIANT TypeOK
INVARIANT RunnerIsActivated
INVARIANT NoOrphanProcess
PROPERTY ImplementsHotswap
PROPERTY RequestsEnd
CHECK_DEADLOCK FALSE
