\* Three senders and one administrative transaction of each kind.
SPECIFICATION FairSpec
CONSTANTS
  s1 = s1
  s2 = s2
  s3 = s3
  activation = activation
  deactivation = deactivation
  denial = denial
  disabling = disabling
  Senders = {s1, s2, s3}
  Admins = {activation, deactivation, denial, disabling}
  Op <- EachOnce
\* The instance is finite: every transaction ends, or is stuck for ever.
CHECK_DEADLOCK FALSE
INVARIANT FencedAuthorization
INVARIANT SomebodyMoves
PROPERTY OnlyDeactivationBlocks
