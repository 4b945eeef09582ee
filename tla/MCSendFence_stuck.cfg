\* Senders and the deactivation of the plugin its message came from.
SPECIFICATION FairSpec
CONSTANTS
  s1 = s1
  s2 = s2
  s3 = s3
  activation = activation
  deactivation = deactivation
  denial = denial
  disabling = disabling
  Senders = {s1, s2, s3}
  Admins = {deactivation}
  Op <- JustDeactivation
\* The instance is finite: every transaction ends, or is stuck for ever.
CHECK_DEADLOCK FALSE
PROPERTY EverythingEnds
