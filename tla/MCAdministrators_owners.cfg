CONSTANTS
  Users = {u1, u2}
  OtherRoles = {viewer}
  Sessions = {s1, s2}
  Txns = {t1, t2}
  MaxVersion = 3
SPECIFICATION Spec
SYMMETRY Symmetric
INVARIANT TypeOK
INVARIANT OwnerRemains
PROPERTY SessionsHonourInvalidation
CHECK_DEADLOCK FALSE
