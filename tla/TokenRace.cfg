SPECIFICATION Spec
CONSTANTS
  Send = {s1, s2, s3}
  Use = {u1, u2}
  LifeSec = 2
  RenewSec = 1
  LastSecond = 3
  Serial = FALSE
SYMMETRY Symmetric
INVARIANTS
  TypeOK
  OneRowOneGrant
  ExpiresItsOwnUnlessRenewed
  RenewalsApartUnlessRaced
CHECK_DEADLOCK FALSE
