SPECIFICATION Spec
CONSTANTS
  Account = {a1, a2}
  Row = {q1, q2}
  Call = {k1}
  TidyLists = FALSE
  Serial = FALSE
SYMMETRY Symmetric
INVARIANT
  HeirExists
CHECK_DEADLOCK FALSE
