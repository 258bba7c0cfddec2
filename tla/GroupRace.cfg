SPECIFICATION Spec
CONSTANTS
  Account = {a1, a2, a3}
  Row = {q1, q2, q3, q4}
  Call = {k1, k2}
  TidyLists = TRUE
  Serial = FALSE
SYMMETRY Symmetric
INVARIANTS
  TypeOK
  OwnerTakesPartUnlessRaced
  NobodyTwiceUnlessRaced
  NoOrphans
  LostAnswerNeedsRace
CHECK_DEADLOCK FALSE
