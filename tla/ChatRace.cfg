SPECIFICATION Spec
CONSTANTS
  u = u
  v = v
  h1 = h1
  h2 = h2
  Account = {u, v}
  Chat = {h1, h2}
  Call = {c1, c2, c3}
  Jobs <- AllJobs
  InitialChats <- Start
SYMMETRY Symmetric
INVARIANTS
  TypeOK
  OneChatUnlessTogether
  SlippedNeedsOverlap
  UnreadUnlessExcused
  LastEventTells
CHECK_DEADLOCK FALSE
