SPECIFICATION Spec
CONSTANTS
  Parts = {"desk"}
  Callers <- Askers
  MostGiven = 3
  Many <- FewThings
  Picks = {1}
  MostFailing = 1
  OptionsOfRun <- TwoRuns
  r1 = r1
  r2 = r2
  n1 = n1
  n2 = n2
  p1 = p1
  p2 = p2
  a1 = a1
  a2 = a2
  i1 = i1
  e1 = e1
  e2 = e2
  u1 = u1
  Room = {r1, r2}
  Name = {n1, n2}
  Position = {p1, p2}
  OwnedBy <- Owner
  RoomCall = {rc1, rc2}
  RoomJobs <- RoomWork
  Account = {a1, a2}
  Item = {i1}
  DeskJobs <- DeskWork
  LastNews = 3
  PageSize = 1
  Visits <- MayRead
  DaysOld <- Ages
  Card = {a1}
  Entry = {e1, e2}
  CardJobs <- CardWork
  Holder = {u1}
  AccessLife = 1
  RefreshLife = 2
  LastTick = 2
  MostSockets = 1
  Needs <- Asked
  Passes <- LetIn
  DeskCall = {dc1, dc2}
  ReadCall = {nc1, nc2}
  CardCall = {cc1, cc2}
  SessionCall = {sc1}
  Task = {t1}
INVARIANT
  PushReachesItsOwner
CHECK_DEADLOCK FALSE
