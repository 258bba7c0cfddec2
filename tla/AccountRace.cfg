SPECIFICATION Spec
CONSTANTS
  u = u
  v = v
  p1 = p1
  p2 = p2
  Account = {u, v}
  Role = {r1, r2, admin}
  AdminRole = admin
  Petition = {p1, p2}
  Call = {c1, c2, c3}
  Jobs <- AllJobs
  InitialPetitions <- Start
SYMMETRY Symmetric
INVARIANTS
  TypeOK
  LostWriteNeedsMerge
  FlagsFollowTheRecord
  OnePetitionUnlessContested
  LastAdminNeedsMutual
CHECK_DEADLOCK FALSE
