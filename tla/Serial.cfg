SPECIFICATION SerialSpec
CONSTANTS
  p1 = p1
  p2 = p2
  s1 = s1
  f1 = f1
  f2 = f2
  cf1 = cf1
  cf2 = cf2
  CinemaFilm = {cf1, cf2}
  Premiere = {p1, p2}
  Seat = {s1}
  Price = {c1}
  NoPrice = NoPrice
  InitialShowing <- OneShowing
  Food = {f1}
  StockLevel = {0, 1}
  InitialFood = {}
  Request = {r1, r2}
  Orders <- SeatAndFood
  Channel = {"push"}
  Serial = TRUE
  Member = {a1, a2, a3}
  MemberRow = {q1, q2, q3, q4}
  GroupCall = {k1, k2}
  Send = {s1, s2, s3}
  Use = {u1, u2}
SYMMETRY Symmetric
PROPERTIES
  SellsLikeAnOffice
  RunsLikeAClub
  WorksLikeACode
CHECK_DEADLOCK FALSE
