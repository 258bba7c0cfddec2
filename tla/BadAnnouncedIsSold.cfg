SPECIFICATION Spec
CONSTANTS
  p1 = p1
  p2 = p2
  s1 = s1
  f1 = f1
  f2 = f2
  cf1 = cf1
  cf2 = cf2
  CinemaFilm = {cf1, cf2}
  Premiere = {p1, p2}
  Seat = {s1}
  Price = {c1}
  NoPrice = NoPrice
  InitialShowing <- TwoFilms
  Food = {f1}
  StockLevel = {0, 1}
  InitialFood = {f1}
  Request = {r1, r2}
  Orders <- SeatOnly
  Channel = {"push"}
  Serial = FALSE
INVARIANT
  AnnouncedIsSold
CHECK_DEADLOCK FALSE
