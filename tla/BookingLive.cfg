SPECIFICATION FairSpec
CONSTANTS
  p1 = p1
  p2 = p2
  s1 = s1
  f1 = f1
  f2 = f2
  cf1 = cf1
  cf2 = cf2
  CinemaFilm = {cf1}
  Premiere = {p1}
  Seat = {s1}
  Price = {c1}
  NoPrice = NoPrice
  InitialShowing <- OneShowing
  Food = {f1, f2}
  StockLevel = {2}
  InitialFood = {f1}
  Request = {r1, r2}
  Orders <- TwoFoods
  Channel = {"push"}
  Serial = FALSE
PROPERTY
  EveryRequestEnds
CHECK_DEADLOCK FALSE
