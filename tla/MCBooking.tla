----------------------------- MODULE MCBooking -----------------------------
(***************************************************************************)
(* Small instances of Booking for TLC.                                     *)
(***************************************************************************)
EXTENDS BookingOffice, TLC

CONSTANTS p1, p2, s1, f1, f2, cf1, cf2

\* An order of one of each of the items.
Want(p, s, items) ==
    [premiere |-> p, seat |-> s, items |-> items,
     qty |-> [f \in Food |-> IF f \in items THEN 1 ELSE 0], twice |-> FALSE]

Twice(o) == [o EXCEPT !.twice = TRUE]

OneShowing == [p \in {p1} |-> cf1]
TwoFilms == p1 :> cf1 @@ p2 :> cf2

\* Two calls for the one seat, with and without the food.
SeatAndFood == {Want(p1, s1, {}), Want(p1, s1, {f1}), Twice(Want(p1, s1, {f1}))}
SeatOnly    == {Want(p1, s1, {}), Want(p2, s1, {})}
TwoFoods    == {Want(p1, s1, {f1, f2})}
=============================================================================
