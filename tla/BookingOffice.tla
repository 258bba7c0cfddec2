--------------------------- MODULE BookingOffice ---------------------------
(***************************************************************************)
(* Booking seen as a TicketOffice: the refinement mapping.                 *)
(***************************************************************************)
EXTENDS Booking

BookedPlaces == {Place(t) : t \in ticket}

Baskets == {[f \in Food |-> IF f \in o.items THEN o.qty[f] ELSE 0] : o \in Orders}

Office == INSTANCE TicketOffice WITH
            Spot <- Premiere \X Seat, Basket <- Baskets, Supply <- StockLevel,
            booked <- BookedPlaces, menu <- Menu, shelf <- stock

(* When ticket transactions and stock corrections do not overlap, booking  *)
(* is the ticket office: every commit is the sale of a free place with the *)
(* food taken off the shelf, and nothing else takes a place or food.       *)
SellsLikeAnOffice == Office!Spec
=============================================================================
