---------------------------- MODULE TicketOffice ----------------------------
(***************************************************************************)
(* What buying a ticket promises: a clerk who serves one customer at a     *)
(* time.  A sale takes a free place and the ordered food off the shelf, or *)
(* it does not happen.  The module says nothing of transactions.           *)
(***************************************************************************)
EXTENDS Integers

CONSTANTS
    Spot,    \* a seat at a premiere
    Food,
    Basket,  \* how much of each food a customer may want
    Supply   \* what a shelf may be filled up to

VARIABLES
    booked,  \* the places sold
    menu,    \* the foods on sale
    shelf    \* how much of each is left

officeVars == <<booked, menu, shelf>>

Init ==
    /\ booked = {}
    /\ menu \subseteq Food
    /\ shelf \in [Food -> Supply]

Sell(place, basket) ==
    /\ place \notin booked
    /\ \A f \in Food : basket[f] # 0 => f \in menu /\ basket[f] <= shelf[f]
    /\ booked' = booked \cup {place}
    /\ shelf' = [f \in Food |-> shelf[f] - basket[f]]
    /\ UNCHANGED menu

\* A customer gives a ticket back, or performances are withdrawn.
Vacate(places) ==
    /\ booked' = booked \ places
    /\ UNCHANGED <<menu, shelf>>

Fill(f, q) ==
    /\ shelf' = [shelf EXCEPT ![f] = q]
    /\ menu' = menu \cup {f}
    /\ UNCHANGED booked

Discontinue(f) ==
    /\ menu' = menu \ {f}
    /\ UNCHANGED <<booked, shelf>>

Next ==
    \/ \E place \in Spot, basket \in Basket : Sell(place, basket)
    \/ \E places \in SUBSET booked : Vacate(places)
    \/ \E f \in Food : Discontinue(f) \/ \E q \in Supply : Fill(f, q)

Spec == Init /\ [][Next]_officeVars
=============================================================================
