----------------------------- MODULE Programme -----------------------------
(***************************************************************************)
(* The cinema programme: which film a cinema shows in which room           *)
(* (CinemaFilm), at which times (CinemaFilmPremiere) and at what price per *)
(* seat (CinemaFilmSeat).  CinemaFilmService and CinemaFilmSeatService run *)
(* each operation in one database transaction, so the actions below are    *)
(* the committed effect of a handler that passed its checks; a handler     *)
(* that fails one of them rolls back and changes nothing.                  *)
(*                                                                         *)
(* The module is composed with the ticket office in Booking, which adds    *)
(* what the foreign keys do to tickets.                                    *)
(***************************************************************************)
EXTENDS Naturals

CONSTANTS
    CinemaFilm,     \* ids the cinemaFilm table may hand out
    Premiere,       \* ids the cinemaFilmPremiere table may hand out
    Seat,           \* the seats, which exist throughout
    Price,          \* seat prices
    NoPrice,        \* "there is no CinemaFilmSeat row"
    InitialShowing  \* the premieres at the start: a function into CinemaFilm

ASSUME ProgrammeAssumption ==
    /\ NoPrice \notin Price
    /\ "unborn" \notin CinemaFilm
    /\ "gone" \notin CinemaFilm
    /\ DOMAIN InitialShowing \subseteq Premiere
    /\ \A p \in DOMAIN InitialShowing : InitialShowing[p] \in CinemaFilm

VARIABLES
    film,       \* life of each CinemaFilm row; an id is never used twice
    showing,    \* the CinemaFilm a premiere belongs to, "unborn" or "gone"
    seatPrice   \* the CinemaFilmSeat table, keyed by its primary key

programmeVars == <<film, showing, seatPrice>>

PriceRows == [Seat -> Price \cup {NoPrice}]

ProgrammeTypeOK ==
    /\ film \in [CinemaFilm -> {"unborn", "live", "gone"}]
    /\ showing \in [Premiere -> CinemaFilm \cup {"unborn", "gone"}]
    /\ seatPrice \in [CinemaFilm -> PriceRows]

ProgrammeInit ==
    /\ showing = [p \in Premiere |-> IF p \in DOMAIN InitialShowing
                                     THEN InitialShowing[p] ELSE "unborn"]
    /\ film = [cf \in CinemaFilm |->
                 IF \E p \in DOMAIN InitialShowing : InitialShowing[p] = cf
                 THEN "live" ELSE "unborn"]
    /\ seatPrice \in [CinemaFilm -> PriceRows]
    /\ \A cf \in CinemaFilm, s \in Seat :
         film[cf] # "live" => seatPrice[cf][s] = NoPrice

-----------------------------------------------------------------------------
Scheduled(p) == showing[p] \in CinemaFilm

UnbornPremieres == {p \in Premiere : showing[p] = "unborn"}

NoSeats == [s \in Seat |-> NoPrice]

(* create: the film, its premieres (at least one) and its seat prices.     *)
CreateFilm(cf, ps, rows) ==
    /\ film[cf] = "unborn"
    /\ ps # {}
    /\ ps \subseteq UnbornPremieres
    /\ film' = [film EXCEPT ![cf] = "live"]
    /\ showing' = [p \in Premiere |-> IF p \in ps THEN cf ELSE showing[p]]
    /\ seatPrice' = [seatPrice EXCEPT ![cf] = rows]

(* update with dto.premieres: every premiere of the film is deleted and    *)
(* the new ones get fresh ids, also when the times are the same.           *)
ReplacePremieres(cf, ps) ==
    /\ ps # {}
    /\ ps \subseteq UnbornPremieres
    /\ showing' = [p \in Premiere |-> IF p \in ps THEN cf
                                      ELSE IF showing[p] = cf THEN "gone"
                                      ELSE showing[p]]

(* update with dto.seats: the seat prices are replaced as a whole.         *)
ReplaceSeats(cf, rows) == seatPrice' = [seatPrice EXCEPT ![cf] = rows]

(* update: dto.premieres and dto.seats are optional, each on its own.      *)
UpdateFilm(cf) ==
    /\ film[cf] = "live"
    /\ \/ \E ps \in SUBSET UnbornPremieres : ReplacePremieres(cf, ps)
       \/ UNCHANGED showing
    /\ \/ \E rows \in PriceRows : ReplaceSeats(cf, rows)
       \/ UNCHANGED seatPrice
    /\ UNCHANGED film

(* delete: the foreign keys take the premieres and the prices along.       *)
DeleteFilm(cf) ==
    /\ film[cf] = "live"
    /\ film' = [film EXCEPT ![cf] = "gone"]
    /\ showing' = [p \in Premiere |-> IF showing[p] = cf THEN "gone"
                                      ELSE showing[p]]
    /\ seatPrice' = [seatPrice EXCEPT ![cf] = NoSeats]

CreateSeatPrice(cf, s, c) ==
    /\ film[cf] = "live"
    /\ seatPrice[cf][s] = NoPrice
    /\ seatPrice' = [seatPrice EXCEPT ![cf][s] = c]
    /\ UNCHANGED <<film, showing>>

UpdateSeatPrice(cf, s, c) ==
    /\ film[cf] = "live"
    /\ seatPrice[cf][s] # NoPrice
    /\ seatPrice' = [seatPrice EXCEPT ![cf][s] = c]
    /\ UNCHANGED <<film, showing>>

DeleteSeatPrice(cf, s) ==
    /\ film[cf] = "live"
    /\ seatPrice[cf][s] # NoPrice
    /\ seatPrice' = [seatPrice EXCEPT ![cf][s] = NoPrice]
    /\ UNCHANGED <<film, showing>>

(* The operations on single prices, none of which touches a premiere.      *)
SeatPriceNext ==
    \E cf \in CinemaFilm, s \in Seat :
        \/ \E c \in Price : CreateSeatPrice(cf, s, c) \/ UpdateSeatPrice(cf, s, c)
        \/ DeleteSeatPrice(cf, s)
=============================================================================
