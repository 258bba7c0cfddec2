------------------------------ MODULE Booking ------------------------------
(***************************************************************************)
(* Selling tickets: TicketService.createTicket and deleteTicket together   *)
(* with the programme and the food stock they read and write.              *)
(*                                                                         *)
(* Many requests run createTicket at a time.  Each is an interactive       *)
(* Prisma transaction of up to seven kinds of statements, at PostgreSQL's  *)
(* default isolation level READ COMMITTED: every statement sees what is    *)
(* committed when it runs, inserts and updates become visible at the       *)
(* commit, an updated row is locked until the transaction ends, and so is  *)
(* a referenced row against deletion.  One action is one statement; what   *)
(* the Node process does between two of them is part of the earlier one.   *)
(***************************************************************************)
EXTENDS Programme, FoodStock

CONSTANTS
    Request,  \* the createTicket calls; a call creates at most one ticket,
              \* which is named after it
    Orders,   \* the CreateTicketDto values the calls may carry
    Channel,  \* what a sale announces itself on: "email", "push"
    Serial    \* TRUE: no two ticket transactions, and no stock correction,
              \* overlap (what a serialising database would arrange)

Order == [premiere : Premiere,
          seat     : Seat,
          items    : SUBSET Food,    \* the foods ordered along
          qty      : [Food -> Int],  \* how many of each (@IsInt, no minimum)
          twice    : BOOLEAN]        \* the list names some food twice

ASSUME BookingAssumption ==
    /\ Orders \subseteq Order
    /\ Serial \in BOOLEAN

VARIABLES
    pc,       \* where each request is in createTicket
    order,    \* the request's dto
    quote,    \* the CinemaFilmSeat row it found
    seen,     \* the stock it read, per ordered food
    written,  \* the foods it has updated, whose rows it has locked
    ticket,   \* the committed ticket rows
    line,     \* the committed ticketFoodAndBeverage rows
    outbox,   \* promises nobody awaits: e-mails and notifications
    sent,     \* those that got through
    \* History variables: no guard reads them.
    met,      \* the requests each request has been in flight with
    stale,    \* the ordered foods changed since the request read them
    ideal,    \* the stock if every sale since the last correction counted
    raced     \* the foods some sale wrote from a stale read

requestVars == <<pc, order, quote, seen, written>>
tableVars   == <<ticket, line>>
taskVars    == <<outbox, sent>>
historyVars == <<met, stale, ideal, raced>>
vars == <<programmeVars, foodVars, requestVars, tableVars, taskVars, historyVars>>

-----------------------------------------------------------------------------
Phase == {"idle", "price", "food", "insert", "lines", "stock", "announce",
          "commit", "sold", "failed"}
InTransaction == Phase \ {"idle", "sold", "failed"}

\* From its insert on, a transaction holds a key-share lock on its premiere.
HoldsPremiere == {"lines", "stock", "announce", "commit"}

\* Past ReadFoods, a transaction relies on the stock it has seen.
ReliesOnStock == {"insert", "lines", "stock", "announce", "commit"}

InFlight == {r \in Request : pc[r] \in InTransaction}

Line == [ticket : Request, food : Food, quantity : Int]
Task == Channel \X Request
Quote == [film : CinemaFilm, price : Price]
NoQuote == [film |-> "none", price |-> NoPrice]
NoStock == [f \in Food |-> 0]
NoOrder == [premiere |-> "none", seat |-> "none", items |-> {},
            qty |-> NoStock, twice |-> FALSE]

Place(r) == <<order[r].premiere, order[r].seat>>

LinesOf(r) == {[ticket |-> r, food |-> f, quantity |-> order[r].qty[f]] :
                  f \in order[r].items}

TypeOK ==
    /\ ProgrammeTypeOK
    /\ FoodTypeOK
    /\ pc \in [Request -> Phase]
    /\ order \in [Request -> Orders \cup {NoOrder}]
    /\ \A r \in Request : pc[r] # "idle" => order[r] \in Orders
    /\ quote \in [Request -> Quote \cup {NoQuote}]
    /\ seen \in [Request -> [Food -> Int]]
    /\ written \in [Request -> SUBSET Food]
    /\ ticket \subseteq Request
    /\ line \subseteq Line
    /\ outbox \subseteq Task
    /\ sent \subseteq Task
    /\ met \in [Request -> SUBSET Request]
    /\ stale \in [Request -> SUBSET Food]
    /\ ideal \in [Food -> Int]
    /\ raced \subseteq Food

Init ==
    /\ ProgrammeInit
    /\ FoodInit
    /\ pc = [r \in Request |-> "idle"]
    /\ order = [r \in Request |-> NoOrder]
    /\ quote = [r \in Request |-> NoQuote]
    /\ seen = [r \in Request |-> NoStock]
    /\ written = [r \in Request |-> {}]
    /\ ticket = {}
    /\ line = {}
    /\ outbox = {}
    /\ sent = {}
    /\ met = [r \in Request |-> {}]
    /\ stale = [r \in Request |-> {}]
    /\ ideal = stock
    /\ raced = {}

-----------------------------------------------------------------------------
(* createTicket.                                                           *)

Locked(f) == \E r \in InFlight : f \in written[r]

\* What a transaction holds is gone when it ends, whichever way.
Release(r) ==
    /\ written' = [written EXCEPT ![r] = {}]
    /\ stale' = [stale EXCEPT ![r] = {}]

Fail(r) ==
    /\ pc' = [pc EXCEPT ![r] = "failed"]
    /\ Release(r)

Goto(r, phase) ==
    /\ pc' = [pc EXCEPT ![r] = phase]
    /\ UNCHANGED <<written, stale>>

\* A ticket another transaction has not committed is not there to be found.
NeverTaken(o) == FALSE  \* mutant: no look-up
Taken(o) == \E t \in ticket : Place(t) = <<o.premiere, o.seat>>

(* tx.ticket.findFirst, "Check if seat is available".                      *)
CheckSeat(r, o) ==
    /\ pc[r] = "idle"
    /\ Serial => InFlight = {}
    /\ order' = [order EXCEPT ![r] = o]
    /\ IF Taken(o)
       THEN Fail(r) /\ UNCHANGED met
       ELSE /\ Goto(r, "price")
            /\ met' = [x \in Request |->
                         IF x = r THEN met[r] \cup InFlight
                         ELSE IF x \in InFlight THEN met[x] \cup {r}
                         ELSE met[x]]
    /\ UNCHANGED <<programmeVars, foodVars, quote, seen, tableVars, taskVars,
                   ideal, raced>>

(* tx.cinemaFilmSeat.findFirst({ where: { seatId } }): any film's price    *)
(* for the seat, in no stated order.                                       *)
ReadSeatPriceUnchecked(r) ==  \* mutant: no check that a row was found
    /\ pc[r] = "price"
    /\ \E cf \in CinemaFilm :
          quote' = [quote EXCEPT ![r] =
                      [film |-> cf, price |-> seatPrice[cf][order[r].seat]]]
    /\ Goto(r, IF order[r].items = {} THEN "insert" ELSE "food")
    /\ UNCHANGED <<programmeVars, foodVars, order, seen, tableVars, taskVars,
                   met, ideal, raced>>
ReadSeatPrice(r) ==
    /\ pc[r] = "price"
    /\ LET s == order[r].seat
           priced == {cf \in CinemaFilm : seatPrice[cf][s] # NoPrice}
       IN  \/ /\ priced = {}
              /\ Fail(r)
              /\ UNCHANGED quote
           \/ \E cf \in priced :
                 /\ quote' = [quote EXCEPT ![r] =
                                [film |-> cf, price |-> seatPrice[cf][s]]]
                 /\ Goto(r, IF order[r].items = {} THEN "insert" ELSE "food")
    /\ UNCHANGED <<programmeVars, foodVars, order, seen, tableVars, taskVars,
                   met, ideal, raced>>

OnTheMenu(r) == order[r].items \subseteq Menu  \* mutant: no quantity check
InStock(r) ==
    /\ order[r].items \subseteq Menu
    /\ \A f \in order[r].items : order[r].qty[f] <= stock[f]

(* tx.foodAndBeverage.findMany and "Check if all food quantity still       *)
(* available".  A food listed twice may already fail here, when the two    *)
(* quantities together exceed the stock.                                   *)
ReadFoods(r) ==
    /\ pc[r] = "food"
    /\ \/ /\ InStock(r)
          /\ seen' = [seen EXCEPT ![r] =
                        [f \in Food |-> IF f \in order[r].items THEN stock[f]
                                        ELSE 0]]
          /\ Goto(r, "insert")
       \/ /\ ~InStock(r) \/ order[r].twice
          /\ Fail(r)
          /\ UNCHANGED seen
    /\ UNCHANGED <<programmeVars, foodVars, order, quote, tableVars, taskVars,
                   met, ideal, raced>>

(* tx.ticket.create: the foreign key wants the premiere to exist still.    *)
InsertTicket(r) ==
    /\ pc[r] = "insert"
    /\ IF Scheduled(order[r].premiere)
       THEN Goto(r, IF order[r].items = {} THEN "announce" ELSE "lines")
       ELSE Fail(r)
    /\ UNCHANGED <<programmeVars, foodVars, order, quote, seen, tableVars,
                   taskVars, met, ideal, raced>>

(* tx.ticketFoodAndBeverage.createMany: the primary key is (ticket, food). *)
InsertLines(r) ==
    /\ pc[r] = "lines"
    /\ IF order[r].twice THEN Fail(r) ELSE Goto(r, "stock")
    /\ UNCHANGED <<programmeVars, foodVars, order, quote, seen, tableVars,
                   taskVars, met, ideal, raced>>

(* tx.foodAndBeverage.update, once per food, in the order findMany         *)
(* returned them, which no orderBy fixes.  The statement waits for the row *)
(* lock; a food deleted meanwhile is an error.                             *)
WriteStock(r, f) ==
    /\ pc[r] = "stock"
    /\ f \in order[r].items \ written[r]
    /\ ~Locked(f)
    /\ IF f \in Menu
       THEN /\ written' = [written EXCEPT ![r] = @ \cup {f}]
            /\ pc' = [pc EXCEPT ![r] =
                        IF order[r].items = written[r] \cup {f}
                        THEN "announce" ELSE "stock"]
            /\ UNCHANGED stale
       ELSE Fail(r)
    /\ UNCHANGED <<programmeVars, foodVars, order, quote, seen, tableVars,
                   taskVars, met, ideal, raced>>

(* sendTicketEmail and sendNotification start before the transaction ends, *)
(* and nobody awaits them.                                                 *)
Announce(r) ==
    /\ pc[r] = "announce"
    /\ Goto(r, "commit")
    /\ outbox' = outbox \cup (Channel \X {r})
    /\ UNCHANGED <<programmeVars, foodVars, order, quote, seen, tableVars,
                   sent, met, ideal, raced>>

(* The other transactions that have read one of foods now hold old stock.  *)
Overtake(foods, others) ==
    [x \in Request |->
        IF x \in others /\ pc[x] \in ReliesOnStock
        THEN stale[x] \cup (foods \cap order[x].items)
        ELSE stale[x]]

\* The quantities left in foodBeveragesMap.
StockAsRead(r) ==  \* mutant: the map is not counted down
    [f \in Food |-> IF f \in written[r] THEN seen[r][f] ELSE stock[f]]
StockAfter(r) ==
    [f \in Food |-> IF f \in written[r] THEN seen[r][f] - order[r].qty[f]
                    ELSE stock[f]]

(* The ticket, its lines and the quantities computed from the stock that   *)
(* was seen become visible together.                                       *)
Commit(r) ==
    /\ pc[r] = "commit"
    /\ pc' = [pc EXCEPT ![r] = "sold"]
    /\ ticket' = ticket \cup {r}
    /\ line' = line \cup LinesOf(r)
    /\ stock' = StockAfter(r)
    /\ written' = [written EXCEPT ![r] = {}]
    /\ stale' = [Overtake(written[r], Request \ {r}) EXCEPT ![r] = {}]
    /\ ideal' = [f \in Food |-> IF f \in written[r]
                                THEN ideal[f] - order[r].qty[f]
                                ELSE ideal[f]]
    /\ raced' = raced \cup (written[r] \cap stale[r])
    /\ UNCHANGED <<programmeVars, foodRow, order, quote, seen, taskVars, met>>

(* { timeout: 15000 }, a deadlock PostgreSQL resolves, a lost connection:  *)
(* the transaction ends without effect.  What Announce started goes on.    *)
TimeoutUnlessWaiting(r) ==  \* mutant: no end to waiting for a row lock
    /\ pc[r] \in InTransaction \ {"stock"}
    /\ Fail(r)
    /\ UNCHANGED <<programmeVars, foodVars, order, quote, seen, tableVars,
                   taskVars, met, ideal, raced>>
Timeout(r) ==
    /\ pc[r] \in InTransaction
    /\ Fail(r)
    /\ UNCHANGED <<programmeVars, foodVars, order, quote, seen, tableVars,
                   taskVars, met, ideal, raced>>

(* The process stops: open transactions roll back, promises are lost.      *)
Crash ==
    /\ pc' = [r \in Request |-> IF r \in InFlight THEN "failed" ELSE pc[r]]
    /\ written' = [r \in Request |-> {}]
    /\ stale' = [r \in Request |-> {}]
    /\ outbox' = {}
    /\ UNCHANGED <<programmeVars, foodVars, order, quote, seen, tableVars,
                   sent, met, ideal, raced>>

CreateTicket(r) ==
    \/ ReadSeatPrice(r)
    \/ ReadFoods(r)
    \/ InsertTicket(r)
    \/ InsertLines(r)
    \/ \E f \in Food : WriteStock(r, f)
    \/ Announce(r)
    \/ Commit(r)

(* A started promise settles: it is delivered, or its failure is logged.   *)
RunTask(t) ==
    /\ t \in outbox
    /\ outbox' = outbox \ {t}
    /\ sent' \in {sent, sent \cup {t}}
    /\ UNCHANGED <<programmeVars, foodVars, requestVars, tableVars, historyVars>>

-----------------------------------------------------------------------------
(* deleteTicket, and what the foreign keys delete along with other rows.   *)

DropOnlyTickets(gone) ==  \* mutant: the lines do not cascade
    ticket' = ticket \ gone /\ UNCHANGED line
DropTickets(gone) ==
    /\ ticket' = ticket \ gone
    /\ line' = {l \in line : l.ticket \notin gone}

\* One DELETE; the stock of the foods is not given back.
DeleteTicket(r) ==
    /\ r \in ticket
    /\ DropTickets({r})
    /\ UNCHANGED <<programmeVars, foodVars, requestVars, taskVars, historyVars>>

TicketsFor(premieres) == {t \in ticket : order[t].premiere \in premieres}

\* A premiere with an uncommitted ticket cannot be deleted yet.
NoSaleRunningFor(premieres) ==
    \A r \in Request :
        pc[r] \in HoldsPremiere => order[r].premiere \notin premieres

(* Deleting premieres takes their tickets along: paid, and not refunded.   *)
WithdrawnPremieres == {p \in Premiere : Scheduled(p) /\ showing'[p] = "gone"}

ChangeProgramme ==
    /\ \/ \E cf \in CinemaFilm, rows \in PriceRows,
             ps \in SUBSET UnbornPremieres : CreateFilm(cf, ps, rows)
       \/ \E cf \in CinemaFilm : UpdateFilm(cf) \/ DeleteFilm(cf)
    /\ NoSaleRunningFor(WithdrawnPremieres)
    /\ DropTickets(TicketsFor(WithdrawnPremieres))
    /\ UNCHANGED <<foodVars, requestVars, taskVars, historyVars>>

ChangeSeatPrice ==
    /\ SeatPriceNext
    /\ UNCHANGED <<foodVars, requestVars, tableVars, taskVars, historyVars>>

-----------------------------------------------------------------------------
(* FoodService beside running sales.                                       *)

AddFood(f, q) ==
    /\ CreateFood(f, q)
    /\ ideal' = [ideal EXCEPT ![f] = q]
    /\ UNCHANGED <<programmeVars, requestVars, tableVars, taskVars, met, stale,
                   raced>>

CorrectStock(f, q) ==
    /\ Serial => InFlight = {}
    /\ ~Locked(f)
    /\ UpdateFood(f, q)
    /\ ideal' = [ideal EXCEPT ![f] = q]
    /\ raced' = raced \ {f}
    /\ stale' = Overtake({f}, Request)
    /\ UNCHANGED <<programmeVars, requestVars, tableVars, taskVars, met>>

RemoveFood(f) ==
    /\ ~Locked(f)
    /\ DeleteFood(f)
    /\ UNCHANGED <<programmeVars, requestVars, tableVars, taskVars, historyVars>>

FoodNext ==
    \E f \in Food :
        \/ \E q \in StockLevel : AddFood(f, q) \/ CorrectStock(f, q)
        \/ RemoveFood(f)

-----------------------------------------------------------------------------
Next ==
    \/ \E r \in Request, o \in Orders : CheckSeat(r, o)
    \/ \E r \in Request : CreateTicket(r) \/ Timeout(r) \/ DeleteTicket(r)
    \/ \E t \in outbox : RunTask(t)
    \/ Crash
    \/ ChangeProgramme
    \/ ChangeSeatPrice
    \/ FoodNext

Spec == Init /\ [][Next]_vars

(* Statements of an open transaction are executed while it can proceed,    *)
(* and a transaction that stays open is ended by its timeout.  Whether a   *)
(* request comes, a manager acts or the process stops is nobody's promise. *)
Fairness ==
    \A r \in Request : WF_vars(CreateTicket(r)) /\ WF_vars(Timeout(r))

FairSpec == Spec /\ Fairness
-----------------------------------------------------------------------------
(* Properties.                                                             *)

(* A ticket and its food lines come and go together, whoever interleaves:  *)
(* every paid ticket is for a premiere that still exists and has exactly   *)
(* the lines of its order, and no line is without its ticket.  It rests on *)
(* the insert's key-share lock, the cascades and the one transaction       *)
(* around ticket.create and createMany.                                    *)
TicketIntegrity ==
    /\ \A t \in ticket : pc[t] = "sold" /\ Scheduled(order[t].premiere)
    /\ \A t \in ticket : LinesOf(t) \subseteq line
    /\ \A l \in line : l.ticket \in ticket /\ l \in LinesOf(l.ticket)

(* The stock check of createTicket keeps every quantity at zero or above,  *)
(* although the quantity written is computed from a read other             *)
(* transactions may have overtaken.                                        *)
StockNeverNegative == \A f \in Food : stock[f] >= 0

(* The availability check cannot stop two sales of one seat for one        *)
(* premiere, but it stops all that do not overlap in time: two tickets for *)
(* the same place are from transactions that were open together.           *)
DoubleBookingNeedsOverlap ==
    \A t, u \in ticket : t # u /\ Place(t) = Place(u) => t \in met[u]

(* The stock of a food is what the sales since the last correction left of *)
(* it, unless some sale wrote it from a quantity that had changed since:   *)
(* a stale read is the only way the absolute write loses count.            *)
StockExactUnlessRaced ==
    \A f \in Menu \ raced : stock[f] = ideal[f]

(* "Check if seat is available": no seat is sold twice for one premiere.   *)
NoDoubleBooking ==
    \A t, u \in ticket : Place(t) = Place(u) => t = u

(* The stock is what all sales since its last correction together have     *)
(* left of it: no sale's deduction is overwritten.                         *)
StockCountsEverySale == \A f \in Menu : stock[f] = ideal[f]

(* "You have purchased a ticket": who is told so has the purchase, or its  *)
(* transaction is just about to commit.                                    *)
AnnouncedIsSold ==
    \A r \in Request, c \in Channel :
        <<c, r>> \in sent => pc[r] \in {"commit", "sold"}

(* A seat's price belongs to a film's showing ([cinemaFilmId, seatId] is   *)
(* the key of cinemaFilmSeat): a ticket is priced by the film it is for.   *)
PricedByItsFilm ==
    \A t \in ticket : quote[t].film = showing[order[t].premiere]

(* Every createTicket call that has begun is answered: transactions that   *)
(* wait for each other's rows do not wait for ever.                        *)
EveryRequestEnds ==
    \A r \in Request : pc[r] \in InTransaction ~> pc[r] \in {"sold", "failed"}
-----------------------------------------------------------------------------
(* The inductive invariant behind the first four properties.  Each part is *)
(* about what an open transaction may still do.                            *)

\* Open sales are for live premieres, which their key-share locks protect.
SaleInv ==
    /\ TicketIntegrity
    /\ \A r \in Request : pc[r] \in HoldsPremiere => Scheduled(order[r].premiere)

\* What a commit is going to write is not negative.
StockInv ==
    /\ StockNeverNegative
    /\ \A r \in Request :
         /\ written[r] # {} => pc[r] \in ReliesOnStock
         /\ written[r] \subseteq order[r].items
         /\ pc[r] \in ReliesOnStock =>
              \A f \in order[r].items : order[r].qty[f] <= seen[r][f]

\* Transactions open at the same time know of each other, and one that is
\* open although its place is sold was open when that sale committed.
OverlapInv ==
    /\ \A t, u \in Request : t \in met[u] => u \in met[t]
    /\ \A t, u \in InFlight : t # u => t \in met[u]
    /\ \A t \in ticket, u \in InFlight : Place(t) = Place(u) => t \in met[u]
    /\ DoubleBookingNeedsOverlap

\* What an open sale has seen is the stock, or it is known to be stale.
RacedInv ==
    /\ StockExactUnlessRaced
    /\ \A r \in Request : pc[r] \in ReliesOnStock =>
         \A f \in order[r].items :
             /\ foodRow[f] # "unborn"
             /\ f \notin stale[r] => seen[r][f] = stock[f]

IInv == TypeOK /\ SaleInv /\ StockInv /\ OverlapInv /\ RacedInv

\* A sale has locked the food it has updated, and all it sells at the end.
LockInv ==
    \A r \in Request :
        /\ written[r] \subseteq Menu
        /\ pc[r] \in {"insert", "lines"} => written[r] = {}
        /\ pc[r] \in {"announce", "commit"} => written[r] = order[r].items

\* What Serial arranges: no company, hence no stale read.
SerialInv ==
    Serial => /\ \A r \in Request : met[r] = {} /\ stale[r] = {}
              /\ raced = {}
=============================================================================
