--------------------------- MODULE BookingProofs ---------------------------
(***************************************************************************)
(* Proofs about Booking for every set of requests, orders, foods, films,   *)
(* premieres, seats and stock levels, and that it implements TicketOffice. *)
(***************************************************************************)
EXTENDS BookingOffice, TLAPS

(* What a request carries is an order, or the placeholder it starts with.  *)
LEMMA OrderFields ==
    ASSUME TypeOK, NEW r \in Request
    PROVE  /\ order[r].items \subseteq Food
           /\ order[r].qty \in [Food -> Int]
           /\ order[r].twice \in BOOLEAN
<1>1. order[r] \in Orders \cup {NoOrder}
  BY DEF TypeOK
<1>2. CASE order[r] \in Orders
  BY <1>2, BookingAssumption DEF Order
<1>3. CASE order[r] = NoOrder
  BY <1>3 DEF NoOrder, NoStock
<1> QED
  BY <1>1, <1>2, <1>3

(* The rows a sale inserts into ticketFoodAndBeverage are well-formed.     *)
LEMMA LinesOfType ==
    ASSUME TypeOK, NEW r \in Request
    PROVE  LinesOf(r) \subseteq Line
BY OrderFields DEF LinesOf, Line

-----------------------------------------------------------------------------
(* Type correctness.                                                       *)

(* Every state Init allows has the right types.                            *)
LEMMA InitType == Init => TypeOK
<1> SUFFICES ASSUME Init
             PROVE  TypeOK
  OBVIOUS
<1>1. ProgrammeTypeOK
  BY ProgrammeAssumption DEF Init, ProgrammeInit, ProgrammeTypeOK
<1>2. stock \in [Food -> Int] /\ ideal = stock
  <2>1. stock \in [Food -> StockLevel] /\ ideal = stock
    BY DEF Init, FoodInit
  <2>2. StockLevel \subseteq Int
    BY FoodStockAssumption
  <2>3. \A f \in Food : stock[f] \in Int
    BY <2>1, <2>2
  <2> QED
    BY <2>1, <2>3
<1>3. NoStock \in [Food -> Int]
  BY DEF NoStock
<1> QED
  BY <1>1, <1>2, <1>3 DEF Init, FoodInit, FoodTypeOK, TypeOK, Phase

\* Any operation on the programme.
ProgrammeStep ==
    \/ \E cf \in CinemaFilm, rows \in PriceRows,
          ps \in SUBSET UnbornPremieres : CreateFilm(cf, ps, rows)
    \/ \E cf \in CinemaFilm : UpdateFilm(cf) \/ DeleteFilm(cf)
    \/ SeatPriceNext

(* CinemaFilmService and CinemaFilmSeatService keep the types of their     *)
(* tables: stated once, for the two actions of Booking that use them.      *)
LEMMA ProgrammeType ==
    ASSUME ProgrammeTypeOK, ProgrammeStep
    PROVE  ProgrammeTypeOK'
<1> USE DEF ProgrammeTypeOK, PriceRows
<1>1. ASSUME NEW cf \in CinemaFilm, NEW rows \in PriceRows,
             NEW ps \in SUBSET UnbornPremieres, CreateFilm(cf, ps, rows)
      PROVE  ProgrammeTypeOK'
  BY <1>1 DEF CreateFilm
<1>2. ASSUME NEW cf \in CinemaFilm, UpdateFilm(cf)
      PROVE  ProgrammeTypeOK'
  BY <1>2 DEF UpdateFilm, ReplacePremieres, ReplaceSeats
<1>3. ASSUME NEW cf \in CinemaFilm, DeleteFilm(cf)
      PROVE  ProgrammeTypeOK'
  BY <1>3 DEF DeleteFilm, NoSeats
<1>4. ASSUME SeatPriceNext
      PROVE  ProgrammeTypeOK'
  <2> PICK cf \in CinemaFilm, s \in Seat :
         \/ \E c \in Price : CreateSeatPrice(cf, s, c) \/ UpdateSeatPrice(cf, s, c)
         \/ DeleteSeatPrice(cf, s)
    BY <1>4 DEF SeatPriceNext
  <2> \E c \in Price \cup {NoPrice} : seatPrice' = [seatPrice EXCEPT ![cf][s] = c]
    BY DEF CreateSeatPrice, UpdateSeatPrice, DeleteSeatPrice
  <2> UNCHANGED <<film, showing>>
    BY DEF CreateSeatPrice, UpdateSeatPrice, DeleteSeatPrice
  <2> QED
    OBVIOUS
<1> QED
  BY <1>1, <1>2, <1>3, <1>4 DEF ProgrammeStep

(* No step, of whichever actor, puts a value of another type anywhere.     *)
LEMMA StepType == TypeOK /\ [Next]_vars => TypeOK'
<1> SUFFICES ASSUME TypeOK, [Next]_vars
             PROVE  TypeOK'
  OBVIOUS
<1> USE DEF TypeOK
<1>1. ASSUME NEW r \in Request, NEW o \in Orders, CheckSeat(r, o)
      PROVE  TypeOK'
  <2>1. met' \in [Request -> SUBSET Request]
    <3>1. InFlight \subseteq Request
      BY DEF InFlight
    <3>2. CASE UNCHANGED met
      BY <3>2
    <3>3. CASE met' = [x \in Request |->
                         IF x = r THEN met[r] \cup InFlight
                         ELSE IF x \in InFlight THEN met[x] \cup {r}
                         ELSE met[x]]
      <4>1. \A x \in Request : met'[x] \subseteq Request
        BY <3>1, <3>3
      <4> QED
        BY <3>3, <4>1
    <3> QED
      BY <1>1, <3>2, <3>3 DEF CheckSeat
  <2>2. /\ pc' \in [Request -> Phase]
        /\ written' \in [Request -> SUBSET Food]
        /\ stale' \in [Request -> SUBSET Food]
    BY <1>1 DEF CheckSeat, Fail, Release, Goto, Phase
  <2>3. /\ order' \in [Request -> Orders \cup {NoOrder}]
        /\ \A x \in Request : pc'[x] # "idle" => order'[x] \in Orders
    <3>1. order' = [order EXCEPT ![r] = o]
      BY <1>1 DEF CheckSeat
    <3>2. \A x \in Request \ {r} : pc'[x] = pc[x]
      BY <1>1 DEF CheckSeat, Fail, Goto
    <3> QED
      BY <3>1, <3>2
  <2> QED
    BY <1>1, <2>1, <2>2, <2>3 DEF CheckSeat, programmeVars, foodVars, tableVars, taskVars,
                            ProgrammeTypeOK, FoodTypeOK
<1>2. ASSUME NEW r \in Request, CreateTicket(r) \/ Timeout(r)
      PROVE  TypeOK'
  <2> USE DEF Fail, Release, Goto, Phase, programmeVars, foodVars, tableVars,
              taskVars, ProgrammeTypeOK, FoodTypeOK
  <2>1. CASE ReadSeatPrice(r)
    <3>1. quote' \in [Request -> Quote \cup {NoQuote}]
      <4>1. order[r] \in Orders /\ order[r].seat \in Seat
        BY <2>1, BookingAssumption DEF ReadSeatPrice, Order
      <4>2. ASSUME NEW cf \in CinemaFilm,
                   seatPrice[cf][order[r].seat] # NoPrice,
                   quote' = [quote EXCEPT ![r] =
                       [film |-> cf, price |-> seatPrice[cf][order[r].seat]]]
            PROVE  quote' \in [Request -> Quote \cup {NoQuote}]
        <5>1. seatPrice[cf][order[r].seat] \in Price
          BY <4>1, <4>2 DEF ProgrammeTypeOK, PriceRows
        <5> QED
          BY <4>2, <5>1 DEF Quote
      <4> QED
        BY <2>1, <4>2 DEF ReadSeatPrice
    <3> QED
      BY <2>1, <3>1 DEF ReadSeatPrice
  <2>2. CASE ReadFoods(r)
    <3>1. seen' \in [Request -> [Food -> Int]]
      <4>1. [f \in Food |-> IF f \in order[r].items THEN stock[f] ELSE 0]
              \in [Food -> Int]
        OBVIOUS
      <4> QED
        BY <2>2, <4>1 DEF ReadFoods
    <3>2. /\ pc' \in [Request -> Phase]
          /\ \A x \in Request : pc'[x] # "idle" => pc[x] # "idle"
      BY <2>2 DEF ReadFoods
    <3> QED
      BY <2>2, <3>1, <3>2 DEF ReadFoods
  <2>3. CASE InsertTicket(r)
    BY <2>3 DEF InsertTicket
  <2>4. CASE InsertLines(r)
    BY <2>4 DEF InsertLines
  <2>5. ASSUME NEW f \in Food, WriteStock(r, f)
        PROVE  TypeOK'
    <3>1. pc' \in [Request -> Phase] /\ written' \in [Request -> SUBSET Food]
      <4>1. CASE f \in Menu
        <5>1. pc' = [pc EXCEPT ![r] = "announce"] \/ pc' = [pc EXCEPT ![r] = "stock"]
          BY <2>5, <4>1 DEF WriteStock
        <5>2. written' = [written EXCEPT ![r] = @ \cup {f}]
          BY <2>5, <4>1 DEF WriteStock
        <5>3. pc' \in [Request -> Phase]
          BY <5>1
        <5>4. written' \in [Request -> SUBSET Food]
          BY <5>2
        <5> QED
          BY <5>3, <5>4
      <4>2. CASE f \notin Menu
        BY <2>5, <4>2 DEF WriteStock
      <4> QED
        BY <4>1, <4>2
    <3> QED
      BY <2>5, <3>1 DEF WriteStock
  <2>6. CASE Announce(r)
    BY <2>6 DEF Announce, Task
  <2>7. CASE Commit(r)
    <3>1. /\ pc' \in [Request -> Phase]
          /\ \A x \in Request : pc'[x] # "idle" => pc[x] # "idle"
      BY <2>7 DEF Commit
    <3>2. stock' \in [Food -> Int] /\ ideal' \in [Food -> Int]
      BY <2>7, OrderFields DEF Commit, StockAfter
    <3>3. stale' \in [Request -> SUBSET Food]
      BY <2>7, OrderFields DEF Commit, Overtake
    <3>4. ticket' \subseteq Request /\ line' \subseteq Line
      BY <2>7, LinesOfType DEF Commit
    <3> QED
      BY <2>7, <3>1, <3>2, <3>3, <3>4 DEF Commit
  <2>8. CASE Timeout(r)
    <3>1. /\ pc' \in [Request -> Phase]
          /\ \A x \in Request : pc'[x] # "idle" => pc[x] # "idle"
      BY <2>8 DEF Timeout, InTransaction
    <3> QED
      BY <2>8, <3>1 DEF Timeout
  <2> QED
    BY <1>2, <2>1, <2>2, <2>3, <2>4, <2>5, <2>6, <2>7, <2>8 DEF CreateTicket
<1>3. CASE Crash
  <2>1. /\ pc' \in [Request -> Phase]
        /\ \A x \in Request : pc'[x] # "idle" => pc[x] # "idle"
    BY <1>3 DEF Crash, Phase, InFlight, InTransaction
  <2> QED
    BY <1>3, <2>1 DEF Crash, programmeVars, foodVars, tableVars,
                      ProgrammeTypeOK, FoodTypeOK
<1>4. ASSUME NEW r \in Request, DeleteTicket(r)
      PROVE  TypeOK'
  BY <1>4 DEF DeleteTicket, DropTickets, programmeVars, foodVars, requestVars,
              taskVars, historyVars, ProgrammeTypeOK, FoodTypeOK
<1>5. ASSUME NEW t \in outbox, RunTask(t)
      PROVE  TypeOK'
  BY <1>5 DEF RunTask, programmeVars, foodVars, requestVars, tableVars,
              historyVars, ProgrammeTypeOK, FoodTypeOK
<1>6. CASE ChangeProgramme
  <2>1. ProgrammeTypeOK'
    BY <1>6, ProgrammeType DEF ChangeProgramme, ProgrammeStep
  <2> QED
    BY <1>6, <2>1 DEF ChangeProgramme, DropTickets, foodVars, requestVars,
                      taskVars, historyVars, FoodTypeOK
<1>7. CASE ChangeSeatPrice
  <2>1. ProgrammeTypeOK'
    BY <1>7, ProgrammeType DEF ChangeSeatPrice, ProgrammeStep
  <2> QED
    BY <1>7, <2>1 DEF ChangeSeatPrice, foodVars, requestVars, tableVars,
                      taskVars, historyVars, FoodTypeOK
<1>8. ASSUME NEW f \in Food, NEW q \in StockLevel,
             AddFood(f, q) \/ CorrectStock(f, q)
      PROVE  TypeOK'
  <2>1. q \in Int
    BY FoodStockAssumption
  <2>2. UNCHANGED programmeVars
    BY <1>8 DEF AddFood, CorrectStock
  <2>3. ProgrammeTypeOK'
    BY <2>2 DEF programmeVars, ProgrammeTypeOK
  <2>4. CASE AddFood(f, q)
    BY <2>1, <2>3, <2>4 DEF AddFood, CreateFood, requestVars, tableVars, taskVars,
                            FoodTypeOK
  <2>5. CASE CorrectStock(f, q)
    BY <2>1, <2>3, <2>5, OrderFields DEF CorrectStock, UpdateFood, Menu, Overtake,
                            requestVars, tableVars, taskVars, FoodTypeOK
  <2> QED
    BY <1>8, <2>4, <2>5
<1>9. ASSUME NEW f \in Food, RemoveFood(f)
      PROVE  TypeOK'
  BY <1>9 DEF RemoveFood, DeleteFood, Menu, requestVars, tableVars, taskVars,
              historyVars, programmeVars, ProgrammeTypeOK, FoodTypeOK
<1>10. CASE UNCHANGED vars
  BY <1>10 DEF vars, programmeVars, foodVars, requestVars, tableVars, taskVars,
               historyVars, ProgrammeTypeOK, FoodTypeOK
<1> QED
  BY <1>1, <1>2, <1>3, <1>4, <1>5, <1>6, <1>7, <1>8, <1>9, <1>10 DEF Next, FoodNext

(* Every variable keeps its type through all interleavings.                *)
THEOREM TypeCorrect == Spec => []TypeOK
BY InitType, StepType, PTL DEF Spec
-----------------------------------------------------------------------------
(* What the actions have in common.                                        *)

\* A statement that only moves its own transaction on, or ends it.
Moves(r) == ReadSeatPrice(r) \/ ReadFoods(r) \/ InsertTicket(r) \/ InsertLines(r)
              \/ (\E f \in Food : WriteStock(r, f)) \/ Announce(r) \/ Timeout(r)

(* Until it commits, a transaction changes no table, no other request and  *)
(* none of the history but its own.                                        *)
LEMMA MovesFrame ==
    ASSUME TypeOK, NEW r \in Request, Moves(r)
    PROVE  /\ UNCHANGED <<programmeVars, foodVars, order, tableVars, met, ideal, raced>>
           /\ pc[r] \in InTransaction
           /\ pc'[r] \in Phase \ {"idle", "sold"}
           /\ \A x \in Request \ {r} : pc'[x] = pc[x]
<1> USE DEF programmeVars, foodVars, tableVars, taskVars, TypeOK, Phase, InTransaction,
            Fail, Goto
<1>1. CASE ReadSeatPrice(r)
  BY <1>1 DEF ReadSeatPrice
<1>2. CASE ReadFoods(r)
  BY <1>2 DEF ReadFoods
<1>3. CASE InsertTicket(r)
  BY <1>3 DEF InsertTicket
<1>4. CASE InsertLines(r)
  BY <1>4 DEF InsertLines
<1>5. ASSUME NEW f \in Food, WriteStock(r, f)
      PROVE  /\ UNCHANGED <<programmeVars, foodVars, order, tableVars, met, ideal, raced>>
             /\ pc[r] \in InTransaction
             /\ pc'[r] \in Phase \ {"idle", "sold"}
             /\ \A x \in Request \ {r} : pc'[x] = pc[x]
  <2>1. pc'[r] \in {"announce", "stock", "failed"}
    BY <1>5 DEF WriteStock
  <2> QED
    BY <1>5, <2>1 DEF WriteStock
<1>6. CASE Announce(r)
  BY <1>6 DEF Announce
<1>7. CASE Timeout(r)
  BY <1>7 DEF Timeout
<1> QED
  BY <1>1, <1>2, <1>3, <1>4, <1>5, <1>6, <1>7 DEF Moves

\* The steps that leave every request where it is.
Elsewhere ==
    \/ \E t \in outbox : RunTask(t)
    \/ ChangeSeatPrice
    \/ FoodNext
    \/ UNCHANGED vars

(* The steps elsewhere leave showings, requests and tickets alone.         *)
LEMMA ElsewhereFrame ==
    ASSUME Elsewhere
    PROVE  UNCHANGED <<showing, requestVars, tableVars, met>>
BY DEF Elsewhere, RunTask, ChangeSeatPrice, SeatPriceNext, CreateSeatPrice,
       UpdateSeatPrice, DeleteSeatPrice, FoodNext, AddFood, CorrectStock, RemoveFood,
       vars, programmeVars, foodVars, requestVars, tableVars, taskVars, historyVars

\* The cases of a step, grouped by what the invariants need to tell apart.
LEMMA StepCases ==
    ASSUME [Next]_vars
    PROVE  \/ \E r \in Request, o \in Orders : CheckSeat(r, o)
           \/ \E r \in Request : Moves(r) \/ Commit(r) \/ DeleteTicket(r)
           \/ Crash
           \/ ChangeProgramme
           \/ Elsewhere
BY DEF Next, CreateTicket, Moves, Elsewhere

(* A stopping process ends the open transactions and changes no table.     *)
LEMMA CrashFrame ==
    ASSUME TypeOK, Crash
    PROVE  /\ UNCHANGED <<programmeVars, foodVars, order, tableVars, met, ideal, raced>>
           /\ \A r \in Request : pc'[r] = IF r \in InFlight THEN "failed" ELSE pc[r]
BY DEF Crash, TypeOK

-----------------------------------------------------------------------------
(* A ticket and its lines: no step leaves a sold ticket, or one about to be *)
(* sold, without its premiere, nor a line without its ticket.              *)
LEMMA SaleStep ==
    ASSUME IInv, [Next]_vars
    PROVE  SaleInv'
<1> USE DEF IInv, SaleInv, TicketIntegrity, LinesOf, Scheduled
<1>1. ASSUME NEW r \in Request, NEW o \in Orders, CheckSeat(r, o)
      PROVE  SaleInv'
  <2>1. /\ UNCHANGED <<ticket, line, showing>>
        /\ r \notin ticket
        /\ \A x \in Request \ {r} : order'[x] = order[x] /\ pc'[x] = pc[x]
        /\ pc'[r] \in {"price", "failed"}
    BY <1>1 DEF CheckSeat, Fail, Goto, tableVars, programmeVars, TypeOK
  <2>2. \A t \in ticket : t \in Request \ {r}
    BY <2>1 DEF TypeOK
  <2>3. \A t \in ticket : pc'[t] = "sold" /\ Scheduled(order[t].premiere)'
    BY <2>1, <2>2
  <2>4. \A t \in ticket : LinesOf(t)' = LinesOf(t)
    BY <2>1, <2>2
  <2>5. \A x \in Request : pc'[x] \in HoldsPremiere => Scheduled(order[x].premiere)'
    BY <2>1 DEF HoldsPremiere
  <2> HIDE DEF LinesOf, Scheduled
  <2> QED
    BY <2>1, <2>3, <2>4, <2>5
<1>2. ASSUME NEW r \in Request, Moves(r)
      PROVE  SaleInv'
  <2>1. /\ UNCHANGED <<ticket, line, showing, order>>
        /\ r \notin ticket
        /\ \A x \in Request \ {r} : pc'[x] = pc[x]
    BY <1>2, MovesFrame DEF tableVars, programmeVars, InTransaction
  <2>2. pc'[r] \in HoldsPremiere => Scheduled(order[r].premiere)
    <3> USE DEF HoldsPremiere, Fail, Goto, TypeOK
    <3>1. CASE InsertTicket(r)
      BY <3>1 DEF InsertTicket
    <3>2. CASE ReadSeatPrice(r) \/ ReadFoods(r) \/ Timeout(r)
      BY <3>2 DEF ReadSeatPrice, ReadFoods, Timeout
    <3>3. CASE InsertLines(r) \/ Announce(r) \/ (\E f \in Food : WriteStock(r, f))
      BY <3>3 DEF InsertLines, Announce, WriteStock
    <3> QED
      BY <1>2, <3>1, <3>2, <3>3 DEF Moves
  <2> QED
    BY <2>1, <2>2 DEF TypeOK
<1>3. ASSUME NEW r \in Request, Commit(r)
      PROVE  SaleInv'
  <2>1. /\ ticket' = ticket \cup {r}
        /\ line' = line \cup LinesOf(r)
        /\ UNCHANGED <<showing, order>>
        /\ pc'[r] = "sold"
        /\ pc[r] \in HoldsPremiere
        /\ \A x \in Request \ {r} : pc'[x] = pc[x]
    BY <1>3 DEF Commit, programmeVars, TypeOK, HoldsPremiere
  <2>2. Scheduled(order[r].premiere)
    BY <2>1
  <2> QED
    BY <2>1, <2>2 DEF HoldsPremiere, TypeOK
<1>4. ASSUME NEW r \in Request, DeleteTicket(r)
      PROVE  SaleInv'
  <2>1. /\ ticket' = ticket \ {r}
        /\ line' = {l \in line : l.ticket \notin {r}}
        /\ UNCHANGED <<showing, order, pc>>
    BY <1>4 DEF DeleteTicket, DropTickets, programmeVars, requestVars
  <2> QED
    BY <2>1 DEF HoldsPremiere, TypeOK
<1>5. CASE Crash
  BY <1>5, CrashFrame DEF tableVars, programmeVars, HoldsPremiere, InFlight,
                          InTransaction, Phase, TypeOK
<1>6. CASE ChangeProgramme
  <2>1. /\ DropTickets(TicketsFor(WithdrawnPremieres))
        /\ NoSaleRunningFor(WithdrawnPremieres)
        /\ UNCHANGED <<order, pc>>
    BY <1>6 DEF ChangeProgramme, requestVars
  <2>2. \A p \in Premiere :
          Scheduled(p) => showing'[p] \in CinemaFilm \/ p \in WithdrawnPremieres
    <3> USE DEF WithdrawnPremieres, TypeOK, ProgrammeTypeOK
    <3>1. ASSUME NEW cf \in CinemaFilm, NEW rows \in PriceRows,
                 NEW ps \in SUBSET UnbornPremieres, CreateFilm(cf, ps, rows)
          PROVE  \A p \in Premiere : Scheduled(p) => showing'[p] \in CinemaFilm
      BY <3>1 DEF CreateFilm
    <3>2. ASSUME NEW cf \in CinemaFilm, UpdateFilm(cf)
          PROVE  \A p \in Premiere :
                   Scheduled(p) => showing'[p] \in CinemaFilm \/ showing'[p] = "gone"
      BY <3>2 DEF UpdateFilm, ReplacePremieres
    <3>3. ASSUME NEW cf \in CinemaFilm, DeleteFilm(cf)
          PROVE  \A p \in Premiere :
                   Scheduled(p) => showing'[p] \in CinemaFilm \/ showing'[p] = "gone"
      BY <3>3 DEF DeleteFilm
    <3> QED
      BY <1>6, <3>1, <3>2, <3>3 DEF ChangeProgramme
  <2>3. \A r \in Request : pc[r] # "idle" => order[r].premiere \in Premiere
    BY BookingAssumption DEF TypeOK, Order
  <2>4. \A t \in ticket' : /\ t \in ticket
                           /\ order[t].premiere \in Premiere \ WithdrawnPremieres
    BY <2>1, <2>3 DEF DropTickets, TicketsFor, TypeOK
  <2>5. \A t \in ticket' : pc'[t] = "sold" /\ Scheduled(order[t].premiere)'
    BY <2>1, <2>2, <2>4
  <2>6. \A t \in ticket' : LinesOf(t)' \subseteq line'
    BY <2>1, <2>4 DEF DropTickets
  <2>7. \A l \in line' : l.ticket \in ticket' /\ l \in LinesOf(l.ticket)'
    BY <2>1 DEF DropTickets
  <2>8. ASSUME NEW r \in Request, pc'[r] \in HoldsPremiere
        PROVE  Scheduled(order[r].premiere)'
    <3>1. order[r].premiere \in Premiere \ WithdrawnPremieres
      BY <2>1, <2>3, <2>8 DEF NoSaleRunningFor, HoldsPremiere
    <3> QED
      BY <2>1, <2>2, <2>8, <3>1
  <2> HIDE DEF LinesOf, Scheduled
  <2> QED
    BY <2>5, <2>6, <2>7, <2>8
<1>7. CASE Elsewhere
  BY <1>7, ElsewhereFrame DEF requestVars, tableVars, HoldsPremiere
<1> QED
  BY <1>1, <1>2, <1>3, <1>4, <1>5, <1>6, <1>7, StepCases

-----------------------------------------------------------------------------
(* Stock quantities: every statement keeps the stock, and what an open      *)
(* sale is going to write, from becoming negative.                         *)
LEMMA StockStep ==
    ASSUME IInv, [Next]_vars
    PROVE  StockInv'
<1> DEFINE Sound(r) == /\ written[r] # {} => pc[r] \in ReliesOnStock
                       /\ written[r] \subseteq order[r].items
                       /\ pc[r] \in ReliesOnStock =>
                            \A f \in order[r].items : order[r].qty[f] <= seen[r][f]
<1> SUFFICES StockNeverNegative' /\ \A r \in Request : Sound(r)'
  BY DEF StockInv
<1> USE DEF IInv, StockInv, StockNeverNegative
<1>1. ASSUME NEW r \in Request, NEW o \in Orders, CheckSeat(r, o)
      PROVE  StockNeverNegative' /\ \A x \in Request : Sound(x)'
  <2>1. UNCHANGED <<stock, seen>> /\ pc[r] = "idle"
    BY <1>1 DEF CheckSeat, foodVars
  <2>2. \A x \in Request \ {r} :
          order'[x] = order[x] /\ pc'[x] = pc[x] /\ written'[x] = written[x]
    BY <1>1 DEF CheckSeat, Fail, Goto, Release, TypeOK
  <2>3. written'[r] = {} /\ pc'[r] \in {"price", "failed"}
    BY <1>1, <2>1 DEF CheckSeat, Fail, Goto, Release, TypeOK, ReliesOnStock
  <2> QED
    BY <2>1, <2>2, <2>3 DEF ReliesOnStock
<1>2. ASSUME NEW r \in Request, Moves(r)
      PROVE  StockNeverNegative' /\ \A x \in Request : Sound(x)'
  <2> USE DEF Fail, Goto, Release, TypeOK, ReliesOnStock
  <2>1. /\ UNCHANGED <<stock, order>>
        /\ \A x \in Request \ {r} : pc'[x] = pc[x]
    BY <1>2, MovesFrame DEF foodVars
  <2>2. \A x \in Request \ {r} : written'[x] = written[x] /\ seen'[x] = seen[x]
    BY <1>2 DEF Moves, ReadSeatPrice, ReadFoods, InsertTicket, InsertLines, WriteStock,
                Announce, Timeout
  <2>3. Sound(r)'
    <3>1. CASE ReadSeatPrice(r)
      <4>1. /\ written[r] = {} /\ written'[r] = {}
            /\ pc'[r] \in ReliesOnStock => order[r].items = {}
        BY <3>1 DEF ReadSeatPrice
      <4> QED
        BY <2>1, <4>1
    <3>2. CASE ReadFoods(r)
      <4>1. written[r] = {} /\ written'[r] = {}
        BY <3>2 DEF ReadFoods
      <4>2. CASE pc'[r] \in ReliesOnStock
        <5>1. \A f \in order[r].items :
                order[r].qty[f] <= stock[f] /\ seen'[r][f] = stock[f]
          BY <3>2, <4>2, OrderFields DEF ReadFoods, InStock
        <5> QED
          BY <2>1, <4>1, <5>1
      <4> QED
        BY <2>1, <4>1, <4>2
    <3>3. CASE InsertTicket(r) \/ InsertLines(r) \/ Announce(r) \/ Timeout(r)
      <4>1. /\ seen' = seen
            /\ \/ pc[r] \in ReliesOnStock /\ pc'[r] \in ReliesOnStock /\ UNCHANGED written
               \/ pc'[r] = "failed" /\ written'[r] = {}
        BY <3>3 DEF InsertTicket, InsertLines, Announce, Timeout
      <4> QED
        BY <2>1, <4>1
    <3>4. ASSUME NEW f \in Food, WriteStock(r, f)
          PROVE  Sound(r)'
      <4>1. seen' = seen /\ pc[r] \in ReliesOnStock /\ f \in order[r].items
        BY <3>4 DEF WriteStock
      <4>2. \/ pc'[r] \in ReliesOnStock /\ written'[r] = written[r] \cup {f}
            \/ pc'[r] = "failed" /\ written'[r] = {}
        BY <3>4 DEF WriteStock
      <4> QED
        BY <2>1, <4>1, <4>2
    <3> QED
      BY <1>2, <3>1, <3>2, <3>3, <3>4 DEF Moves
  <2> QED
    BY <2>1, <2>2, <2>3
<1>3. ASSUME NEW r \in Request, Commit(r)
      PROVE  StockNeverNegative' /\ \A x \in Request : Sound(x)'
  <2>1. /\ UNCHANGED <<order, seen>>
        /\ written'[r] = {}
        /\ pc'[r] = "sold"
        /\ \A x \in Request \ {r} : pc'[x] = pc[x] /\ written'[x] = written[x]
    BY <1>3 DEF Commit, TypeOK
  <2>2. ASSUME NEW f \in Food
        PROVE  stock'[f] >= 0
    <3>1. CASE f \in written[r]
      <4>1. order[r].qty[f] <= seen[r][f]
        BY <1>3, <3>1 DEF Commit, ReliesOnStock
      <4>2. order[r].qty[f] \in Int /\ seen[r][f] \in Int
        BY OrderFields DEF TypeOK
      <4>3. stock'[f] = seen[r][f] - order[r].qty[f]
        BY <1>3, <3>1 DEF Commit, StockAfter
      <4> QED
        BY <4>1, <4>2, <4>3
    <3>2. CASE f \notin written[r]
      BY <1>3, <3>2 DEF Commit, StockAfter
    <3> QED
      BY <3>1, <3>2
  <2> QED
    BY <2>1, <2>2 DEF ReliesOnStock
<1>4. ASSUME NEW r \in Request, DeleteTicket(r)
      PROVE  StockNeverNegative' /\ \A x \in Request : Sound(x)'
  BY <1>4 DEF DeleteTicket, foodVars, requestVars
<1>5. CASE Crash
  <2>1. UNCHANGED <<stock, order, seen>> /\ \A x \in Request : written'[x] = {}
    BY <1>5 DEF Crash, foodVars
  <2>2. \A x \in Request : pc'[x] \notin ReliesOnStock
    BY <1>5, CrashFrame DEF InFlight, InTransaction, Phase, ReliesOnStock, TypeOK
  <2> QED
    BY <2>1, <2>2
<1>6. CASE ChangeProgramme
  BY <1>6 DEF ChangeProgramme, foodVars, requestVars
<1>7. CASE Elsewhere
  <2>1. UNCHANGED requestVars
    BY <1>7, ElsewhereFrame
  <2>2. StockNeverNegative'
    <3>1. CASE UNCHANGED stock
      BY <3>1
    <3>2. ASSUME NEW f \in Food, NEW q \in StockLevel,
                 stock' = [stock EXCEPT ![f] = q]
          PROVE  StockNeverNegative'
      BY <3>2, FoodStockAssumption DEF TypeOK, FoodTypeOK
    <3> QED
      BY <1>7, <3>1, <3>2 DEF Elsewhere, RunTask, ChangeSeatPrice, FoodNext, AddFood,
           CreateFood, CorrectStock, UpdateFood, RemoveFood, DeleteFood, vars, foodVars
  <2> QED
    BY <2>1, <2>2 DEF requestVars
<1> QED
  BY <1>1, <1>2, <1>3, <1>4, <1>5, <1>6, <1>7, StepCases

-----------------------------------------------------------------------------
(* Double bookings.                                                        *)

(* Ending transactions and losing tickets only weakens what OverlapInv asks.*)
LEMMA OverlapShrinks ==
    ASSUME OverlapInv, UNCHANGED <<met, order>>,
           InFlight' \subseteq InFlight, ticket' \subseteq ticket
    PROVE  OverlapInv'
BY DEF OverlapInv, DoubleBookingNeedsOverlap, Place

(* A seat is found free only while nobody the request has not met sells it. *)
LEMMA OverlapStep ==
    ASSUME IInv, [Next]_vars
    PROVE  OverlapInv'
<1> USE DEF IInv
<1>1. ASSUME NEW r \in Request, NEW o \in Orders, CheckSeat(r, o)
      PROVE  OverlapInv'
  <2>1. /\ UNCHANGED ticket
        /\ r \notin ticket
        /\ r \notin InFlight
        /\ order' = [order EXCEPT ![r] = o]
    BY <1>1 DEF CheckSeat, tableVars, SaleInv, TicketIntegrity, InFlight, InTransaction
  <2>2. \A t \in ticket \cup InFlight : Place(t)' = Place(t)
    BY <2>1 DEF Place, TypeOK, InFlight
  <2>3. CASE \E t \in ticket : Place(t) = <<o.premiere, o.seat>>
    <3>1. UNCHANGED met /\ InFlight' = InFlight
      BY <1>1, <2>1, <2>3 DEF CheckSeat, Taken, Fail, InFlight, InTransaction, TypeOK
    <3> HIDE DEF IInv
    <3> QED
      BY <2>1, <2>2, <3>1 DEF IInv, OverlapInv, DoubleBookingNeedsOverlap
  <2>4. CASE ~ \E t \in ticket : Place(t) = <<o.premiere, o.seat>>
    <3>1. met' = [x \in Request |-> IF x = r THEN met[r] \cup InFlight
                                   ELSE IF x \in InFlight THEN met[x] \cup {r}
                                   ELSE met[x]]
      BY <1>1, <2>4 DEF CheckSeat, Taken
    <3>2. InFlight' = InFlight \cup {r}
      BY <1>1, <2>4 DEF CheckSeat, Taken, Goto, InFlight, InTransaction, Phase, TypeOK
    <3>3. Place(r)' = <<o.premiere, o.seat>>
      BY <2>1 DEF Place, TypeOK
    <3>4. InFlight \subseteq Request /\ ticket \subseteq Request
      BY DEF InFlight, TypeOK
    <3>5. \A t, u \in Request : t \in met'[u] => u \in met'[t]
      BY <3>1, <2>1 DEF OverlapInv
    <3>6. \A t, u \in InFlight' : t # u => t \in met'[u]
      BY <3>1, <3>2, <3>4 DEF OverlapInv
    <3>7. \A t \in ticket', u \in InFlight' : Place(t)' = Place(u)' => t \in met'[u]
      BY <2>1, <2>2, <2>4, <3>1, <3>2, <3>3, <3>4 DEF OverlapInv
    <3>8. DoubleBookingNeedsOverlap'
      BY <2>1, <2>2, <3>1, <3>4 DEF OverlapInv, DoubleBookingNeedsOverlap
    <3> QED
      BY <3>5, <3>6, <3>7, <3>8 DEF OverlapInv
  <2> QED
    BY <2>3, <2>4
<1>2. ASSUME NEW r \in Request, Moves(r)
      PROVE  OverlapInv'
  <2>1. /\ UNCHANGED <<met, order, ticket>>
        /\ pc[r] \in InTransaction
        /\ \A x \in Request \ {r} : pc'[x] = pc[x]
    BY <1>2, MovesFrame DEF tableVars
  <2>2. InFlight' \subseteq InFlight
    BY <2>1 DEF InFlight
  <2> QED
    BY <2>1, <2>2, OverlapShrinks
<1>3. ASSUME NEW r \in Request, Commit(r)
      PROVE  OverlapInv'
  <2>1. /\ UNCHANGED <<met, order>>
        /\ ticket' = ticket \cup {r}
        /\ r \in InFlight
    BY <1>3 DEF Commit, InFlight, InTransaction, Phase
  <2>2. InFlight' = InFlight \ {r}
    BY <1>3 DEF Commit, InFlight, InTransaction, TypeOK
  <2>3. \A t \in Request : Place(t)' = Place(t)
    BY <2>1 DEF Place
  <2>4. InFlight \subseteq Request /\ ticket \subseteq Request
    BY DEF InFlight, TypeOK
  <2>5. \A t \in ticket', u \in InFlight' : Place(t)' = Place(u)' => t \in met'[u]
    BY <2>1, <2>2, <2>3, <2>4 DEF OverlapInv
  <2>6. DoubleBookingNeedsOverlap'
    BY <2>1, <2>3, <2>4 DEF OverlapInv, DoubleBookingNeedsOverlap
  <2> QED
    BY <2>1, <2>2, <2>5, <2>6 DEF OverlapInv
<1>4. ASSUME NEW r \in Request, DeleteTicket(r)
      PROVE  OverlapInv'
  BY <1>4, OverlapShrinks
  DEF DeleteTicket, DropTickets, requestVars, historyVars, InFlight
<1>5. CASE Crash
  <2>1. InFlight' \subseteq InFlight /\ UNCHANGED <<met, order, ticket>>
    BY <1>5, CrashFrame DEF InFlight, InTransaction, tableVars
  <2> QED
    BY <2>1, OverlapShrinks
<1>6. CASE ChangeProgramme
  BY <1>6, OverlapShrinks
  DEF ChangeProgramme, DropTickets, requestVars, historyVars, InFlight
<1>7. CASE Elsewhere
  BY <1>7, ElsewhereFrame, OverlapShrinks DEF requestVars, tableVars, InFlight
<1> QED
  BY <1>1, <1>2, <1>3, <1>4, <1>5, <1>6, <1>7, StepCases

-----------------------------------------------------------------------------
(* Lost updates of the stock: a sale that nobody overtook writes what the   *)
(* count of all sales comes to, and one that was overtaken is recorded.    *)
LEMMA RacedStep ==
    ASSUME IInv, [Next]_vars
    PROVE  RacedInv'
<1> DEFINE Exact(f) == f \in Menu \ raced => stock[f] = ideal[f]
           Fresh(r) == pc[r] \in ReliesOnStock =>
                         \A f \in order[r].items :
                             /\ foodRow[f] # "unborn"
                             /\ f \notin stale[r] => seen[r][f] = stock[f]
<1> SUFFICES /\ \A f \in Food : Exact(f)'
             /\ \A r \in Request : Fresh(r)'
  BY DEF RacedInv, StockExactUnlessRaced, Menu
<1>a. /\ \A f \in Food : Exact(f)
      /\ \A r \in Request : Fresh(r)
  BY DEF IInv, RacedInv, StockExactUnlessRaced, Menu
<1>b. \A r \in Request : order[r].items \subseteq Food
  BY OrderFields DEF IInv
<1> USE DEF IInv, TypeOK, FoodTypeOK, Menu
<1>1. ASSUME NEW r \in Request, NEW o \in Orders, CheckSeat(r, o)
      PROVE  (\A f \in Food : Exact(f)') /\ \A x \in Request : Fresh(x)'
  <2>1. UNCHANGED <<foodRow, stock, ideal, raced, seen>>
    BY <1>1 DEF CheckSeat, foodVars
  <2>2. /\ pc'[r] \notin ReliesOnStock
        /\ \A x \in Request \ {r} :
             order'[x] = order[x] /\ pc'[x] = pc[x] /\ stale'[x] = stale[x]
    BY <1>1 DEF CheckSeat, Fail, Goto, Release, ReliesOnStock
  <2> QED
    BY <1>a, <2>1, <2>2
<1>2. ASSUME NEW r \in Request, Moves(r)
      PROVE  (\A f \in Food : Exact(f)') /\ \A x \in Request : Fresh(x)'
  <2> USE DEF Fail, Goto, Release, ReliesOnStock
  <2>1. /\ UNCHANGED <<foodRow, stock, ideal, raced, order>>
        /\ \A x \in Request \ {r} : pc'[x] = pc[x]
    BY <1>2, MovesFrame DEF foodVars
  <2>2. \A x \in Request \ {r} : stale'[x] = stale[x] /\ seen'[x] = seen[x]
    BY <1>2 DEF Moves, ReadSeatPrice, ReadFoods, InsertTicket, InsertLines, WriteStock,
                Announce, Timeout
  <2>3. Fresh(r)'
    <3>1. CASE ReadSeatPrice(r)
      <4>1. pc'[r] \in ReliesOnStock => order[r].items = {}
        BY <3>1 DEF ReadSeatPrice
      <4> QED
        BY <2>1, <4>1
    <3>2. CASE ReadFoods(r)
      <4>1. CASE pc'[r] \in ReliesOnStock
        <5>1. \A f \in order[r].items :
                foodRow[f] = "live" /\ seen'[r][f] = stock[f]
          BY <1>b, <3>2, <4>1 DEF ReadFoods, InStock
        <5> QED
          BY <2>1, <5>1
      <4> QED
        BY <4>1
    <3>3. CASE InsertTicket(r) \/ InsertLines(r) \/ Announce(r) \/ Timeout(r)
      <4>1. /\ seen' = seen
            /\ \/ pc[r] \in ReliesOnStock /\ UNCHANGED stale
               \/ pc'[r] = "failed"
        BY <3>3 DEF InsertTicket, InsertLines, Announce, Timeout
      <4> QED
        BY <1>a, <2>1, <4>1
    <3>4. ASSUME NEW f \in Food, WriteStock(r, f)
          PROVE  Fresh(r)'
      <4>1. /\ seen' = seen
            /\ pc[r] \in ReliesOnStock
            /\ UNCHANGED stale \/ pc'[r] = "failed"
        BY <3>4 DEF WriteStock
      <4> QED
        BY <1>a, <2>1, <4>1
    <3> QED
      BY <1>2, <3>1, <3>2, <3>3, <3>4 DEF Moves
  <2> QED
    BY <1>a, <2>1, <2>2, <2>3
<1>3. ASSUME NEW r \in Request, Commit(r)
      PROVE  (\A f \in Food : Exact(f)') /\ \A x \in Request : Fresh(x)'
  <2>1. /\ UNCHANGED <<foodRow, order, seen>>
        /\ pc'[r] = "sold"
        /\ pc[r] \in ReliesOnStock
        /\ \A x \in Request \ {r} : pc'[x] = pc[x]
        /\ raced' = raced \cup (written[r] \cap stale[r])
    BY <1>3 DEF Commit, ReliesOnStock
  <2>2. ASSUME NEW f \in Food
        PROVE  Exact(f)'
    <3>1. CASE f \in written[r]
      <4>1. /\ stock'[f] = seen[r][f] - order[r].qty[f]
            /\ ideal'[f] = ideal[f] - order[r].qty[f]
        BY <1>3, <3>1 DEF Commit, StockAfter
      <4>2. f \in order[r].items
        BY <3>1 DEF StockInv
      <4>3. f \notin stale[r] => seen[r][f] = stock[f]
        BY <1>a, <2>1, <4>2
      <4> QED
        BY <1>a, <2>1, <3>1, <4>1, <4>3
    <3>2. CASE f \notin written[r]
      <4>1. stock'[f] = stock[f] /\ ideal'[f] = ideal[f]
        BY <1>3, <3>2 DEF Commit, StockAfter
      <4> QED
        BY <1>a, <2>1, <4>1
    <3> QED
      BY <3>1, <3>2
  <2>3. ASSUME NEW x \in Request
        PROVE  Fresh(x)'
    <3>1. CASE x = r
      BY <2>1, <3>1 DEF ReliesOnStock
    <3>2. CASE x # r
      <4>1. stale'[x] = IF pc[x] \in ReliesOnStock
                        THEN stale[x] \cup (written[r] \cap order[x].items)
                        ELSE stale[x]
        BY <1>3, <3>2 DEF Commit, Overtake
      <4>2. \A f \in Food : f \notin written[r] => stock'[f] = stock[f]
        BY <1>3 DEF Commit, StockAfter
      <4> QED
        BY <1>a, <1>b, <2>1, <3>2, <4>1, <4>2
    <3> QED
      BY <3>1, <3>2
  <2> QED
    BY <2>2, <2>3
<1>4. ASSUME NEW r \in Request, DeleteTicket(r)
      PROVE  (\A f \in Food : Exact(f)') /\ \A x \in Request : Fresh(x)'
  BY <1>a, <1>4 DEF DeleteTicket, foodVars, requestVars, historyVars
<1>5. CASE Crash
  <2>1. \A x \in Request : pc'[x] \notin ReliesOnStock
    BY <1>5, CrashFrame DEF InFlight, InTransaction, Phase, ReliesOnStock
  <2> QED
    BY <1>a, <1>5, <2>1, CrashFrame DEF foodVars
<1>6. CASE ChangeProgramme
  BY <1>a, <1>6 DEF ChangeProgramme, foodVars, requestVars, historyVars
<1>7. CASE Elsewhere
  <2>1. UNCHANGED requestVars
    BY <1>7, ElsewhereFrame
  <2>2. ASSUME NEW f \in Food, NEW q \in StockLevel, AddFood(f, q)
        PROVE  (\A g \in Food : Exact(g)') /\ \A x \in Request : Fresh(x)'
    BY <1>a, <1>b, <2>1, <2>2 DEF AddFood, CreateFood, requestVars
  <2>3. ASSUME NEW f \in Food, NEW q \in StockLevel, CorrectStock(f, q)
        PROVE  (\A g \in Food : Exact(g)') /\ \A x \in Request : Fresh(x)'
    BY <1>a, <1>b, <2>1, <2>3 DEF CorrectStock, UpdateFood, Overtake, requestVars
  <2>4. ASSUME NEW f \in Food, RemoveFood(f)
        PROVE  (\A g \in Food : Exact(g)') /\ \A x \in Request : Fresh(x)'
    BY <1>a, <1>b, <2>1, <2>4 DEF RemoveFood, DeleteFood, historyVars, requestVars
  <2>5. CASE (\E t \in outbox : RunTask(t)) \/ ChangeSeatPrice \/ UNCHANGED vars
    BY <1>a, <2>5 DEF RunTask, ChangeSeatPrice, vars, foodVars, requestVars, historyVars
  <2> QED
    BY <1>7, <2>2, <2>3, <2>4, <2>5 DEF Elsewhere, FoodNext
<1> QED
  BY <1>1, <1>2, <1>3, <1>4, <1>5, <1>6, <1>7, StepCases

-----------------------------------------------------------------------------
(* The invariant and what follows from it.                                 *)

(* It holds before the first request.                                      *)
LEMMA InitIInv == Init => IInv
<1> SUFFICES ASSUME Init
             PROVE  IInv
  OBVIOUS
<1>1. TypeOK
  BY InitType
<1>2. SaleInv
  BY DEF Init, SaleInv, TicketIntegrity, HoldsPremiere
<1>3. \A f \in Food : stock[f] >= 0
  <2>1. stock \in [Food -> StockLevel]
    BY DEF Init, FoodInit
  <2>2. \A f \in Food : stock[f] \in StockLevel
    BY <2>1
  <2>3. \A q \in StockLevel : q >= 0
    BY FoodStockAssumption
  <2> QED
    BY <2>2, <2>3
<1>4. StockInv
  BY <1>3 DEF Init, StockInv, StockNeverNegative, ReliesOnStock
<1>5. OverlapInv
  BY DEF Init, OverlapInv, DoubleBookingNeedsOverlap, InFlight, InTransaction
<1>6. RacedInv
  BY DEF Init, RacedInv, StockExactUnlessRaced, ReliesOnStock
<1> QED
  BY <1>1, <1>2, <1>4, <1>5, <1>6 DEF IInv

(* It is inductive, so it holds in every reachable state.                  *)
THEOREM Invariance == Spec => []IInv
<1>1. IInv /\ [Next]_vars => IInv'
  BY StepType, SaleStep, StockStep, OverlapStep, RacedStep DEF IInv
<1> QED
  BY <1>1, InitIInv, PTL DEF Spec

(* Paid tickets have a premiere and exactly their own food lines, for any  *)
(* number of concurrent sales, cancellations and programme changes.        *)
THEOREM TicketsStayWhole == Spec => []TicketIntegrity
<1>1. IInv => TicketIntegrity
  BY DEF IInv, SaleInv
<1> QED
  BY <1>1, Invariance, PTL

(* No interleaving of sales, corrections and crashes drives a stock below  *)
(* zero, whatever quantities are ordered.                                  *)
THEOREM StockStaysNonNegative == Spec => []StockNeverNegative
<1>1. IInv => StockNeverNegative
  BY DEF IInv, StockInv
<1> QED
  BY <1>1, Invariance, PTL

(* Only transactions that were open at the same time can both sell a seat. *)
THEOREM OnlyOverlapDoubleBooks == Spec => []DoubleBookingNeedsOverlap
<1>1. IInv => DoubleBookingNeedsOverlap
  BY DEF IInv, OverlapInv
<1> QED
  BY <1>1, Invariance, PTL

(* Only a write computed from a stale read loses count of the stock.       *)
THEOREM OnlyStaleReadsLoseCount == Spec => []StockExactUnlessRaced
<1>1. IInv => StockExactUnlessRaced
  BY DEF IInv, RacedInv
<1> QED
  BY <1>1, Invariance, PTL

-----------------------------------------------------------------------------
(* What serialisation would give.                                          *)

(* When nothing overlaps, no request has company and no read gets stale.   *)
LEMMA SerialStep ==
    ASSUME IInv, SerialInv, [Next]_vars
    PROVE  SerialInv'
<1> SUFFICES ASSUME Serial
             PROVE  (/\ \A r \in Request : met[r] = {} /\ stale[r] = {}
                     /\ raced = {})'
  BY DEF SerialInv
<1> USE DEF IInv, SerialInv, TypeOK
<1>1. ASSUME NEW r \in Request, NEW o \in Orders, CheckSeat(r, o)
      PROVE  (\A x \in Request : met'[x] = {} /\ stale'[x] = {}) /\ raced' = {}
  <2>1. InFlight = {}
    BY <1>1 DEF CheckSeat
  <2>2. \A x \in Request : met'[x] = {}
    BY <1>1, <2>1 DEF CheckSeat
  <2>3. \A x \in Request : stale'[x] = {}
    BY <1>1 DEF CheckSeat, Fail, Release, Goto
  <2> QED
    BY <1>1, <2>2, <2>3 DEF CheckSeat
<1>2. ASSUME NEW r \in Request, Moves(r)
      PROVE  (\A x \in Request : met'[x] = {} /\ stale'[x] = {}) /\ raced' = {}
  <2>1. \A x \in Request : stale'[x] = {}
    <3> USE DEF Fail, Release, Goto
    <3>1. CASE ReadSeatPrice(r) \/ ReadFoods(r) \/ InsertTicket(r) \/ InsertLines(r)
      BY <3>1 DEF ReadSeatPrice, ReadFoods, InsertTicket, InsertLines
    <3>2. CASE (\E f \in Food : WriteStock(r, f)) \/ Announce(r) \/ Timeout(r)
      BY <3>2 DEF WriteStock, Announce, Timeout
    <3> QED
      BY <1>2, <3>1, <3>2 DEF Moves
  <2> QED
    BY <1>2, <2>1, MovesFrame
<1>3. ASSUME NEW r \in Request, Commit(r)
      PROVE  (\A x \in Request : met'[x] = {} /\ stale'[x] = {}) /\ raced' = {}
  <2>1. r \in InFlight
    BY <1>3 DEF Commit, InFlight, InTransaction, Phase
  <2>2. \A x \in Request \ {r} : pc[x] \notin ReliesOnStock
    BY <2>1 DEF OverlapInv, InFlight, InTransaction, Phase, ReliesOnStock
  <2>3. \A x \in Request : stale'[x] = {}
    BY <1>3, <2>2 DEF Commit, Overtake
  <2> QED
    BY <1>3, <2>3 DEF Commit
<1>4. ASSUME NEW r \in Request, DeleteTicket(r)
      PROVE  UNCHANGED historyVars
  BY <1>4 DEF DeleteTicket
<1>5. CASE Crash
  BY <1>5 DEF Crash
<1>6. CASE ChangeProgramme
  BY <1>6 DEF ChangeProgramme, historyVars
<1>7. CASE Elsewhere
  <2>1. ASSUME NEW f \in Food, NEW q \in StockLevel, CorrectStock(f, q)
        PROVE  (\A x \in Request : met'[x] = {} /\ stale'[x] = {}) /\ raced' = {}
    <3>1. \A x \in Request : pc[x] \notin ReliesOnStock
      BY <2>1 DEF CorrectStock, InFlight, InTransaction, Phase, ReliesOnStock
    <3> QED
      BY <2>1, <3>1 DEF CorrectStock, Overtake
  <2>2. CASE UNCHANGED <<met, stale, raced>>
    BY <2>2
  <2> QED
    BY <1>7, <2>1, <2>2 DEF Elsewhere, RunTask, ChangeSeatPrice, FoodNext, AddFood,
                            RemoveFood, vars, historyVars
<1> QED
  BY <1>1, <1>2, <1>3, <1>4, <1>5, <1>6, <1>7, StepCases DEF historyVars

(* It holds from the start.                                                *)
LEMMA SerialInvariance == Spec => [](IInv /\ SerialInv)
<1>1. Init => SerialInv
  BY DEF Init, SerialInv
<1> QED
  BY <1>1, Invariance, SerialStep, PTL DEF Spec

(* If ticket transactions did not overlap, createTicket's look-up would be *)
(* enough: no place would be sold twice, whatever the programme does.      *)
THEOREM SerialSellsOnce == Serial => (Spec => []NoDoubleBooking)
<1> SUFFICES ASSUME Serial
             PROVE  Spec => []NoDoubleBooking
  OBVIOUS
<1>1. IInv /\ SerialInv => NoDoubleBooking
  BY DEF IInv, TypeOK, OverlapInv, DoubleBookingNeedsOverlap, SerialInv, NoDoubleBooking
<1> QED
  BY <1>1, SerialInvariance, PTL

(* And the absolute stock writes would count every sale.                   *)
THEOREM SerialCountsEverySale == Serial => (Spec => []StockCountsEverySale)
<1> SUFFICES ASSUME Serial
             PROVE  Spec => []StockCountsEverySale
  OBVIOUS
<1>1. IInv /\ SerialInv => StockCountsEverySale
  BY DEF IInv, RacedInv, StockExactUnlessRaced, SerialInv, StockCountsEverySale
<1> QED
  BY <1>1, SerialInvariance, PTL

-----------------------------------------------------------------------------
(***************************************************************************)
(* Booking without overlapping transactions implements TicketOffice.       *)
(***************************************************************************)

(* A locked food stays on the menu, and a sale commits all it ordered.     *)
LEMMA LockStep ==
    ASSUME IInv, LockInv, [Next]_vars
    PROVE  LockInv'
<1> DEFINE Held(r) ==
      /\ written[r] \subseteq Menu
      /\ pc[r] \in {"insert", "lines"} => written[r] = {}
      /\ pc[r] \in {"announce", "commit"} => written[r] = order[r].items
<1> SUFFICES \A r \in Request : Held(r)'
  BY DEF LockInv
<1> USE DEF IInv, TypeOK, LockInv
<1>1. ASSUME NEW r \in Request, NEW o \in Orders, CheckSeat(r, o)
      PROVE  \A x \in Request : Held(x)'
  <2>1. UNCHANGED foodRow /\ pc'[r] \in {"price", "failed"} /\ pc[r] = "idle"
    BY <1>1 DEF CheckSeat, Fail, Goto, foodVars
  <2>2. \A x \in Request \ {r} :
          /\ order'[x] = order[x] /\ pc'[x] = pc[x] /\ written'[x] = written[x]
    BY <1>1 DEF CheckSeat, Fail, Goto, Release
  <2>3. written'[r] = {} \/ written'[r] = written[r]
    BY <1>1 DEF CheckSeat, Fail, Goto, Release
  <2> QED
    BY <2>1, <2>2, <2>3 DEF Menu
<1>2. ASSUME NEW r \in Request, Moves(r)
      PROVE  \A x \in Request : Held(x)'
  <2>1. /\ UNCHANGED <<foodRow, order>>
        /\ \A x \in Request \ {r} : pc'[x] = pc[x]
    BY <1>2, MovesFrame DEF foodVars
  <2>2. \A x \in Request \ {r} : written'[x] = written[x]
    BY <1>2 DEF Moves, ReadSeatPrice, ReadFoods, InsertTicket, InsertLines, WriteStock,
                Announce, Timeout, Fail, Release, Goto
  <2>3. Held(r)'
    <3> USE DEF Fail, Goto, Release, Menu
    <3>1. CASE ReadSeatPrice(r) \/ ReadFoods(r)
      <4>1. written[r] = {}
        BY <3>1 DEF ReadSeatPrice, ReadFoods, StockInv, ReliesOnStock
      <4> QED
        BY <2>1, <3>1, <4>1 DEF ReadSeatPrice, ReadFoods
    <3>2. CASE InsertTicket(r) \/ InsertLines(r)
      BY <2>1, <3>2 DEF InsertTicket, InsertLines
    <3>3. ASSUME NEW f \in Food, WriteStock(r, f)
          PROVE  Held(r)'
      <4>1. CASE f \in Menu
        <5>1. written'[r] = written[r] \cup {f}
          BY <3>3, <4>1 DEF WriteStock
        <5>2. pc'[r] \in {"announce", "stock"}
          BY <3>3, <4>1 DEF WriteStock
        <5>3. pc'[r] = "announce" => order[r].items = written[r] \cup {f}
          BY <3>3, <4>1 DEF WriteStock
        <5> QED
          BY <2>1, <4>1, <5>1, <5>2, <5>3
      <4>2. CASE f \notin Menu
        BY <2>1, <3>3, <4>2 DEF WriteStock
      <4> QED
        BY <4>1, <4>2
    <3>4. CASE Announce(r) \/ Timeout(r)
      BY <2>1, <3>4 DEF Announce, Timeout
    <3> QED
      BY <1>2, <3>1, <3>2, <3>3, <3>4 DEF Moves
  <2> QED
    BY <2>1, <2>2, <2>3 DEF Menu
<1>3. ASSUME NEW r \in Request, Commit(r)
      PROVE  \A x \in Request : Held(x)'
  BY <1>3 DEF Commit, Menu
<1>4. ASSUME NEW r \in Request, DeleteTicket(r)
      PROVE  \A x \in Request : Held(x)'
  BY <1>4 DEF DeleteTicket, foodVars, requestVars, Menu
<1>5. CASE Crash
  <2>1. \A x \in Request : pc'[x] \notin InTransaction
    BY <1>5, CrashFrame DEF InFlight, InTransaction, Phase
  <2>2. \A x \in Request : written'[x] = {}
    BY <1>5 DEF Crash
  <2> QED
    BY <2>1, <2>2 DEF InTransaction, Phase
<1>6. CASE ChangeProgramme
  BY <1>6 DEF ChangeProgramme, foodVars, requestVars, Menu
<1>7. CASE Elsewhere
  <2>1. UNCHANGED requestVars
    BY <1>7, ElsewhereFrame
  <2>2. \A f \in Menu : f \in Menu' \/ ~Locked(f)
    BY <1>7 DEF Elsewhere, FoodNext, RunTask, ChangeSeatPrice, AddFood, CreateFood,
                CorrectStock, UpdateFood, RemoveFood, DeleteFood, Menu, vars,
                foodVars, FoodTypeOK
  <2>3. \A x \in Request : \A f \in written[x] : Locked(f)
    BY DEF Locked, StockInv, InFlight, InTransaction, Phase, ReliesOnStock
  <2> QED
    BY <2>1, <2>2, <2>3 DEF requestVars
<1> QED
  BY <1>1, <1>2, <1>3, <1>4, <1>5, <1>6, <1>7, StepCases

(* All the invariants the mapping rests on.                                *)
LEMMA OfficeInvariance == Spec => [](IInv /\ SerialInv /\ LockInv)
<1>1. Init => LockInv
  BY DEF Init, LockInv
<1> QED
  BY <1>1, SerialInvariance, LockStep, PTL DEF Spec

-----------------------------------------------------------------------------
(* The office opens with nothing sold and its shelves filled.              *)
LEMMA OpenOffice == Init => Office!Init
<1> SUFFICES ASSUME Init
             PROVE  Office!Init
  OBVIOUS
<1>1. BookedPlaces = {}
  BY DEF Init, BookedPlaces
<1>2. Menu \subseteq Food
  BY DEF Menu
<1>3. stock \in [Food -> StockLevel]
  BY DEF Init, FoodInit
<1> QED
  BY <1>1, <1>2, <1>3 DEF Office!Init

(* A commit is a sale: the place is free and the food is there.            *)
LEMMA CommitSells ==
    ASSUME IInv, SerialInv, LockInv, Serial, NEW r \in Request, Commit(r)
    PROVE  Office!Next
<1> DEFINE place  == Place(r)
           basket == [f \in Food |-> IF f \in order[r].items
                                     THEN order[r].qty[f] ELSE 0]
<1> USE DEF IInv, TypeOK
<1>1. pc[r] = "commit" /\ written[r] = order[r].items
  BY DEF Commit, LockInv
<1>2. order[r] \in Orders
  BY <1>1
<1>3. place \in Premiere \X Seat
  BY <1>2, BookingAssumption DEF Place, Order
<1>4. basket \in Baskets
  BY <1>2 DEF Baskets
<1>5. place \notin BookedPlaces
  <2>1. \A t \in ticket : Place(t) = Place(r) => t \in met[r]
    BY <1>1 DEF OverlapInv, InFlight, InTransaction, Phase
  <2> QED
    BY <2>1 DEF SerialInv, BookedPlaces
<1>6. \A f \in order[r].items : seen[r][f] = stock[f] /\ order[r].qty[f] <= seen[r][f]
  BY <1>1 DEF RacedInv, StockInv, SerialInv, ReliesOnStock
<1>7. \A f \in Food : basket[f] # 0 => f \in Menu /\ basket[f] <= stock[f]
  BY <1>1, <1>6 DEF LockInv
<1>8. BookedPlaces' = BookedPlaces \cup {place}
  <2>1. ticket' = ticket \cup {r} /\ order' = order
    BY DEF Commit
  <2>2. \A t : Place(t)' = Place(t)
    BY <2>1 DEF Place
  <2> QED
    BY <2>1, <2>2 DEF BookedPlaces
<1>9. stock' = [f \in Food |-> stock[f] - basket[f]]
  <2>1. stock' = StockAfter(r)
    BY DEF Commit
  <2>2. \A f \in Food : StockAfter(r)[f] = stock[f] - basket[f]
    <3>1. \A f \in Food : stock[f] \in Int
      BY DEF FoodTypeOK
    <3> QED
      BY <1>1, <1>6, <3>1 DEF StockAfter
  <2>3. StockAfter(r) = [f \in Food |-> StockAfter(r)[f]]
    BY DEF StockAfter
  <2> HIDE DEF basket
  <2> QED
    BY <2>1, <2>2, <2>3
<1>10. UNCHANGED Menu
  BY DEF Commit, Menu
<1>11. Office!Sell(place, basket)
  <2> HIDE DEF place, basket
  <2> QED
    BY <1>5, <1>7, <1>8, <1>9, <1>10 DEF Office!Sell
<1> HIDE DEF place, basket
<1> QED
  BY <1>3, <1>4, <1>11 DEF Office!Next

(* Tickets that go, one by one or with a premiere, vacate their places.    *)
LEMMA DropVacates ==
    ASSUME IInv, SerialInv, Serial, NEW gone \in SUBSET ticket, DropTickets(gone),
           UNCHANGED <<order, foodVars>>
    PROVE  Office!Next
<1> DEFINE places == {Place(t) : t \in gone}
<1>1. places \in SUBSET BookedPlaces
  BY DEF BookedPlaces
<1>2. \A t, u \in ticket : Place(t) = Place(u) => t = u
  BY DEF IInv, TypeOK, OverlapInv, DoubleBookingNeedsOverlap, SerialInv
<1>3. BookedPlaces' = BookedPlaces \ places
  <2>1. \A t : Place(t)' = Place(t)
    BY DEF Place
  <2>2. BookedPlaces' = {Place(t) : t \in ticket \ gone}
    BY <2>1 DEF BookedPlaces, DropTickets
  <2> QED
    BY <1>2, <2>2 DEF BookedPlaces
<1>4. UNCHANGED <<Menu, stock>>
  BY DEF Menu, foodVars
<1>5. Office!Vacate(places)
  BY <1>3, <1>4 DEF Office!Vacate
<1> HIDE DEF places
<1> QED
  BY <1>1, <1>5 DEF Office!Next

(* Nothing else the ticket office does not know of changes what it sees.   *)
LEMMA OfficeStep ==
    ASSUME IInv, SerialInv, LockInv, Serial, [Next]_vars
    PROVE  [Office!Next]_(Office!officeVars)
<1> USE DEF Office!officeVars
<1>1. ASSUME UNCHANGED <<ticket, order, foodRow, stock>>
      PROVE  UNCHANGED Office!officeVars
  BY <1>1 DEF BookedPlaces, Place, Menu
<1>2. ASSUME NEW r \in Request, NEW o \in Orders, CheckSeat(r, o)
      PROVE  UNCHANGED Office!officeVars
  <2>1. UNCHANGED <<ticket, foodRow, stock>>
    BY <1>2 DEF CheckSeat, tableVars, foodVars
  <2>2. \A t \in ticket : Place(t)' = Place(t)
    BY <1>2 DEF CheckSeat, Place, IInv, TypeOK, SaleInv, TicketIntegrity
  <2> QED
    BY <2>1, <2>2 DEF BookedPlaces, Menu
<1>3. ASSUME NEW r \in Request, Moves(r)
      PROVE  UNCHANGED Office!officeVars
  BY <1>1, <1>3, MovesFrame DEF IInv, tableVars, foodVars
<1>4. ASSUME NEW r \in Request, Commit(r)
      PROVE  Office!Next
  BY <1>4, CommitSells
<1>5. ASSUME NEW r \in Request, DeleteTicket(r)
      PROVE  Office!Next
  BY <1>5, DropVacates DEF DeleteTicket, requestVars
<1>6. CASE Crash
  BY <1>1, <1>6, CrashFrame DEF IInv, tableVars, foodVars
<1>7. CASE ChangeProgramme
  <2>1. TicketsFor(WithdrawnPremieres) \in SUBSET ticket
    BY DEF TicketsFor
  <2> QED
    BY <1>7, <2>1, DropVacates DEF ChangeProgramme, requestVars
<1>8. ASSUME NEW f \in Food, NEW q \in StockLevel, AddFood(f, q) \/ CorrectStock(f, q)
      PROVE  Office!Next
  <2>1. UNCHANGED <<ticket, order>>
    BY <1>8 DEF AddFood, CorrectStock, tableVars, requestVars
  <2>2. UNCHANGED BookedPlaces
    BY <2>1 DEF BookedPlaces, Place
  <2>3. Menu' = Menu \cup {f} /\ stock' = [stock EXCEPT ![f] = q]
    BY <1>8 DEF AddFood, CorrectStock, CreateFood, UpdateFood, Menu, IInv, TypeOK,
                FoodTypeOK
  <2>4. Office!Fill(f, q)
    BY <2>2, <2>3 DEF Office!Fill
  <2> QED
    BY <2>4 DEF Office!Next
<1>9. ASSUME NEW f \in Food, RemoveFood(f)
      PROVE  Office!Next
  <2>1. UNCHANGED <<ticket, order, stock>>
    BY <1>9 DEF RemoveFood, DeleteFood, tableVars, requestVars
  <2>2. UNCHANGED BookedPlaces
    BY <2>1 DEF BookedPlaces, Place
  <2>3. Menu' = Menu \ {f}
    BY <1>9 DEF RemoveFood, DeleteFood, Menu, IInv, TypeOK, FoodTypeOK
  <2>4. Office!Discontinue(f)
    BY <2>1, <2>2, <2>3 DEF Office!Discontinue
  <2> QED
    BY <2>4 DEF Office!Next
<1>10. CASE (\E t \in outbox : RunTask(t)) \/ ChangeSeatPrice \/ UNCHANGED vars
  BY <1>1, <1>10 DEF RunTask, ChangeSeatPrice, vars, tableVars, foodVars, requestVars
<1> QED
  BY <1>2, <1>3, <1>4, <1>5, <1>6, <1>7, <1>8, <1>9, <1>10, StepCases
     DEF Elsewhere, FoodNext

(* Selling tickets with transactions that do not overlap is what the       *)
(* ticket office does, for any programme, menu and number of customers.    *)
THEOREM SerialImplementsOffice == Serial => (Spec => SellsLikeAnOffice)
<1> SUFFICES ASSUME Serial
             PROVE  Spec => SellsLikeAnOffice
  OBVIOUS
<1>1. IInv /\ SerialInv /\ LockInv /\ [Next]_vars => [Office!Next]_(Office!officeVars)
  BY OfficeStep
<1> QED
  BY <1>1, OfficeInvariance, OpenOffice, PTL DEF Spec, SellsLikeAnOffice, Office!Spec
=============================================================================
