----------------------------- MODULE FoodStock -----------------------------
(***************************************************************************)
(* The foodAndBeverage table as FoodService changes it.  Only the stock of *)
(* a row is kept: its name, description and price decide nothing here.     *)
(* Each operation is one write statement; the look-up that precedes the    *)
(* write of updateFood only chooses the error a missing row is reported    *)
(* with.  Booking adds the row locks of running ticket transactions.       *)
(***************************************************************************)
EXTENDS Integers

CONSTANTS
    Food,        \* ids the table may hand out
    StockLevel,  \* quantities a manager enters
    InitialFood  \* the foods on sale at the start

ASSUME FoodStockAssumption ==
    /\ StockLevel \subseteq Nat     \* @Min(0) in both DTOs
    /\ InitialFood \subseteq Food

VARIABLES
    foodRow,  \* life of each row; an id is never used twice
    stock     \* FoodAndBeverage.quantity

foodVars == <<foodRow, stock>>

FoodTypeOK ==
    /\ foodRow \in [Food -> {"unborn", "live", "gone"}]
    /\ stock \in [Food -> Int]

FoodInit ==
    /\ foodRow = [f \in Food |-> IF f \in InitialFood THEN "live" ELSE "unborn"]
    /\ stock \in [Food -> StockLevel]

Menu == {f \in Food : foodRow[f] = "live"}

CreateFood(f, q) ==
    /\ foodRow[f] = "unborn"
    /\ foodRow' = [foodRow EXCEPT ![f] = "live"]
    /\ stock' = [stock EXCEPT ![f] = q]

(* An absolute write: the quantity the form was submitted with.            *)
UpdateFood(f, q) ==
    /\ f \in Menu
    /\ stock' = [stock EXCEPT ![f] = q]
    /\ UNCHANGED foodRow

DeleteFood(f) ==
    /\ f \in Menu
    /\ foodRow' = [foodRow EXCEPT ![f] = "gone"]
    /\ UNCHANGED stock
=============================================================================
