---------------------------- MODULE StockLedger ----------------------------
(***************************************************************************)
(* What the inventory service would do if every delivery and every request *)
(* took effect in one step, on the stock and on the reservation rows       *)
(* together.  Module Inventory, which runs the same operations statement   *)
(* by statement, takes steps of this module until two transactions about   *)
(* the same product overlap.  Lines are compared with the stock one by     *)
(* one, so an order that repeats a product may take more than there is.    *)
(***************************************************************************)
EXTENDS Integers, FiniteSets

CONSTANTS Products, Stocked, InitialStock, Txns, Kind, OrderOf, Lines

VARIABLES
  stock,    \* stock[p]: available and reserved units of p
  rows,     \* reservation rows
  outcome   \* outcome[t]: "open" until t has taken effect

vars == <<stock, rows, outcome>>

Init ==
  /\ stock = [p \in Products |->
                [available |-> IF p \in Stocked THEN InitialStock[p] ELSE 0,
                 reserved |-> 0]]
  /\ rows = {}
  /\ outcome = [t \in Txns |-> "open"]

\* One element for each unit of p that the entries are about.
UnitsIn(entries, p) ==
  UNION {{e} \X (1..e.quantity) : e \in {x \in entries : x.product = p}}

Units(entries, p) == Cardinality(UnitsIn(entries, p))

Ends(t, result) ==
  /\ outcome[t] = "open"
  /\ outcome' = [outcome EXCEPT ![t] = result]

\* There is enough for every line, each taken alone.
Coverable(t) ==
  \A l \in Lines[t] : /\ l.product \in Stocked
                      /\ stock[l.product].available >= l.quantity

Moved(available, reserved) ==
  stock' = [p \in Products |->
              [available |-> stock[p].available + available[p],
               reserved |-> stock[p].reserved + reserved[p]]]

Reserve(t) ==
  /\ Kind[t] = "reserve"
  /\ Coverable(t)
  /\ Ends(t, "done")
  /\ Moved([p \in Products |-> -Units(Lines[t], p)],
           [p \in Products |-> Units(Lines[t], p)])
  /\ rows' = rows \cup
       {[by |-> t, line |-> l.line, order |-> OrderOf[t], product |-> l.product,
         quantity |-> l.quantity, status |-> "RESERVED"] : l \in Lines[t]}

Refuse(t) ==
  /\ Kind[t] = "reserve"
  /\ ~Coverable(t)
  /\ Ends(t, "refused")
  /\ UNCHANGED <<stock, rows>>

\* Payment outcomes settle whatever the order has RESERVED at that moment.
Open(t) == {r \in rows : r.order = OrderOf[t] /\ r.status = "RESERVED"}

Close(t, status) ==
  /\ Ends(t, "done")
  /\ rows' = (rows \ Open(t)) \cup {[r EXCEPT !.status = status] : r \in Open(t)}

Confirm(t) ==
  /\ Kind[t] = "confirm"
  /\ Close(t, "CONFIRMED")
  /\ Moved([p \in Products |-> 0], [p \in Products |-> -Units(Open(t), p)])

GiveBack(t) ==
  /\ Kind[t] = "release"
  /\ Close(t, "RELEASED")
  /\ Moved([p \in Products |-> Units(Open(t), p)],
           [p \in Products |-> -Units(Open(t), p)])

Add(t) ==
  /\ Kind[t] = "add"
  /\ \A l \in Lines[t] : l.product \in Stocked
  /\ Ends(t, "done")
  /\ Moved([p \in Products |-> Units(Lines[t], p)], [p \in Products |-> 0])
  /\ UNCHANGED rows

\* There is no row for the product, or the database did not answer.
FailToAdd(t) ==
  /\ Kind[t] = "add"
  /\ Ends(t, "failed")
  /\ UNCHANGED <<stock, rows>>

Next == \E t \in Txns :
  Reserve(t) \/ Refuse(t) \/ Confirm(t) \/ GiveBack(t) \/ Add(t) \/ FailToAdd(t)

Spec == Init /\ [][Next]_vars
=============================================================================
