---------------------------- MODULE MCInventory ----------------------------
(* Small instances of Inventory.  A cfg chooses the transactions by Txns;   *)
(* their names say what they do and for which order.                        *)
EXTENDS Inventory, TLC

MCOneUnit == [p \in Products |-> 1]
MCTwoUnits == [p \in Products |-> 2]

MCKind == [t \in Txns |->
  CASE t \in {"reserve1", "reserve2", "reserveCups"} -> "reserve"
    [] t \in {"confirm1", "confirm2"} -> "confirm"
    [] t \in {"release1", "release2"} -> "release"
    [] t \in {"add1", "addMissing"} -> "add"]

MCOrderOf == [t \in Txns |->
  CASE t \in {"reserve2", "reserveCups", "confirm2", "release2"} -> "order2"
    [] OTHER -> "order1"]

LineOf(n, p) == [line |-> n, product |-> p, quantity |-> 1]

\* reserve1 and reserve2 list the same two products in opposite order;
\* reserveCups lists one product in two lines.
MCLines == [t \in Txns |->
  CASE t = "reserve1" -> {LineOf(1, "tea"), LineOf(2, "cup")}
    [] t = "reserve2" -> {LineOf(1, "cup"), LineOf(2, "tea")}
    [] t = "reserveCups" -> {LineOf(1, "cup"), LineOf(2, "cup")}
    [] t = "add1" -> {LineOf(1, "tea")}
    [] t = "addMissing" -> {LineOf(1, "pot")}
    [] OTHER -> {}]
=============================================================================
