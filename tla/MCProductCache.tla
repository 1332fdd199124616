--------------------------- MODULE MCProductCache ---------------------------
(* A small instance of ProductCache: a product is created and, as soon as   *)
(* it is there (or too early), two requests update a column of it each.     *)
EXTENDS ProductCache

MCInitial == <<>>

MCKind == [w \in Writes |-> IF w = "post" THEN "create" ELSE "update"]
MCTarget == [w \in Writes |-> "mug"]

MCChange == [w \in Writes |->
  CASE w = "post" -> [c \in Columns |-> "old"]
    [] w = "patchName" -> [c \in {"name"} |-> "new"]
    [] w = "patchPrice" -> [c \in {"priceCents"} |-> "new"]]

MCKeyOf == [r \in Reads |-> IF r = "list" THEN List ELSE "mug"]
=============================================================================
