------------------------------ MODULE MCAmounts ------------------------------
(* A small instance of Amounts: columns hold up to 4, a unit costs 2 in a   *)
(* payment.  The total of "even" and its payment are the largest that fit;  *)
(* the total of "large" fits and its payment does not; the total of "dear"  *)
(* does not fit.                                                            *)
EXTENDS Amounts

MCLine(quantity, price) == [quantity |-> quantity, price |-> price]

MCLines ==
  [o \in Orders |->
     CASE o = "even"  -> <<MCLine(1, 2), MCLine(1, 2)>>
       [] o = "large" -> <<MCLine(1, 2), MCLine(2, 1)>>
       [] o = "dear"  -> <<MCLine(2, 3)>>]
=============================================================================
