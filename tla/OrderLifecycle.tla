--------------------------- MODULE OrderLifecycle ---------------------------
(***************************************************************************)
(* What the checkout promises for an order when no process dies and no     *)
(* handler throws: stock is held once or refused once, what is held is     *)
(* sold or given back once as the one payment decides, and the status the  *)
(* customer sees follows, never ahead of what the other services have      *)
(* committed.  No events, copies or handlers: Checkout is shown to         *)
(* implement this.                                                         *)
(***************************************************************************)
CONSTANT Orders

VARIABLES
  status,  \* status[o]: what the customer is told
  hold,    \* hold[o]: what became of o's stock
  charge   \* charge[o]: what became of o's payment

vars == <<status, hold, charge>>

Init ==
  /\ status = [o \in Orders |-> "NONE"]
  /\ hold = [o \in Orders |-> "none"]
  /\ charge = [o \in Orders |-> "none"]

-----------------------------------------------------------------------------
(* What happens to an order.                                               *)

Place(o) ==
  /\ status[o] = "NONE"
  /\ status' = [status EXCEPT ![o] = "PENDING"]
  /\ UNCHANGED <<hold, charge>>

\* Whether there is enough is for the stock ledger to say.
Hold(o) ==
  /\ status[o] # "NONE"
  /\ hold[o] = "none"
  /\ hold' = [hold EXCEPT ![o] = "held"]
  /\ UNCHANGED <<status, charge>>

Refuse(o) ==
  /\ status[o] # "NONE"
  /\ hold[o] = "none"
  /\ hold' = [hold EXCEPT ![o] = "refused"]
  /\ UNCHANGED <<status, charge>>

Charge(o) ==
  /\ hold[o] = "held"
  /\ charge[o] = "none"
  /\ charge' = [charge EXCEPT ![o] = "pending"]
  /\ UNCHANGED <<status, hold>>

Decide(o, outcome) ==
  /\ charge[o] = "pending"
  /\ charge' = [charge EXCEPT ![o] = outcome]
  /\ UNCHANGED <<status, hold>>

Sell(o) ==
  /\ hold[o] = "held"
  /\ charge[o] = "approved"
  /\ hold' = [hold EXCEPT ![o] = "sold"]
  /\ UNCHANGED <<status, charge>>

GiveBack(o) ==
  /\ hold[o] = "held"
  /\ charge[o] = "declined"
  /\ hold' = [hold EXCEPT ![o] = "returned"]
  /\ UNCHANGED <<status, charge>>

-----------------------------------------------------------------------------
(* What the customer is told of it, at any time after.                     *)

Show(o, from, to) ==
  /\ status[o] = from
  /\ status' = [status EXCEPT ![o] = to]
  /\ UNCHANGED <<hold, charge>>

ShowReserved(o) ==
  hold[o] \notin {"none", "refused"} /\ Show(o, "PENDING", "INVENTORY_RESERVED")

ShowCancelled(o) == hold[o] = "refused" /\ Show(o, "PENDING", "CANCELLED")

ShowPaid(o) == charge[o] = "approved" /\ Show(o, "INVENTORY_RESERVED", "PAID")

ShowFailed(o) ==
  charge[o] = "declined" /\ Show(o, "INVENTORY_RESERVED", "PAYMENT_FAILED")

Next ==
  \E o \in Orders :
    \/ Place(o) \/ Hold(o) \/ Refuse(o) \/ Charge(o) \/ Sell(o) \/ GiveBack(o)
    \/ \E outcome \in {"approved", "declined"} : Decide(o, outcome)
    \/ ShowReserved(o) \/ ShowCancelled(o) \/ ShowPaid(o) \/ ShowFailed(o)

Spec == Init /\ [][Next]_vars
=============================================================================
