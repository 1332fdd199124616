------------------------------- MODULE Amounts -------------------------------
(***************************************************************************)
(* Totals and payment amounts with the width of their int columns.  A      *)
(* JavaScript number does not overflow, but a row whose column does not    *)
(* hold it is refused: the request answers 500, or the handler throws and  *)
(* the event is retried and at last given up.  The order service and the   *)
(* payment service each compute from the lines of the order what they      *)
(* store, so the one may accept what the other can never store.            *)
(*                                                                         *)
(* Whether stock is there, and whether the inventory's columns hold the    *)
(* new quantities, is left open (see Inventory); so is the order's status  *)
(* (see Checkout).  Processes do not crash here, but an event may be       *)
(* delivered again after it was handled.                                   *)
(***************************************************************************)
EXTENDS Integers, Sequences, Functions

CONSTANTS
  Orders,        \* order requests
  Lines,         \* Lines[o]: sequence of [quantity, price]
  UnitCents,     \* placeholder price of a unit: 100 in the code
  MaxInt,        \* largest value of an int column: 2^31 - 1
  MaxRetries,    \* throws of a handler before its event is dead-lettered
  MaxRepeats     \* bound: deliveries of events already handled

Line == [quantity : Nat \ {0}, price : Nat \ {0}]

\* CreateOrderDto: at least one line, positive numbers.
ASSUME LinesAssumption == /\ Lines \in [Orders -> Seq(Line)]
                          /\ \A o \in Orders : Lines[o] # <<>>
ASSUME BoundsAssumption == {UnitCents, MaxInt, MaxRetries, MaxRepeats} \subseteq Nat

\* An order.created event is handled again only after a repeat, so the number
\* of repeats before it was handled tells apart the reservations it has led to.
Batches == 0..MaxRepeats

\* The later events of an order come from one of its batches.
Outcomes == {"payment.succeeded", "payment.failed"}
EventsOf == ({"order.created"} \X (Orders \X {0}))
              \cup (({"inventory.reserved"} \cup Outcomes) \X (Orders \X Batches))

VARIABLES
  accepted,   \* orders whose row is saved
  rejected,   \* order requests answered 500
  holding,    \* batches of reservation rows that are RESERVED: <<order, batch>>
  pending,    \* events to be delivered to their working consumer
  throws,     \* throws[e]: throws of e's handler
  dead,       \* events given up
  repeats     \* events handled once more, so far

vars == <<accepted, rejected, holding, pending, throws, dead, repeats>>

Init ==
  /\ accepted = {}
  /\ rejected = {}
  /\ holding = {}
  /\ pending = {}
  /\ throws = [e \in EventsOf |-> 0]
  /\ dead = {}
  /\ repeats = 0

-----------------------------------------------------------------------------
(* What is computed from the lines of an order.                            *)

Fits(n) == n \in -MaxInt - 1 .. MaxInt

\* The order's total, from the prices the client sends.
TotalPriceCents ==
  [o \in Orders |->
     SumFunction([i \in DOMAIN Lines[o] |-> Lines[o][i].price * Lines[o][i].quantity])]

\* calculateTemporaryAmount: the payment's amount, from the quantities alone.
AmountCents ==
  [o \in Orders |->
     SumFunction([i \in DOMAIN Lines[o] |-> Lines[o][i].quantity * UnitCents])]


\* Orders whose payment can be stored.
Payable == {o \in Orders : Fits(AmountCents[o])}

Storable(o) ==
  /\ Fits(TotalPriceCents[o])
  /\ \A i \in DOMAIN Lines[o] : Fits(Lines[o][i].quantity) /\ Fits(Lines[o][i].price)

-----------------------------------------------------------------------------
(* Delivery.                                                               *)

\* e has been handled and has led to the events next.  Its ack may get lost
\* or another copy of it be on the way, and then it comes again.
Handled(e, next) ==
  /\ e \in pending
  /\ \/ pending' = (pending \ {e}) \cup next /\ UNCHANGED repeats
     \/ /\ repeats < MaxRepeats
        /\ repeats' = repeats + 1
        /\ pending' = pending \cup next
  /\ UNCHANGED <<accepted, rejected, throws, dead>>

\* Mutant: the last retry is counted once more.
ThrowsOnceMore(e) ==
  /\ e \in pending
  /\ IF throws[e] <= MaxRetries
     THEN /\ throws' = [throws EXCEPT ![e] = @ + 1]
          /\ UNCHANGED <<pending, dead>>
     ELSE /\ pending' = pending \ {e}
          /\ dead' = dead \cup {e}
          /\ UNCHANGED throws
  /\ UNCHANGED <<accepted, rejected, holding, repeats>>

\* e's handler throws, having changed nothing: a retry, and a dead letter in
\* the end.
Throws(e) ==
  /\ e \in pending
  /\ IF throws[e] < MaxRetries
     THEN /\ throws' = [throws EXCEPT ![e] = @ + 1]
          /\ UNCHANGED <<pending, dead>>
     ELSE /\ pending' = pending \ {e}
          /\ dead' = dead \cup {e}
          /\ UNCHANGED throws
  /\ UNCHANGED <<accepted, rejected, holding, repeats>>

-----------------------------------------------------------------------------
(* The request and the handlers.                                           *)

\* POST /orders.
Post(o) ==
  /\ o \notin accepted \cup rejected
  /\ IF Storable(o)
     THEN /\ accepted' = accepted \cup {o}
          /\ pending' = pending \cup {<<"order.created", <<o, 0>>>>}
          /\ UNCHANGED rejected
     ELSE /\ rejected' = rejected \cup {o}
          /\ UNCHANGED <<accepted, pending>>
  /\ UNCHANGED <<holding, throws, dead, repeats>>

Reserve(o) ==
  /\ Handled(<<"order.created", <<o, 0>>>>, {<<"inventory.reserved", <<o, repeats>>>>})
  /\ holding' = holding \cup {<<o, repeats>>}

Refuse(o) ==
  /\ Handled(<<"order.created", <<o, 0>>>>, {})
  /\ UNCHANGED holding

\* A column does not hold the new quantity.
ReserveThrows(o) == Throws(<<"order.created", <<o, 0>>>>)

\* shouldApprovePayment may answer either.
Pay(o, n, outcome) ==
  /\ o \in Payable
  /\ Handled(<<"inventory.reserved", <<o, n>>>>, {<<outcome, <<o, n>>>>})
  /\ UNCHANGED holding

\* The PENDING payment cannot be saved.
PaymentThrows(o, n) ==
  /\ o \notin Payable
  /\ Throws(<<"inventory.reserved", <<o, n>>>>)

\* Mutant: the rows' status is not saved.
SettleKeepingRows(o, n, outcome) ==
  /\ Handled(<<outcome, <<o, n>>>>, {})
  /\ UNCHANGED holding

\* confirm and release settle the rows they have found RESERVED: those of the
\* batch that the event comes from, unless settled since, and those of other
\* batches of the order that were there by then.
Settle(o, n, outcome) ==
  /\ Handled(<<outcome, <<o, n>>>>, {})
  /\ \E found \in SUBSET (holding \cap ({o} \X Batches)) :
       /\ <<o, n>> \in holding => <<o, n>> \in found
       /\ holding' = holding \ found

\* A column does not hold the new quantity.
SettleThrows(o, n, outcome) == Throws(<<outcome, <<o, n>>>>)

Deliver(o) ==
  \/ Reserve(o) \/ Refuse(o) \/ ReserveThrows(o)
  \/ \E n \in Batches :
       \/ PaymentThrows(o, n)
       \/ \E outcome \in Outcomes :
            Pay(o, n, outcome) \/ Settle(o, n, outcome) \/ SettleThrows(o, n, outcome)

Next == \E o \in Orders : Post(o) \/ Deliver(o)

Spec == Init /\ [][Next]_vars

\* A pending event is delivered again and again until it is handled or dead;
\* nobody owes an order.
FairSpec == Spec /\ WF_vars(\E o \in Orders : Deliver(o))

-----------------------------------------------------------------------------
(* Properties.                                                             *)

TypeOK ==
  /\ accepted \in SUBSET Orders
  /\ rejected \in SUBSET (Orders \ accepted)
  /\ holding \in SUBSET (accepted \X Batches)
  /\ pending \in SUBSET EventsOf
  /\ throws \in [EventsOf -> 0..MaxRetries]
  /\ dead \in SUBSET EventsOf
  /\ repeats \in 0..MaxRepeats

\* The payment amount does not fit, or the settlement was given up.
Lost(o, n) == ~Fits(AmountCents[o]) \/ \E outcome \in Outcomes : <<outcome, <<o, n>>>> \in dead

\* Stock that is reserved will be paid for or settled, or else its payment
\* amount does not fit or its settlement was given up: whatever is handled
\* twice, throws, or settles another batch of the order.
HeldHasReason ==
  \A o \in Orders, n \in Batches :
    <<o, n>> \in holding =>
      \/ \E name \in {"inventory.reserved"} \cup Outcomes : <<name, <<o, n>>>> \in pending
      \/ Lost(o, n)

\* In the end no stock is left reserved, except where the payment amount does
\* not fit or the settlement was given up.
SettledUnlessTooLarge ==
  <>[](\A o \in Orders, n \in Batches : <<o, n>> \in holding => Lost(o, n))

=============================================================================
