--------------------------- MODULE AmountsProofs ---------------------------
(***************************************************************************)
(* Stock is not held without a reason, for any orders with any lines, any  *)
(* width of the columns and any number of repeated deliveries.             *)
(***************************************************************************)
EXTENDS Amounts, TLAPS

\* What is delivered is about an order that was accepted.
PendingAccepted == \A e \in pending : e[2][1] \in accepted

IInv == TypeOK /\ PendingAccepted /\ HeldHasReason

\* The events of a batch.
LEMMA EventsTyped ==
  /\ \A o \in Orders : <<"order.created", <<o, 0>>>> \in EventsOf
  /\ \A o \in Orders, n \in Batches, name \in {"inventory.reserved"} \cup Outcomes :
       <<name, <<o, n>>>> \in EventsOf
BY DEF EventsOf

LEMMA InitIInv == Init => IInv
<1> SUFFICES ASSUME Init PROVE IInv
  OBVIOUS
<1>1. TypeOK
  BY BoundsAssumption DEF Init, TypeOK
<1> QED
  BY <1>1 DEF Init, IInv, PendingAccepted, HeldHasReason

\* What handling an event does apart from the rows it settles or writes.
LEMMA HandledStep ==
  ASSUME IInv, NEW e \in EventsOf, NEW next \in SUBSET EventsOf, Handled(e, next),
         \A f \in next : f[2][1] = e[2][1],
         holding' \in SUBSET (accepted \X Batches)
  PROVE  TypeOK' /\ PendingAccepted'
<1>1. /\ accepted' = accepted /\ rejected' = rejected /\ throws' = throws /\ dead' = dead
      /\ e \in pending /\ pending' \subseteq pending \cup next
      /\ repeats' = repeats \/ (repeats < MaxRepeats /\ repeats' = repeats + 1)
  BY DEF Handled
<1>2. repeats' \in 0..MaxRepeats
  BY <1>1, BoundsAssumption DEF IInv, TypeOK
<1>3. TypeOK'
  BY <1>1, <1>2 DEF IInv, TypeOK
<1> QED
  BY <1>1, <1>3 DEF IInv, PendingAccepted

\* A throw leaves its event pending or gives it up.
LEMMA ThrowsStep ==
  ASSUME IInv, NEW e \in EventsOf, Throws(e),
         \A o \in Orders, n \in Batches : e = <<"inventory.reserved", <<o, n>>>> => Lost(o, n)
  PROVE  IInv'
<1>1. /\ accepted' = accepted /\ rejected' = rejected /\ holding' = holding
      /\ repeats' = repeats /\ dead \subseteq dead' /\ dead' \subseteq dead \cup {e}
      /\ pending' \subseteq pending /\ pending \ pending' \subseteq {e} \cap dead'
  BY DEF Throws
<1>2. throws' \in [EventsOf -> 0..MaxRetries]
  BY BoundsAssumption DEF Throws, IInv, TypeOK
<1>3. TypeOK' /\ PendingAccepted'
  BY <1>1, <1>2 DEF IInv, TypeOK, PendingAccepted
<1>4. HeldHasReason'
  <2> SUFFICES ASSUME NEW o \in Orders, NEW n \in Batches, <<o, n>> \in holding'
               PROVE  \/ \E name \in {"inventory.reserved"} \cup Outcomes :
                           <<name, <<o, n>>>> \in pending'
                      \/ Lost(o, n)'
    BY DEF HeldHasReason
  <2>1. Lost(o, n) => Lost(o, n)'
    BY <1>1 DEF Lost
  <2>2. CASE Lost(o, n)
    BY <2>1, <2>2
  <2>3. CASE ~Lost(o, n)
    <3>1. PICK name \in {"inventory.reserved"} \cup Outcomes : <<name, <<o, n>>>> \in pending
      BY <1>1, <2>3 DEF IInv, HeldHasReason
    <3>2. CASE <<name, <<o, n>>>> \in pending'
      BY <3>2
    <3>3. CASE <<name, <<o, n>>>> \notin pending'
      <4>1. e = <<name, <<o, n>>>> /\ e \in dead'
        BY <1>1, <3>1, <3>3
      <4>2. name \in Outcomes
        BY <2>3, <4>1
      <4> QED
        BY <4>1, <4>2 DEF Lost
    <3> QED
      BY <3>2, <3>3
  <2> QED
    BY <2>2, <2>3
<1> QED
  BY <1>3, <1>4 DEF IInv

\* Handling an event gives no batch up, and each batch that it leaves RESERVED
\* has another event to come.
LEMMA HandledReason ==
  ASSUME IInv, NEW e \in EventsOf, NEW next \in SUBSET EventsOf, Handled(e, next),
         \A b \in holding' : \/ b \in holding /\ e[2] # b
                             \/ b \in holding /\ e[1] = "order.created"
                             \/ \E name \in {"inventory.reserved"} \cup Outcomes :
                                  <<name, b>> \in next
  PROVE  HeldHasReason'
<1>1. dead' = dead /\ pending \ {e} \subseteq pending' /\ next \subseteq pending'
  BY DEF Handled
<1> SUFFICES ASSUME NEW o \in Orders, NEW n \in Batches, <<o, n>> \in holding', ~Lost(o, n)'
             PROVE  \E name \in {"inventory.reserved"} \cup Outcomes :
                      <<name, <<o, n>>>> \in pending'
  BY DEF HeldHasReason
<1>2. ~Lost(o, n)
  BY <1>1 DEF Lost
<1>3. CASE <<o, n>> \in holding /\ (e[2] # <<o, n>> \/ e[1] = "order.created")
  <2>1. PICK name \in {"inventory.reserved"} \cup Outcomes : <<name, <<o, n>>>> \in pending
    BY <1>2, <1>3 DEF IInv, HeldHasReason
  <2>2. name # "order.created"
    BY DEF Outcomes
  <2>3. <<name, <<o, n>>>> # e
    BY <1>3, <2>2
  <2> QED
    BY <1>1, <2>1, <2>3
<1>4. CASE \E name \in {"inventory.reserved"} \cup Outcomes : <<name, <<o, n>>>> \in next
  BY <1>1, <1>4
<1> QED
  BY <1>3, <1>4

LEMMA PostStep ==
  ASSUME IInv, NEW o \in Orders, Post(o)
  PROVE  IInv'
<1>1. /\ accepted \subseteq accepted' /\ holding' = holding /\ dead' = dead
      /\ pending \subseteq pending'
  BY DEF Post
<1>2. TypeOK' /\ PendingAccepted'
  BY EventsTyped DEF Post, IInv, TypeOK, PendingAccepted
<1>3. HeldHasReason'
  BY <1>1 DEF IInv, HeldHasReason, Lost
<1> QED
  BY <1>2, <1>3 DEF IInv

LEMMA ReserveStep ==
  ASSUME IInv, NEW o \in Orders, Reserve(o) \/ Refuse(o)
  PROVE  IInv'
<1> DEFINE e == <<"order.created", <<o, 0>>>>
<1>0. e \in EventsOf /\ e[1] = "order.created" /\ e[2][1] = o
  BY EventsTyped
<1>1. o \in accepted /\ repeats \in Batches /\ holding \in SUBSET (accepted \X Batches)
  BY <1>0 DEF IInv, TypeOK, PendingAccepted, Batches, Reserve, Refuse, Handled
<1>2. CASE Reserve(o)
  <2> DEFINE next == {<<"inventory.reserved", <<o, repeats>>>>}
  <2>1. next \in SUBSET EventsOf /\ \A f \in next : f[2][1] = o
    BY <1>1, EventsTyped
  <2>2. Handled(e, next) /\ holding' = holding \cup {<<o, repeats>>}
    BY <1>2 DEF Reserve
  <2>3. holding' \in SUBSET (accepted \X Batches)
    BY <1>1, <2>2
  <2>4. TypeOK' /\ PendingAccepted'
    BY <1>0, <2>1, <2>2, <2>3, HandledStep
  <2>5. HeldHasReason'
    BY <1>0, <2>1, <2>2, HandledReason
  <2> QED
    BY <2>4, <2>5 DEF IInv
<1>3. CASE Refuse(o)
  <2>1. Handled(e, {}) /\ holding' = holding
    BY <1>3 DEF Refuse
  <2>2. TypeOK' /\ PendingAccepted'
    BY <1>0, <1>1, <2>1, HandledStep
  <2>3. HeldHasReason'
    BY <1>0, <2>1, HandledReason
  <2> QED
    BY <2>2, <2>3 DEF IInv
<1> QED
  BY <1>2, <1>3

LEMMA PayStep ==
  ASSUME IInv, NEW o \in Orders, NEW n \in Batches, NEW outcome \in Outcomes,
         Pay(o, n, outcome)
  PROVE  IInv'
<1> DEFINE e == <<"inventory.reserved", <<o, n>>>>
           next == {<<outcome, <<o, n>>>>}
<1>1. e \in EventsOf /\ next \in SUBSET EventsOf /\ \A f \in next : f[2][1] = e[2][1]
  <2>1. e \in EventsOf /\ <<outcome, <<o, n>>>> \in EventsOf
    BY EventsTyped
  <2> QED
    BY <2>1
<1>2. Handled(e, next) /\ holding' = holding
  BY DEF Pay
<1>3. TypeOK' /\ PendingAccepted'
  BY <1>1, <1>2, HandledStep DEF IInv, TypeOK
<1>4. HeldHasReason'
  BY <1>1, <1>2, HandledReason
<1> QED
  BY <1>3, <1>4 DEF IInv

LEMMA SettleStep ==
  ASSUME IInv, NEW o \in Orders, NEW n \in Batches, NEW outcome \in Outcomes,
         Settle(o, n, outcome)
  PROVE  IInv'
<1> DEFINE e == <<outcome, <<o, n>>>>
<1>1. e \in EventsOf
  BY EventsTyped
<1>2. Handled(e, {}) /\ holding' \subseteq holding /\ <<o, n>> \notin holding'
  BY DEF Settle
<1>3. TypeOK' /\ PendingAccepted'
  BY <1>1, <1>2, HandledStep DEF IInv, TypeOK
<1>4. HeldHasReason'
  BY <1>1, <1>2, HandledReason
<1> QED
  BY <1>3, <1>4 DEF IInv

LEMMA NextIInv == IInv /\ [Next]_vars => IInv'
<1> SUFFICES ASSUME IInv, [Next]_vars PROVE IInv'
  OBVIOUS
<1>1. CASE UNCHANGED vars
  BY <1>1 DEF vars, IInv, TypeOK, PendingAccepted, HeldHasReason, Lost
<1>2. ASSUME NEW o \in Orders, Post(o) PROVE IInv'
  BY <1>2, PostStep
<1>3. ASSUME NEW o \in Orders, Deliver(o) PROVE IInv'
  <2>1. CASE Reserve(o) \/ Refuse(o)
    BY <2>1, ReserveStep
  <2>2. CASE ReserveThrows(o)
    BY <2>2, EventsTyped, ThrowsStep DEF ReserveThrows
  <2>3. ASSUME NEW n \in Batches, PaymentThrows(o, n) PROVE IInv'
    <3>1. Lost(o, n)
      BY <2>3 DEF PaymentThrows, Payable, Lost
    <3>2. <<"inventory.reserved", <<o, n>>>> \in EventsOf
      BY EventsTyped
    <3> QED
      BY <2>3, <3>1, <3>2, ThrowsStep DEF PaymentThrows
  <2>4. ASSUME NEW n \in Batches, NEW outcome \in Outcomes, Pay(o, n, outcome) PROVE IInv'
    BY <2>4, PayStep
  <2>5. ASSUME NEW n \in Batches, NEW outcome \in Outcomes, Settle(o, n, outcome) PROVE IInv'
    BY <2>5, SettleStep
  <2>6. ASSUME NEW n \in Batches, NEW outcome \in Outcomes, SettleThrows(o, n, outcome)
        PROVE  IInv'
    <3>1. <<outcome, <<o, n>>>> \in EventsOf
      BY EventsTyped
    <3>2. outcome # "inventory.reserved"
      BY DEF Outcomes
    <3> QED
      BY <2>6, <3>1, <3>2, ThrowsStep DEF SettleThrows
  <2> QED
    BY <1>3, <2>1, <2>2, <2>3, <2>4, <2>5, <2>6 DEF Deliver
<1> QED
  BY <1>1, <1>2, <1>3 DEF Next

LEMMA InvariantHolds == Spec => []IInv
BY InitIInv, NextIInv, PTL DEF Spec

\* Every variable stays of its type, and nothing is ever held for an order
\* that was not accepted.
THEOREM TypesHold == Spec => []TypeOK
<1>1. IInv => TypeOK
  BY DEF IInv
<1> QED
  BY <1>1, InvariantHolds, PTL

\* Stock that is reserved has a payment or a settlement to come, however often
\* events are repeated, handlers throw and settlements of other batches
\* interfere, unless its amount does not fit or its settlement was given up.
THEOREM HeldForAReason == Spec => []HeldHasReason
<1>1. IInv => HeldHasReason
  BY DEF IInv
<1> QED
  BY <1>1, InvariantHolds, PTL
=============================================================================
