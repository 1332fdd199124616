--------------------------- MODULE CheckoutProofs ---------------------------
(***************************************************************************)
(* What holds of module Checkout for every set of orders and of notified   *)
(* events, every retry limit and any number of crashes and failures: the   *)
(* types, Provenance, and that reserved stock is pursued until an attempt  *)
(* is refused or a copy given up.  One copy handed on, dropped or fanned   *)
(* out is what every step comes to: the first lemmas are about that.       *)
(***************************************************************************)
EXTENDS Checkout, SequenceTheorems, TLAPS

CopiesType == [Queues -> [Orders -> [Stages -> Nat]]]

-----------------------------------------------------------------------------
(* Sequences: the batches of an order and the copies that found some.      *)

\* What is left of a sequence without its i-th element.
LEMMA RemoveAtFacts ==
  ASSUME NEW S, NEW s \in Seq(S), NEW i \in DOMAIN s
  PROVE  /\ RemoveAt(s, i) \in Seq(S)
         /\ Len(RemoveAt(s, i)) = Len(s) - 1
         /\ \A k \in DOMAIN s : k # i =>
              \E j \in DOMAIN RemoveAt(s, i) : RemoveAt(s, i)[j] = s[k]
<1>1. Len(s) \in Nat /\ i \in 1..Len(s) /\ DOMAIN s = 1..Len(s)
  BY LenProperties
<1>2. PICK a : a = SubSeq(s, 1, i-1)
  OBVIOUS
<1>3. PICK b : b = SubSeq(s, i+1, Len(s))
  OBVIOUS
<1>4. PICK c : c = a \o b
  OBVIOUS
<1>5. a \in Seq(S) /\ Len(a) = i - 1 /\ \A j \in 1..(i-1) : a[j] = s[j]
  BY <1>1, <1>2, SubSeqProperties, ElementOfSeq, Z3
<1>6. b \in Seq(S) /\ Len(b) = Len(s) - i /\ \A j \in 1..(Len(s)-i) : b[j] = s[i+j]
  BY <1>1, <1>3, SubSeqProperties, ElementOfSeq, Z3
<1>7. /\ c \in Seq(S)
      /\ Len(c) = Len(a) + Len(b)
      /\ \A j \in 1..(Len(a) + Len(b)) : c[j] = IF j <= Len(a) THEN a[j] ELSE b[j - Len(a)]
  BY <1>4, <1>5, <1>6, ConcatProperties, Zenon
<1>8. Len(c) = Len(s) - 1 /\ DOMAIN c = 1..(Len(s)-1)
  BY <1>1, <1>5, <1>6, <1>7, LenProperties
<1>9. ASSUME NEW k \in DOMAIN s, k # i PROVE \E j \in DOMAIN c : c[j] = s[k]
  <2>1. CASE k < i
    <3>1. k \in 1..(Len(a) + Len(b)) /\ k <= Len(a) /\ k \in 1..(i-1) /\ k \in DOMAIN c
      BY <1>1, <1>5, <1>6, <1>8, <2>1
    <3> QED BY <1>5, <1>7, <3>1
  <2>2. CASE k > i
    <3>1. /\ k - 1 \in 1..(Len(a) + Len(b)) /\ ~(k - 1 <= Len(a)) /\ k - 1 \in DOMAIN c
          /\ (k - 1) - Len(a) \in 1..(Len(s)-i) /\ i + ((k - 1) - Len(a)) = k
      <4>1. k \in Int /\ i \in Int /\ Len(s) \in Int /\ 1 <= i /\ k <= Len(s) /\ i < k
        BY <1>1, <2>2
      <4>2. Len(a) = i - 1 /\ Len(b) = Len(s) - i /\ DOMAIN c = 1..(Len(s)-1)
        BY <1>5, <1>6, <1>8
      <4>3. Len(a) + Len(b) = Len(s) - 1 /\ (k - 1) - Len(a) = k - i
        BY <4>1, <4>2, SMTT(30)
      <4>4. ~(k - 1 <= Len(a))
        BY <4>1, <4>2
      <4>5. k - 1 \in 1..(Len(s)-1) /\ k - i \in 1..(Len(s)-i) /\ i + (k - i) = k
        BY <4>1
      <4> QED BY <4>2, <4>3, <4>4, <4>5
    <3>2. c[k - 1] = b[(k - 1) - Len(a)]
      BY <1>7, <3>1
    <3>3. c[k - 1] = s[k]
      BY <1>6, <3>1, <3>2
    <3> QED BY <3>1, <3>3
  <2> QED BY <1>1, <1>9, <2>1, <2>2
<1>10. RemoveAt(s, i) = c
  BY <1>2, <1>3, <1>4 DEF RemoveAt
<1> QED BY <1>7, <1>8, <1>9, <1>10

\* What Append does to an order's batches, or to the copies that found some.
LEMMA AppendFacts ==
  ASSUME NEW S, NEW s \in Seq(S), NEW e \in S
  PROVE  /\ Append(s, e) \in Seq(S)
         /\ Append(s, e) # <<>>
         /\ Len(Append(s, e)) = Len(s) + 1
         /\ DOMAIN s \subseteq DOMAIN Append(s, e)
         /\ Len(s) + 1 \in DOMAIN Append(s, e)
         /\ DOMAIN Append(s, e) = DOMAIN s \cup {Len(s) + 1}
         /\ Append(s, e)[Len(s) + 1] = e
         /\ \A k \in DOMAIN s : Append(s, e)[k] = s[k]
<1>1. Len(s) \in Nat /\ DOMAIN s = 1..Len(s)
  BY LenProperties
<1>2. /\ Append(s, e) \in Seq(S)
      /\ Append(s, e) # <<>>
      /\ Len(Append(s, e)) = Len(s) + 1
      /\ \A k \in 1..Len(s) : Append(s, e)[k] = s[k]
      /\ Append(s, e)[Len(s) + 1] = e
  BY AppendProperties
<1>3. DOMAIN Append(s, e) = 1..(Len(s) + 1)
  BY <1>2, LenProperties
<1> QED BY <1>1, <1>2, <1>3

\* Settling some batches leaves as many as there were.
LEMMA SettledFacts ==
  ASSUME NEW s \in Seq(ReservationStatus), NEW status \in ReservationStatus,
         NEW set, NEW t,
         t = [b \in DOMAIN s |-> IF b \in set THEN status ELSE s[b]]
  PROVE  /\ t \in Seq(ReservationStatus)
         /\ DOMAIN t = DOMAIN s
         /\ Len(t) = Len(s)
         /\ t = <<>> <=> s = <<>>
         /\ \A b \in DOMAIN s : t[b] = IF b \in set THEN status ELSE s[b]
<1>1. /\ Len(s) \in Nat /\ DOMAIN s = 1..Len(s)
      /\ \A b \in 1..Len(s) : s[b] \in ReservationStatus
  BY LenProperties, ElementOfSeq
<1>2. t \in [1..Len(s) -> ReservationStatus]
  BY <1>1
<1>3. t \in Seq(ReservationStatus)
  BY <1>1, <1>2, SeqDef
<1>4. Len(t) = Len(s) /\ DOMAIN t = DOMAIN s
  BY <1>1, <1>2, <1>3, LenProperties
<1>5. \A u \in Seq(ReservationStatus) : u = <<>> <=> Len(u) = 0
  BY EmptySeq
<1> QED BY <1>3, <1>4, <1>5

-----------------------------------------------------------------------------
(* What the operators on copies do, copy by copy.                          *)

LEMMA QueueFacts ==
  /\ OrderInventoryReserved \in Queues
  /\ OrderReservationFailed \in Queues
  /\ OrderPaymentSucceeded \in Queues
  /\ OrderPaymentFailed \in Queues
  /\ InventoryOrderCreated \in Queues
  /\ InventoryPaymentSucceeded \in Queues
  /\ InventoryPaymentFailed \in Queues
  /\ PaymentInventoryReserved \in Queues
  /\ WorkQueues \subseteq Queues
  /\ NotificationQueues \subseteq Queues
  /\ SettlementQueues \subseteq Queues
<1> USE DEF Queues, WorkQueues, OrderQueues, InventoryQueues, SettlementQueues
<1>1. OrderQueues \cup InventoryQueues \cup {PaymentInventoryReserved} \subseteq Queues
  OBVIOUS
<1> QED BY <1>1

LEMMA EventFacts ==
  /\ OrderInventoryReserved.event = "inventory.reserved"
  /\ OrderReservationFailed.event = "inventory.reservation_failed"
  /\ OrderPaymentSucceeded.event = "payment.succeeded"
  /\ OrderPaymentFailed.event = "payment.failed"
  /\ InventoryOrderCreated.event = "order.created"
  /\ InventoryPaymentSucceeded.event = "payment.succeeded"
  /\ InventoryPaymentFailed.event = "payment.failed"
  /\ PaymentInventoryReserved.event = "inventory.reserved"
BY DEF OrderInventoryReserved, OrderReservationFailed, OrderPaymentSucceeded,
       OrderPaymentFailed, InventoryOrderCreated, InventoryPaymentSucceeded,
       InventoryPaymentFailed, PaymentInventoryReserved, Queue

\* Move takes one copy from stage a to stage b and touches no other.
LEMMA MoveLemma ==
  ASSUME copies \in CopiesType, NEW q \in Queues, NEW o \in Orders,
         NEW a \in Stages, NEW b \in Stages, a # b, copies[q][o][a] > 0
  PROVE  /\ Move(q, o, a, b) \in CopiesType
         /\ \A r \in Queues, x \in Orders, s \in Stages :
              /\ r = q /\ x = o /\ s = a =>
                   Move(q, o, a, b)[r][x][s] = copies[r][x][s] - 1
              /\ r = q /\ x = o /\ s = b =>
                   Move(q, o, a, b)[r][x][s] = copies[r][x][s] + 1
              /\ ~(r = q /\ x = o /\ s \in {a, b}) =>
                   Move(q, o, a, b)[r][x][s] = copies[r][x][s]
BY DEF Move, CopiesType

\* Drop takes one copy away and touches no other.
LEMMA DropLemma ==
  ASSUME copies \in CopiesType, NEW q \in Queues, NEW o \in Orders,
         NEW a \in Stages, copies[q][o][a] > 0
  PROVE  /\ Drop(q, o, a) \in CopiesType
         /\ \A r \in Queues, x \in Orders, s \in Stages :
              /\ Drop(q, o, a)[r][x][s] <= copies[r][x][s]
              /\ ~(r = q /\ x = o /\ s = a) => Drop(q, o, a)[r][x][s] = copies[r][x][s]
              /\ r = q /\ x = o /\ s = a =>
                   Drop(q, o, a)[r][x][s] = copies[r][x][s] - 1
BY DEF Drop, CopiesType

\* Fanout adds copies of the event and takes none away.
LEMMA FanoutLemma ==
  ASSUME NEW from \in CopiesType, NEW event, NEW o \in Orders, NEW t \in Stages
  PROVE  /\ Fanout(from, event, o, t) \in CopiesType
         /\ \A r \in Queues, x \in Orders, s \in Stages :
              IF r.event = event /\ x = o /\ s = t
              THEN Fanout(from, event, o, t)[r][x][s] = from[r][x][s] + 1
              ELSE Fanout(from, event, o, t)[r][x][s] = from[r][x][s]
BY DEF Fanout, CopiesType

LEMMA SumOfNine ==
  ASSUME NEW a \in Nat, NEW b \in Nat, NEW c \in Nat, NEW d \in Nat, NEW e \in Nat,
         NEW f \in Nat, NEW g \in Nat, NEW h \in Nat, NEW i \in Nat
  PROVE  /\ a + b + c + d + e + f + g + h + i \in Nat
         /\ \A x \in {a, b, c, d, e, f, g, h, i} : a + b + c + d + e + f + g + h + i >= x
         /\ a + b + c + d + e + f + g + h + i > 0 =>
              \E x \in {a, b, c, d, e, f, g, h, i} : x > 0
OBVIOUS

\* Requeueing leaves a copy in its stage or puts it back to "ready".
LEMMA RequeuedLemma ==
  ASSUME copies \in CopiesType, NEW service
  PROVE  /\ Requeued(service) \in CopiesType
         /\ \A r \in Queues, x \in Orders, s \in Stages :
              /\ Requeued(service)[r][x][s] > 0 =>
                   \/ copies[r][x][s] > 0
                   \/ s = "ready" /\ \E t \in Stages : copies[r][x][t] > 0
              /\ s # "ready" => Requeued(service)[r][x][s] <= copies[r][x][s]
              /\ r.service # service => Requeued(service)[r][x][s] = copies[r][x][s]
              /\ r.service = service /\ s \notin {"retry", "ready"} =>
                   Requeued(service)[r][x][s] = 0
<1> DEFINE n(r, x) == copies[r][x]
           back(r, x) == n(r, x)["ready"] + n(r, x)["write"] + n(r, x)["checked"]
                           + n(r, x)["reserved"] + n(r, x)["refused"] + n(r, x)["found"]
                           + n(r, x)["approved"] + n(r, x)["declined"] + n(r, x)["done"]
<1>1. ASSUME NEW r \in Queues, NEW x \in Orders, NEW s \in Stages
      PROVE  /\ n(r, x)[s] \in Nat
             /\ back(r, x) \in Nat
             /\ back(r, x) > 0 => \E t \in Stages : n(r, x)[t] > 0
  <2>1. \A t \in Stages : n(r, x)[t] \in Nat
    BY <1>1 DEF CopiesType
  <2>2. {"ready", "write", "checked", "reserved", "refused", "found", "approved",
         "declined", "done"} \subseteq Stages
    BY DEF Stages, Unacked
  <2> DEFINE k(t) == n(r, x)[t]
  <2>3. \A t \in {"ready", "write", "checked", "reserved", "refused", "found",
                   "approved", "declined", "done"} : k(t) \in Nat /\ t \in Stages
    BY <2>1, <2>2
  <2>4. back(r, x) = k("ready") + k("write") + k("checked") + k("reserved") + k("refused")
                       + k("found") + k("approved") + k("declined") + k("done")
    OBVIOUS
  <2>5. n(r, x)[s] \in Nat
    BY <1>1, <2>1
  <2> HIDE DEF n, back
  <2>6. /\ back(r, x) \in Nat
        /\ back(r, x) > 0 => \E t \in Stages : k(t) > 0
    <3> HIDE DEF k
    <3> QED BY <2>3, <2>4, SumOfNine
  <2> QED BY <2>5, <2>6
<1>2. ASSUME NEW r \in Queues, NEW x \in Orders, NEW s \in Stages
      PROVE  Requeued(service)[r][x][s] =
               IF r.service # service \/ s = "retry" THEN n(r, x)[s]
               ELSE IF s = "ready" THEN back(r, x) ELSE 0
  BY <1>2 DEF Requeued, Stages
<1> HIDE DEF back
<1>3. Requeued(service) = [r \in Queues |-> [x \in Orders |-> [s \in Stages |->
         Requeued(service)[r][x][s]]]]
  <2>1. ASSUME NEW r \in Queues
        PROVE  Requeued(service)[r] =
                 [x \in Orders |-> [s \in Stages |-> Requeued(service)[r][x][s]]]
    <3>1. CASE r.service # service
      <4>1. Requeued(service)[r] = copies[r]
        BY <2>1, <3>1 DEF Requeued
      <4> QED BY <2>1, <4>1 DEF CopiesType
    <3>2. CASE r.service = service
      BY <2>1, <3>2 DEF Requeued
    <3> QED BY <3>1, <3>2
  <2>2. Requeued(service) = [r \in Queues |-> Requeued(service)[r]]
    BY DEF Requeued
  <2> QED BY <2>1, <2>2
<1>4. Requeued(service) \in CopiesType
  BY <1>1, <1>2, <1>3 DEF CopiesType
<1>5. ASSUME NEW r \in Queues, NEW x \in Orders, NEW s \in Stages
      PROVE  /\ Requeued(service)[r][x][s] > 0 =>
                   \/ copies[r][x][s] > 0
                   \/ s = "ready" /\ \E t \in Stages : copies[r][x][t] > 0
             /\ s # "ready" => Requeued(service)[r][x][s] <= copies[r][x][s]
             /\ r.service # service => Requeued(service)[r][x][s] = copies[r][x][s]
             /\ r.service = service /\ s \notin {"retry", "ready"} =>
                  Requeued(service)[r][x][s] = 0
  BY <1>1, <1>2, <1>5
<1> QED BY <1>4, <1>5

LEMMA QueueEvents == \A q \in Queues : q.event \in Events
<1> SUFFICES ASSUME NEW q \in Queues PROVE q.event \in Events
  OBVIOUS
<1>1. CASE q \in NotificationQueues
  BY <1>1 DEF NotificationQueues, NotificationOrderCreated, NotificationInventoryReserved,
              NotificationReservationFailed, NotificationPaymentSucceeded,
              NotificationPaymentFailed, Queue, Events
<1>2. CASE q \in WorkQueues
  BY <1>2, EventFacts DEF WorkQueues, OrderQueues, InventoryQueues, Events
<1> QED BY <1>1, <1>2 DEF Queues

-----------------------------------------------------------------------------
(* The inductive invariant.  TypeOK is not inductive by itself: that the   *)
(* count of PENDING payments stays a natural number needs the conjunct of  *)
(* RowsCaused that gives every waiting payment handler a PENDING row.      *)

IInv == TypeOK /\ Provenance

\* What has happened stays so: no step takes a cause back.
Keeps ==
  \A o \in Orders :
    /\ orders[o] # "NONE" => orders'[o] # "NONE"
    /\ rows[o] # <<>> => rows'[o] # <<>>
    /\ o \in refused => o \in refused'
    /\ PaymentRows(o) > 0 => PaymentRows(o)' > 0
    /\ payments[o]["SUCCEEDED"] > 0 => payments'[o]["SUCCEEDED"] > 0
    /\ payments[o]["FAILED"] > 0 => payments'[o]["FAILED"] > 0

\* A copy that a step creates or moves has its cause after the step.
NewCopiesCaused ==
  \A r \in Queues, x \in Orders, s \in Stages :
    copies'[r][x][s] > 0 => copies[r][x][s] > 0 \/ CausedStage(r, x, s)'

LEMMA CauseKept ==
  ASSUME Keeps, NEW r \in Queues, NEW x \in Orders, NEW s \in Stages,
         CausedStage(r, x, s)
  PROVE  CausedStage(r, x, s)'
<1>1. r.event \in Events
  BY QueueEvents
<1>2. Caused(r.event, x)'
  BY <1>1 DEF Caused, Keeps, CausedStage, Events
<1> QED BY <1>2 DEF CausedStage, Keeps

LEMMA CopiesStep ==
  ASSUME CopiesCaused, Keeps, NewCopiesCaused
  PROVE  CopiesCaused'
BY CauseKept DEF CopiesCaused, NewCopiesCaused

\* As many copies are in stage "found" as hold batches they found.
FoundTyped ==
  /\ found \in [SettlementQueues -> [Orders -> Seq(SUBSET Nat)]]
  /\ \A q \in SettlementQueues, o \in Orders :
       Len(found[q][o]) = copies[q][o]["found"]

LEMMA FoundKept ==
  ASSUME IInv, UNCHANGED found,
         \A q \in SettlementQueues, o \in Orders :
           copies'[q][o]["found"] = copies[q][o]["found"]
  PROVE  FoundTyped'
BY DEF IInv, TypeOK, FoundTyped

\* Every step that changes nothing but copies, what they found, the orders about
\* to publish, the copies given up and the two bounds.
LEMMA CopiesOnly ==
  ASSUME IInv,
         UNCHANGED <<orders, rows, payments, refused>>,
         FoundTyped',
         givenUp' \in [WorkQueues -> SUBSET Orders],
         creating' \subseteq creating,
         crashes' \in 0..MaxCrashes, failures' \in 0..MaxFailures,
         copies' \in CopiesType,
         NewCopiesCaused,
         \A x \in Orders : copies'[PaymentInventoryReserved][x]["write"]
                             <= copies[PaymentInventoryReserved][x]["write"]
  PROVE  IInv'
<1>1. TypeOK'
  BY DEF IInv, TypeOK, CopiesType, FoundTyped
<1>2. Keeps
  BY DEF Keeps, PaymentRows
<1>3. CopiesCaused'
  BY <1>2, CopiesStep DEF IInv, Provenance
<1>4. StatusCaused'
  BY DEF IInv, Provenance, StatusCaused
<1>5. RowsCaused'
  <2> SUFFICES ASSUME NEW x \in Orders
               PROVE copies'[PaymentInventoryReserved][x]["write"] <= payments[x]["PENDING"]
    BY DEF IInv, Provenance, RowsCaused, HasRow, PaymentRows
  <2>1. /\ copies[PaymentInventoryReserved][x]["write"] <= payments[x]["PENDING"]
        /\ copies'[PaymentInventoryReserved][x]["write"]
             <= copies[PaymentInventoryReserved][x]["write"]
    BY DEF IInv, Provenance, RowsCaused
  <2>2. /\ copies[PaymentInventoryReserved][x]["write"] \in Nat
        /\ copies'[PaymentInventoryReserved][x]["write"] \in Nat
        /\ payments[x]["PENDING"] \in Nat
    <3>1. "write" \in Stages /\ PaymentInventoryReserved \in Queues
      BY QueueFacts DEF Stages, Unacked
    <3>2. copies \in CopiesType /\ payments[x]["PENDING"] \in Nat
      BY DEF IInv, TypeOK, CopiesType, PaymentStatus
    <3> QED BY <3>1, <3>2 DEF CopiesType
  <2> QED BY <2>1, <2>2
<1> QED BY <1>1, <1>3, <1>4, <1>5 DEF IInv, Provenance
-----------------------------------------------------------------------------
(* The steps that only move copies.                                        *)

LEMMA CopiesTyped ==
  ASSUME IInv
  PROVE  /\ copies \in CopiesType
         /\ creating \subseteq Orders
         /\ crashes \in 0..MaxCrashes
         /\ failures \in 0..MaxFailures
         /\ givenUp \in [WorkQueues -> SUBSET Orders]
BY DEF IInv, TypeOK, CopiesType

LEMMA CopyCaused ==
  ASSUME IInv, NEW q \in Queues, NEW o \in Orders, NEW s \in Stages,
         copies[q][o][s] > 0
  PROVE  CausedStage(q, o, s)
BY DEF IInv, Provenance, CopiesCaused

\* The stages that ask for no more than the event's own cause.
LEMMA PlainStage ==
  ASSUME NEW q \in Queues, NEW o \in Orders,
         NEW s \in {"retry", "ready", "write", "done"}, Caused(q.event, o)
  PROVE  CausedStage(q, o, s)
BY DEF CausedStage

LEMMA NackLemma ==
  ASSUME copies \in CopiesType, NEW q \in Queues, NEW o \in Orders,
         NEW a \in Stages, copies[q][o][a] > 0
  PROVE  /\ Nack(q, o, a) \in CopiesType
         /\ \A r \in Queues, x \in Orders, s \in Stages :
              \/ Nack(q, o, a)[r][x][s] <= copies[r][x][s]
              \/ r.event = q.event /\ x = o /\ s = "retry"
         /\ \A r \in Queues, x \in Orders :
              ~(r = q /\ x = o /\ a = "found") =>
                Nack(q, o, a)[r][x]["found"] = copies[r][x]["found"]
         /\ a = "found" => Nack(q, o, a)[q][o]["found"] = copies[q][o]["found"] - 1
<1>1. "retry" \in Stages /\ "found" \in Stages
  BY DEF Stages, Unacked
<1>2. Drop(q, o, a) \in CopiesType
  BY DropLemma
<1>3. /\ Nack(q, o, a) \in CopiesType
      /\ \A r \in Queues, x \in Orders, s \in Stages :
           \/ Nack(q, o, a)[r][x][s] = Drop(q, o, a)[r][x][s]
           \/ r.event = q.event /\ x = o /\ s = "retry"
  BY <1>1, <1>2, FanoutLemma DEF Nack
<1> QED BY <1>1, <1>3, DropLemma

LEMMA FindOrderStep ==
  ASSUME IInv, NEW o \in Orders, NEW expected,
         NEW q \in OrderQueues, FindOrder(q, o, expected)
  PROVE  IInv'
<1>1. q \in Queues /\ q # PaymentInventoryReserved
  BY QueueFacts DEF OrderQueues, WorkQueues, Queues, Queue, PaymentInventoryReserved,
     OrderInventoryReserved, OrderReservationFailed, OrderPaymentSucceeded,
     OrderPaymentFailed
<1>2. /\ copies[q][o]["ready"] > 0
      /\ {"ready", "retry", "write", "done", "found"} \subseteq Stages
  BY DEF FindOrder, Stages, Unacked
<1>3. CausedStage(q, o, "ready") /\ Caused(q.event, o)
  BY <1>1, <1>2, CopyCaused DEF CausedStage
<1> DEFINE Found ==
      /\ copies' \in CopiesType
      /\ \A r \in Queues, x \in Orders, s \in Stages :
           \/ copies'[r][x][s] <= copies[r][x][s]
           \/ r.event = q.event /\ x = o /\ s = "retry"
           \/ r = q /\ x = o /\ s \in {"write", "done"}
      /\ \A r \in Queues, x \in Orders : copies'[r][x]["found"] = copies[r][x]["found"]
<1>4. Found
  <2>1. CASE copies' = Nack(q, o, "ready")
    BY <1>1, <1>2, <2>1, CopiesTyped, NackLemma
  <2>2. ASSUME NEW b \in {"write", "done"}, copies' = Move(q, o, "ready", b)
        PROVE  Found
    <3>1. \A r \in Queues, x \in Orders, s \in Stages : copies[r][x][s] \in Nat
      BY CopiesTyped DEF CopiesType
    <3> QED BY <1>1, <1>2, <2>2, <3>1, CopiesTyped, MoveLemma, SMTT(30)
  <2> QED BY <2>1, <2>2 DEF FindOrder
<1>5. NewCopiesCaused
  <2> SUFFICES ASSUME NEW r \in Queues, NEW x \in Orders, NEW s \in Stages,
                      copies'[r][x][s] > 0, ~(copies[r][x][s] > 0)
               PROVE  CausedStage(r, x, s)'
    BY DEF NewCopiesCaused
  <2>1. r.event = q.event /\ x = o /\ s \in {"retry", "write", "done"}
    BY <1>4, CopiesTyped DEF CopiesType
  <2>2. CausedStage(r, x, s)
    BY <1>3, <2>1, PlainStage
  <2> QED BY <2>2 DEF CausedStage, Caused, FindOrder
<1>6. \A x \in Orders : copies'[PaymentInventoryReserved][x]["write"]
                          <= copies[PaymentInventoryReserved][x]["write"]
  BY <1>1, <1>2, <1>4, QueueFacts
<1>7. FoundTyped'
  BY <1>4, FoundKept, QueueFacts DEF FindOrder
<1> QED BY <1>4, <1>5, <1>6, <1>7, CopiesOnly, CopiesTyped DEF FindOrder

\* What CopiesOnly asks of copies when a step adds only caused copies: a common
\* form for publishing, expiry and rejection.
LEMMA AddedCaused ==
  ASSUME IInv, NEW event, NEW o \in Orders, Caused(event, o),
         UNCHANGED <<orders, rows, payments, refused>>,
         copies' \in CopiesType,
         \A r \in Queues, x \in Orders, s \in Stages :
           \/ copies'[r][x][s] <= copies[r][x][s]
           \/ r.event = event /\ x = o /\ s \in {"retry", "ready"}
           \/ s = "done" /\ \E t \in Stages : copies[r][x][t] > 0
  PROVE  /\ NewCopiesCaused
         /\ \A x \in Orders : copies'[PaymentInventoryReserved][x]["write"]
                                <= copies[PaymentInventoryReserved][x]["write"]
<1>1. NewCopiesCaused
  <2> SUFFICES ASSUME NEW r \in Queues, NEW x \in Orders, NEW s \in Stages,
                      copies'[r][x][s] > 0, ~(copies[r][x][s] > 0)
               PROVE  CausedStage(r, x, s)'
    BY DEF NewCopiesCaused
  <2>1. ~(copies'[r][x][s] <= copies[r][x][s])
    BY CopiesTyped DEF CopiesType
  <2>2. CASE r.event = event /\ x = o /\ s \in {"retry", "ready"}
    <3>1. CausedStage(r, x, s)
      BY <2>2, PlainStage
    <3> QED BY <3>1 DEF CausedStage, Caused
  <2>3. CASE s = "done" /\ \E t \in Stages : copies[r][x][t] > 0
    <3>1. Caused(r.event, x)
      BY <2>3, CopyCaused DEF CausedStage
    <3>2. CausedStage(r, x, s)
      BY <2>3, <3>1, PlainStage
    <3> QED BY <3>2 DEF CausedStage, Caused
  <2> QED BY <2>1, <2>2, <2>3
<1>2. "write" \in Stages
  BY DEF Stages, Unacked
<1> QED BY <1>1, <1>2, QueueFacts

LEMMA PublishFromStep ==
  ASSUME IInv, NEW o \in Orders, NEW q \in Queues,
         NEW stage \in {"reserved", "refused", "approved", "declined"}, NEW event,
         PublishFrom(q, o, stage, event),
         Caused(event, o)
  PROVE  IInv'
<1>1. /\ {"ready", "done", "found", stage} \subseteq Stages
      /\ copies[q][o][stage] > 0
  BY DEF PublishFrom, Stages, Unacked
<1> DEFINE moved == Move(q, o, stage, "done")
<1>2. /\ moved \in CopiesType
      /\ \A r \in Queues, x \in Orders : moved[r][x]["found"] = copies[r][x]["found"]
      /\ \A r \in Queues, x \in Orders, s \in Stages :
           \/ moved[r][x][s] <= copies[r][x][s]
           \/ s = "done" /\ \E t \in Stages : copies[r][x][t] > 0
  <2>1. \A r \in Queues, x \in Orders, s \in Stages : copies[r][x][s] \in Nat
    BY CopiesTyped DEF CopiesType
  <2> QED BY <1>1, <2>1, CopiesTyped, MoveLemma
<1>3. /\ copies' \in CopiesType
      /\ \A r \in Queues, x \in Orders, s \in Stages :
           \/ copies'[r][x][s] = moved[r][x][s]
           \/ r.event = event /\ x = o /\ s \in {"retry", "ready"}
  <2>1. copies' = Fanout(moved, event, o, "ready")
    BY DEF PublishFrom
  <2> HIDE DEF moved
  <2> QED BY <1>1, <1>2, <2>1, FanoutLemma
<1> HIDE DEF moved
<1>4. \A r \in Queues, x \in Orders, s \in Stages :
        \/ copies'[r][x][s] <= copies[r][x][s]
        \/ r.event = event /\ x = o /\ s \in {"retry", "ready"}
        \/ s = "done" /\ \E t \in Stages : copies[r][x][t] > 0
  BY <1>2, <1>3
<1>5. UNCHANGED <<orders, creating, found, rows, payments, refused, givenUp,
                  crashes, failures>>
  BY DEF PublishFrom
<1>6. FoundTyped'
  BY <1>1, <1>2, <1>3, <1>5, FoundKept, QueueFacts
<1> QED BY <1>3, <1>4, <1>5, <1>6, AddedCaused, CopiesOnly, CopiesTyped

LEMMA PublishOrderCreatedStep ==
  ASSUME IInv, NEW o \in Orders, PublishOrderCreated(o)
  PROVE  IInv'
<1>1. Caused("order.created", o)
  BY DEF PublishOrderCreated, IInv, Provenance, RowsCaused, Caused
<1>2. /\ copies' \in CopiesType
      /\ \A r \in Queues, x \in Orders, s \in Stages :
           \/ copies'[r][x][s] = copies[r][x][s]
           \/ r.event = "order.created" /\ x = o /\ s \in {"retry", "ready"}
  <2>1. "ready" \in Stages
    BY DEF Stages
  <2> QED BY <2>1, CopiesTyped, FanoutLemma DEF PublishOrderCreated
<1>3. \A r \in Queues, x \in Orders, s \in Stages : copies[r][x][s] \in Nat
  BY CopiesTyped DEF CopiesType
<1>4. /\ NewCopiesCaused
      /\ \A x \in Orders : copies'[PaymentInventoryReserved][x]["write"]
                             <= copies[PaymentInventoryReserved][x]["write"]
  BY <1>1, <1>2, <1>3, AddedCaused DEF PublishOrderCreated
<1>5. FoundTyped'
  BY <1>2, FoundKept, QueueFacts DEF PublishOrderCreated, Stages, Unacked
<1> QED BY <1>2, <1>4, <1>5, CopiesOnly, CopiesTyped DEF PublishOrderCreated

LEMMA RetryExpiresStep ==
  ASSUME IInv, NEW o \in Orders, NEW q \in Queues, RetryExpires(q, o)
  PROVE  IInv'
<1>1. {"retry", "ready"} \subseteq Stages /\ copies[q][o]["retry"] > 0
  BY DEF RetryExpires, Stages
<1>2. Caused(q.event, o)
  BY <1>1, CopyCaused DEF CausedStage
<1>3. Drop(q, o, "retry") \in CopiesType
  BY <1>1, CopiesTyped, DropLemma
<1>4. /\ copies' \in CopiesType
      /\ \A r \in Queues, x \in Orders, s \in Stages :
           \/ copies'[r][x][s] = Drop(q, o, "retry")[r][x][s]
           \/ r.event = q.event /\ x = o /\ s \in {"retry", "ready"}
  BY <1>1, <1>3, FanoutLemma DEF RetryExpires
<1>5. \A r \in Queues, x \in Orders, s \in Stages :
        /\ Drop(q, o, "retry")[r][x][s] <= copies[r][x][s]
        /\ s = "found" => Drop(q, o, "retry")[r][x][s] = copies[r][x][s]
  BY <1>1, CopiesTyped, DropLemma
<1>6. /\ NewCopiesCaused
      /\ \A x \in Orders : copies'[PaymentInventoryReserved][x]["write"]
                             <= copies[PaymentInventoryReserved][x]["write"]
  BY <1>2, <1>4, <1>5, AddedCaused DEF RetryExpires
<1>7. FoundTyped'
  BY <1>4, <1>5, FoundKept, QueueFacts DEF RetryExpires, Stages, Unacked
<1> QED BY <1>4, <1>6, <1>7, CopiesOnly, CopiesTyped DEF RetryExpires

\* The copy whose handler throws in stage "found" takes what it had found along.
LEMMA ForgetStep ==
  ASSUME IInv, NEW q \in Queues, NEW o \in Orders, NEW stage \in AtDatabase,
         Forget(q, o, stage), copies[q][o][stage] > 0,
         \A r \in Queues, x \in Orders :
           ~(r = q /\ x = o /\ stage = "found") =>
             copies'[r][x]["found"] = copies[r][x]["found"],
         stage = "found" => copies'[q][o]["found"] = copies[q][o]["found"] - 1
  PROVE  FoundTyped'
<1>1. FoundTyped /\ SettlementQueues \subseteq Queues
  BY QueueFacts DEF IInv, TypeOK, FoundTyped
<1>2. CASE stage # "found"
  BY <1>1, <1>2, FoundKept DEF Forget
<1>3. CASE stage = "found" /\ q \notin SettlementQueues
  <2>1. found' = found
    BY <1>1, <1>3 DEF Forget, FoundTyped
  <2> QED BY <1>1, <1>3, <2>1, FoundKept
<1>4. CASE stage = "found" /\ q \in SettlementQueues
  <2>1. PICK i \in DOMAIN found[q][o] :
          found' = [found EXCEPT ![q][o] = RemoveAt(@, i)]
    BY <1>4 DEF Forget
  <2>2. found[q][o] \in Seq(SUBSET Nat)
    BY <1>1, <1>4 DEF FoundTyped
  <2>3. /\ RemoveAt(found[q][o], i) \in Seq(SUBSET Nat)
        /\ Len(RemoveAt(found[q][o], i)) = Len(found[q][o]) - 1
    BY <2>2, RemoveAtFacts
  <2> QED BY <1>1, <1>4, <2>1, <2>3 DEF FoundTyped
<1> QED BY <1>2, <1>3, <1>4

LEMMA HandlerFailsStep ==
  ASSUME IInv, NEW o \in Orders, NEW q \in WorkQueues,
         NEW stage \in AtDatabase, HandlerFails(q, o, stage)
  PROVE  IInv'
<1>1. stage \in Stages /\ q \in Queues /\ copies[q][o][stage] > 0
  BY QueueFacts DEF HandlerFails, AtDatabase, Stages, Unacked
<1>2. Caused(q.event, o)
  BY <1>1, CopyCaused DEF CausedStage
<1>3. /\ copies' \in CopiesType
      /\ \A r \in Queues, x \in Orders, s \in Stages :
           \/ copies'[r][x][s] <= copies[r][x][s]
           \/ r.event = q.event /\ x = o /\ s \in {"retry", "ready"}
  BY <1>1, CopiesTyped, NackLemma DEF HandlerFails
<1>4. /\ NewCopiesCaused
      /\ \A x \in Orders : copies'[PaymentInventoryReserved][x]["write"]
                             <= copies[PaymentInventoryReserved][x]["write"]
  BY <1>2, <1>3, AddedCaused DEF HandlerFails
<1>5. failures' \in 0..MaxFailures
  BY CopiesTyped, FailureAssumption DEF HandlerFails
<1>6. FoundTyped'
  <2>1. /\ copies' = Nack(q, o, stage)
        /\ Forget(q, o, stage)
    BY DEF HandlerFails
  <2>2. /\ \A r \in Queues, x \in Orders :
             ~(r = q /\ x = o /\ stage = "found") =>
               copies'[r][x]["found"] = copies[r][x]["found"]
        /\ stage = "found" => copies'[q][o]["found"] = copies[q][o]["found"] - 1
    BY <1>1, <2>1, CopiesTyped, NackLemma
  <2> QED BY <1>1, <2>1, <2>2, ForgetStep
<1> QED BY <1>3, <1>4, <1>5, <1>6, CopiesOnly, CopiesTyped DEF HandlerFails

\* A copy that is acknowledged or given up, by any consumer, is gone.
LEMMA DropStep ==
  ASSUME IInv, NEW o \in Orders, NEW q \in Queues, NEW s \in Stages,
         copies[q][o][s] > 0, copies' = Drop(q, o, s), FoundTyped',
         givenUp' \in [WorkQueues -> SUBSET Orders],
         UNCHANGED <<orders, creating, rows, payments, refused, crashes, failures>>
  PROVE  IInv'
<1>1. /\ copies' \in CopiesType
      /\ \A r \in Queues, x \in Orders, t \in Stages :
           copies'[r][x][t] <= copies[r][x][t]
  BY CopiesTyped, DropLemma
<1>2. Caused(q.event, o)
  BY CopyCaused DEF CausedStage
<1>3. /\ NewCopiesCaused
      /\ \A x \in Orders : copies'[PaymentInventoryReserved][x]["write"]
                             <= copies[PaymentInventoryReserved][x]["write"]
  BY <1>1, <1>2, AddedCaused
<1> QED BY <1>1, <1>3, CopiesOnly, CopiesTyped

LEMMA GiveUpStep ==
  ASSUME IInv, NEW o \in Orders, NEW q \in WorkQueues,
         NEW stage \in AtDatabase, GiveUp(q, o, stage)
  PROVE  IInv'
<1>1. /\ stage \in Stages /\ "found" \in Stages /\ q \in Queues
      /\ copies[q][o][stage] > 0
      /\ copies' = Drop(q, o, stage)
      /\ Forget(q, o, stage)
  BY QueueFacts DEF GiveUp, AtDatabase, Stages, Unacked
<1>2. /\ \A r \in Queues, x \in Orders :
           ~(r = q /\ x = o /\ stage = "found") =>
             copies'[r][x]["found"] = copies[r][x]["found"]
      /\ stage = "found" => copies'[q][o]["found"] = copies[q][o]["found"] - 1
  BY <1>1, CopiesTyped, DropLemma
<1>3. FoundTyped'
  BY <1>1, <1>2, ForgetStep
<1>4. givenUp' \in [WorkQueues -> SUBSET Orders]
  BY CopiesTyped DEF GiveUp
<1> QED BY <1>1, <1>3, <1>4, DropStep DEF GiveUp

LEMMA CrashStep ==
  ASSUME IInv, NEW service, Crash(service)
  PROVE  IInv'
<1>1. /\ copies' \in CopiesType
      /\ \A r \in Queues, x \in Orders, s \in Stages :
           /\ copies'[r][x][s] > 0 =>
                \/ copies[r][x][s] > 0
                \/ s = "ready" /\ \E t \in Stages : copies[r][x][t] > 0
           /\ s # "ready" => copies'[r][x][s] <= copies[r][x][s]
           /\ r.service # service => copies'[r][x][s] = copies[r][x][s]
           /\ r.service = service /\ s \notin {"retry", "ready"} => copies'[r][x][s] = 0
  BY CopiesTyped, RequeuedLemma DEF Crash
<1>2. NewCopiesCaused
  <2> SUFFICES ASSUME NEW r \in Queues, NEW x \in Orders, NEW s \in Stages,
                      copies'[r][x][s] > 0, ~(copies[r][x][s] > 0)
               PROVE  CausedStage(r, x, s)'
    BY DEF NewCopiesCaused
  <2>1. s = "ready" /\ Caused(r.event, x)
    BY <1>1, CopyCaused DEF CausedStage
  <2>2. CausedStage(r, x, s)
    BY <2>1, PlainStage
  <2> QED BY <2>2 DEF CausedStage, Caused, Crash
<1>3. \A x \in Orders : copies'[PaymentInventoryReserved][x]["write"]
                          <= copies[PaymentInventoryReserved][x]["write"]
  BY <1>1, QueueFacts DEF Stages, Unacked
<1>4. crashes' \in 0..MaxCrashes
  BY CopiesTyped, CrashAssumption DEF Crash
<1>5. FoundTyped'
  <2>1. /\ SettlementQueues \subseteq Queues /\ "found" \in Stages
        /\ \A q \in SettlementQueues : q.service = "inventory"
    BY QueueFacts DEF Stages, Unacked, SettlementQueues, InventoryPaymentSucceeded,
       InventoryPaymentFailed, Queue
  <2>2. CASE service = "inventory"
    <3>1. found' = [q \in SettlementQueues |-> [o \in Orders |-> <<>>]]
      BY <2>2 DEF Crash
    <3>2. <<>> \in Seq(SUBSET Nat) /\ Len(<<>>) = 0
      OBVIOUS
    <3>3. \A q \in SettlementQueues, o \in Orders : copies'[q][o]["found"] = 0
      BY <1>1, <2>1, <2>2
    <3> QED BY <3>1, <3>2, <3>3 DEF FoundTyped
  <2>3. CASE service # "inventory"
    BY <1>1, <2>1, <2>3, FoundKept DEF Crash
  <2> QED BY <2>2, <2>3
<1> QED BY <1>1, <1>2, <1>3, <1>4, <1>5, CopiesOnly, CopiesTyped DEF Crash
-----------------------------------------------------------------------------
(* The steps that change rows: each moves one copy of one queue.           *)

LEMMA MoveStep ==
  ASSUME IInv, NEW o \in Orders, NEW q \in Queues,
         NEW a \in Stages, NEW b \in Stages, a # b,
         copies[q][o][a] > 0, copies' = Move(q, o, a, b),
         Keeps, CausedStage(q, o, b)'
  PROVE  /\ copies' \in CopiesType
         /\ CopiesCaused'
         /\ \A x \in Orders :
              copies'[PaymentInventoryReserved][x]["write"] =
                IF q = PaymentInventoryReserved /\ x = o /\ a = "write"
                THEN copies[PaymentInventoryReserved][x]["write"] - 1
                ELSE IF q = PaymentInventoryReserved /\ x = o /\ b = "write"
                     THEN copies[PaymentInventoryReserved][x]["write"] + 1
                     ELSE copies[PaymentInventoryReserved][x]["write"]
         /\ "found" \notin {a, b} /\ UNCHANGED found => FoundTyped'
<1>1. /\ copies' \in CopiesType
      /\ \A r \in Queues, x \in Orders, s \in Stages :
           /\ r = q /\ x = o /\ s = a => copies'[r][x][s] = copies[r][x][s] - 1
           /\ r = q /\ x = o /\ s = b => copies'[r][x][s] = copies[r][x][s] + 1
           /\ ~(r = q /\ x = o /\ s \in {a, b}) => copies'[r][x][s] = copies[r][x][s]
  BY CopiesTyped, MoveLemma
<1>2. \A r \in Queues, x \in Orders, s \in Stages : copies[r][x][s] \in Nat
  BY CopiesTyped DEF CopiesType
<1>3. NewCopiesCaused
  BY <1>1, <1>2 DEF NewCopiesCaused
<1>4. CopiesCaused'
  BY <1>3, CopiesStep DEF IInv, Provenance
<1>5. "write" \in Stages /\ "found" \in Stages
  BY DEF Stages, Unacked
<1>6. ASSUME "found" \notin {a, b}, UNCHANGED found PROVE FoundTyped'
  BY <1>1, <1>5, <1>6, FoundKept, QueueFacts
<1> QED BY <1>1, <1>4, <1>5, <1>6, QueueFacts

LEMMA CreateOrderStep ==
  ASSUME IInv, NEW o \in Orders, CreateOrder(o)
  PROVE  IInv'
<1>1. TypeOK'
  BY DEF IInv, TypeOK, CreateOrder, OrderStatus
<1>2. Keeps
  BY DEF Keeps, PaymentRows, CreateOrder, IInv, TypeOK
<1>3. CopiesCaused'
  BY <1>2, CauseKept DEF CreateOrder, IInv, Provenance, CopiesCaused
<1>4. RowsCaused' /\ StatusCaused'
  BY DEF CreateOrder, IInv, TypeOK, Provenance, RowsCaused, StatusCaused, HasRow,
         PaymentRows
<1> QED BY <1>1, <1>3, <1>4 DEF IInv, Provenance

\* The status each of the four consumers saves is one its event is a cause of.
LEMMA SaveOrderStep ==
  ASSUME IInv, NEW o \in Orders, NEW q \in OrderQueues, NEW status,
         SaveOrder(q, o, status),
         \/ q = OrderInventoryReserved /\ status = "INVENTORY_RESERVED"
         \/ q = OrderReservationFailed /\ status = "CANCELLED"
         \/ q = OrderPaymentSucceeded /\ status = "PAID"
         \/ q = OrderPaymentFailed /\ status = "PAYMENT_FAILED"
  PROVE  IInv'
<1>1. q \in Queues /\ q # PaymentInventoryReserved
  BY QueueFacts DEF OrderQueues, Queue, PaymentInventoryReserved,
     OrderInventoryReserved, OrderReservationFailed, OrderPaymentSucceeded,
     OrderPaymentFailed
<1>2. /\ copies[q][o]["write"] > 0
      /\ copies' = Move(q, o, "write", "done")
      /\ {"write", "done"} \subseteq Stages
  BY DEF SaveOrder, Stages, Unacked
<1>3. Caused(q.event, o)
  BY <1>1, <1>2, CopyCaused DEF CausedStage
<1>4. status \in OrderStatus \ {"NONE"}
  BY DEF OrderStatus
<1>5. Keeps
  BY <1>4 DEF Keeps, PaymentRows, SaveOrder, IInv, TypeOK
<1>6. CausedStage(q, o, "done")'
  <2>1. CausedStage(q, o, "done")
    BY <1>1, <1>3, PlainStage
  <2> QED BY <1>1, <1>2, <1>5, <2>1, CauseKept
<1>7. /\ copies' \in CopiesType
      /\ CopiesCaused'
      /\ \A x \in Orders : copies'[PaymentInventoryReserved][x]["write"]
                             = copies[PaymentInventoryReserved][x]["write"]
      /\ FoundTyped'
  BY <1>1, <1>2, <1>5, <1>6, MoveStep DEF SaveOrder
<1>8. TypeOK'
  BY <1>4, <1>7 DEF IInv, TypeOK, CopiesType, FoundTyped, SaveOrder
<1>9. RowsCaused'
  BY <1>4, <1>7 DEF IInv, TypeOK, Provenance, RowsCaused, HasRow, PaymentRows, SaveOrder
<1>10. StatusCaused'
  <2>1. /\ status = "INVENTORY_RESERVED" => rows[o] # <<>>
        /\ status = "CANCELLED" => o \in refused
        /\ status = "PAID" => payments[o]["SUCCEEDED"] > 0
        /\ status = "PAYMENT_FAILED" => payments[o]["FAILED"] > 0
    BY <1>3, EventFacts DEF Caused
  <2> QED BY <2>1 DEF IInv, TypeOK, Provenance, StatusCaused, SaveOrder
<1> QED BY <1>7, <1>8, <1>9, <1>10 DEF IInv, Provenance

LEMMA RowsTyped ==
  ASSUME IInv, NEW o \in Orders
  PROVE  /\ rows[o] \in Seq(ReservationStatus)
         /\ \A s \in PaymentStatus : payments[o][s] \in Nat
         /\ PaymentRows(o) \in Nat
BY DEF IInv, TypeOK, PaymentRows, PaymentStatus

LEMMA CheckStockStep ==
  ASSUME IInv, NEW o \in Orders, CheckStock(o)
  PROVE  IInv'
<1> DEFINE q == InventoryOrderCreated
<1>1. /\ copies[q][o]["ready"] > 0
      /\ copies' = Move(q, o, "ready", "checked")
      /\ {"ready", "checked"} \subseteq Stages
      /\ q \in Queues
      /\ q # PaymentInventoryReserved
      /\ UNCHANGED <<orders, creating, found, rows, payments, refused, givenUp, crashes,
                     failures>>
  BY QueueFacts DEF CheckStock, Stages, Unacked, InventoryOrderCreated,
     PaymentInventoryReserved, Queue
<1>2. Keeps
  BY <1>1 DEF Keeps, PaymentRows
<1>3. CausedStage(q, o, "checked")'
  <2>1. CausedStage(q, o, "checked")
    BY <1>1, CopyCaused DEF CausedStage
  <2> QED BY <1>1, <1>2, <2>1, CauseKept
<1>4. /\ copies' \in CopiesType
      /\ CopiesCaused'
      /\ \A x \in Orders : copies'[PaymentInventoryReserved][x]["write"]
                             = copies[PaymentInventoryReserved][x]["write"]
      /\ FoundTyped'
  BY <1>1, <1>2, <1>3, MoveStep
<1>5. TypeOK'
  BY <1>1, <1>4 DEF IInv, TypeOK, CopiesType, FoundTyped
<1>6. RowsCaused' /\ StatusCaused'
  BY <1>1, <1>4 DEF IInv, Provenance, RowsCaused, StatusCaused, HasRow, PaymentRows
<1> QED BY <1>4, <1>5, <1>6 DEF IInv, Provenance

LEMMA ReserveStockStep ==
  ASSUME IInv, NEW o \in Orders, ReserveStock(o)
  PROVE  IInv'
<1> DEFINE q == InventoryOrderCreated
<1>1. /\ copies[q][o]["checked"] > 0
      /\ copies' = Move(q, o, "checked", "reserved")
      /\ {"checked", "reserved"} \subseteq Stages
      /\ q \in Queues
      /\ q # PaymentInventoryReserved
      /\ found' = found
  BY QueueFacts DEF ReserveStock, Stages, Unacked, InventoryOrderCreated,
     PaymentInventoryReserved, Queue
<1>2. orders[o] # "NONE"
  BY <1>1, CopyCaused, EventFacts DEF CausedStage, Caused
<1>3. /\ rows' \in [Orders -> Seq(ReservationStatus)]
      /\ rows'[o] # <<>>
      /\ \A x \in Orders \ {o} : rows'[x] = rows[x]
      /\ \A status \in {"CONFIRMED", "RELEASED"} : HasRow(o, status)' => HasRow(o, status)
  <2>1. /\ rows' = [rows EXCEPT ![o] = Append(rows[o], "RESERVED")]
        /\ rows[o] \in Seq(ReservationStatus) /\ "RESERVED" \in ReservationStatus
        /\ rows \in [Orders -> Seq(ReservationStatus)]
    BY RowsTyped DEF ReserveStock, ReservationStatus, IInv, TypeOK
  <2>2. PICK t : t = Append(rows[o], "RESERVED")
    OBVIOUS
  <2>3. /\ t \in Seq(ReservationStatus) /\ t # <<>>
        /\ DOMAIN t = DOMAIN rows[o] \cup {Len(rows[o]) + 1}
        /\ t[Len(rows[o]) + 1] = "RESERVED"
        /\ \A k \in DOMAIN rows[o] : t[k] = rows[o][k]
    BY <2>1, <2>2, AppendFacts
  <2>4. rows' = [rows EXCEPT ![o] = t]
    BY <2>1, <2>2
  <2> QED BY <2>1, <2>3, <2>4 DEF HasRow
<1>4. Keeps
  BY <1>3 DEF Keeps, PaymentRows, ReserveStock
<1>5. CausedStage(q, o, "reserved")'
  BY <1>2, <1>3, EventFacts DEF CausedStage, Caused, ReserveStock
<1>6. /\ copies' \in CopiesType
      /\ CopiesCaused'
      /\ \A x \in Orders : copies'[PaymentInventoryReserved][x]["write"]
                             = copies[PaymentInventoryReserved][x]["write"]
      /\ FoundTyped'
  BY <1>1, <1>4, <1>5, MoveStep
<1>7. TypeOK'
  BY <1>3, <1>6 DEF ReserveStock, IInv, TypeOK, CopiesType, FoundTyped
<1>8. \A x \in Orders, status \in {"CONFIRMED", "RELEASED"} :
        HasRow(x, status)' => HasRow(x, status)
  BY <1>3 DEF HasRow
<1>9. RowsCaused'
  BY <1>2, <1>3, <1>6, <1>8 DEF IInv, Provenance, RowsCaused, PaymentRows, ReserveStock
<1>10. StatusCaused'
  BY <1>3 DEF IInv, Provenance, StatusCaused, ReserveStock
<1> QED BY <1>6, <1>7, <1>9, <1>10 DEF IInv, Provenance

LEMMA RefuseStockStep ==
  ASSUME IInv, NEW o \in Orders, RefuseStock(o)
  PROVE  IInv'
<1> DEFINE q == InventoryOrderCreated
<1>1. /\ copies[q][o]["ready"] > 0
      /\ copies' = Move(q, o, "ready", "refused")
      /\ {"ready", "refused"} \subseteq Stages
      /\ q \in Queues
      /\ q # PaymentInventoryReserved
      /\ found' = found
  BY QueueFacts DEF RefuseStock, Stages, Unacked, InventoryOrderCreated,
     PaymentInventoryReserved, Queue
<1>2. orders[o] # "NONE"
  BY <1>1, CopyCaused, EventFacts DEF CausedStage, Caused
<1>3. Keeps
  BY DEF Keeps, PaymentRows, RefuseStock
<1>4. CausedStage(q, o, "refused")'
  BY <1>2, EventFacts DEF CausedStage, Caused, RefuseStock
<1>5. /\ copies' \in CopiesType
      /\ CopiesCaused'
      /\ \A x \in Orders : copies'[PaymentInventoryReserved][x]["write"]
                             = copies[PaymentInventoryReserved][x]["write"]
      /\ FoundTyped'
  BY <1>1, <1>3, <1>4, MoveStep
<1>6. TypeOK'
  BY <1>5 DEF RefuseStock, IInv, TypeOK, CopiesType, FoundTyped
<1>7. RowsCaused' /\ StatusCaused'
  BY <1>2, <1>5 DEF IInv, Provenance, RowsCaused, StatusCaused, HasRow, PaymentRows,
     RefuseStock
<1> QED BY <1>5, <1>6, <1>7 DEF IInv, Provenance

\* What the copies know that read the reservations of an order.
LEMMA SettlementFacts ==
  /\ InventoryPaymentSucceeded \in SettlementQueues
  /\ InventoryPaymentFailed \in SettlementQueues
  /\ SettlementQueues = {InventoryPaymentSucceeded, InventoryPaymentFailed}
  /\ SettlementQueues \subseteq Queues
  /\ PaymentInventoryReserved \notin SettlementQueues
  /\ {"ready", "found", "done"} \subseteq Stages
BY QueueFacts, EventFacts DEF SettlementQueues, Stages, Unacked

LEMMA OutstandingTyped ==
  ASSUME IInv, NEW o \in Orders
  PROVE  Outstanding(o) \in SUBSET Nat /\ Outstanding(o) \subseteq DOMAIN rows[o]
<1>1. DOMAIN rows[o] = 1..Len(rows[o]) /\ Len(rows[o]) \in Nat
  BY RowsTyped, LenProperties
<1> QED BY <1>1 DEF Outstanding

LEMMA FindReservationsStep ==
  ASSUME IInv, NEW o \in Orders, NEW q \in SettlementQueues, FindReservations(q, o)
  PROVE  IInv'
<1>1. PICK b \in {"done", "found"} :
        /\ q \in Queues /\ q # PaymentInventoryReserved
        /\ {"ready", "found", "done"} \subseteq Stages
        /\ copies[q][o]["ready"] > 0
        /\ copies' = Move(q, o, "ready", b)
        /\ found' = IF b = "done" THEN found
                    ELSE [found EXCEPT ![q][o] = Append(@, Outstanding(o))]
        /\ UNCHANGED <<orders, creating, rows, payments, refused, givenUp, crashes,
                       failures>>
  <2>1. CASE Outstanding(o) = {}
    BY <2>1, SettlementFacts DEF FindReservations
  <2>2. CASE Outstanding(o) # {}
    BY <2>2, SettlementFacts DEF FindReservations
  <2> QED BY <2>1, <2>2
<1>2. Keeps
  BY <1>1 DEF Keeps, PaymentRows
<1>3. CausedStage(q, o, b)'
  <2>1. CausedStage(q, o, b)
    BY <1>1, CopyCaused DEF CausedStage
  <2> QED BY <1>1, <1>2, <2>1, CauseKept
<1>4. /\ copies' \in CopiesType
      /\ CopiesCaused'
      /\ \A x \in Orders : copies'[PaymentInventoryReserved][x]["write"]
                             = copies[PaymentInventoryReserved][x]["write"]
      /\ b = "done" => FoundTyped'
  BY <1>1, <1>2, <1>3, MoveStep
<1>5. ASSUME b = "found" PROVE FoundTyped'
  <2>1. /\ FoundTyped
        /\ copies'[q][o]["found"] = copies[q][o]["found"] + 1
        /\ \A r \in SettlementQueues, x \in Orders :
             ~(r = q /\ x = o) => copies'[r][x]["found"] = copies[r][x]["found"]
    <3>1. FoundTyped
      BY DEF IInv, TypeOK, FoundTyped
    <3>2. \A r \in Queues, x \in Orders, s \in Stages :
            /\ r = q /\ x = o /\ s = "found" => copies'[r][x][s] = copies[r][x][s] + 1
            /\ ~(r = q /\ x = o /\ s \in {"ready", "found"}) =>
                 copies'[r][x][s] = copies[r][x][s]
      BY <1>1, <1>5, CopiesTyped, MoveLemma
    <3> QED BY <1>1, <3>1, <3>2, SettlementFacts
  <2>2. PICK t : t = Append(found[q][o], Outstanding(o))
    OBVIOUS
  <2>3. t \in Seq(SUBSET Nat) /\ Len(t) = Len(found[q][o]) + 1
    BY <2>1, <2>2, OutstandingTyped, AppendFacts DEF FoundTyped
  <2>4. found' = [found EXCEPT ![q][o] = t]
    BY <1>1, <1>5, <2>2
  <2> QED BY <2>1, <2>3, <2>4 DEF FoundTyped
<1>6. TypeOK'
  BY <1>1, <1>4, <1>5 DEF IInv, TypeOK, CopiesType, FoundTyped
<1>7. RowsCaused' /\ StatusCaused'
  BY <1>1, <1>4 DEF IInv, Provenance, RowsCaused, StatusCaused, HasRow, PaymentRows
<1> QED BY <1>4, <1>6, <1>7 DEF IInv, Provenance

\* What a settlement does to the rows, and to what the others have found.
LEMMA SettleRows ==
  ASSUME IInv, NEW o \in Orders, NEW q \in SettlementQueues,
         NEW i \in DOMAIN found[q][o], NEW status \in {"CONFIRMED", "RELEASED"},
         SettleReservations(q, o, i, status)
  PROVE  /\ rows' \in [Orders -> Seq(ReservationStatus)]
         /\ \A x \in Orders : x # o => rows'[x] = rows[x]
         /\ DOMAIN rows'[o] = DOMAIN rows[o] /\ Len(rows'[o]) = Len(rows[o])
         /\ rows'[o] = <<>> <=> rows[o] = <<>>
         /\ \A b \in DOMAIN rows[o] :
              rows'[o][b] = IF b \in found[q][o][i] THEN status ELSE rows[o][b]
<1>1. /\ rows \in [Orders -> Seq(ReservationStatus)]
      /\ rows[o] \in Seq(ReservationStatus) /\ status \in ReservationStatus
  BY RowsTyped DEF IInv, TypeOK, ReservationStatus
<1>2. PICK t : t = [b \in DOMAIN rows[o] |-> IF b \in found[q][o][i] THEN status
                                            ELSE rows[o][b]]
  OBVIOUS
<1>3. rows' = [rows EXCEPT ![o] = t]
  BY <1>2 DEF SettleReservations
<1>4. /\ t \in Seq(ReservationStatus) /\ DOMAIN t = DOMAIN rows[o]
      /\ Len(t) = Len(rows[o])
      /\ t = <<>> <=> rows[o] = <<>>
      /\ \A b \in DOMAIN rows[o] :
           t[b] = IF b \in found[q][o][i] THEN status ELSE rows[o][b]
  <2>1. PICK set : set = found[q][o][i]
    OBVIOUS
  <2>2. t = [b \in DOMAIN rows[o] |-> IF b \in set THEN status ELSE rows[o][b]]
    BY <1>2, <2>1
  <2>3. /\ t \in Seq(ReservationStatus) /\ DOMAIN t = DOMAIN rows[o]
        /\ Len(t) = Len(rows[o])
        /\ t = <<>> <=> rows[o] = <<>>
        /\ \A b \in DOMAIN rows[o] :
             t[b] = IF b \in set THEN status ELSE rows[o][b]
    BY <1>1, <2>2, SettledFacts
  <2> QED BY <2>1, <2>3
<1>5. rows'[o] = t /\ rows' \in [Orders -> Seq(ReservationStatus)]
      /\ \A x \in Orders : x # o => rows'[x] = rows[x]
  BY <1>1, <1>3, <1>4
<1> QED BY <1>4, <1>5

LEMMA SettleStep ==
  ASSUME IInv, NEW o \in Orders, NEW q \in SettlementQueues,
         NEW i \in DOMAIN found[q][o], NEW status \in {"CONFIRMED", "RELEASED"},
         SettleReservations(q, o, i, status),
         status = "CONFIRMED" => q.event = "payment.succeeded",
         status = "RELEASED" => q.event = "payment.failed"
  PROVE  IInv'
<1>1. /\ q \in Queues /\ q # PaymentInventoryReserved
      /\ {"found", "done"} \subseteq Stages
      /\ copies[q][o]["found"] > 0
      /\ copies' = Move(q, o, "found", "done")
      /\ found' = [found EXCEPT ![q][o] = RemoveAt(@, i)]
      /\ UNCHANGED <<orders, creating, payments, refused, givenUp, crashes, failures>>
  BY SettlementFacts DEF SettleReservations
<1>2. /\ rows' \in [Orders -> Seq(ReservationStatus)]
      /\ \A x \in Orders : rows'[x] = <<>> <=> rows[x] = <<>>
      /\ \A x \in Orders, s \in {"CONFIRMED", "RELEASED"} :
           HasRow(x, s)' => HasRow(x, s) \/ (x = o /\ s = status)
  <2>1. /\ rows' \in [Orders -> Seq(ReservationStatus)]
        /\ \A x \in Orders : x # o => rows'[x] = rows[x]
        /\ DOMAIN rows'[o] = DOMAIN rows[o]
        /\ rows'[o] = <<>> <=> rows[o] = <<>>
        /\ \A b \in DOMAIN rows[o] :
             rows'[o][b] = IF b \in found[q][o][i] THEN status ELSE rows[o][b]
    BY SettleRows
  <2> QED BY <2>1 DEF HasRow
<1>3. Caused(q.event, o)
  BY <1>1, CopyCaused DEF CausedStage
<1>4. /\ status = "CONFIRMED" => payments[o]["SUCCEEDED"] > 0
      /\ status = "RELEASED" => payments[o]["FAILED"] > 0
  BY <1>3 DEF Caused
<1>5. Keeps
  BY <1>1, <1>2 DEF Keeps, PaymentRows
<1>6. CausedStage(q, o, "done")'
  <2>1. CausedStage(q, o, "done")
    BY <1>1, <1>3, PlainStage
  <2> QED BY <1>1, <1>5, <2>1, CauseKept
<1>7. /\ copies' \in CopiesType
      /\ CopiesCaused'
      /\ \A x \in Orders : copies'[PaymentInventoryReserved][x]["write"]
                             = copies[PaymentInventoryReserved][x]["write"]
  BY <1>1, <1>5, <1>6, MoveStep
<1>8. FoundTyped'
  <2>1. /\ FoundTyped
        /\ copies'[q][o]["found"] = copies[q][o]["found"] - 1
        /\ \A r \in SettlementQueues, x \in Orders :
             ~(r = q /\ x = o) => copies'[r][x]["found"] = copies[r][x]["found"]
    <3>1. FoundTyped
      BY DEF IInv, TypeOK, FoundTyped
    <3>2. \A r \in Queues, x \in Orders, s \in Stages :
            /\ r = q /\ x = o /\ s = "found" => copies'[r][x][s] = copies[r][x][s] - 1
            /\ ~(r = q /\ x = o /\ s \in {"found", "done"}) =>
                 copies'[r][x][s] = copies[r][x][s]
      BY <1>1, CopiesTyped, MoveLemma
    <3> QED BY <1>1, <3>1, <3>2, SettlementFacts
  <2>2. /\ RemoveAt(found[q][o], i) \in Seq(SUBSET Nat)
        /\ Len(RemoveAt(found[q][o], i)) = Len(found[q][o]) - 1
    <3>1. found[q][o] \in Seq(SUBSET Nat)
      BY <2>1 DEF FoundTyped
    <3> QED BY <3>1, RemoveAtFacts
  <2> QED BY <1>1, <2>1, <2>2 DEF FoundTyped
<1>9. TypeOK'
  BY <1>1, <1>2, <1>7, <1>8 DEF IInv, TypeOK, CopiesType, FoundTyped
<1>10. RowsCaused'
  BY <1>1, <1>2, <1>4, <1>7 DEF IInv, Provenance, RowsCaused, PaymentRows
<1>11. StatusCaused'
  BY <1>1, <1>2 DEF IInv, Provenance, StatusCaused
<1> QED BY <1>7, <1>9, <1>10, <1>11 DEF IInv, Provenance

LEMMA SettlementStep ==
  ASSUME IInv, NEW o \in Orders, ConfirmReservation(o) \/ ReleaseReservation(o)
  PROVE  IInv'
BY FindReservationsStep, SettleStep, SettlementFacts, EventFacts
   DEF ConfirmReservation, ReleaseReservation

LEMMA SavePendingPaymentStep ==
  ASSUME IInv, NEW o \in Orders, SavePendingPayment(o)
  PROVE  IInv'
<1> DEFINE q == PaymentInventoryReserved
<1>1. /\ copies[q][o]["ready"] > 0
      /\ copies' = Move(q, o, "ready", "write")
      /\ {"ready", "write"} \subseteq Stages
      /\ q \in Queues
  BY QueueFacts DEF SavePendingPayment, Stages, Unacked
<1>2. Caused("inventory.reserved", o) /\ rows[o] # <<>>
  BY <1>1, CopyCaused, EventFacts DEF CausedStage, Caused
<1>3. /\ payments' \in [Orders -> [PaymentStatus -> Nat]]
      /\ \A x \in Orders :
           /\ x # o => payments'[x] = payments[x]
           /\ x = o => payments'[x]["PENDING"] = payments[x]["PENDING"] + 1
           /\ \A s \in {"SUCCEEDED", "FAILED"} : payments'[x][s] = payments[x][s]
  BY DEF SavePendingPayment, IInv, TypeOK, PaymentStatus
<1>4. \A x \in Orders : PaymentRows(x) > 0 => PaymentRows(x)' > 0
  BY <1>3, RowsTyped DEF PaymentRows, PaymentStatus
<1>5. Keeps
  BY <1>3, <1>4 DEF Keeps, SavePendingPayment
<1>6. CausedStage(q, o, "write")'
  BY <1>2, EventFacts DEF CausedStage, Caused, SavePendingPayment
<1>7. /\ copies' \in CopiesType
      /\ CopiesCaused'
      /\ \A x \in Orders : copies'[q][x]["write"] =
           IF x = o THEN copies[q][x]["write"] + 1 ELSE copies[q][x]["write"]
      /\ FoundTyped'
  BY <1>1, <1>5, <1>6, MoveStep DEF SavePendingPayment
<1>8. TypeOK'
  BY <1>3, <1>7 DEF SavePendingPayment, IInv, TypeOK, CopiesType, FoundTyped
<1>9. \A x \in Orders : /\ copies'[q][x]["write"] <= payments'[x]["PENDING"]
                        /\ PaymentRows(x)' > 0 => rows'[x] # <<>>
  <2> SUFFICES ASSUME NEW x \in Orders
               PROVE  /\ copies'[q][x]["write"] <= payments'[x]["PENDING"]
                      /\ PaymentRows(x)' > 0 => rows'[x] # <<>>
    OBVIOUS
  <2>1. /\ copies[q][x]["write"] <= payments[x]["PENDING"]
        /\ PaymentRows(x) > 0 => rows[x] # <<>>
    BY DEF IInv, Provenance, RowsCaused
  <2>2. copies[q][x]["write"] \in Nat /\ payments[x]["PENDING"] \in Nat
    BY <1>1, CopiesTyped, RowsTyped DEF CopiesType, PaymentStatus
  <2>3. x # o => PaymentRows(x)' = PaymentRows(x)
    BY <1>3 DEF PaymentRows
  <2>4. rows'[x] = rows[x]
    BY DEF SavePendingPayment
  <2> HIDE DEF q
  <2>5. CASE x = o
    BY <1>2, <1>3, <1>7, <2>1, <2>2, <2>4, <2>5
  <2>6. CASE x # o
    BY <1>3, <1>7, <2>1, <2>3, <2>4, <2>6
  <2> QED BY <2>5, <2>6
<1>10. RowsCaused'
  BY <1>3, <1>9 DEF IInv, Provenance, RowsCaused, HasRow, SavePendingPayment
<1>11. StatusCaused'
  BY <1>3 DEF IInv, Provenance, StatusCaused, SavePendingPayment
<1> QED BY <1>7, <1>8, <1>10, <1>11 DEF IInv, Provenance

LEMMA SavePaymentResultStep ==
  ASSUME IInv, NEW o \in Orders, NEW stage, NEW status,
         \/ stage = "approved" /\ status = "SUCCEEDED"
         \/ stage = "declined" /\ status = "FAILED",
         SavePaymentResult(o, stage, status)
  PROVE  IInv'
<1> DEFINE q == PaymentInventoryReserved
<1>1. /\ copies[q][o]["write"] > 0
      /\ copies' = Move(q, o, "write", stage)
      /\ {"write", stage} \subseteq Stages
      /\ stage # "write"
      /\ q \in Queues
  BY QueueFacts DEF SavePaymentResult, Stages, Unacked
<1>2. Caused(q.event, o) /\ Caused("inventory.reserved", o)
  BY <1>1, CopyCaused, EventFacts DEF CausedStage
<1>3. \A x \in Orders : /\ copies[q][x]["write"] \in Nat
                        /\ payments[x]["PENDING"] \in Nat
                        /\ copies[q][x]["write"] <= payments[x]["PENDING"]
  BY <1>1, CopiesTyped, RowsTyped DEF CopiesType, PaymentStatus, IInv, Provenance,
     RowsCaused
<1>4. payments[o]["PENDING"] > 0
  <2> HIDE DEF q
  <2> QED BY <1>1, <1>3
<1>5. /\ payments' \in [Orders -> [PaymentStatus -> Nat]]
      /\ \A x \in Orders :
           /\ x # o => payments'[x] = payments[x]
           /\ x = o => payments'[x]["PENDING"] = payments[x]["PENDING"] - 1
           /\ \A s \in {"SUCCEEDED", "FAILED"} :
                payments'[x][s] = IF x = o /\ s = status THEN payments[x][s] + 1
                                                         ELSE payments[x][s]
  <2>1. \A x \in Orders, s \in PaymentStatus : payments[x][s] \in Nat
    BY RowsTyped
  <2> QED BY <1>3, <1>4, <2>1, SMTT(30) DEF SavePaymentResult, IInv, TypeOK, PaymentStatus
<1>6. \A x \in Orders : /\ PaymentRows(x)' = PaymentRows(x)
                        /\ payments[x]["SUCCEEDED"] > 0 => payments'[x]["SUCCEEDED"] > 0
                        /\ payments[x]["FAILED"] > 0 => payments'[x]["FAILED"] > 0
  <2> SUFFICES ASSUME NEW x \in Orders
               PROVE  /\ PaymentRows(x)' = PaymentRows(x)
                      /\ \A s \in {"SUCCEEDED", "FAILED"} :
                           payments[x][s] > 0 => payments'[x][s] > 0
    OBVIOUS
  <2>1. \A s \in PaymentStatus : payments[x][s] \in Nat
    BY RowsTyped
  <2>2. PaymentRows(x)' = PaymentRows(x)
    <3>1. CASE x = o
      <4>1. /\ payments'[x]["PENDING"] = payments[x]["PENDING"] - 1
            /\ payments'[x]["SUCCEEDED"] + payments'[x]["FAILED"]
                 = payments[x]["SUCCEEDED"] + payments[x]["FAILED"] + 1
        BY <1>5, <2>1, <3>1 DEF PaymentStatus
      <4>2. \A s \in PaymentStatus : payments'[x][s] \in Nat
        BY <1>5
      <4>3. /\ PaymentRows(x)' = payments'[x]["PENDING"]
                + (payments'[x]["SUCCEEDED"] + payments'[x]["FAILED"])
            /\ PaymentRows(x) = payments[x]["PENDING"]
                + (payments[x]["SUCCEEDED"] + payments[x]["FAILED"])
        BY <2>1, <4>2 DEF PaymentRows, PaymentStatus
      <4> QED BY <2>1, <4>1, <4>3 DEF PaymentStatus
    <3>2. CASE x # o
      BY <1>5, <3>2 DEF PaymentRows
    <3> QED BY <3>1, <3>2
  <2>3. ASSUME NEW s \in {"SUCCEEDED", "FAILED"}, payments[x][s] > 0
        PROVE  payments'[x][s] > 0
    BY <1>5, <2>1, <2>3 DEF PaymentStatus
  <2> QED BY <2>2, <2>3
<1>7. Keeps
  BY <1>6 DEF Keeps, SavePaymentResult
<1>8. CausedStage(q, o, stage)'
  <2>1. Caused(q.event, o)'
    BY <1>2, EventFacts DEF Caused, SavePaymentResult
  <2>2. payments'[o][status] > 0
    BY <1>5, RowsTyped DEF PaymentStatus
  <2> QED BY <2>1, <2>2 DEF CausedStage
<1>9. /\ copies' \in CopiesType
      /\ CopiesCaused'
      /\ \A x \in Orders : copies'[q][x]["write"] =
           IF x = o THEN copies[q][x]["write"] - 1 ELSE copies[q][x]["write"]
      /\ FoundTyped'
  BY <1>1, <1>7, <1>8, MoveStep DEF SavePaymentResult
<1>10. TypeOK'
  BY <1>5, <1>9 DEF SavePaymentResult, IInv, TypeOK, CopiesType, FoundTyped
<1>11. \A x \in Orders : copies'[q][x]["write"] <= payments'[x]["PENDING"]
  <2> HIDE DEF q
  <2> QED BY <1>3, <1>5, <1>9
<1>12. RowsCaused'
  BY <1>6, <1>11 DEF IInv, Provenance, RowsCaused, HasRow, SavePaymentResult
<1>13. StatusCaused'
  BY <1>6 DEF IInv, Provenance, StatusCaused, SavePaymentResult
<1> QED BY <1>9, <1>10, <1>12, <1>13 DEF IInv, Provenance
-----------------------------------------------------------------------------
(* Every step keeps the invariant.                                         *)

LEMMA InitIInv == Init => IInv
<1> SUFFICES ASSUME Init PROVE IInv
  OBVIOUS
<1>1. TypeOK
  <2>1. /\ <<>> \in Seq(SUBSET Nat) /\ <<>> \in Seq(ReservationStatus) /\ Len(<<>>) = 0
        /\ "found" \in Stages /\ SettlementQueues \subseteq Queues
    BY QueueFacts DEF Stages, Unacked
  <2>2. /\ found \in [SettlementQueues -> [Orders -> Seq(SUBSET Nat)]]
        /\ \A q \in SettlementQueues, o \in Orders :
             Len(found[q][o]) = copies[q][o]["found"]
    BY <2>1 DEF Init
  <2> QED BY <2>1, <2>2, CrashAssumption, FailureAssumption
         DEF Init, TypeOK, OrderStatus, PaymentStatus
<1>2. \A o \in Orders : rows[o] = <<>> /\ PaymentRows(o) = 0
  BY DEF Init, PaymentRows, PaymentStatus
<1>3. CopiesCaused
  BY DEF Init, CopiesCaused
<1>4. RowsCaused
  <2>1. \A o \in Orders, status \in ReservationStatus : ~HasRow(o, status)
    <3>1. DOMAIN (<<>>) = {}
      OBVIOUS
    <3> QED BY <1>2, <3>1 DEF HasRow
  <2> QED BY <1>2, <2>1, QueueFacts DEF Init, RowsCaused, ReservationStatus,
         PaymentStatus, Stages, Unacked
<1>5. StatusCaused
  BY DEF Init, StatusCaused
<1> QED BY <1>1, <1>3, <1>4, <1>5 DEF IInv, Provenance

LEMMA ProgressStep ==
  ASSUME IInv, Progress
  PROVE  IInv'
<1>1. ASSUME NEW o \in Orders, PublishOrderCreated(o) PROVE IInv'
  BY <1>1, PublishOrderCreatedStep
<1>2. ASSUME NEW o \in Orders, MarkInventoryReserved(o) PROVE IInv'
  BY <1>2, FindOrderStep, SaveOrderStep DEF MarkInventoryReserved, OrderQueues
<1>3. ASSUME NEW o \in Orders, CancelForInventoryFailure(o) PROVE IInv'
  BY <1>3, FindOrderStep, SaveOrderStep DEF CancelForInventoryFailure, OrderQueues
<1>4. ASSUME NEW o \in Orders, MarkPaid(o) PROVE IInv'
  BY <1>4, FindOrderStep, SaveOrderStep DEF MarkPaid, OrderQueues
<1>5. ASSUME NEW o \in Orders, MarkPaymentFailed(o) PROVE IInv'
  BY <1>5, FindOrderStep, SaveOrderStep DEF MarkPaymentFailed, OrderQueues
<1>6. ASSUME NEW o \in Orders,
             \/ CheckStock(o) \/ ReserveStock(o) \/ RefuseStock(o)
             \/ ConfirmReservation(o) \/ ReleaseReservation(o)
             \/ SavePendingPayment(o)
      PROVE  IInv'
  BY <1>6, CheckStockStep, ReserveStockStep, RefuseStockStep, SettlementStep,
     SavePendingPaymentStep
<1>7. ASSUME NEW o \in Orders, ApprovePayment(o) \/ DeclinePayment(o) PROVE IInv'
  BY <1>7, SavePaymentResultStep DEF ApprovePayment, DeclinePayment
<1>8. ASSUME NEW o \in Orders,
             \/ PublishInventoryReserved(o) \/ PublishReservationFailed(o)
             \/ PublishPaymentSucceeded(o) \/ PublishPaymentFailed(o)
      PROVE  IInv'
  <2> DEFINE queues == {InventoryOrderCreated, PaymentInventoryReserved}
  <2>1. PICK q \in queues, stage \in {"reserved", "refused", "approved", "declined"},
              event \in Events :
          /\ PublishFrom(q, o, stage, event)
          /\ <<stage, event>> \in {<<"reserved", "inventory.reserved">>,
                                   <<"refused", "inventory.reservation_failed">>,
                                   <<"approved", "payment.succeeded">>,
                                   <<"declined", "payment.failed">>}
    BY <1>8 DEF PublishInventoryReserved, PublishReservationFailed,
       PublishPaymentSucceeded, PublishPaymentFailed, Events
  <2>2. q \in Queues /\ stage \in Stages /\ copies[q][o][stage] > 0
    BY <2>1, QueueFacts DEF PublishFrom, Stages, Unacked
  <2>3. CausedStage(q, o, stage)
    BY <2>2, CopyCaused
  <2>4. Caused(event, o)
    BY <2>1, <2>3 DEF CausedStage, Caused
  <2> QED BY <2>1, <2>2, <2>4, PublishFromStep
<1>9. ASSUME NEW q \in Queues, NEW o \in Orders, Ack(q, o) \/ Notify(q, o)
      PROVE  IInv'
  <2>1. PICK s \in {"done", "ready"} :
          /\ copies[q][o][s] > 0 /\ copies' = Drop(q, o, s)
          /\ UNCHANGED <<orders, creating, found, rows, payments, refused, givenUp,
                         crashes, failures>>
    BY <1>9 DEF Ack, Notify
  <2>2. /\ s \in Stages /\ "found" \in Stages /\ s # "found"
        /\ givenUp' \in [WorkQueues -> SUBSET Orders]
    BY <2>1, CopiesTyped DEF Stages, Unacked
  <2>3. FoundTyped'
    BY <2>1, <2>2, CopiesTyped, DropLemma, FoundKept, QueueFacts
  <2> QED BY <2>1, <2>2, <2>3, DropStep
<1>10. ASSUME NEW q \in Queues, NEW o \in Orders, RetryExpires(q, o) PROVE IInv'
  BY <1>10, RetryExpiresStep
<1> QED
  BY <1>1, <1>2, <1>3, <1>4, <1>5, <1>6, <1>7, <1>8, <1>9, <1>10 DEF Progress

LEMMA StutterStep ==
  ASSUME IInv, UNCHANGED vars
  PROVE  IInv'
<1>1. TypeOK'
  BY DEF vars, IInv, TypeOK
<1>2. \A o \in Orders : /\ rows'[o] = rows[o] /\ PaymentRows(o)' = PaymentRows(o)
                        /\ \A s : HasRow(o, s)' = HasRow(o, s)
  BY DEF vars, HasRow, PaymentRows
<1>3. CopiesCaused'
  <2> SUFFICES ASSUME NEW q \in Queues, NEW o \in Orders, NEW s \in Stages,
                      copies[q][o][s] > 0
               PROVE  CausedStage(q, o, s)'
    BY DEF vars, CopiesCaused
  <2>1. CausedStage(q, o, s)
    BY DEF IInv, Provenance, CopiesCaused
  <2>2. Caused(q.event, o)'
    BY <1>2, <2>1 DEF vars, CausedStage, Caused
  <2> QED BY <1>2, <2>1, <2>2 DEF vars, CausedStage
<1>4. RowsCaused' /\ StatusCaused'
  BY <1>2 DEF vars, IInv, Provenance, RowsCaused, StatusCaused
<1> QED BY <1>1, <1>3, <1>4 DEF IInv, Provenance

LEMMA NextIInv == IInv /\ [Next]_vars => IInv'
<1> SUFFICES ASSUME IInv, [Next]_vars PROVE IInv'
  OBVIOUS
<1>1. ASSUME NEW o \in Orders, CreateOrder(o) PROVE IInv'
  BY <1>1, CreateOrderStep
<1>2. CASE Progress
  BY <1>2, ProgressStep
<1>3. ASSUME NEW q \in WorkQueues, NEW o \in Orders, NEW stage \in AtDatabase,
             HandlerFails(q, o, stage) \/ GiveUp(q, o, stage)
      PROVE  IInv'
  BY <1>3, HandlerFailsStep, GiveUpStep
<1>4. ASSUME NEW service, Crash(service) PROVE IInv'
  BY <1>4, CrashStep
<1>5. CASE UNCHANGED vars
  BY <1>5, StutterStep
<1> QED BY <1>1, <1>2, <1>3, <1>4, <1>5 DEF Next

-----------------------------------------------------------------------------
(* Queues and counts.                                                      *)

LEMMA QueuesApart ==
  /\ OrderInventoryReserved \notin {OrderReservationFailed, OrderPaymentSucceeded,
        OrderPaymentFailed, InventoryOrderCreated, PaymentInventoryReserved}
  /\ OrderReservationFailed \notin {OrderInventoryReserved, OrderPaymentSucceeded,
        OrderPaymentFailed, InventoryOrderCreated, PaymentInventoryReserved}
  /\ OrderPaymentSucceeded \notin {OrderInventoryReserved, OrderReservationFailed,
        OrderPaymentFailed, InventoryOrderCreated, PaymentInventoryReserved}
  /\ OrderPaymentFailed \notin {OrderInventoryReserved, OrderReservationFailed,
        OrderPaymentSucceeded, InventoryOrderCreated, PaymentInventoryReserved}
  /\ InventoryOrderCreated \notin {PaymentInventoryReserved,
        InventoryPaymentSucceeded, InventoryPaymentFailed}
  /\ PaymentInventoryReserved \notin {InventoryPaymentSucceeded, InventoryPaymentFailed}
  /\ {InventoryOrderCreated, PaymentInventoryReserved, InventoryPaymentSucceeded,
      InventoryPaymentFailed} \cap OrderQueues = {}
BY DEF OrderQueues, OrderInventoryReserved, OrderReservationFailed,
       OrderPaymentSucceeded, OrderPaymentFailed, InventoryOrderCreated,
       InventoryPaymentSucceeded, InventoryPaymentFailed, PaymentInventoryReserved, Queue

LEMMA StageFacts ==
  {"retry", "ready", "write", "checked", "reserved", "refused", "found", "approved",
   "declined", "done"} \subseteq Stages
BY DEF Stages, Unacked

LEMMA Counted ==
  ASSUME IInv
  PROVE  /\ \A q \in Queues, o \in Orders, s \in Stages : copies[q][o][s] \in Nat
         /\ \A o \in Orders : PaymentRows(o) \in Nat
         /\ \A o \in Orders : \A s \in PaymentStatus : payments[o][s] \in Nat
BY DEF IInv, TypeOK, PaymentRows, PaymentStatus

One(b) == IF b THEN 1 ELSE 0

\* copies' differs from copies by one copy of q moved from stage a to b.
Moved(q, o, a, b) ==
  \A r \in Queues, x \in Orders, s \in Stages :
    copies'[r][x][s] = copies[r][x][s] + One(r = q /\ x = o /\ s = b)
                                       - One(r = q /\ x = o /\ s = a)

\* ... and by one ready copy more in every queue of the event.
Published(q, o, a, event) ==
  \A r \in Queues, x \in Orders, s \in Stages :
    copies'[r][x][s] = copies[r][x][s] + One(r = q /\ x = o /\ s = "done")
                                       - One(r = q /\ x = o /\ s = a)
                                       + One(r.event = event /\ x = o /\ s = "ready")

LEMMA MoveCounts ==
  ASSUME IInv, NEW q \in Queues, NEW o \in Orders, NEW a \in Stages, NEW b \in Stages,
         a # b, copies[q][o][a] > 0, copies' = Move(q, o, a, b)
  PROVE  Moved(q, o, a, b)
BY MoveLemma, CopiesTyped, Counted DEF Moved, One

LEMMA PublishCounts ==
  ASSUME IInv, NEW q \in Queues, NEW o \in Orders,
         NEW a \in Stages \ {"done", "ready"}, NEW event,
         PublishFrom(q, o, a, event)
  PROVE  Published(q, o, a, event)
<1>1. /\ copies[q][o][a] > 0
      /\ {"ready", "done"} \subseteq Stages
  BY StageFacts DEF PublishFrom
<1> DEFINE moved == Move(q, o, a, "done")
<1>2. /\ moved \in CopiesType
      /\ \A r \in Queues, x \in Orders, s \in Stages :
           moved[r][x][s] = copies[r][x][s] + One(r = q /\ x = o /\ s = "done")
                                            - One(r = q /\ x = o /\ s = a)
  BY <1>1, MoveLemma, CopiesTyped, Counted DEF One
<1>3. copies' = Fanout(moved, event, o, "ready")
  BY DEF PublishFrom
<1> HIDE DEF moved
<1>4. \A r \in Queues, x \in Orders, s \in Stages :
        copies'[r][x][s] = moved[r][x][s] + One(r.event = event /\ x = o /\ s = "ready")
  <2>1. \A r \in Queues, x \in Orders, s \in Stages : moved[r][x][s] \in Int
    BY <1>2 DEF CopiesType
  <2>2. \A r \in Queues, x \in Orders, s \in Stages :
          IF r.event = event /\ x = o /\ s = "ready"
          THEN copies'[r][x][s] = moved[r][x][s] + 1
          ELSE copies'[r][x][s] = moved[r][x][s]
    BY <1>1, <1>2, <1>3, FanoutLemma
  <2> QED BY <2>1, <2>2 DEF One
<1> QED BY <1>2, <1>4 DEF Published

-----------------------------------------------------------------------------
(* Reserved stock is pursued.  A copy that will settle it, or reserve once *)
(* more, is somewhere; or every batch that is still RESERVED has been found *)
(* by a copy that is about to settle it.                                   *)

Pursuing(q) ==
  IF q = InventoryOrderCreated THEN {"retry", "ready", "checked", "reserved"}
  ELSE IF q = PaymentInventoryReserved
       THEN {"retry", "ready", "write", "approved", "declined"}
  ELSE IF q \in SettlementQueues THEN {"retry", "ready"}
  ELSE {}

Pursued(o) == \E q \in Queues : \E s \in Pursuing(q) : copies[q][o][s] > 0

AllFound(o) ==
  \A b \in Outstanding(o) : \E q \in SettlementQueues : \E i \in DOMAIN found[q][o] :
    b \in found[q][o][i]

\* Why nothing more needs to be done for an order.
Excused(o) == o \in refused \/ Abandoned(o)

Chased == \A o \in Orders : Excused(o) \/ Pursued(o) \/ AllFound(o)

PInv == IInv /\ Chased

LEMMA ChasedMeans == PInv => ReservedStockIsPursued
<1> SUFFICES ASSUME PInv, NEW o \in Orders, HasRow(o, "RESERVED"), ~Excused(o)
             PROVE
        \/ InStage(InventoryOrderCreated, o, {"retry", "ready", "checked", "reserved"})
        \/ InStage(PaymentInventoryReserved, o,
                   {"retry", "ready", "write", "approved", "declined"})
        \/ InStage(InventoryPaymentSucceeded, o, {"retry", "ready", "found"})
        \/ InStage(InventoryPaymentFailed, o, {"retry", "ready", "found"})
  BY DEF ReservedStockIsPursued, Excused
<1>1. CASE Pursued(o)
  <2>1. PICK q \in Queues : \E s \in Pursuing(q) : copies[q][o][s] > 0
    BY <1>1 DEF Pursued
  <2> QED BY <2>1 DEF Pursuing, InStage, SettlementQueues
<1>2. CASE AllFound(o)
  <2>1. PICK b \in Outstanding(o) : TRUE
    BY DEF HasRow, Outstanding
  <2>2. PICK q \in SettlementQueues : DOMAIN found[q][o] # {}
    BY <1>2, <2>1 DEF AllFound
  <2>3. copies[q][o]["found"] > 0
    <3>1. /\ found[q][o] \in Seq(SUBSET Nat)
          /\ Len(found[q][o]) = copies[q][o]["found"]
      BY DEF PInv, IInv, TypeOK
    <3>2. Len(found[q][o]) \in Nat /\ DOMAIN found[q][o] = 1..Len(found[q][o])
      BY <3>1, LenProperties
    <3> QED BY <2>2, <3>1, <3>2
  <2> QED BY <2>3 DEF InStage, SettlementQueues
<1> QED BY <1>1, <1>2 DEF PInv, Chased

\* A copy in pursuit is still in pursuit after the step, or its successor is.
Handed(x) ==
  \A q \in Queues : \A s \in Pursuing(q) : copies[q][x][s] > 0 => Pursued(x)'

LEMMA PursuitStages == \A q : Pursuing(q) \subseteq Stages
BY StageFacts DEF Pursuing

\* It is enough that no excuse is taken back and that what every copy in pursuit
\* or at the rows was doing is carried on.
LEMMA HandedOn ==
  ASSUME PInv,
         \A x \in Orders : Excused(x) => Excused(x)',
         \A x \in Orders : \/ Excused(x)'
                           \/ Pursued(x)'
                           \/ AllFound(x)'
                           \/ Handed(x) /\ (AllFound(x) => AllFound(x)')
  PROVE  Chased'
<1>1. \A x \in Orders : Handed(x) /\ Pursued(x) => Pursued(x)'
  BY DEF Handed, Pursued
<1> QED BY <1>1 DEF PInv, Chased

\* Copies that do not become fewer are still in pursuit.
LEMMA NoFewer ==
  ASSUME IInv, NEW x \in Orders, copies' \in CopiesType,
         \A q \in Queues : \A s \in Pursuing(q) :
           \/ copies'[q][x][s] >= copies[q][x][s]
           \/ \E r \in Queues : \E t \in Pursuing(r) : copies'[r][x][t] > 0
  PROVE  Handed(x)
BY Counted, PursuitStages DEF Handed, Pursued, CopiesType

LEMMA MovedHanded ==
  ASSUME IInv, NEW q \in Queues, NEW o \in Orders, NEW a \in Stages, NEW b \in Stages,
         a # b, copies[q][o][a] > 0, copies' = Move(q, o, a, b),
         NEW x \in Orders, x # o \/ a \notin Pursuing(q) \/ b \in Pursuing(q)
  PROVE  Handed(x)
<1>1. Moved(q, o, a, b) /\ copies' \in CopiesType
  BY MoveCounts, MoveLemma, CopiesTyped
<1>2. ASSUME NEW r \in Queues, NEW s \in Pursuing(r),
             ~(copies'[r][x][s] >= copies[r][x][s])
      PROVE  copies'[q][x][b] > 0 /\ b \in Pursuing(q)
  <2>1. s \in Stages /\ r = q /\ x = o /\ s = a
    BY <1>1, <1>2, Counted, PursuitStages DEF Moved, One
  <2>2. copies'[q][o][b] = copies[q][o][b] + 1 /\ copies[q][o][b] \in Nat
    BY <1>1, Counted DEF Moved, One
  <2> QED BY <1>2, <2>1, <2>2
<1> QED BY <1>1, <1>2, NoFewer

LEMMA PublishHanded ==
  ASSUME IInv, NEW q \in Queues, NEW o \in Orders,
         NEW a \in {"reserved", "refused", "approved", "declined"}, NEW event,
         PublishFrom(q, o, a, event),
         NEW x \in Orders,
         \/ a \notin Pursuing(q)
         \/ \E r \in Queues : r.event = event /\ "ready" \in Pursuing(r)
  PROVE  Handed(x)
<1>1. /\ a \in Stages \ {"done", "ready"} /\ "ready" \in Stages
      /\ Move(q, o, a, "done") \in CopiesType
      /\ copies' = Fanout(Move(q, o, a, "done"), event, o, "ready")
  BY MoveLemma, CopiesTyped, StageFacts DEF PublishFrom
<1>2. Published(q, o, a, event) /\ copies' \in CopiesType
  BY <1>1, PublishCounts, FanoutLemma
<1>3. ASSUME NEW r \in Queues, NEW s \in Pursuing(r),
             ~(copies'[r][x][s] >= copies[r][x][s])
      PROVE  \E u \in Queues : \E t \in Pursuing(u) : copies'[u][x][t] > 0
  <2>1. s \in Stages /\ r = q /\ x = o /\ s = a
    <3>1. s \in Stages
      BY PursuitStages
    <3>2. CASE ~(r = q /\ x = o /\ s = a)
      <4>1. One(r = q /\ x = o /\ s = a) = 0
        BY <3>2 DEF One
      <4>2. \A b : One(b) \in {0, 1}
        BY DEF One
      <4>3. copies'[r][x][s] >= copies[r][x][s]
        BY <1>2, <3>1, <4>1, <4>2, Counted DEF Published
      <4> QED BY <1>3, <4>3
    <3> QED BY <3>1, <3>2
  <2>2. PICK u \in Queues : u.event = event /\ "ready" \in Pursuing(u)
    BY <1>3, <2>1
  <2>3. copies'[u][o]["ready"] = copies[u][o]["ready"] + 1 /\ copies[u][o]["ready"] \in Nat
    <3>1. /\ One(u = q /\ o = o /\ "ready" = "done") = 0
          /\ One(u = q /\ o = o /\ "ready" = a) = 0
          /\ One(u.event = event /\ o = o /\ "ready" = "ready") = 1
      BY <1>1, <2>2 DEF One
    <3>2. copies[u][o]["ready"] \in Nat
      BY <1>1, Counted
    <3> QED BY <1>1, <1>2, <3>1, <3>2 DEF Published
  <2> QED BY <2>1, <2>2, <2>3
<1> QED BY <1>2, <1>3, NoFewer

LEMMA DropCounts ==
  ASSUME IInv, NEW q \in Queues, NEW o \in Orders, NEW a \in Stages, copies[q][o][a] > 0
  PROVE  /\ Drop(q, o, a) \in CopiesType
         /\ \A r \in Queues, x \in Orders, s \in Stages :
              Drop(q, o, a)[r][x][s] = copies[r][x][s] - One(r = q /\ x = o /\ s = a)
<1>1. copies \in CopiesType /\ Drop(q, o, a) \in CopiesType
  BY CopiesTyped, DropLemma
<1>2. \A r \in Queues, x \in Orders, s \in Stages :
        Drop(q, o, a)[r][x][s] =
          IF r = q /\ x = o /\ s = a THEN copies[r][x][s] - 1 ELSE copies[r][x][s]
  BY <1>1 DEF Drop, CopiesType
<1> QED BY <1>1, <1>2, Counted DEF One

\* A rejected copy comes back through the retry queue, an expired one to the
\* main queue: both among others to the consumer that had it.
LEMMA RejectedHanded ==
  ASSUME IInv, NEW q \in Queues, NEW o \in Orders, NEW a \in Stages,
         NEW t \in {"retry", "ready"}, a # t, copies[q][o][a] > 0,
         copies' = Fanout(Drop(q, o, a), q.event, o, t),
         NEW x \in Orders
  PROVE  Handed(x)
<1> DEFINE dropped == Drop(q, o, a)
<1>1. /\ t \in Stages
      /\ dropped \in CopiesType
      /\ \A r \in Queues, y \in Orders, s \in Stages :
           dropped[r][y][s] = copies[r][y][s] - One(r = q /\ y = o /\ s = a)
  BY DropCounts, StageFacts
<1> HIDE DEF dropped
<1>2. /\ copies' \in CopiesType
      /\ \A r \in Queues, y \in Orders, s \in Stages :
           /\ copies'[r][y][s] >= dropped[r][y][s]
           /\ r = q /\ y = o /\ s = t => copies'[r][y][s] = dropped[r][y][s] + 1
  <2>1. copies' = Fanout(dropped, q.event, o, t)
    BY DEF dropped
  <2>2. \A r \in Queues, y \in Orders, s \in Stages : dropped[r][y][s] \in Nat
    BY <1>1 DEF CopiesType
  <2>3. /\ copies' \in CopiesType
        /\ \A r \in Queues, y \in Orders, s \in Stages :
             IF r.event = q.event /\ y = o /\ s = t
             THEN copies'[r][y][s] = dropped[r][y][s] + 1
             ELSE copies'[r][y][s] = dropped[r][y][s]
    BY <1>1, <2>1, FanoutLemma
  <2> QED BY <2>2, <2>3
<1>3. ASSUME NEW r \in Queues, NEW s \in Pursuing(r),
             ~(copies'[r][x][s] >= copies[r][x][s])
      PROVE  copies'[q][x][t] > 0 /\ t \in Pursuing(q)
  <2>1. s \in Stages
    BY PursuitStages
  <2>2. r = q /\ x = o /\ s = a
    <3>1. CASE ~(r = q /\ x = o /\ s = a)
      <4>1. dropped[r][x][s] = copies[r][x][s]
        BY <1>1, <2>1, <3>1, Counted DEF One
      <4> QED BY <1>2, <1>3, <2>1, <4>1
    <3> QED BY <3>1
  <2>3. t \in Pursuing(q)
    BY <1>3, <2>2 DEF Pursuing
  <2>4. copies'[q][o][t] = copies[q][o][t] + 1 /\ copies[q][o][t] \in Nat
    <3>1. One(q = q /\ o = o /\ t = a) = 0
      BY DEF One
    <3>2. dropped[q][o][t] = copies[q][o][t] /\ copies[q][o][t] \in Nat
      BY <1>1, <3>1, Counted
    <3> QED BY <1>1, <1>2, <3>2
  <2> QED BY <2>2, <2>3, <2>4
<1> QED BY <1>2, <1>3, NoFewer

LEMMA DropHanded ==
  ASSUME IInv, NEW q \in Queues, NEW o \in Orders, NEW a \in Stages,
         a \notin Pursuing(q), copies[q][o][a] > 0, copies' = Drop(q, o, a),
         NEW x \in Orders
  PROVE  Handed(x)
<1>1. /\ copies' \in CopiesType
      /\ \A r \in Queues, y \in Orders, s \in Stages :
           copies'[r][y][s] = copies[r][y][s] - One(r = q /\ y = o /\ s = a)
  BY DropCounts
<1>2. ASSUME NEW r \in Queues, NEW s \in Pursuing(r)
      PROVE  copies'[r][x][s] >= copies[r][x][s]
  BY <1>1, <1>2, Counted, PursuitStages DEF One
<1> QED BY <1>1, <1>2, NoFewer

\* A copy that a crash requeues is "ready".
LEMMA RequeuedReady ==
  ASSUME IInv, NEW service, copies' = Requeued(service),
         NEW q \in Queues, q.service = service, NEW x \in Orders,
         NEW s \in Stages \ {"retry"}, copies[q][x][s] > 0
  PROVE  copies'[q][x]["ready"] > 0
<1> DEFINE n == copies[q][x]
<1>1. copies'[q][x]["ready"] = n["ready"] + n["write"] + n["checked"] + n["reserved"]
                                 + n["refused"] + n["found"] + n["approved"]
                                 + n["declined"] + n["done"]
  BY StageFacts DEF Requeued
<1>2. n[s] > 0 /\ \A t \in Stages : n[t] \in Nat
  BY Counted
<1>3. s \in {"ready", "write", "checked", "reserved", "refused", "found", "approved",
             "declined", "done"}
  BY DEF Stages, Unacked
<1> HIDE DEF n
<1> DEFINE k(t) == n[t]
           sum == k("ready") + k("write") + k("checked") + k("reserved") + k("refused")
                    + k("found") + k("approved") + k("declined") + k("done")
<1>4. /\ \A t \in {"ready", "write", "checked", "reserved", "refused", "found",
                   "approved", "declined", "done"} : k(t) \in Nat
      /\ k(s) > 0
      /\ copies'[q][x]["ready"] = sum
  BY <1>1, <1>2, <1>3, StageFacts
<1> HIDE DEF k
<1>5. sum \in Nat /\ sum >= k(s)
  BY <1>3, <1>4, SumOfNine
<1> HIDE DEF sum
<1>6. k(s) \in Nat
  BY <1>3, <1>4
<1> QED BY <1>4, <1>5, <1>6

\* Every stage of pursuit of a queue goes with "ready".
LEMMA CrashHanded ==
  ASSUME IInv, NEW service, copies' = Requeued(service), NEW x \in Orders
  PROVE  Handed(x)
<1> SUFFICES ASSUME NEW q \in Queues, NEW s \in Pursuing(q), copies[q][x][s] > 0
             PROVE  Pursued(x)'
  BY DEF Handed
<1>1. s \in Stages /\ "ready" \in Pursuing(q)
  BY PursuitStages DEF Pursuing
<1>2. CASE q.service # service
  <2>1. copies'[q] = copies[q]
    BY <1>2 DEF Requeued
  <2> QED BY <2>1 DEF Pursued
<1>3. CASE q.service = service /\ s = "retry"
  <2>1. copies'[q][x]["retry"] = copies[q][x]["retry"]
    BY <1>3, StageFacts DEF Requeued
  <2> QED BY <1>3, <2>1 DEF Pursued
<1>4. CASE q.service = service /\ s # "retry"
  <2>1. copies'[q][x]["ready"] > 0
    BY <1>1, <1>4, RequeuedReady
  <2> QED BY <1>1, <2>1 DEF Pursued
<1> QED BY <1>2, <1>3, <1>4

\* Steps that change neither the rows, nor what was found, refused or given up.
LEMMA CopiesHanded ==
  ASSUME PInv, UNCHANGED <<rows, found, refused, givenUp>>, \A x \in Orders : Handed(x)
  PROVE  Chased'
<1>1. \A x \in Orders : /\ Excused(x) => Excused(x)'
                        /\ AllFound(x) => AllFound(x)'
  BY DEF Excused, Abandoned, AllFound, Outstanding
<1> QED BY <1>1, HandedOn

\* What an order's batches and their finders are depends on that order only.
LEMMA SameFound ==
  ASSUME NEW x \in Orders, rows'[x] = rows[x],
         \A q \in SettlementQueues : found'[q][x] = found[q][x]
  PROVE  AllFound(x) => AllFound(x)'
BY DEF AllFound, Outstanding

LEMMA PursuingFacts ==
  /\ \A q \in OrderQueues \cup NotificationQueues : Pursuing(q) = {}
  /\ \A q \in Queues : "done" \notin Pursuing(q)
  /\ {"checked", "reserved"} \subseteq Pursuing(InventoryOrderCreated)
  /\ "ready" \in Pursuing(PaymentInventoryReserved)
  /\ {"write", "approved", "declined"} \subseteq Pursuing(PaymentInventoryReserved)
  /\ \A q \in SettlementQueues : "found" \notin Pursuing(q) /\ "retry" \in Pursuing(q)
  /\ "ready" \in Pursuing(InventoryPaymentSucceeded)
  /\ "ready" \in Pursuing(InventoryPaymentFailed)
<1>1. {InventoryOrderCreated, PaymentInventoryReserved, InventoryPaymentSucceeded,
       InventoryPaymentFailed} \cap NotificationQueues = {}
  BY DEF NotificationQueues, NotificationOrderCreated, NotificationInventoryReserved,
     NotificationReservationFailed, NotificationPaymentSucceeded,
     NotificationPaymentFailed, InventoryOrderCreated, PaymentInventoryReserved,
     InventoryPaymentSucceeded, InventoryPaymentFailed, Queue
<1> QED BY <1>1, QueuesApart DEF Pursuing, SettlementQueues

LEMMA FindOrderPursued ==
  ASSUME PInv, NEW o \in Orders, NEW q \in OrderQueues, NEW expected,
         FindOrder(q, o, expected)
  PROVE  Chased'
<1>1. /\ q \in Queues /\ copies[q][o]["ready"] > 0 /\ Pursuing(q) = {}
      /\ UNCHANGED <<rows, found, refused, givenUp>>
  BY PursuingFacts DEF FindOrder, Queues, WorkQueues
<1>2. ASSUME NEW x \in Orders PROVE Handed(x)
  <2>1. CASE copies' = Nack(q, o, "ready")
    BY <1>1, <2>1, RejectedHanded, StageFacts DEF Nack, PInv
  <2>2. ASSUME NEW b \in {"write", "done"}, copies' = Move(q, o, "ready", b)
        PROVE  Handed(x)
    BY <1>1, <2>2, MovedHanded, StageFacts DEF PInv
  <2> QED BY <2>1, <2>2 DEF FindOrder
<1> QED BY <1>1, <1>2, CopiesHanded

LEMMA SaveOrderPursued ==
  ASSUME PInv, NEW o \in Orders, NEW q \in OrderQueues, NEW status,
         SaveOrder(q, o, status)
  PROVE  Chased'
<1>1. /\ q \in Queues /\ copies[q][o]["write"] > 0 /\ Pursuing(q) = {}
      /\ copies' = Move(q, o, "write", "done")
      /\ UNCHANGED <<rows, found, refused, givenUp>>
  BY PursuingFacts DEF SaveOrder, Queues, WorkQueues
<1>2. \A x \in Orders : Handed(x)
  BY <1>1, MovedHanded, StageFacts DEF PInv
<1> QED BY <1>1, <1>2, CopiesHanded

LEMMA CheckStockPursued ==
  ASSUME PInv, NEW o \in Orders, CheckStock(o)
  PROVE  Chased'
<1>1. /\ copies[InventoryOrderCreated][o]["ready"] > 0
      /\ copies' = Move(InventoryOrderCreated, o, "ready", "checked")
      /\ UNCHANGED <<rows, found, refused, givenUp>>
  BY DEF CheckStock
<1>2. \A x \in Orders : Handed(x)
  BY <1>1, MovedHanded, StageFacts, PursuingFacts, QueueFacts DEF PInv
<1> QED BY <1>1, <1>2, CopiesHanded

LEMMA ReserveStockPursued ==
  ASSUME PInv, NEW o \in Orders, ReserveStock(o)
  PROVE  Chased'
<1> DEFINE q == InventoryOrderCreated
<1>1. /\ q \in Queues /\ copies[q][o]["checked"] > 0
      /\ copies' = Move(q, o, "checked", "reserved")
      /\ UNCHANGED <<found, refused, givenUp>>
      /\ \A x \in Orders \ {o} : rows'[x] = rows[x]
  BY QueueFacts DEF ReserveStock, PInv, IInv, TypeOK
<1>2. \A x \in Orders : Handed(x)
  BY <1>1, MovedHanded, StageFacts, PursuingFacts DEF PInv
<1>3. Pursued(o)'
  <2>1. copies'[q][o]["reserved"] = copies[q][o]["reserved"] + 1
          /\ copies[q][o]["reserved"] \in Nat
    BY <1>1, MoveCounts, Counted, StageFacts DEF Moved, One, PInv
  <2> QED BY <1>1, <2>1, PursuingFacts DEF Pursued
<1>4. \A x \in Orders : Excused(x) => Excused(x)'
  BY <1>1 DEF Excused, Abandoned
<1>5. \A x \in Orders \ {o} : AllFound(x) => AllFound(x)'
  BY <1>1, SameFound
<1> QED BY <1>2, <1>3, <1>4, <1>5, HandedOn

LEMMA RefuseStockPursued ==
  ASSUME PInv, NEW o \in Orders, RefuseStock(o)
  PROVE  Chased'
<1> DEFINE q == InventoryOrderCreated
<1>1. /\ q \in Queues /\ copies[q][o]["ready"] > 0
      /\ copies' = Move(q, o, "ready", "refused")
      /\ refused' = refused \cup {o}
      /\ UNCHANGED <<rows, found, givenUp>>
  BY QueueFacts DEF RefuseStock
<1>2. \A x \in Orders \ {o} : Handed(x)
  BY <1>1, MovedHanded, StageFacts DEF PInv
<1>3. /\ Excused(o)'
      /\ \A x \in Orders : Excused(x) => Excused(x)'
      /\ \A x \in Orders : AllFound(x) => AllFound(x)'
  BY <1>1 DEF Excused, Abandoned, AllFound, Outstanding
<1> QED BY <1>2, <1>3, HandedOn

\* The copy that reads the rows finds every batch that is RESERVED now.
LEMMA FindPursued ==
  ASSUME PInv, NEW o \in Orders, NEW q \in SettlementQueues, FindReservations(q, o)
  PROVE  Chased'
<1>1. PICK b \in {"done", "found"} :
        /\ q \in Queues /\ copies[q][o]["ready"] > 0
        /\ copies' = Move(q, o, "ready", b)
        /\ UNCHANGED <<rows, refused, givenUp>>
  <2>1. CASE Outstanding(o) = {}
    BY <2>1, SettlementFacts DEF FindReservations
  <2>2. CASE Outstanding(o) # {}
    BY <2>2, SettlementFacts DEF FindReservations
  <2> QED BY <2>1, <2>2
<1>2. \A x \in Orders \ {o} : Handed(x)
  BY <1>1, MovedHanded, StageFacts DEF PInv
<1>3. AllFound(o)'
  <2>1. CASE Outstanding(o) = {}
    BY <1>1, <2>1 DEF AllFound, Outstanding
  <2>2. CASE Outstanding(o) # {}
    <3>1. /\ found' = [found EXCEPT ![q][o] = Append(@, Outstanding(o))]
          /\ found \in [SettlementQueues -> [Orders -> Seq(SUBSET Nat)]]
      BY <2>2 DEF FindReservations, PInv, IInv, TypeOK
    <3>2. PICK t : t = Append(found[q][o], Outstanding(o))
      OBVIOUS
    <3>3. \E i \in DOMAIN t : t[i] = Outstanding(o)
      BY <3>1, <3>2, OutstandingTyped, AppendFacts DEF PInv
    <3>4. found'[q][o] = t
      BY <3>1, <3>2
    <3>5. Outstanding(o)' = Outstanding(o)
      BY <1>1 DEF Outstanding
    <3> QED BY <3>3, <3>4, <3>5 DEF AllFound
  <2> QED BY <2>1, <2>2
<1>4. \A x \in Orders : Excused(x) => Excused(x)'
  BY <1>1 DEF Excused, Abandoned
<1>5. \A x \in Orders \ {o} : AllFound(x) => AllFound(x)'
  <2>1. PICK t : found' = found \/ found' = [found EXCEPT ![q][o] = t]
    BY DEF FindReservations
  <2>2. found \in [SettlementQueues -> [Orders -> Seq(SUBSET Nat)]]
    BY DEF PInv, IInv, TypeOK
  <2>3. \A x \in Orders \ {o}, r \in SettlementQueues : found'[r][x] = found[r][x]
    BY <2>1, <2>2, ZenonT(30)
  <2> QED BY <1>1, <2>3, SameFound
<1> QED BY <1>2, <1>3, <1>4, <1>5, HandedOn

\* What one copy settles, no other has to; what the others found, they still hold.
LEMMA SettlePursued ==
  ASSUME PInv, NEW o \in Orders, NEW q \in SettlementQueues,
         NEW i \in DOMAIN found[q][o], NEW status \in {"CONFIRMED", "RELEASED"},
         SettleReservations(q, o, i, status)
  PROVE  Chased'
<1>1. /\ q \in Queues /\ copies[q][o]["found"] > 0
      /\ copies' = Move(q, o, "found", "done")
      /\ found' = [found EXCEPT ![q][o] = RemoveAt(@, i)]
      /\ found \in [SettlementQueues -> [Orders -> Seq(SUBSET Nat)]]
      /\ UNCHANGED <<refused, givenUp>>
  BY SettlementFacts DEF SettleReservations, PInv, IInv, TypeOK
<1>2. \A x \in Orders : Handed(x)
  BY <1>1, MovedHanded, StageFacts, PursuingFacts DEF PInv
<1>3. \A x \in Orders : Excused(x) => Excused(x)'
  BY <1>1 DEF Excused, Abandoned
<1>4. /\ \A x \in Orders : x # o => rows'[x] = rows[x]
      /\ DOMAIN rows'[o] = DOMAIN rows[o]
      /\ \A b \in DOMAIN rows[o] :
           rows'[o][b] = IF b \in found[q][o][i] THEN status ELSE rows[o][b]
  BY SettleRows DEF PInv
<1>5. \A x \in Orders \ {o} : AllFound(x) => AllFound(x)'
  BY <1>1, <1>4, SameFound
<1>6. ASSUME AllFound(o) PROVE AllFound(o)'
  <2> SUFFICES ASSUME NEW b \in Outstanding(o)'
               PROVE  \E r \in SettlementQueues : \E j \in DOMAIN found'[r][o] :
                        b \in found'[r][o][j]
    BY DEF AllFound
  <2>1. b \in Outstanding(o) /\ b \notin found[q][o][i]
    BY <1>4 DEF Outstanding
  <2>2. PICK r \in SettlementQueues : \E k \in DOMAIN found[r][o] : b \in found[r][o][k]
    BY <1>6, <2>1 DEF AllFound
  <2>3. CASE r # q
    BY <1>1, <2>2, <2>3
  <2>4. CASE r = q
    <3>1. PICK k \in DOMAIN found[q][o] : b \in found[q][o][k]
      BY <2>2, <2>4
    <3> k # i /\ found[q][o] \in Seq(SUBSET Nat)
      BY <1>1, <2>1, <3>1
    <3>2. PICK t : t = RemoveAt(found[q][o], i)
      OBVIOUS
    <3>3. \E j \in DOMAIN t : t[j] = found[q][o][k]
      BY <3>1, <3>2, RemoveAtFacts
    <3>4. found'[q][o] = t
      BY <1>1, <3>2
    <3> QED BY <2>4, <3>1, <3>3, <3>4
  <2> QED BY <2>3, <2>4
<1> QED BY <1>2, <1>3, <1>5, <1>6, HandedOn

LEMMA SettlementPursued ==
  ASSUME PInv, NEW o \in Orders, ConfirmReservation(o) \/ ReleaseReservation(o)
  PROVE  Chased'
BY FindPursued, SettlePursued, SettlementFacts DEF ConfirmReservation, ReleaseReservation

\* A handler that throws has its copy retried, whatever it had found.
LEMMA FailPursued ==
  ASSUME PInv, NEW q \in WorkQueues, NEW o \in Orders, NEW stage \in AtDatabase,
         HandlerFails(q, o, stage)
  PROVE  Chased'
<1>1. /\ q \in Queues /\ stage \in Stages /\ stage # "retry"
      /\ copies[q][o][stage] > 0
      /\ copies' = Fanout(Drop(q, o, stage), q.event, o, "retry")
      /\ Forget(q, o, stage)
      /\ UNCHANGED <<rows, refused, givenUp>>
  BY QueueFacts, StageFacts DEF HandlerFails, Nack, AtDatabase
<1>2. \A x \in Orders : Handed(x)
  BY <1>1, RejectedHanded DEF PInv
<1>3. found \in [SettlementQueues -> [Orders -> Seq(SUBSET Nat)]]
  BY DEF PInv, IInv, TypeOK
<1>4. CASE stage # "found" \/ q \notin SettlementQueues
  <2>1. found' = found
    BY <1>1, <1>3, <1>4 DEF Forget
  <2> QED BY <1>1, <1>2, <2>1, CopiesHanded
<1>5. CASE stage = "found" /\ q \in SettlementQueues
  <2>1. PICK i \in DOMAIN found[q][o] :
          found' = [found EXCEPT ![q][o] = RemoveAt(@, i)]
    BY <1>1, <1>5 DEF Forget
  <2>2. \A x \in Orders \ {o} : AllFound(x) => AllFound(x)'
    BY <1>1, <1>3, <2>1, SameFound
  <2>3. Pursued(o)'
    <3>1. Drop(q, o, stage) \in CopiesType /\ "retry" \in Stages
      BY <1>1, CopiesTyped, DropLemma, StageFacts DEF PInv
    <3>2. copies'[q][o]["retry"] = Drop(q, o, stage)[q][o]["retry"] + 1
      BY <1>1, <3>1, FanoutLemma
    <3>3. copies'[q][o]["retry"] > 0
      BY <1>1, <3>1, <3>2 DEF CopiesType
    <3> QED BY <1>1, <1>5, <3>3, PursuingFacts DEF Pursued
  <2>4. \A x \in Orders : Excused(x) => Excused(x)'
    BY <1>1 DEF Excused, Abandoned
  <2> QED BY <1>2, <2>2, <2>3, <2>4, HandedOn
<1> QED BY <1>4, <1>5

\* A copy in pursuit that is given up excuses its order, another one matters not.
LEMMA GiveUpPursued ==
  ASSUME PInv, NEW q \in WorkQueues, NEW o \in Orders, NEW stage \in AtDatabase,
         GiveUp(q, o, stage)
  PROVE  Chased'
<1>1. /\ q \in Queues /\ stage \in Stages /\ copies[q][o][stage] > 0
      /\ copies' = Drop(q, o, stage)
      /\ Forget(q, o, stage)
      /\ givenUp \in [WorkQueues -> SUBSET Orders]
      /\ givenUp' = [givenUp EXCEPT ![q] = @ \cup {o}]
      /\ UNCHANGED <<rows, refused>>
  BY QueueFacts, StageFacts DEF GiveUp, AtDatabase, PInv, IInv, TypeOK
<1>2. /\ found \in [SettlementQueues -> [Orders -> Seq(SUBSET Nat)]]
      /\ {InventoryOrderCreated, PaymentInventoryReserved} \subseteq WorkQueues
      /\ SettlementQueues \subseteq WorkQueues
  BY DEF PInv, IInv, TypeOK, WorkQueues, SettlementQueues, InventoryQueues
<1>3. \A x \in Orders : Excused(x) => Excused(x)'
  <2>1. \A r \in WorkQueues : givenUp[r] \subseteq givenUp'[r]
    BY <1>1
  <2> QED BY <1>1, <1>2, <2>1 DEF Excused, Abandoned, SettlementQueues
<1>4. CASE q \in OrderQueues
  <2>1. Pursuing(q) = {} /\ q \notin SettlementQueues
    BY <1>4, PursuingFacts, QueuesApart DEF SettlementQueues
  <2>2. found' = found
    BY <1>1, <1>2, <2>1 DEF Forget
  <2>3. \A x \in Orders : Handed(x)
    BY <1>1, <2>1, DropHanded DEF PInv
  <2>4. \A x \in Orders : AllFound(x) => AllFound(x)'
    BY <1>1, <2>2, SameFound
  <2> QED BY <1>3, <2>3, <2>4, HandedOn
<1>5. CASE q \notin OrderQueues
  <2>1. q \in {InventoryOrderCreated, PaymentInventoryReserved, InventoryPaymentSucceeded,
               InventoryPaymentFailed}
    BY <1>5 DEF WorkQueues, InventoryQueues
  <2>2. Excused(o)'
    <3>1. o \in givenUp'[q]
      BY <1>1
    <3> QED BY <2>1, <3>1 DEF Excused, Abandoned
  <2>3. \A x \in Orders \ {o} : Handed(x) /\ (AllFound(x) => AllFound(x)')
    <3> SUFFICES ASSUME NEW x \in Orders \ {o}
                 PROVE  Handed(x) /\ (AllFound(x) => AllFound(x)')
      OBVIOUS
    <3>1. \A r \in SettlementQueues : found'[r][x] = found[r][x]
      <4>1. PICK t : found' = found \/ found' = [found EXCEPT ![q][o] = t]
        BY <1>1 DEF Forget
      <4> QED BY <1>2, <4>1, ZenonT(30)
    <3>2. \A r \in Queues, s \in Stages : copies'[r][x][s] = copies[r][x][s]
      BY <1>1, CopiesTyped, DropLemma DEF PInv
    <3>3. Handed(x)
      BY <3>2, PursuitStages DEF Handed, Pursued
    <3> QED BY <1>1, <3>1, <3>3, SameFound
  <2> QED BY <1>3, <2>2, <2>3, HandedOn
<1> QED BY <1>4, <1>5

\* A process that dies leaves what its handlers had found, and the copies are
\* delivered again.
LEMMA CrashPursued ==
  ASSUME PInv, NEW service, Crash(service)
  PROVE  Chased'
<1>1. /\ copies' = Requeued(service)
      /\ UNCHANGED <<rows, refused, givenUp>>
  BY DEF Crash
<1>2. \A x \in Orders : Handed(x)
  BY <1>1, CrashHanded DEF PInv
<1>3. CASE service # "inventory"
  BY <1>1, <1>2, <1>3, CopiesHanded DEF Crash
<1>4. CASE service = "inventory"
  <2>1. \A x \in Orders : Excused(x) => Excused(x)'
    BY <1>1 DEF Excused, Abandoned
  <2>2. ASSUME NEW x \in Orders, AllFound(x), ~AllFound(x)' PROVE Pursued(x)'
    <3>1. PICK b \in Outstanding(x) : TRUE
      BY <1>1, <2>2 DEF AllFound, Outstanding
    <3>2. PICK q \in SettlementQueues : DOMAIN found[q][x] # {}
      BY <2>2, <3>1 DEF AllFound
    <3>3. copies[q][x]["found"] > 0
      <4>1. /\ found[q][x] \in Seq(SUBSET Nat)
            /\ Len(found[q][x]) = copies[q][x]["found"]
        BY DEF PInv, IInv, TypeOK
      <4>2. Len(found[q][x]) \in Nat /\ DOMAIN found[q][x] = 1..Len(found[q][x])
        BY <4>1, LenProperties
      <4> QED BY <3>2, <4>1, <4>2
    <3>4. copies'[q][x]["ready"] > 0
      <4>1. q \in Queues /\ q.service = "inventory"
        BY SettlementFacts DEF SettlementQueues, InventoryPaymentSucceeded,
           InventoryPaymentFailed, Queue
      <4> QED BY <1>1, <1>4, <3>3, <4>1, RequeuedReady, StageFacts DEF PInv
    <3>5. q \in Queues /\ "ready" \in Pursuing(q)
      BY PursuingFacts, SettlementFacts
    <3> QED BY <3>4, <3>5 DEF Pursued
  <2> QED BY <1>2, <2>1, <2>2, HandedOn
<1> QED BY <1>3, <1>4

LEMMA PaymentPursued ==
  ASSUME PInv, NEW o \in Orders,
         SavePendingPayment(o) \/ ApprovePayment(o) \/ DeclinePayment(o)
  PROVE  Chased'
<1> DEFINE q == PaymentInventoryReserved
<1>1. PICK a \in {"ready", "write"}, b \in {"write", "approved", "declined"} :
        /\ copies[q][o][a] > 0 /\ a # b
        /\ copies' = Move(q, o, a, b)
        /\ UNCHANGED <<rows, found, refused, givenUp>>
  BY DEF SavePendingPayment, ApprovePayment, DeclinePayment, SavePaymentResult
<1>2. \A x \in Orders : Handed(x)
  BY <1>1, MovedHanded, StageFacts, QueueFacts, PursuingFacts DEF PInv
<1> QED BY <1>1, <1>2, CopiesHanded

LEMMA PublishPursued ==
  ASSUME PInv, NEW o \in Orders,
         \/ PublishInventoryReserved(o) \/ PublishReservationFailed(o)
         \/ PublishPaymentSucceeded(o) \/ PublishPaymentFailed(o)
  PROVE  Chased'
<1>1. PICK q \in {InventoryOrderCreated, PaymentInventoryReserved},
           a \in {"reserved", "refused", "approved", "declined"}, event \in Events :
        /\ PublishFrom(q, o, a, event)
        /\ \/ a \notin Pursuing(q)
           \/ \E r \in Queues : r.event = event /\ "ready" \in Pursuing(r)
  <2>1. CASE PublishInventoryReserved(o)
    BY <2>1, QueueFacts, EventFacts, PursuingFacts DEF PublishInventoryReserved, Events
  <2>2. CASE PublishReservationFailed(o)
    BY <2>2 DEF PublishReservationFailed, Events, Pursuing
  <2>3. CASE PublishPaymentSucceeded(o)
    BY <2>3, QueueFacts, EventFacts, PursuingFacts DEF PublishPaymentSucceeded, Events
  <2>4. CASE PublishPaymentFailed(o)
    BY <2>4, QueueFacts, EventFacts, PursuingFacts DEF PublishPaymentFailed, Events
  <2> QED BY <2>1, <2>2, <2>3, <2>4
<1>2. UNCHANGED <<rows, found, refused, givenUp>>
  BY <1>1 DEF PublishFrom
<1>3. \A x \in Orders : Handed(x)
  BY <1>1, PublishHanded, QueueFacts DEF PInv
<1> QED BY <1>2, <1>3, CopiesHanded

LEMMA NextPInv == PInv /\ [Next]_vars => PInv'
<1> SUFFICES ASSUME PInv, [Next]_vars PROVE Chased'
  BY NextIInv DEF PInv
<1>1. ASSUME copies' = copies, UNCHANGED <<rows, found, refused, givenUp>> PROVE Chased'
  <2>1. \A x \in Orders : Handed(x)
    BY <1>1 DEF Handed, Pursued
  <2> QED BY <1>1, <2>1, CopiesHanded
<1>2. ASSUME NEW o \in Orders, PublishOrderCreated(o) PROVE Chased'
  <2>1. /\ copies' \in CopiesType
        /\ \A r \in Queues, x \in Orders, s \in Stages :
             copies'[r][x][s] >= copies[r][x][s]
    <3>1. "ready" \in Stages /\ copies \in CopiesType
      BY StageFacts, CopiesTyped DEF PInv
    <3>2. /\ copies' \in CopiesType
          /\ \A r \in Queues, x \in Orders, s \in Stages :
               copies'[r][x][s] = copies[r][x][s] \/ copies'[r][x][s] = copies[r][x][s] + 1
      BY <1>2, <3>1, FanoutLemma DEF PublishOrderCreated
    <3> QED BY <3>2, Counted DEF PInv
  <2>2. \A x \in Orders : Handed(x)
    BY <2>1, NoFewer, PursuitStages DEF PInv
  <2> QED BY <1>2, <2>2, CopiesHanded DEF PublishOrderCreated
<1>3. ASSUME NEW o \in Orders, NEW q \in Queues, RetryExpires(q, o)
      PROVE  Chased'
  <2>1. \A x \in Orders : Handed(x)
    BY <1>3, RejectedHanded, StageFacts DEF RetryExpires, PInv
  <2> QED BY <1>3, <2>1, CopiesHanded DEF RetryExpires
<1>4. ASSUME NEW q \in WorkQueues, NEW o \in Orders, NEW stage \in AtDatabase,
             HandlerFails(q, o, stage) \/ GiveUp(q, o, stage)
      PROVE  Chased'
  BY <1>4, FailPursued, GiveUpPursued
<1>5. ASSUME NEW q \in Queues, NEW o \in Orders, Ack(q, o) \/ Notify(q, o)
      PROVE  Chased'
  <2>1. PICK a \in {"done", "ready"} :
          a \notin Pursuing(q) /\ copies[q][o][a] > 0 /\ copies' = Drop(q, o, a)
    BY <1>5, PursuingFacts DEF Ack, Notify
  <2>2. \A x \in Orders : Handed(x)
    BY <2>1, DropHanded, StageFacts DEF PInv
  <2> QED BY <1>5, <2>2, CopiesHanded DEF Ack, Notify
<1>6. ASSUME NEW service, Crash(service) PROVE Chased'
  BY <1>6, CrashPursued
<1>7. ASSUME NEW o \in Orders,
             \/ MarkInventoryReserved(o) \/ CancelForInventoryFailure(o)
             \/ MarkPaid(o) \/ MarkPaymentFailed(o)
      PROVE  Chased'
  BY <1>7, FindOrderPursued, SaveOrderPursued DEF MarkInventoryReserved,
     CancelForInventoryFailure, MarkPaid, MarkPaymentFailed, OrderQueues
<1>8. CASE Progress
  BY <1>2, <1>3, <1>5, <1>7, <1>8, CheckStockPursued, ReserveStockPursued,
     RefuseStockPursued, SettlementPursued, PaymentPursued, PublishPursued DEF Progress
<1>9. ASSUME NEW o \in Orders, CreateOrder(o) PROVE Chased'
  BY <1>1, <1>9 DEF CreateOrder
<1>10. CASE UNCHANGED vars
  BY <1>1, <1>10 DEF vars
<1> QED BY <1>4, <1>6, <1>8, <1>9, <1>10 DEF Next

-----------------------------------------------------------------------------
(* The theorems.                                                           *)

\* Every variable of the checkout keeps its type; counts of copies and of
\* payments never fall below zero.
THEOREM TypeCorrect == Spec => []TypeOK
<1>1. IInv => TypeOK
  BY DEF IInv
<1> QED BY <1>1, InitIInv, NextIInv, PTL DEF Spec

\* No service acts on something that did not happen in another one: the
\* property Provenance, with any number of crashes, failures and duplicates.
THEOREM ProvenanceHolds == Spec => []Provenance
<1>1. IInv => Provenance
  BY DEF IInv
<1> QED BY <1>1, InitIInv, NextIInv, PTL DEF Spec

\* Stock that is reserved for an order has a copy on its way that settles it,
\* unless an attempt to reserve was refused or such a copy was given up: the
\* property ReservedStockIsPursued, with any number of crashes, failures and
\* duplicates, and handlers that overlap between reading the rows and settling.
THEOREM StockIsPursued == Spec => []ReservedStockIsPursued
<1>1. Init => PInv
  <2> SUFFICES ASSUME Init PROVE Chased
    BY InitIInv DEF PInv
  <2>1. DOMAIN (<<>>) = {}
    OBVIOUS
  <2>2. \A o \in Orders : Outstanding(o) = {}
    BY <2>1 DEF Init, Outstanding
  <2> QED BY <2>2 DEF Chased, AllFound
<1> QED BY <1>1, ChasedMeans, NextPInv, PTL DEF Spec
=============================================================================
