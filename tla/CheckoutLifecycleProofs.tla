---------------------- MODULE CheckoutLifecycleProofs ----------------------
(***************************************************************************)
(* As long as nothing crashes or throws, an order of module Checkout goes  *)
(* through one life: StatusAgrees holds until the first fault, and without *)
(* faults Checkout implements OrderLifecycle.                              *)
(***************************************************************************)
EXTENDS CheckoutProofs

-----------------------------------------------------------------------------
(* The inductive invariant.  Each step of the checkout for an order is     *)
(* taken once because what it consumes is made once: the request, then     *)
(* order.created, then a batch of rows or a refusal, then inventory        *)
(* .reserved, then a payment, then its outcome, then a settlement.  The    *)
(* sums below count what is waiting for a step together with what the step *)
(* leaves behind.                                                          *)

\* The consumers that hear of an outcome: order and inventory service.
Listeners == OrderQueues \cup SettlementQueues

OnWay(q, o) == copies[q][o]["ready"] + copies[q][o]["write"] + copies[q][o]["found"]
                 + copies[q][o]["done"]

Batches(o) == Len(rows[o])

NoRetry(o) == \A q \in Queues : copies[q][o]["retry"] = 0

OneAttempt(o) ==
  One(o \in creating) + copies[InventoryOrderCreated][o]["ready"]
    + copies[InventoryOrderCreated][o]["checked"] + Batches(o) + One(o \in refused) <= 1

OnePayment(o) ==
  copies[InventoryOrderCreated][o]["reserved"]
    + copies[PaymentInventoryReserved][o]["ready"] + PaymentRows(o) <= Batches(o)

\* What the order and the inventory service are told, they are told once.
OneStory(o) ==
  /\ copies[InventoryOrderCreated][o]["reserved"] + OnWay(OrderInventoryReserved, o)
       <= Batches(o)
  /\ copies[InventoryOrderCreated][o]["refused"] + OnWay(OrderReservationFailed, o)
       <= One(o \in refused)
  /\ copies[PaymentInventoryReserved][o]["approved"] + OnWay(OrderPaymentSucceeded, o)
       <= payments[o]["SUCCEEDED"]
  /\ copies[PaymentInventoryReserved][o]["declined"] + OnWay(OrderPaymentFailed, o)
       <= payments[o]["FAILED"]
  /\ copies[PaymentInventoryReserved][o]["approved"] + OnWay(InventoryPaymentSucceeded, o)
       <= payments[o]["SUCCEEDED"]
  /\ copies[PaymentInventoryReserved][o]["declined"] + OnWay(InventoryPaymentFailed, o)
       <= payments[o]["FAILED"]

\* The status that findOne read is still there when save writes the next one.
StatusAsRead(o) ==
  /\ copies[OrderInventoryReserved][o]["write"] > 0 => orders[o] = "PENDING"
  /\ copies[OrderReservationFailed][o]["write"] > 0 => orders[o] = "PENDING"
  /\ copies[OrderPaymentSucceeded][o]["write"] > 0 => orders[o] = "INVENTORY_RESERVED"
  /\ copies[OrderPaymentFailed][o]["write"] > 0 => orders[o] = "INVENTORY_RESERVED"

\* The rows that find read are still RESERVED when the loop settles them.
RowsAsFound(o) ==
  \A q \in SettlementQueues : copies[q][o]["found"] > 0 =>
    /\ rows[o] = <<"RESERVED">>
    /\ \A i \in DOMAIN found[q][o] : found[q][o][i] = {1}

OneLife(o) ==
  /\ NoRetry(o)
  /\ OneAttempt(o)
  /\ OnePayment(o)
  /\ OneStory(o)
  /\ StatusAsRead(o)
  /\ RowsAsFound(o)

Faultless == crashes = 0 /\ failures = 0

LInv == IInv /\ (Faultless => \A o \in Orders : OneLife(o))

LEMMA BatchCount == IInv => \A o \in Orders : Batches(o) \in Nat
BY RowsTyped, LenProperties DEF Batches

LEMMA NoBatch == ASSUME IInv, NEW o \in Orders PROVE Batches(o) = 0 <=> rows[o] = <<>>
BY RowsTyped, EmptySeq DEF Batches

LEMMA ListenerFacts ==
  /\ Listeners \subseteq Queues
  /\ OrderQueues \subseteq Listeners
  /\ SettlementQueues \subseteq Listeners
  /\ InventoryOrderCreated \notin Listeners
  /\ PaymentInventoryReserved \notin Listeners
  /\ \A q \in SettlementQueues : q \notin OrderQueues
  /\ InventoryPaymentSucceeded # InventoryPaymentFailed
<1>1. OrderQueues \subseteq Queues
  BY DEF Queues, WorkQueues
<1>2. InventoryPaymentSucceeded # InventoryPaymentFailed
  BY EventFacts
<1> QED BY <1>1, <1>2, SettlementFacts, QueueFacts, QueuesApart DEF Listeners

LEMMA Listening ==
  Listeners = {OrderInventoryReserved, OrderReservationFailed, OrderPaymentSucceeded,
               OrderPaymentFailed, InventoryPaymentSucceeded, InventoryPaymentFailed}
BY SettlementFacts DEF Listeners, OrderQueues

LEMMA OnWayCount ==
  ASSUME IInv, NEW q \in Listeners, NEW o \in Orders
  PROVE  /\ OnWay(q, o) \in Nat
         /\ \A s \in {"ready", "write", "found", "done"} :
              copies[q][o][s] \in Nat /\ copies[q][o][s] <= OnWay(q, o)
<1>1. \A s \in {"ready", "write", "found", "done"} : copies[q][o][s] \in Nat
  BY Counted, ListenerFacts, StageFacts
<1> QED BY <1>1 DEF OnWay

LEMMA AtMostOneOf ==
  ASSUME NEW a \in Nat, NEW b \in Nat, NEW c \in Nat, NEW d \in Nat, NEW e \in Nat,
         a + b + c + d + e <= 1
  PROVE  d <= 1 /\ (e = 1 => d = 0) /\ (b > 0 \/ c > 0 => d = 0 /\ e = 0)
OBVIOUS

LEMMA NoMoreThan ==
  ASSUME NEW a \in Nat, NEW b \in Nat, NEW c \in Nat, NEW d \in Nat, a + b + c <= d
  PROVE  c <= d /\ (d = 0 => a = 0 /\ b = 0 /\ c = 0) /\ (b > 0 /\ d <= 1 => c = 0 /\ d = 1)
OBVIOUS

\* An order has at most one batch and one payment.
LEMMA AtMostOne ==
  ASSUME IInv, NEW o \in Orders, OneLife(o)
  PROVE  /\ Batches(o) \in Nat /\ Batches(o) <= 1
         /\ PaymentRows(o) \in Nat /\ PaymentRows(o) <= Batches(o)
         /\ o \in refused => Batches(o) = 0
         /\ \/ copies[InventoryOrderCreated][o]["ready"] > 0
            \/ copies[InventoryOrderCreated][o]["checked"] > 0
            => Batches(o) = 0 /\ o \notin refused
         /\ Batches(o) = 0 => /\ copies[InventoryOrderCreated][o]["reserved"] = 0
                              /\ copies[PaymentInventoryReserved][o]["ready"] = 0
                              /\ PaymentRows(o) = 0
         /\ copies[PaymentInventoryReserved][o]["ready"] > 0 =>
              Batches(o) = 1 /\ PaymentRows(o) = 0
<1> DEFINE a == One(o \in creating)
           b == copies[InventoryOrderCreated][o]["ready"]
           c == copies[InventoryOrderCreated][o]["checked"]
           d == Batches(o)
           e == One(o \in refused)
           f == copies[InventoryOrderCreated][o]["reserved"]
           g == copies[PaymentInventoryReserved][o]["ready"]
           h == PaymentRows(o)
<1>1. /\ a \in Nat /\ b \in Nat /\ c \in Nat /\ d \in Nat /\ e \in Nat
      /\ f \in Nat /\ g \in Nat /\ h \in Nat
      /\ o \in refused => e = 1
      /\ e = 0 => o \notin refused
  BY Counted, BatchCount, QueueFacts, StageFacts DEF One
<1>2. a + b + c + d + e <= 1 /\ f + g + h <= d
  BY DEF OneLife, OneAttempt, OnePayment
<1> HIDE DEF a, b, c, d, e, f, g, h
<1>3. d <= 1 /\ (e = 1 => d = 0) /\ (b > 0 \/ c > 0 => d = 0 /\ e = 0)
  BY <1>1, <1>2, AtMostOneOf
<1>4. h <= d /\ (d = 0 => f = 0 /\ g = 0 /\ h = 0) /\ (g > 0 /\ d <= 1 => h = 0 /\ d = 1)
  BY <1>1, <1>2, NoMoreThan
<1> QED BY <1>1, <1>3, <1>4 DEF b, c, d, f, g, h

-----------------------------------------------------------------------------
(* An order that a step leaves alone.                                      *)

\* A step in which nothing happens to the order.
Untouched(x) ==
  /\ orders'[x] = orders[x]
  /\ (x \in creating') <=> (x \in creating)
  /\ (x \in refused') <=> (x \in refused)
  /\ rows'[x] = rows[x]
  /\ payments'[x] = payments[x]
  /\ \A q \in Queues, s \in Stages : copies'[q][x][s] = copies[q][x][s]
  /\ \A q \in SettlementQueues : found'[q][x] = found[q][x]

LEMMA UntouchedKeeps ==
  ASSUME NEW x \in Orders, OneLife(x), Untouched(x)
  PROVE  OneLife(x)'
<1>1. \A q \in Queues : OnWay(q, x)' = OnWay(q, x)
  BY StageFacts DEF OnWay, Untouched
<1>2. Batches(x)' = Batches(x) /\ PaymentRows(x)' = PaymentRows(x)
  BY DEF Untouched, Batches, PaymentRows
<1>3. One(x \in creating)' = One(x \in creating) /\ One(x \in refused)' = One(x \in refused)
  BY DEF Untouched, One
<1>4. NoRetry(x)'
  BY StageFacts DEF OneLife, NoRetry, Untouched
<1>5. OneAttempt(x)' /\ OnePayment(x)'
  BY <1>2, <1>3, QueueFacts, StageFacts DEF OneLife, OneAttempt, OnePayment, Untouched
<1>6. OneStory(x)'
  BY <1>1, <1>2, <1>3, QueueFacts, StageFacts DEF OneLife, OneStory, Untouched
<1>7. StatusAsRead(x)' /\ RowsAsFound(x)'
  BY QueueFacts, StageFacts, SettlementFacts
     DEF OneLife, StatusAsRead, RowsAsFound, Untouched
<1> QED BY <1>4, <1>5, <1>6, <1>7 DEF OneLife

-----------------------------------------------------------------------------
(* The order service keeps the one life of every order.                    *)

LEMMA KnownOrder ==
  ASSUME IInv, NEW q \in Queues, NEW o \in Orders, NEW s \in Stages,
         copies[q][o][s] > 0
  PROVE  orders[o] # "NONE"
<1>1. Caused(q.event, o) /\ q.event \in Events
  BY CopyCaused, QueueEvents DEF CausedStage
<1>2. /\ rows[o] # <<>> \/ o \in refused => orders[o] # "NONE"
      /\ payments[o]["SUCCEEDED"] > 0 \/ payments[o]["FAILED"] > 0 => rows[o] # <<>>
  BY Counted DEF IInv, Provenance, RowsCaused, PaymentRows, PaymentStatus
<1> QED BY <1>1, <1>2 DEF Caused, Events

\* An order that is not there yet has nothing on its way.
LEMMA NothingYet ==
  ASSUME IInv, NEW o \in Orders, orders[o] = "NONE"
  PROVE  /\ \A q \in Queues, s \in Stages : copies[q][o][s] = 0
         /\ Batches(o) = 0
         /\ o \notin refused
<1>1. \A q \in Queues, s \in Stages : copies[q][o][s] = 0
  BY KnownOrder, Counted, BatchCount
<1> QED BY <1>1, NoBatch, Counted, BatchCount DEF IInv, Provenance, RowsCaused

LEMMA CreateOrderOnce ==
  ASSUME IInv, NEW o \in Orders, CreateOrder(o), \A x \in Orders : OneLife(x)
  PROVE  \A x \in Orders : OneLife(x)'
<1>1. ASSUME NEW x \in Orders, x # o PROVE OneLife(x)'
  <2>1. Untouched(x)
    BY <1>1 DEF CreateOrder, Untouched, IInv, TypeOK
  <2> QED BY <2>1, UntouchedKeeps
<1>2. OneLife(o)'
  <2>1. /\ orders[o] = "NONE"
        /\ UNCHANGED <<copies, found, rows, payments, refused>>
    BY DEF CreateOrder
  <2>2. /\ Batches(o)' = Batches(o) /\ PaymentRows(o)' = PaymentRows(o)
        /\ \A q \in Queues : OnWay(q, o)' = OnWay(q, o)
    BY <2>1 DEF Batches, PaymentRows, OnWay
  <2>3. OneAttempt(o)'
    BY <2>1, <2>2, NothingYet, QueueFacts, StageFacts DEF OneAttempt, One
  <2>4. StatusAsRead(o)' /\ RowsAsFound(o)'
    BY <2>1, NothingYet, QueueFacts, StageFacts, SettlementFacts
       DEF StatusAsRead, RowsAsFound
  <2>5. OnePayment(o)' /\ OneStory(o)' /\ NoRetry(o)'
    BY <2>1, <2>2, QueueFacts DEF OneLife, OnePayment, OneStory, NoRetry, One
  <2> QED BY <2>3, <2>4, <2>5 DEF OneLife
<1> QED BY <1>1, <1>2

LEMMA PublishOrderCreatedOnce ==
  ASSUME IInv, NEW o \in Orders, PublishOrderCreated(o), \A x \in Orders : OneLife(x)
  PROVE  \A x \in Orders : OneLife(x)'
<1>1. \A r \in Queues, x \in Orders, s \in Stages :
        copies'[r][x][s] = copies[r][x][s]
                             + One(r.event = "order.created" /\ x = o /\ s = "ready")
  BY StageFacts, CopiesTyped, Counted, BatchCount, FanoutLemma DEF PublishOrderCreated, One
<1>2. ASSUME NEW x \in Orders, x # o PROVE OneLife(x)'
  <2>1. Untouched(x)
    BY <1>1, <1>2, Counted, BatchCount DEF PublishOrderCreated, Untouched, One
  <2> QED BY <2>1, UntouchedKeeps
<1>3. OneLife(o)'
  <2>1. /\ o \in creating /\ creating' = creating \ {o}
        /\ UNCHANGED <<orders, found, rows, payments, refused>>
    BY DEF PublishOrderCreated
  <2>2. /\ copies'[InventoryOrderCreated][o]["ready"]
             = copies[InventoryOrderCreated][o]["ready"] + 1
        /\ \A q \in Queues, s \in Stages : q.event # "order.created" \/ s # "ready" =>
             copies'[q][o][s] = copies[q][o][s]
    BY <1>1, QueueFacts, EventFacts, StageFacts, Counted, BatchCount DEF One
  <2>3. /\ Batches(o)' = Batches(o) /\ PaymentRows(o)' = PaymentRows(o)
        /\ \A q \in Listeners : OnWay(q, o)' = OnWay(q, o)
    <3>1. \A q \in Listeners : q \in Queues /\ q.event # "order.created"
      BY Listening, ListenerFacts, EventFacts
    <3> QED BY <2>1, <2>2, <3>1, StageFacts DEF Batches, PaymentRows, OnWay
  <2>4. OneAttempt(o)'
    BY <2>1, <2>2, <2>3, QueueFacts, StageFacts, Counted, BatchCount DEF OneLife, OneAttempt, One
  <2>5. StatusAsRead(o)' /\ RowsAsFound(o)'
    BY <2>1, <2>2, QueueFacts, StageFacts, SettlementFacts
       DEF OneLife, StatusAsRead, RowsAsFound
  <2>6. OnePayment(o)' /\ NoRetry(o)'
    BY <2>1, <2>2, <2>3, QueueFacts, EventFacts, StageFacts DEF OneLife, OnePayment, NoRetry
  <2>7. OneStory(o)'
    BY <2>1, <2>2, <2>3, QueueFacts, EventFacts, StageFacts, Listening
       DEF OneLife, OneStory, One
  <2> QED BY <2>4, <2>5, <2>6, <2>7 DEF OneLife
<1> QED BY <1>2, <1>3

\* A step that changes nothing of an order but where its copies are leaves the
\* other orders alone.
LEMMA MovedApart ==
  ASSUME IInv, NEW q, NEW o \in Orders, NEW a, NEW b,
         Moved(q, o, a, b), NEW x \in Orders, x # o, OneLife(x),
         orders'[x] = orders[x],
         (x \in creating') <=> (x \in creating),
         (x \in refused') <=> (x \in refused),
         rows'[x] = rows[x],
         payments'[x] = payments[x],
         \A r \in SettlementQueues : found'[r][x] = found[r][x]
  PROVE  OneLife(x)'
<1>1. Untouched(x)
  BY Counted, BatchCount DEF Moved, Untouched, One
<1> QED BY <1>1, UntouchedKeeps

\* The status a consumer of the order service moves an order on from.
Before(q) ==
  IF q \in {OrderInventoryReserved, OrderReservationFailed} THEN "PENDING"
  ELSE "INVENTORY_RESERVED"

\* A listener makes no events: what is on its way to an order stays so.
LEMMA ListenerStepOnce ==
  ASSUME IInv, NEW o \in Orders, NEW q \in Listeners,
         NEW a \in {"ready", "write", "found"}, NEW b \in {"write", "found", "done"},
         a # b, Moved(q, o, a, b),
         UNCHANGED <<creating, payments, refused>>, Batches(o)' = Batches(o),
         OneLife(o)
  PROVE  NoRetry(o)' /\ OneAttempt(o)' /\ OnePayment(o)' /\ OneStory(o)'
<1>1. \A r \in Queues, s \in Stages :
        copies'[r][o][s] = copies[r][o][s] + One(r = q /\ s = b) - One(r = q /\ s = a)
  BY DEF Moved, One
<1>2. /\ q # InventoryOrderCreated /\ q # PaymentInventoryReserved
      /\ Listeners \subseteq Queues
  BY ListenerFacts
<1>3. \A r \in Queues, s \in Stages : r # q \/ s \notin {a, b} =>
        copies'[r][o][s] = copies[r][o][s]
  BY <1>1, Counted, BatchCount DEF One
<1>4. PaymentRows(o)' = PaymentRows(o)
  BY DEF PaymentRows
<1>5. ASSUME NEW r \in Listeners PROVE OnWay(r, o)' = OnWay(r, o)
  <2>1. r \in Queues
    BY <1>2
  <2>2. CASE r # q
    BY <1>3, <2>1, <2>2, StageFacts DEF OnWay
  <2>3. CASE r = q
    <3> DEFINE n(s) == copies[q][o][s]
               m(s) == copies'[q][o][s]
    <3>1. \A s \in {"ready", "write", "found", "done"} :
            n(s) \in Nat /\ m(s) = n(s) + One(s = b) - One(s = a)
      BY <1>1, <2>1, <2>3, StageFacts, Counted, BatchCount DEF One
    <3>2. /\ OnWay(q, o) = n("ready") + n("write") + n("found") + n("done")
          /\ OnWay(q, o)' = m("ready") + m("write") + m("found") + m("done")
      BY DEF OnWay
    <3> HIDE DEF n, m
    <3>3. OnWay(q, o)' = OnWay(q, o)
      BY <3>1, <3>2 DEF One
    <3> QED BY <2>3, <3>3
  <2> QED BY <2>2, <2>3
<1>6. NoRetry(o)' /\ OneAttempt(o)' /\ OnePayment(o)'
  BY <1>2, <1>3, <1>4, QueueFacts, StageFacts
     DEF OneLife, NoRetry, OneAttempt, OnePayment, One
<1>7. OneStory(o)'
  BY <1>2, <1>3, <1>4, <1>5, QueueFacts, StageFacts, Listening DEF OneLife, OneStory, One
<1> QED BY <1>6, <1>7

\* The order service does not touch what the inventory service has found.
LEMMA ListenersKeepFound ==
  ASSUME IInv, NEW o \in Orders, NEW q \in OrderQueues, NEW a, NEW b,
         Moved(q, o, a, b), UNCHANGED <<found, rows>>, OneLife(o)
  PROVE  RowsAsFound(o)'
<1>1. \A r \in SettlementQueues : copies'[r][o]["found"] = copies[r][o]["found"]
  BY ListenerFacts, SettlementFacts, StageFacts, Counted DEF Moved, One
<1> QED BY <1>1 DEF OneLife, RowsAsFound

LEMMA FindOrderOnce ==
  ASSUME IInv, NEW o \in Orders, NEW q \in OrderQueues,
         FindOrder(q, o, Before(q)), \A x \in Orders : OneLife(x)
  PROVE  \A x \in Orders : OneLife(x)'
<1>1. q \in Queues /\ copies[q][o]["ready"] > 0 /\ orders[o] # "NONE"
  BY KnownOrder, StageFacts, QueueFacts DEF FindOrder, Queues, WorkQueues
<1>2. PICK b \in {"write", "done"} :
        /\ Moved(q, o, "ready", b)
        /\ b = "write" => orders[o] = Before(q)
  <2>1. CASE orders[o] = Before(q)
    <3>1. copies' = Move(q, o, "ready", "write")
      BY <1>1, <2>1 DEF FindOrder
    <3> QED BY <1>1, <2>1, <3>1, MoveCounts, StageFacts
  <2>2. CASE orders[o] # Before(q)
    <3>1. copies' = Move(q, o, "ready", "done")
      BY <1>1, <2>2 DEF FindOrder
    <3> QED BY <1>1, <3>1, MoveCounts, StageFacts
  <2> QED BY <2>1, <2>2
<1>3. /\ UNCHANGED <<orders, creating, found, rows, payments, refused>>
      /\ Batches(o)' = Batches(o) /\ q \in Listeners
  BY ListenerFacts DEF FindOrder, Batches
<1>4. ASSUME NEW x \in Orders, x # o PROVE OneLife(x)'
  BY <1>2, <1>3, <1>4, MovedApart
<1>5. OneLife(o)'
  <2>1. StatusAsRead(o)'
    <3>1. \A r \in Queues : copies'[r][o]["write"] > 0 =>
            copies[r][o]["write"] > 0 \/ (r = q /\ orders[o] = Before(q))
      <4> SUFFICES ASSUME NEW r \in Queues, copies'[r][o]["write"] > 0,
                          ~(copies[r][o]["write"] > 0)
                   PROVE  r = q /\ orders[o] = Before(q)
        OBVIOUS
      <4>1. copies'[r][o]["write"] = copies[r][o]["write"] + One(r = q /\ "write" = b)
        BY <1>2, Counted, StageFacts DEF Moved, One
      <4> QED BY <1>2, <4>1, Counted, BatchCount, StageFacts DEF One
    <3> QED BY <1>3, <3>1, QueueFacts, QueuesApart DEF OneLife, StatusAsRead, Before
  <2>2. RowsAsFound(o)'
    BY <1>2, <1>3, ListenersKeepFound
  <2> QED BY <1>2, <1>3, <2>1, <2>2, ListenerStepOnce DEF OneLife
<1> QED BY <1>4, <1>5

\* At most one handler of the order service is about to write an order.
LEMMA WriteOnce ==
  ASSUME IInv, NEW o \in Orders, OneLife(o), NEW q \in OrderQueues,
         copies[q][o]["write"] > 0
  PROVE  /\ copies[q][o]["write"] = 1
         /\ \A r \in OrderQueues \ {q} : copies[r][o]["write"] = 0
<1>1. \A r \in OrderQueues :
        /\ copies[r][o]["ready"] \in Nat
        /\ copies[r][o]["write"] \in Nat
        /\ copies[r][o]["done"] \in Nat
        /\ OnWay(r, o) \in Nat
        /\ copies[r][o]["write"] <= OnWay(r, o)
  BY QueueFacts, StageFacts, Counted DEF OnWay, OrderQueues
<1>2. /\ copies[InventoryOrderCreated][o]["ready"] \in Nat
      /\ copies[InventoryOrderCreated][o]["reserved"] \in Nat
      /\ copies[InventoryOrderCreated][o]["refused"] \in Nat
      /\ copies[PaymentInventoryReserved][o]["ready"] \in Nat
      /\ copies[PaymentInventoryReserved][o]["approved"] \in Nat
      /\ copies[PaymentInventoryReserved][o]["declined"] \in Nat
      /\ Batches(o) \in Nat
      /\ payments[o]["PENDING"] \in Nat
      /\ payments[o]["SUCCEEDED"] \in Nat
      /\ payments[o]["FAILED"] \in Nat
  BY QueueFacts, StageFacts, Counted, BatchCount DEF PaymentStatus
<1>3. /\ OnWay(OrderInventoryReserved, o) <= Batches(o)
      /\ OnWay(OrderReservationFailed, o) <= One(o \in refused)
      /\ OnWay(OrderPaymentSucceeded, o) <= payments[o]["SUCCEEDED"]
      /\ OnWay(OrderPaymentFailed, o) <= payments[o]["FAILED"]
  BY <1>1, <1>2 DEF OneLife, OneStory, OrderQueues, One
<1>4. /\ Batches(o) + One(o \in refused) <= 1
      /\ payments[o]["SUCCEEDED"] + payments[o]["FAILED"] <= Batches(o)
  BY <1>2, AtMostOne DEF PaymentRows, One
<1>5. StatusAsRead(o)
  BY DEF OneLife
<1> HIDE DEF OnWay
<1> QED
  BY <1>1, <1>2, <1>3, <1>4, <1>5 DEF StatusAsRead, OrderQueues, One

\* The status a consumer of the order service gives an order.
After(q) ==
  CASE q = OrderInventoryReserved -> "INVENTORY_RESERVED"
    [] q = OrderReservationFailed -> "CANCELLED"
    [] q = OrderPaymentSucceeded -> "PAID"
    [] q = OrderPaymentFailed -> "PAYMENT_FAILED"

LEMMA SaveOrderOnce ==
  ASSUME IInv, NEW o \in Orders, NEW q \in OrderQueues,
         SaveOrder(q, o, After(q)), \A x \in Orders : OneLife(x)
  PROVE  \A x \in Orders : OneLife(x)'
<1>1. q \in Queues /\ OrderQueues \subseteq Queues /\ copies[q][o]["write"] > 0
  BY DEF SaveOrder, Queues, WorkQueues
<1>2. Moved(q, o, "write", "done")
  BY <1>1, MoveCounts, StageFacts DEF SaveOrder
<1>3. /\ UNCHANGED <<creating, found, rows, payments, refused>>
      /\ Batches(o)' = Batches(o) /\ q \in Listeners
      /\ orders' = [orders EXCEPT ![o] = After(q)]
      /\ orders \in [Orders -> OrderStatus]
  BY ListenerFacts DEF SaveOrder, IInv, TypeOK, Batches
<1>4. ASSUME NEW x \in Orders, x # o PROVE OneLife(x)'
  BY <1>2, <1>3, <1>4, MovedApart
<1>5. OneLife(o)'
  <2>1. \A r \in OrderQueues : copies'[r][o]["write"] = 0
    <3> SUFFICES ASSUME NEW r \in OrderQueues PROVE copies'[r][o]["write"] = 0
      OBVIOUS
    <3>1. copies'[r][o]["write"] = copies[r][o]["write"] - One(r = q)
      BY <1>1, <1>2, Counted, StageFacts DEF Moved, One
    <3>2. copies[r][o]["write"] = One(r = q)
      BY <1>1, WriteOnce DEF One
    <3> QED BY <3>1, <3>2 DEF One
  <2>2. StatusAsRead(o)'
    BY <2>1 DEF StatusAsRead, OrderQueues
  <2>3. RowsAsFound(o)'
    BY <1>2, <1>3, ListenersKeepFound
  <2> QED BY <1>2, <1>3, <2>2, <2>3, ListenerStepOnce DEF OneLife
<1> QED BY <1>4, <1>5

-----------------------------------------------------------------------------
(* Inventory and payment service keep it too.                              *)

\* What is not moved in the listeners' queues stays there.
LEMMA ListenersKept ==
  ASSUME IInv, NEW q \in Queues \ Listeners, NEW o \in Orders,
         NEW a \in Stages \ {"retry"}, NEW b \in Stages \ {"retry"}, a # b,
         Moved(q, o, a, b), UNCHANGED <<orders, found>>, OneLife(o)
  PROVE  /\ \A r \in Queues, s \in Stages : r # q \/ s \notin {a, b} =>
              copies'[r][o][s] = copies[r][o][s]
         /\ copies'[q][o][a] = copies[q][o][a] - 1
         /\ copies'[q][o][b] = copies[q][o][b] + 1
         /\ \A r \in Listeners : OnWay(r, o)' = OnWay(r, o)
         /\ NoRetry(o)'
         /\ StatusAsRead(o)'
         /\ rows[o] = <<>> \/ rows'[o] = rows[o] => RowsAsFound(o)'
<1>1. /\ \A r \in Queues, s \in Stages : r # q \/ s \notin {a, b} =>
           copies'[r][o][s] = copies[r][o][s]
      /\ copies'[q][o][a] = copies[q][o][a] - 1
      /\ copies'[q][o][b] = copies[q][o][b] + 1
  BY Counted DEF Moved, One
<1>2. Listeners \subseteq Queues \ {q}
  BY ListenerFacts
<1>3. \A r \in Listeners : OnWay(r, o)' = OnWay(r, o)
  BY <1>1, <1>2, StageFacts DEF OnWay
<1>4. NoRetry(o)'
  BY <1>1, StageFacts DEF NoRetry, OneLife
<1>5. StatusAsRead(o)'
  BY <1>1, <1>2, StageFacts, Listening DEF StatusAsRead, OneLife
<1>6. ASSUME rows[o] = <<>> \/ rows'[o] = rows[o] PROVE RowsAsFound(o)'
  <2>1. \A r \in SettlementQueues : copies'[r][o]["found"] = copies[r][o]["found"]
    BY <1>1, <1>2, StageFacts, ListenerFacts
  <2>2. rows[o] # <<>> \/ \A r \in SettlementQueues : ~(copies[r][o]["found"] > 0)
    BY DEF OneLife, RowsAsFound
  <2> QED BY <1>6, <2>1, <2>2 DEF OneLife, RowsAsFound
<1> QED BY <1>1, <1>3, <1>4, <1>5, <1>6

LEMMA CheckStockOnce ==
  ASSUME IInv, NEW o \in Orders, CheckStock(o), \A x \in Orders : OneLife(x)
  PROVE  \A x \in Orders : OneLife(x)'
<1> DEFINE q == InventoryOrderCreated
<1>1. /\ q \in Queues \ Listeners /\ q # PaymentInventoryReserved
      /\ copies[q][o]["ready"] > 0
  BY QueueFacts, QueuesApart, ListenerFacts DEF CheckStock
<1>2. Moved(q, o, "ready", "checked")
  BY <1>1, MoveCounts, StageFacts DEF CheckStock
<1>3. /\ UNCHANGED <<orders, creating, found, payments, rows, refused>>
      /\ Batches(o)' = Batches(o)
      /\ PaymentRows(o)' = PaymentRows(o)
  BY DEF CheckStock, Batches, PaymentRows
<1>4. ASSUME NEW x \in Orders, x # o PROVE OneLife(x)'
  BY <1>2, <1>3, <1>4, MovedApart
<1>5. OneLife(o)'
  <2>1. /\ \A r \in Queues, s \in Stages : r # q \/ s \notin {"ready", "checked"} =>
             copies'[r][o][s] = copies[r][o][s]
        /\ copies'[q][o]["ready"] = copies[q][o]["ready"] - 1
        /\ copies'[q][o]["checked"] = copies[q][o]["checked"] + 1
        /\ \A r \in Listeners : OnWay(r, o)' = OnWay(r, o)
        /\ NoRetry(o)'
        /\ StatusAsRead(o)' /\ RowsAsFound(o)'
    BY <1>1, <1>2, <1>3, ListenersKept, StageFacts
  <2>2. OneAttempt(o)'
    BY <1>1, <1>3, <2>1, Counted, BatchCount, StageFacts DEF OneLife, OneAttempt, One
  <2>3. OnePayment(o)'
    BY <1>1, <1>3, <2>1, QueueFacts, StageFacts DEF OneLife, OnePayment
  <2>4. OneStory(o)'
    BY <1>1, <1>3, <2>1, QueueFacts, StageFacts, Listening DEF OneLife, OneStory, One
  <2> QED BY <2>1, <2>2, <2>3, <2>4 DEF OneLife
<1> QED BY <1>4, <1>5

LEMMA ReserveStockOnce ==
  ASSUME IInv, NEW o \in Orders, ReserveStock(o), \A x \in Orders : OneLife(x)
  PROVE  \A x \in Orders : OneLife(x)'
<1> DEFINE q == InventoryOrderCreated
<1>1. /\ q \in Queues \ Listeners /\ q # PaymentInventoryReserved
      /\ copies[q][o]["checked"] > 0
  BY QueueFacts, QueuesApart, ListenerFacts DEF ReserveStock
<1>2. Moved(q, o, "checked", "reserved")
  BY <1>1, MoveCounts, StageFacts DEF ReserveStock
<1>3. /\ UNCHANGED <<orders, creating, found, payments, refused>>
      /\ \A x \in Orders \ {o} : rows'[x] = rows[x]
      /\ Batches(o)' = Batches(o) + 1
      /\ PaymentRows(o)' = PaymentRows(o)
  <2>1. PICK t : t = Append(rows[o], "RESERVED")
    OBVIOUS
  <2>2. Len(t) = Len(rows[o]) + 1
    BY <2>1, RowsTyped, AppendFacts DEF ReservationStatus
  <2>3. rows' = [rows EXCEPT ![o] = t] /\ rows \in [Orders -> Seq(ReservationStatus)]
    BY <2>1 DEF ReserveStock, IInv, TypeOK
  <2> QED BY <2>2, <2>3 DEF ReserveStock, Batches, PaymentRows
<1>4. ASSUME NEW x \in Orders, x # o PROVE OneLife(x)'
  BY <1>2, <1>3, <1>4, MovedApart
<1>5. OneLife(o)'
  <2>1. Batches(o) = 0 /\ rows[o] = <<>>
    BY <1>1, AtMostOne, NoBatch
  <2>2. /\ \A r \in Queues, s \in Stages : r # q \/ s \notin {"checked", "reserved"} =>
             copies'[r][o][s] = copies[r][o][s]
        /\ copies'[q][o]["checked"] = copies[q][o]["checked"] - 1
        /\ copies'[q][o]["reserved"] = copies[q][o]["reserved"] + 1
        /\ \A r \in Listeners : OnWay(r, o)' = OnWay(r, o)
        /\ NoRetry(o)'
        /\ StatusAsRead(o)' /\ RowsAsFound(o)'
    BY <1>1, <1>2, <1>3, <2>1, ListenersKept, StageFacts
  <2>3. OneAttempt(o)'
    BY <1>1, <1>3, <2>2, Counted, BatchCount, StageFacts DEF OneLife, OneAttempt, One
  <2>4. OnePayment(o)'
    <3>1. /\ copies'[InventoryOrderCreated][o]["reserved"] = 1
          /\ copies'[PaymentInventoryReserved][o]["ready"] = 0
          /\ PaymentRows(o)' = 0 /\ Batches(o)' = 1
      BY <1>1, <1>3, <2>1, <2>2, AtMostOne, QueueFacts, StageFacts
    <3> QED BY <3>1 DEF OnePayment
  <2>5. OneStory(o)'
    <3>1. \A r \in Listeners : OnWay(r, o) \in Nat
      BY OnWayCount
    <3> QED BY <1>1, <1>3, <2>2, <3>1, Counted, BatchCount, QueueFacts, StageFacts, Listening
            DEF OneLife, OneStory, One
  <2> QED BY <2>2, <2>3, <2>4, <2>5 DEF OneLife
<1> QED BY <1>4, <1>5

LEMMA RefuseStockOnce ==
  ASSUME IInv, NEW o \in Orders, RefuseStock(o), \A x \in Orders : OneLife(x)
  PROVE  \A x \in Orders : OneLife(x)'
<1> DEFINE q == InventoryOrderCreated
<1>1. /\ q \in Queues \ Listeners /\ q # PaymentInventoryReserved
      /\ copies[q][o]["ready"] > 0
  BY QueueFacts, QueuesApart, ListenerFacts DEF RefuseStock
<1>2. Moved(q, o, "ready", "refused")
  BY <1>1, MoveCounts, StageFacts DEF RefuseStock
<1>3. /\ UNCHANGED <<orders, creating, found, payments, rows>>
      /\ refused' = refused \cup {o}
      /\ Batches(o)' = Batches(o)
      /\ PaymentRows(o)' = PaymentRows(o)
  BY DEF RefuseStock, Batches, PaymentRows
<1>4. ASSUME NEW x \in Orders, x # o PROVE OneLife(x)'
  BY <1>2, <1>3, <1>4, MovedApart
<1>5. OneLife(o)'
  <2>1. /\ \A r \in Queues, s \in Stages : r # q \/ s \notin {"ready", "refused"} =>
             copies'[r][o][s] = copies[r][o][s]
        /\ copies'[q][o]["ready"] = copies[q][o]["ready"] - 1
        /\ copies'[q][o]["refused"] = copies[q][o]["refused"] + 1
        /\ \A r \in Listeners : OnWay(r, o)' = OnWay(r, o)
        /\ NoRetry(o)'
        /\ StatusAsRead(o)' /\ RowsAsFound(o)'
    BY <1>1, <1>2, <1>3, ListenersKept, StageFacts
  <2>2. OneAttempt(o)' /\ o \notin refused
    BY <1>1, <1>3, <2>1, Counted, BatchCount, StageFacts DEF OneLife, OneAttempt, One
  <2>3. OnePayment(o)'
    BY <1>1, <1>3, <2>1, QueueFacts, StageFacts DEF OneLife, OnePayment
  <2>4. OneStory(o)'
    <3>1. \A r \in Listeners : OnWay(r, o) \in Nat
      BY OnWayCount
    <3> QED BY <1>1, <1>3, <2>1, <2>2, <3>1, Counted, BatchCount, QueueFacts, StageFacts, Listening
            DEF OneLife, OneStory, One
  <2> QED BY <2>1, <2>2, <2>3, <2>4 DEF OneLife
<1> QED BY <1>4, <1>5

\* The one batch an order has, as a sequence.
LEMMA SingleRow ==
  ASSUME NEW s \in Seq(ReservationStatus), Len(s) = 1
  PROVE  DOMAIN s = {1} /\ s[1] \in ReservationStatus /\ s = <<s[1]>>
<1>1. DOMAIN s = 1..1 /\ s[1] \in ReservationStatus
  BY LenProperties, ElementOfSeq
<1>2. <<s[1]>> \in Seq(ReservationStatus) /\ Len(<<s[1]>>) = 1 /\ <<s[1]>>[1] = s[1]
  BY <1>1
<1>3. s = <<s[1]>>
  BY <1>2, SeqEqual
<1> QED BY <1>1, <1>3

LEMMA OnlyRow ==
  ASSUME IInv, NEW o \in Orders, Batches(o) = 1
  PROVE  /\ DOMAIN rows[o] = {1}
         /\ rows[o] = <<rows[o][1]>>
         /\ rows[o][1] \in ReservationStatus
         /\ rows[o][1] \in {"CONFIRMED", "RELEASED"} \/ rows[o] = <<"RESERVED">>
BY RowsTyped, SingleRow DEF Batches, ReservationStatus

LEMMA FindOnce ==
  ASSUME IInv, NEW o \in Orders, NEW q \in SettlementQueues, FindReservations(q, o),
         \A x \in Orders : OneLife(x)
  PROVE  \A x \in Orders : OneLife(x)'
<1>1. PICK b \in {"done", "found"} :
        /\ copies[q][o]["ready"] > 0
        /\ copies' = Move(q, o, "ready", b)
        /\ b = "done" => UNCHANGED found
        /\ b = "found" => /\ Outstanding(o) # {}
                          /\ found' = [found EXCEPT ![q][o] = Append(@, Outstanding(o))]
        /\ UNCHANGED <<orders, creating, rows, payments, refused>>
  <2>1. CASE Outstanding(o) = {}
    BY <2>1 DEF FindReservations
  <2>2. CASE Outstanding(o) # {}
    BY <2>2 DEF FindReservations
  <2> QED BY <2>1, <2>2
<1>2. q \in Listeners /\ q \in Queues
  BY ListenerFacts
<1>3. Moved(q, o, "ready", b)
  BY <1>1, <1>2, MoveCounts, StageFacts
<1>4. /\ found \in [SettlementQueues -> [Orders -> Seq(SUBSET Nat)]]
      /\ \A r \in SettlementQueues : Len(found[r][o]) = copies[r][o]["found"]
      /\ Batches(o)' = Batches(o)
  BY <1>1 DEF IInv, TypeOK, Batches
<1>5. PICK t : t = Append(found[q][o], Outstanding(o))
  OBVIOUS
<1>6. found' = IF b = "done" THEN found ELSE [found EXCEPT ![q][o] = t]
  BY <1>1, <1>5
<1>7. ASSUME NEW x \in Orders, x # o PROVE OneLife(x)'
  <2>1. \A r \in SettlementQueues : found'[r][x] = found[r][x]
    BY <1>4, <1>6, <1>7
  <2> QED BY <1>1, <1>3, <1>7, <2>1, MovedApart
<1>8. RowsAsFound(o)'
  <2>1. \A r \in SettlementQueues :
          copies'[r][o]["found"] = copies[r][o]["found"] + One(r = q /\ b = "found")
    BY <1>3, StageFacts, ListenerFacts, Counted DEF Moved, One
  <2>2. CASE b = "done"
    BY <1>1, <1>6, <2>1, <2>2, Counted, BatchCount, StageFacts, ListenerFacts
       DEF OneLife, RowsAsFound, One
  <2>3. CASE b = "found"
    <3>1. rows[o] = <<"RESERVED">> /\ Outstanding(o) = {1}
      <4>1. PICK k \in DOMAIN rows[o] : rows[o][k] = "RESERVED"
        BY <1>1, <2>3 DEF Outstanding
      <4>2. Batches(o) = 1
        <5>1. Batches(o) # 0
          BY <4>1, NoBatch
        <5> QED BY <5>1, AtMostOne
      <4> QED BY <4>1, <4>2, OnlyRow DEF Outstanding
    <3>2. /\ DOMAIN t = DOMAIN found[q][o] \cup {Len(found[q][o]) + 1}
          /\ t[Len(found[q][o]) + 1] = {1}
          /\ \A i \in DOMAIN found[q][o] : t[i] = found[q][o][i]
      BY <1>4, <1>5, <3>1, OutstandingTyped, AppendFacts
    <3>3. \A i \in DOMAIN found[q][o] : found[q][o][i] = {1}
      <4>1. found[q][o] \in Seq(SUBSET Nat) /\ copies[q][o]["found"] \in Nat
        BY <1>2, <1>4, Counted, BatchCount, StageFacts
      <4>2. DOMAIN found[q][o] = 1..copies[q][o]["found"]
        BY <1>4, <4>1, LenProperties
      <4>3. CASE copies[q][o]["found"] > 0
        BY <4>3 DEF OneLife, RowsAsFound
      <4> QED BY <4>1, <4>2, <4>3
    <3>4. \A i \in DOMAIN found'[q][o] : found'[q][o][i] = {1}
      BY <1>4, <1>6, <2>3, <3>2, <3>3
    <3>5. \A r \in SettlementQueues \ {q} :
            /\ found'[r] = found[r]
            /\ copies'[r][o]["found"] = copies[r][o]["found"]
      BY <1>4, <1>6, <2>1, ListenerFacts, StageFacts, Counted, BatchCount DEF One
    <3> QED BY <1>1, <3>1, <3>4, <3>5 DEF OneLife, RowsAsFound
  <2> QED BY <2>2, <2>3
<1>9. StatusAsRead(o)'
  <2>1. \A r \in OrderQueues : copies'[r][o]["write"] = copies[r][o]["write"]
    BY <1>3, ListenerFacts, StageFacts, Counted DEF Moved, One
  <2> QED BY <1>1, <2>1 DEF OneLife, StatusAsRead, OrderQueues
<1>10. NoRetry(o)' /\ OneAttempt(o)' /\ OnePayment(o)' /\ OneStory(o)'
  BY <1>1, <1>2, <1>3, <1>4, ListenerStepOnce
<1> QED BY <1>7, <1>8, <1>9, <1>10 DEF OneLife

\* One handler of the inventory service is about to settle an order, if any.
LEMMA SettlesAlone ==
  ASSUME IInv, NEW o \in Orders, OneLife(o), NEW q \in SettlementQueues,
         copies[q][o]["found"] > 0
  PROVE  /\ copies[q][o]["found"] = 1
         /\ \A r \in SettlementQueues \ {q} : copies[r][o]["found"] = 0
<1>1. \A r \in SettlementQueues :
        /\ copies[r][o]["ready"] \in Nat /\ copies[r][o]["write"] \in Nat
        /\ copies[r][o]["found"] \in Nat /\ copies[r][o]["done"] \in Nat
  BY SettlementFacts, StageFacts, Counted, BatchCount
<1>2. \A r \in SettlementQueues :
        OnWay(r, o) \in Nat /\ copies[r][o]["found"] <= OnWay(r, o)
  BY <1>1 DEF OnWay
<1>3. /\ copies[PaymentInventoryReserved][o]["approved"] \in Nat
      /\ copies[PaymentInventoryReserved][o]["declined"] \in Nat
      /\ payments[o]["PENDING"] \in Nat
      /\ payments[o]["SUCCEEDED"] \in Nat
      /\ payments[o]["FAILED"] \in Nat
  BY QueueFacts, StageFacts, Counted, BatchCount DEF PaymentStatus
<1>4. /\ OnWay(InventoryPaymentSucceeded, o) <= payments[o]["SUCCEEDED"]
      /\ OnWay(InventoryPaymentFailed, o) <= payments[o]["FAILED"]
  <2>1. /\ copies[PaymentInventoryReserved][o]["approved"]
             + OnWay(InventoryPaymentSucceeded, o) <= payments[o]["SUCCEEDED"]
        /\ copies[PaymentInventoryReserved][o]["declined"]
             + OnWay(InventoryPaymentFailed, o) <= payments[o]["FAILED"]
    BY DEF OneLife, OneStory
  <2> QED BY <1>2, <1>3, <2>1, SettlementFacts
<1>5. payments[o]["SUCCEEDED"] + payments[o]["FAILED"] <= 1
  BY <1>3, AtMostOne DEF PaymentRows
<1> HIDE DEF OnWay
<1> QED BY <1>1, <1>2, <1>3, <1>4, <1>5, SettlementFacts

\* Selling or giving back changes the status of the rows, not their number.
LEMMA SettleOnce ==
  ASSUME IInv, NEW o \in Orders, NEW q \in SettlementQueues,
         NEW i \in DOMAIN found[q][o], NEW status \in {"CONFIRMED", "RELEASED"},
         SettleReservations(q, o, i, status),
         \A x \in Orders : OneLife(x)
  PROVE  \A x \in Orders : OneLife(x)'
<1>1. /\ q \in Queues /\ q \in Listeners
      /\ copies[q][o]["found"] > 0
      /\ copies' = Move(q, o, "found", "done")
      /\ UNCHANGED <<orders, creating, payments, refused>>
      /\ found \in [SettlementQueues -> [Orders -> Seq(SUBSET Nat)]]
  BY ListenerFacts DEF SettleReservations, IInv, TypeOK
<1>2. Moved(q, o, "found", "done")
  BY <1>1, MoveCounts, StageFacts
<1>3. /\ \A x \in Orders \ {o} : rows'[x] = rows[x]
      /\ Batches(o)' = Batches(o)
  BY SettleRows DEF Batches
<1>4. \A r \in SettlementQueues, x \in Orders : x # o => found'[r][x] = found[r][x]
  <2>1. PICK t : t = RemoveAt(found[q][o], i)
    OBVIOUS
  <2>2. found' = [found EXCEPT ![q][o] = t]
    BY <2>1 DEF SettleReservations
  <2> QED BY <1>1, <2>2
<1>5. ASSUME NEW x \in Orders, x # o PROVE OneLife(x)'
  BY <1>1, <1>2, <1>3, <1>4, <1>5, MovedApart
<1>6. RowsAsFound(o)'
  <2>1. \A r \in SettlementQueues :
          copies'[r][o]["found"] = copies[r][o]["found"] - One(r = q)
    BY <1>2, StageFacts, ListenerFacts, Counted DEF Moved, One
  <2>2. \A r \in SettlementQueues : copies[r][o]["found"] = One(r = q)
    BY <1>1, SettlesAlone DEF One
  <2>3. \A r \in SettlementQueues : ~(copies'[r][o]["found"] > 0)
    BY <2>1, <2>2 DEF One
  <2> QED BY <2>3 DEF RowsAsFound
<1>7. StatusAsRead(o)'
  <2>1. \A r \in OrderQueues : copies'[r][o]["write"] = copies[r][o]["write"]
    BY <1>2, ListenerFacts, StageFacts, Counted DEF Moved, One
  <2> QED BY <1>1, <2>1 DEF OneLife, StatusAsRead, OrderQueues
<1>8. NoRetry(o)' /\ OneAttempt(o)' /\ OnePayment(o)' /\ OneStory(o)'
  BY <1>1, <1>2, <1>3, ListenerStepOnce
<1> QED BY <1>5, <1>6, <1>7, <1>8 DEF OneLife

LEMMA SavePendingPaymentOnce ==
  ASSUME IInv, NEW o \in Orders, SavePendingPayment(o), \A x \in Orders : OneLife(x)
  PROVE  \A x \in Orders : OneLife(x)'
<1> DEFINE q == PaymentInventoryReserved
<1>1. /\ q \in Queues \ Listeners /\ q # InventoryOrderCreated
      /\ copies[q][o]["ready"] > 0
  BY QueueFacts, QueuesApart, ListenerFacts DEF SavePendingPayment
<1>2. Moved(q, o, "ready", "write")
  BY <1>1, MoveCounts, StageFacts DEF SavePendingPayment
<1>3. /\ UNCHANGED <<orders, creating, found, rows, refused>>
      /\ \A x \in Orders \ {o} : payments'[x] = payments[x]
      /\ payments'[o]["SUCCEEDED"] = payments[o]["SUCCEEDED"]
      /\ payments'[o]["FAILED"] = payments[o]["FAILED"]
      /\ PaymentRows(o)' = PaymentRows(o) + 1
      /\ Batches(o)' = Batches(o)
  BY Counted, BatchCount DEF SavePendingPayment, IInv, TypeOK, PaymentRows, PaymentStatus, Batches
<1>4. ASSUME NEW x \in Orders, x # o PROVE OneLife(x)'
  BY <1>2, <1>3, <1>4, MovedApart
<1>5. OneLife(o)'
  <2>1. /\ \A r \in Queues, s \in Stages : r # q \/ s \notin {"ready", "write"} =>
             copies'[r][o][s] = copies[r][o][s]
        /\ copies'[q][o]["ready"] = copies[q][o]["ready"] - 1
        /\ \A r \in Listeners : OnWay(r, o)' = OnWay(r, o)
        /\ NoRetry(o)'
        /\ StatusAsRead(o)' /\ RowsAsFound(o)'
    BY <1>1, <1>2, <1>3, ListenersKept, StageFacts
  <2>2. OneAttempt(o)' /\ OnePayment(o)'
    BY <1>1, <1>3, <2>1, Counted, BatchCount, QueueFacts, StageFacts
       DEF OneLife, OneAttempt, OnePayment, One
  <2>3. OneStory(o)'
    BY <1>1, <1>3, <2>1, QueueFacts, StageFacts, Listening DEF OneLife, OneStory, One
  <2> QED BY <2>1, <2>2, <2>3 DEF OneLife
<1> QED BY <1>4, <1>5

LEMMA SavePaymentResultOnce ==
  ASSUME IInv, NEW o \in Orders, NEW stage, NEW status,
         (stage = "approved" /\ status = "SUCCEEDED")
           \/ (stage = "declined" /\ status = "FAILED"),
         SavePaymentResult(o, stage, status), \A x \in Orders : OneLife(x)
  PROVE  \A x \in Orders : OneLife(x)'
<1> DEFINE q == PaymentInventoryReserved
<1>1. /\ q \in Queues \ Listeners /\ q # InventoryOrderCreated
      /\ copies[q][o]["write"] > 0
      /\ stage \in {"approved", "declined"} /\ status \in {"SUCCEEDED", "FAILED"}
  BY QueueFacts, QueuesApart, ListenerFacts DEF SavePaymentResult
<1>2. Moved(q, o, "write", stage)
  BY <1>1, MoveCounts, StageFacts DEF SavePaymentResult
<1>3. /\ UNCHANGED <<orders, creating, found, rows, refused>>
      /\ payments' = [payments EXCEPT ![o]["PENDING"] = @ - 1, ![o][status] = @ + 1]
      /\ payments \in [Orders -> [PaymentStatus -> Nat]]
      /\ Batches(o)' = Batches(o)
  BY DEF SavePaymentResult, IInv, TypeOK, Batches
<1>4. /\ \A x \in Orders \ {o} : payments'[x] = payments[x]
      /\ payments'[o]["PENDING"] = payments[o]["PENDING"] - 1
      /\ payments'[o]["SUCCEEDED"] = payments[o]["SUCCEEDED"] + One(status = "SUCCEEDED")
      /\ payments'[o]["FAILED"] = payments[o]["FAILED"] + One(status = "FAILED")
  BY <1>1, <1>3 DEF PaymentStatus, One
<1>5. PaymentRows(o)' = PaymentRows(o)
  <2>1. /\ payments[o]["PENDING"] \in Nat /\ payments[o]["SUCCEEDED"] \in Nat
        /\ payments[o]["FAILED"] \in Nat
    BY Counted, BatchCount DEF PaymentStatus
  <2>2. \/ /\ payments'[o]["SUCCEEDED"] = payments[o]["SUCCEEDED"] + 1
           /\ payments'[o]["FAILED"] = payments[o]["FAILED"]
        \/ /\ payments'[o]["SUCCEEDED"] = payments[o]["SUCCEEDED"]
           /\ payments'[o]["FAILED"] = payments[o]["FAILED"] + 1
    <3>1. CASE status = "SUCCEEDED"
      BY <1>4, <2>1, <3>1 DEF One
    <3>2. CASE status = "FAILED"
      BY <1>4, <2>1, <3>2 DEF One
    <3> QED BY <1>1, <3>1, <3>2
  <2>3. payments'[o]["PENDING"] = payments[o]["PENDING"] - 1
    BY <1>4
  <2> QED BY <2>1, <2>2, <2>3 DEF PaymentRows
<1>6. ASSUME NEW x \in Orders, x # o PROVE OneLife(x)'
  BY <1>2, <1>3, <1>4, <1>6, MovedApart
<1>7. OneLife(o)'
  <2>1. /\ \A r \in Queues, s \in Stages : r # q \/ s \notin {"write", stage} =>
             copies'[r][o][s] = copies[r][o][s]
        /\ copies'[q][o][stage] = copies[q][o][stage] + 1
        /\ \A r \in Listeners : OnWay(r, o)' = OnWay(r, o)
        /\ NoRetry(o)'
        /\ StatusAsRead(o)' /\ RowsAsFound(o)'
    BY <1>1, <1>2, <1>3, ListenersKept, StageFacts
  <2>2. OneAttempt(o)' /\ OnePayment(o)'
    BY <1>1, <1>3, <1>5, <2>1, QueueFacts, StageFacts
       DEF OneLife, OneAttempt, OnePayment, One
  <2>3. \A r \in Listeners : OnWay(r, o) \in Nat
    BY OnWayCount
  <2>4. OneStory(o)'
    <3>1. /\ \A r \in {OrderPaymentSucceeded, InventoryPaymentSucceeded} :
               copies[q][o]["approved"] + OnWay(r, o) <= payments[o]["SUCCEEDED"]
          /\ \A r \in {OrderPaymentFailed, InventoryPaymentFailed} :
               copies[q][o]["declined"] + OnWay(r, o) <= payments[o]["FAILED"]
          /\ copies[q][o]["approved"] \in Nat /\ copies[q][o]["declined"] \in Nat
          /\ payments[o]["SUCCEEDED"] \in Nat /\ payments[o]["FAILED"] \in Nat
      BY <1>1, Counted, BatchCount, StageFacts DEF OneLife, OneStory, PaymentStatus
    <3>2. /\ copies'[q][o]["approved"] = copies[q][o]["approved"] + One(stage = "approved")
          /\ copies'[q][o]["declined"] = copies[q][o]["declined"] + One(stage = "declined")
      BY <1>1, <2>1, <3>1, StageFacts DEF One
    <3>3. One(stage = "approved") = One(status = "SUCCEEDED")
            /\ One(stage = "declined") = One(status = "FAILED")
      BY DEF One
    <3>4. /\ \A r \in {OrderPaymentSucceeded, InventoryPaymentSucceeded} :
               (copies[q][o]["approved"] + OnWay(r, o) <= payments[o]["SUCCEEDED"])'
          /\ \A r \in {OrderPaymentFailed, InventoryPaymentFailed} :
               (copies[q][o]["declined"] + OnWay(r, o) <= payments[o]["FAILED"])'
      BY <1>4, <2>1, <2>3, <3>1, <3>2, <3>3, Listening DEF One
    <3>5. /\ (copies[InventoryOrderCreated][o]["reserved"]
                + OnWay(OrderInventoryReserved, o) <= Batches(o))'
          /\ (copies[InventoryOrderCreated][o]["refused"]
                + OnWay(OrderReservationFailed, o) <= One(o \in refused))'
      BY <1>1, <1>3, <2>1, QueueFacts, StageFacts, Listening DEF OneLife, OneStory, One
    <3> QED BY <3>4, <3>5 DEF OneStory
  <2> QED BY <2>1, <2>2, <2>4 DEF OneLife
<1> QED BY <1>6, <1>7

\* Publishing: one more ready copy for every consumer of the event.
LEMMA PublishKept ==
  ASSUME IInv, NEW q \in Queues \ Listeners, NEW o \in Orders,
         NEW a \in {"reserved", "refused", "approved", "declined"}, NEW event,
         PublishFrom(q, o, a, event), \A x \in Orders : OneLife(x)
  PROVE  /\ \A x \in Orders \ {o} : OneLife(x)'
         /\ copies'[q][o][a] = copies[q][o][a] - 1
         /\ \A r \in Queues, s \in Stages \ {a, "done", "ready"} :
              copies'[r][o][s] = copies[r][o][s]
         /\ \A r \in Queues \ {q}, s \in Stages \ {"ready"} :
              copies'[r][o][s] = copies[r][o][s]
         /\ \A r \in Queues :
              copies'[r][o]["ready"] = copies[r][o]["ready"] + One(r.event = event)
         /\ \A r \in Listeners : OnWay(r, o)' = OnWay(r, o) + One(r.event = event)
         /\ NoRetry(o)'
         /\ StatusAsRead(o)' /\ RowsAsFound(o)'
<1>1. /\ UNCHANGED <<orders, creating, found, rows, payments, refused>>
      /\ a \in Stages \ {"done", "ready"}
      /\ Listeners \subseteq Queues \ {q}
  BY StageFacts, ListenerFacts DEF PublishFrom
<1>2. \A r \in Queues, x \in Orders, s \in Stages :
        copies'[r][x][s] = copies[r][x][s] + One(r = q /\ x = o /\ s = "done")
                                           - One(r = q /\ x = o /\ s = a)
                                           + One(r.event = event /\ x = o /\ s = "ready")
  BY <1>1, PublishCounts DEF Published
<1>3. ASSUME NEW x \in Orders, x # o PROVE OneLife(x)'
  <2>1. Untouched(x)
    <3>1. \A r \in Queues, s \in Stages : copies'[r][x][s] = copies[r][x][s]
      BY <1>2, <1>3, Counted DEF One
    <3> QED BY <1>1, <3>1 DEF Untouched
  <2> QED BY <2>1, UntouchedKeeps
<1>4. /\ copies'[q][o][a] = copies[q][o][a] - 1
      /\ \A r \in Queues, s \in Stages \ {a, "done", "ready"} :
           copies'[r][o][s] = copies[r][o][s]
      /\ \A r \in Queues \ {q}, s \in Stages \ {"ready"} :
           copies'[r][o][s] = copies[r][o][s]
  BY <1>1, <1>2, Counted, BatchCount DEF One
<1>5. ASSUME NEW r \in Queues
      PROVE  copies'[r][o]["ready"] = copies[r][o]["ready"] + One(r.event = event)
  BY <1>1, <1>2, <1>5, Counted, BatchCount, StageFacts DEF One
<1>6. ASSUME NEW r \in Listeners
      PROVE  OnWay(r, o)' = OnWay(r, o) + One(r.event = event)
  BY <1>1, <1>4, <1>5, <1>6, Counted, StageFacts DEF OnWay, One
<1>7. NoRetry(o)'
  BY <1>1, <1>4, StageFacts DEF NoRetry, OneLife
<1>8. StatusAsRead(o)' /\ RowsAsFound(o)'
  BY <1>1, <1>4, StageFacts, Listening, SettlementFacts
     DEF StatusAsRead, RowsAsFound, OneLife
<1> QED BY <1>3, <1>4, <1>5, <1>6, <1>7, <1>8

\* What the publishing steps publish, and from where.
Publication ==
  {<<InventoryOrderCreated, "reserved", "inventory.reserved">>,
   <<InventoryOrderCreated, "refused", "inventory.reservation_failed">>,
   <<PaymentInventoryReserved, "approved", "payment.succeeded">>,
   <<PaymentInventoryReserved, "declined", "payment.failed">>}

LEMMA PublishOnce ==
  ASSUME IInv, NEW o \in Orders, NEW q, NEW a, NEW event,
         <<q, a, event>> \in Publication, PublishFrom(q, o, a, event),
         \A x \in Orders : OneLife(x)
  PROVE  \A x \in Orders : OneLife(x)'
<1>1. /\ q \in {InventoryOrderCreated, PaymentInventoryReserved}
      /\ q \in Queues \ Listeners
      /\ a \in {"reserved", "refused", "approved", "declined"}
  BY QueueFacts, ListenerFacts DEF Publication
<1>2. /\ UNCHANGED <<orders, creating, found, rows, payments, refused>>
      /\ Batches(o)' = Batches(o) /\ PaymentRows(o)' = PaymentRows(o)
      /\ copies[q][o][a] > 0
  BY DEF PublishFrom, Batches, PaymentRows
<1>3. /\ \A x \in Orders \ {o} : OneLife(x)'
      /\ copies'[q][o][a] = copies[q][o][a] - 1
      /\ \A r \in Queues, s \in Stages \ {a, "done", "ready"} :
           copies'[r][o][s] = copies[r][o][s]
      /\ \A r \in Queues \ {q}, s \in Stages \ {"ready"} :
           copies'[r][o][s] = copies[r][o][s]
      /\ \A r \in Queues :
           copies'[r][o]["ready"] = copies[r][o]["ready"] + One(r.event = event)
      /\ \A r \in Listeners : OnWay(r, o)' = OnWay(r, o) + One(r.event = event)
      /\ NoRetry(o)'
      /\ StatusAsRead(o)' /\ RowsAsFound(o)'
  BY <1>1, PublishKept
<1>4. \A r \in Listeners : OnWay(r, o) \in Nat
  BY OnWayCount
<1>5. /\ copies[InventoryOrderCreated][o]["ready"] \in Nat
      /\ copies[InventoryOrderCreated][o]["reserved"] \in Nat
      /\ copies[InventoryOrderCreated][o]["refused"] \in Nat
      /\ copies[PaymentInventoryReserved][o]["ready"] \in Nat
      /\ copies[PaymentInventoryReserved][o]["approved"] \in Nat
      /\ copies[PaymentInventoryReserved][o]["declined"] \in Nat
      /\ Batches(o) \in Nat /\ PaymentRows(o) \in Nat
      /\ payments[o]["SUCCEEDED"] \in Nat /\ payments[o]["FAILED"] \in Nat
  BY QueueFacts, StageFacts, Counted, BatchCount DEF PaymentStatus
<1>6. /\ copies'[InventoryOrderCreated][o]["ready"] = copies[InventoryOrderCreated][o]["ready"]
      /\ copies'[InventoryOrderCreated][o]["checked"] = copies[InventoryOrderCreated][o]["checked"]
      /\ copies'[PaymentInventoryReserved][o]["ready"]
           = copies[PaymentInventoryReserved][o]["ready"] + One(event = "inventory.reserved")
  <2>1. "checked" \in Stages \ {a, "done", "ready"}
    BY <1>1, StageFacts
  <2> QED BY <1>3, <1>5, <2>1, QueueFacts, EventFacts DEF Publication, One
<1>7. /\ copies'[InventoryOrderCreated][o]["reserved"]
           = copies[InventoryOrderCreated][o]["reserved"] - One(event = "inventory.reserved")
      /\ copies'[InventoryOrderCreated][o]["refused"]
           = copies[InventoryOrderCreated][o]["refused"]
               - One(event = "inventory.reservation_failed")
      /\ copies'[PaymentInventoryReserved][o]["approved"]
           = copies[PaymentInventoryReserved][o]["approved"] - One(event = "payment.succeeded")
      /\ copies'[PaymentInventoryReserved][o]["declined"]
           = copies[PaymentInventoryReserved][o]["declined"] - One(event = "payment.failed")
  <2>1. CASE q = InventoryOrderCreated
    BY <1>1, <1>3, <1>5, <2>1, QueueFacts, QueuesApart, StageFacts DEF Publication, One
  <2>2. CASE q = PaymentInventoryReserved
    BY <1>1, <1>3, <1>5, <2>2, QueueFacts, QueuesApart, StageFacts DEF Publication, One
  <2> QED BY <1>1, <2>1, <2>2
<1>8. /\ OnWay(OrderInventoryReserved, o)'
           = OnWay(OrderInventoryReserved, o) + One(event = "inventory.reserved")
      /\ OnWay(OrderReservationFailed, o)'
           = OnWay(OrderReservationFailed, o) + One(event = "inventory.reservation_failed")
      /\ OnWay(OrderPaymentSucceeded, o)'
           = OnWay(OrderPaymentSucceeded, o) + One(event = "payment.succeeded")
      /\ OnWay(OrderPaymentFailed, o)'
           = OnWay(OrderPaymentFailed, o) + One(event = "payment.failed")
      /\ OnWay(InventoryPaymentSucceeded, o)'
           = OnWay(InventoryPaymentSucceeded, o) + One(event = "payment.succeeded")
      /\ OnWay(InventoryPaymentFailed, o)'
           = OnWay(InventoryPaymentFailed, o) + One(event = "payment.failed")
  BY <1>3, EventFacts, Listening DEF One
<1>9. OneAttempt(o)'
  BY <1>2, <1>6 DEF OneLife, OneAttempt, One
<1>10. OnePayment(o)'
  BY <1>2, <1>5, <1>6, <1>7 DEF OneLife, OnePayment, One
<1>11. OneStory(o)'
  BY <1>2, <1>4, <1>5, <1>7, <1>8, Listening DEF OneLife, OneStory, One
<1> QED BY <1>3, <1>9, <1>10, <1>11 DEF OneLife

LEMMA DropOnce ==
  ASSUME IInv, NEW q \in Queues, NEW o \in Orders, NEW a \in Stages \ {"retry"},
         copies[q][o][a] > 0, copies' = Drop(q, o, a),
         UNCHANGED <<orders, creating, found, rows, payments, refused>>,
         \A x \in Orders : OneLife(x)
  PROVE  \A x \in Orders : OneLife(x)'
<1> SUFFICES ASSUME NEW x \in Orders PROVE OneLife(x)'
  OBVIOUS
<1>1. /\ copies' \in CopiesType
      /\ \A r \in Queues, s \in Stages : copies'[r][x][s] <= copies[r][x][s]
  BY DropLemma, CopiesTyped
<1>2. \A r \in Queues, s \in Stages : copies'[r][x][s] \in Nat /\ copies[r][x][s] \in Nat
  BY <1>1, Counted, BatchCount DEF CopiesType
<1>3. Batches(x)' = Batches(x) /\ PaymentRows(x)' = PaymentRows(x)
  BY DEF Batches, PaymentRows
<1>4. \A r \in Queues : /\ OnWay(r, x)' <= OnWay(r, x)
                        /\ OnWay(r, x)' \in Nat /\ OnWay(r, x) \in Nat
  BY <1>1, <1>2, StageFacts DEF OnWay
<1>5. NoRetry(x)'
  BY <1>1, <1>2, StageFacts DEF OneLife, NoRetry
<1>6. OneAttempt(x)' /\ OnePayment(x)'
  BY <1>1, <1>2, <1>3, QueueFacts, StageFacts, Counted, BatchCount
     DEF OneLife, OneAttempt, OnePayment, One
<1>7. OneStory(x)'
  BY <1>1, <1>2, <1>3, <1>4, QueueFacts, StageFacts, Counted, BatchCount
     DEF OneLife, OneStory, One, PaymentStatus
<1>8. StatusAsRead(x)' /\ RowsAsFound(x)'
  BY <1>1, <1>2, QueueFacts, StageFacts, SettlementFacts
     DEF OneLife, StatusAsRead, RowsAsFound
<1> QED BY <1>5, <1>6, <1>7, <1>8 DEF OneLife

-----------------------------------------------------------------------------
(* The invariant holds until the first fault.                              *)

LEMMA InitLInv == Init => LInv
<1> SUFFICES ASSUME Init PROVE LInv
  OBVIOUS
<1>1. IInv
  BY InitIInv
<1>2. ASSUME NEW o \in Orders PROVE OneLife(o)
  <2>1. /\ \A q \in Queues, s \in Stages : copies[q][o][s] = 0
        /\ o \notin creating /\ o \notin refused
        /\ Batches(o) = 0 /\ PaymentRows(o) = 0
        /\ payments[o]["SUCCEEDED"] = 0 /\ payments[o]["FAILED"] = 0
    BY <1>1, NoBatch DEF Init, PaymentRows, PaymentStatus
  <2>2. \A q \in Queues : OnWay(q, o) = 0
    BY <2>1, StageFacts DEF OnWay
  <2> QED
    BY <2>1, <2>2, QueueFacts, StageFacts, SettlementFacts
       DEF OneLife, NoRetry, OneAttempt, OnePayment, OneStory, StatusAsRead, RowsAsFound,
           One
<1> QED BY <1>1, <1>2 DEF LInv

\* The steps of the checkout that neither crash nor throw, one by one.
LEMMA StepOnce ==
  ASSUME IInv, \A x \in Orders : OneLife(x), NEW o \in Orders,
         \/ CreateOrder(o) \/ PublishOrderCreated(o)
         \/ MarkInventoryReserved(o) \/ CancelForInventoryFailure(o)
         \/ MarkPaid(o) \/ MarkPaymentFailed(o)
         \/ CheckStock(o) \/ ReserveStock(o) \/ RefuseStock(o)
         \/ PublishInventoryReserved(o) \/ PublishReservationFailed(o)
         \/ ConfirmReservation(o) \/ ReleaseReservation(o)
         \/ SavePendingPayment(o) \/ ApprovePayment(o) \/ DeclinePayment(o)
         \/ PublishPaymentSucceeded(o) \/ PublishPaymentFailed(o)
  PROVE  \A x \in Orders : OneLife(x)'
<1>1. CASE CreateOrder(o)
  BY <1>1, CreateOrderOnce
<1>2. CASE PublishOrderCreated(o)
  BY <1>2, PublishOrderCreatedOnce
<1>3. CASE MarkInventoryReserved(o) \/ CancelForInventoryFailure(o)
  <2>1. /\ Before(OrderInventoryReserved) = "PENDING"
        /\ Before(OrderReservationFailed) = "PENDING"
        /\ After(OrderInventoryReserved) = "INVENTORY_RESERVED"
        /\ After(OrderReservationFailed) = "CANCELLED"
    BY QueuesApart DEF Before, After
  <2> QED BY <1>3, <2>1, FindOrderOnce, SaveOrderOnce
          DEF MarkInventoryReserved, CancelForInventoryFailure, OrderQueues
<1>4. CASE MarkPaid(o) \/ MarkPaymentFailed(o)
  <2>1. /\ Before(OrderPaymentSucceeded) = "INVENTORY_RESERVED"
        /\ Before(OrderPaymentFailed) = "INVENTORY_RESERVED"
        /\ After(OrderPaymentSucceeded) = "PAID"
        /\ After(OrderPaymentFailed) = "PAYMENT_FAILED"
    BY QueuesApart DEF Before, After
  <2> QED BY <1>4, <2>1, FindOrderOnce, SaveOrderOnce
          DEF MarkPaid, MarkPaymentFailed, OrderQueues
<1>5. CASE CheckStock(o) \/ ReserveStock(o) \/ RefuseStock(o)
  BY <1>5, CheckStockOnce, ReserveStockOnce, RefuseStockOnce
<1>6. CASE ConfirmReservation(o)
  BY <1>6, FindOnce, SettleOnce, SettlementFacts DEF ConfirmReservation
<1>7. CASE ReleaseReservation(o)
  BY <1>7, FindOnce, SettleOnce, SettlementFacts DEF ReleaseReservation
<1>8. CASE SavePendingPayment(o)
  BY <1>8, SavePendingPaymentOnce
<1>9. CASE ApprovePayment(o) \/ DeclinePayment(o)
  <2>1. \/ SavePaymentResult(o, "approved", "SUCCEEDED")
        \/ SavePaymentResult(o, "declined", "FAILED")
    BY <1>9 DEF ApprovePayment, DeclinePayment
  <2> QED BY <2>1, SavePaymentResultOnce
<1>10. CASE \/ PublishInventoryReserved(o) \/ PublishReservationFailed(o)
            \/ PublishPaymentSucceeded(o) \/ PublishPaymentFailed(o)
  BY <1>10, PublishOnce DEF PublishInventoryReserved, PublishReservationFailed,
     PublishPaymentSucceeded, PublishPaymentFailed, Publication
<1> QED BY <1>1, <1>2, <1>3, <1>4, <1>5, <1>6, <1>7, <1>8, <1>9, <1>10

LEMMA AckOnce ==
  ASSUME IInv, \A x \in Orders : OneLife(x), NEW q \in Queues, NEW o \in Orders,
         Ack(q, o) \/ Notify(q, o) \/ RetryExpires(q, o)
  PROVE  /\ \A x \in Orders : OneLife(x)'
         /\ UNCHANGED <<orders, rows, payments, refused>>
<1>1. CASE Ack(q, o) \/ Notify(q, o)
  BY <1>1, DropOnce, StageFacts DEF Ack, Notify
<1>2. CASE RetryExpires(q, o)
  BY <1>2 DEF RetryExpires, OneLife, NoRetry
<1> QED BY <1>1, <1>2

LEMMA NextLInv == LInv /\ [Next]_vars => LInv'
<1> SUFFICES ASSUME LInv, [Next]_vars PROVE LInv'
  OBVIOUS
<1>1. IInv'
  BY NextIInv DEF LInv
<1> SUFFICES ASSUME Faultless' PROVE \A o \in Orders : OneLife(o)'
  BY <1>1 DEF LInv
<1>2. crashes \in Nat /\ failures \in Nat
  BY CrashAssumption, FailureAssumption DEF LInv, IInv, TypeOK
<1>3. ASSUME Faultless PROVE IInv /\ \A o \in Orders : OneLife(o)
  BY <1>3 DEF LInv
<1>4. ASSUME NEW o \in Orders, CreateOrder(o) PROVE \A x \in Orders : OneLife(x)'
  <2>1. Faultless
    BY <1>4 DEF CreateOrder, Faultless
  <2> QED BY <1>3, <1>4, <2>1, StepOnce
<1>5. CASE Progress
  <2>1. Faultless
    BY <1>5, ZenonT(30) DEF Progress, Faultless, PublishOrderCreated, MarkInventoryReserved,
       CancelForInventoryFailure, MarkPaid, MarkPaymentFailed, FindOrder, SaveOrder,
       CheckStock, ReserveStock, RefuseStock, PublishInventoryReserved, PublishReservationFailed,
       PublishFrom, ConfirmReservation, ReleaseReservation, FindReservations,
       SettleReservations, SavePendingPayment,
       ApprovePayment, DeclinePayment, SavePaymentResult, PublishPaymentSucceeded,
       PublishPaymentFailed, Ack, Notify, RetryExpires
  <2> QED BY <1>3, <1>5, <2>1, StepOnce, AckOnce DEF Progress
<1>6. ASSUME NEW q \in WorkQueues, NEW o \in Orders, NEW stage \in AtDatabase,
             HandlerFails(q, o, stage) \/ GiveUp(q, o, stage)
      PROVE  FALSE
  BY <1>2, <1>6, RetriesAssumption DEF HandlerFails, GiveUp, Faultless
<1>7. ASSUME NEW service, Crash(service) PROVE FALSE
  BY <1>2, <1>7 DEF Crash, Faultless
<1>8. CASE UNCHANGED vars
  <2>1. Faultless /\ \A x \in Orders : Untouched(x)
    BY <1>8 DEF vars, Faultless, Untouched
  <2> QED BY <1>3, <2>1, UntouchedKeeps
<1> QED BY <1>4, <1>5, <1>6, <1>7, <1>8 DEF Next

LEMMA LInvHolds == Spec => []LInv
<1> QED BY InitLInv, NextLInv, PTL DEF Spec

LEMMA Agreement ==
  ASSUME IInv, \A o \in Orders : OneLife(o)
  PROVE  StatusAgrees
<1> SUFFICES ASSUME NEW o \in Orders
             PROVE  /\ orders[o] = "CANCELLED" => rows[o] = <<>> /\ PaymentRows(o) = 0
                    /\ orders[o] = "PAID" => payments[o]["FAILED"] = 0
                    /\ orders[o] = "PAYMENT_FAILED" => /\ payments[o]["SUCCEEDED"] = 0
                                                       /\ ~HasRow(o, "CONFIRMED")
  BY DEF StatusAgrees
<1>1. /\ copies[InventoryOrderCreated][o]["ready"] \in Nat
      /\ copies[InventoryOrderCreated][o]["checked"] \in Nat
      /\ copies[InventoryOrderCreated][o]["reserved"] \in Nat
      /\ copies[PaymentInventoryReserved][o]["ready"] \in Nat
      /\ Batches(o) \in Nat /\ PaymentRows(o) \in Nat
      /\ Batches(o) = 0 <=> rows[o] = <<>>
      /\ payments[o]["PENDING"] \in Nat /\ payments[o]["SUCCEEDED"] \in Nat
      /\ payments[o]["FAILED"] \in Nat
  BY Counted, BatchCount, NoBatch, QueueFacts, StageFacts DEF PaymentStatus
<1>2. /\ Batches(o) + One(o \in refused) <= 1
      /\ PaymentRows(o) <= Batches(o)
  BY <1>1, AtMostOne DEF One
<1>3. /\ orders[o] = "CANCELLED" => o \in refused
      /\ orders[o] = "PAID" => payments[o]["SUCCEEDED"] > 0
      /\ orders[o] = "PAYMENT_FAILED" => payments[o]["FAILED"] > 0
      /\ HasRow(o, "CONFIRMED") => payments[o]["SUCCEEDED"] > 0
  BY DEF IInv, Provenance, StatusCaused, RowsCaused
<1> QED BY <1>1, <1>2, <1>3 DEF PaymentRows, One

\* What the customer is told agrees with what the other services hold: property
\* StatusAgrees, up to the first crash and the first handler that throws.
THEOREM StatusAgreesUntilFault == Spec => [](Faultless => StatusAgrees)
<1>1. LInv => (Faultless => StatusAgrees)
  BY Agreement DEF LInv
<1> QED BY <1>1, LInvHolds, PTL

-----------------------------------------------------------------------------
(* Checkout implements OrderLifecycle when nothing crashes or throws.      *)

\* What HoldOf and ChargeOf say of an order with at most one batch and payment.
HoldIs(o) ==
  /\ rows[o] = <<>> /\ o \notin refused => HoldOf(o) = "none"
  /\ rows[o] = <<>> /\ o \in refused => HoldOf(o) = "refused"
  /\ rows[o] # <<>> => HoldOf(o) \notin {"none", "refused"}
  /\ rows[o] = <<"RESERVED">> => HoldOf(o) = "held"
  /\ rows[o] = <<"CONFIRMED">> => HoldOf(o) = "sold"
  /\ rows[o] = <<"RELEASED">> => HoldOf(o) = "returned"

ChargeIs(o) ==
  /\ PaymentRows(o) = 0 => ChargeOf(o) = "none"
  /\ PaymentRows(o) = 1 /\ payments[o]["PENDING"] = 1 => ChargeOf(o) = "pending"
  /\ PaymentRows(o) = 1 /\ payments[o]["SUCCEEDED"] = 1 => ChargeOf(o) = "approved"
  /\ PaymentRows(o) = 1 /\ payments[o]["FAILED"] = 1 => ChargeOf(o) = "declined"

LEMMA RowsApart ==
  /\ <<"RESERVED">> # <<>> /\ <<"CONFIRMED">> # <<>> /\ <<"RELEASED">> # <<>>
  /\ <<"RESERVED">> # <<"CONFIRMED">>
  /\ <<"RESERVED">> # <<"RELEASED">>
  /\ <<"CONFIRMED">> # <<"RELEASED">>
OBVIOUS

LEMMA HoldIsNow == ASSUME NEW o \in Orders PROVE HoldIs(o)
BY RowsApart DEF HoldIs, HoldOf

LEMMA HoldIsNext == ASSUME NEW o \in Orders PROVE HoldIs(o)'
BY RowsApart DEF HoldIs, HoldOf

LEMMA ChargeIsNow ==
  ASSUME payments \in [Orders -> [PaymentStatus -> Nat]], NEW o \in Orders
  PROVE  ChargeIs(o)
BY DEF ChargeIs, ChargeOf, PaymentRows, PaymentStatus

LEMMA ChargeIsNext ==
  ASSUME (payments \in [Orders -> [PaymentStatus -> Nat]])', NEW o \in Orders
  PROVE  ChargeIs(o)'
BY DEF ChargeIs, ChargeOf, PaymentRows, PaymentStatus

LEMMA HoldKept ==
  ASSUME NEW x \in Orders, rows'[x] = rows[x], (x \in refused') <=> (x \in refused)
  PROVE  HoldOf(x)' = HoldOf(x)
BY DEF HoldOf

LEMMA ChargeKept ==
  ASSUME NEW x \in Orders, payments'[x] = payments[x]
  PROVE  ChargeOf(x)' = ChargeOf(x)
BY DEF ChargeOf, PaymentRows

LEMMA OnlyOne ==
  ASSUME NEW a \in Nat, NEW b \in Nat, NEW c \in Nat
  PROVE  /\ a + b + c = 0 => a = 0 /\ b = 0 /\ c = 0
         /\ a + b + c <= 1 /\ a > 0 => a = 1 /\ b = 0 /\ c = 0
         /\ a + b + c = 1 /\ b = 0 /\ c = 0 => a = 1
         /\ a + b + c <= 1 /\ b > 0 => a + b + c = 1 /\ b = 1
         /\ a + b + c <= 1 /\ c > 0 => a + b + c = 1 /\ c = 1
OBVIOUS

LEMMA PaymentCounts ==
  ASSUME IInv, NEW o \in Orders
  PROVE  /\ PaymentRows(o) = 0 => /\ payments[o]["PENDING"] = 0
                                  /\ payments[o]["SUCCEEDED"] = 0
                                  /\ payments[o]["FAILED"] = 0
         /\ PaymentRows(o) <= 1 /\ payments[o]["PENDING"] > 0 =>
              /\ payments[o]["PENDING"] = 1
              /\ payments[o]["SUCCEEDED"] = 0
              /\ payments[o]["FAILED"] = 0
         /\ PaymentRows(o) <= 1 /\ payments[o]["SUCCEEDED"] > 0 =>
              PaymentRows(o) = 1 /\ payments[o]["SUCCEEDED"] = 1
         /\ PaymentRows(o) <= 1 /\ payments[o]["FAILED"] > 0 =>
              PaymentRows(o) = 1 /\ payments[o]["FAILED"] = 1
<1>1. /\ payments[o]["PENDING"] \in Nat /\ payments[o]["SUCCEEDED"] \in Nat
      /\ payments[o]["FAILED"] \in Nat
  BY Counted, BatchCount DEF PaymentStatus
<1> DEFINE a == payments[o]["PENDING"]
           b == payments[o]["SUCCEEDED"]
           c == payments[o]["FAILED"]
<1>2. PaymentRows(o) = a + b + c /\ a \in Nat /\ b \in Nat /\ c \in Nat
  BY <1>1 DEF PaymentRows
<1> HIDE DEF a, b, c
<1>3. /\ PaymentRows(o) = 0 => a = 0 /\ b = 0 /\ c = 0
      /\ PaymentRows(o) <= 1 /\ a > 0 => a = 1 /\ b = 0 /\ c = 0
      /\ PaymentRows(o) <= 1 /\ b > 0 => PaymentRows(o) = 1 /\ b = 1
      /\ PaymentRows(o) <= 1 /\ c > 0 => PaymentRows(o) = 1 /\ c = 1
  BY <1>2, OnlyOne
<1> QED BY <1>3 DEF a, b, c

\* Everything an order of the checkout has and OrderLifecycle knows of.
LEMMA LifeCounts ==
  ASSUME IInv, NEW o \in Orders, OneLife(o)
  PROVE  /\ Batches(o) \in Nat /\ PaymentRows(o) \in Nat
         /\ payments[o]["PENDING"] \in Nat /\ payments[o]["SUCCEEDED"] \in Nat
         /\ payments[o]["FAILED"] \in Nat
         /\ Batches(o) <= 1
         /\ PaymentRows(o) <= Batches(o)
         /\ o \in refused => Batches(o) = 0
BY Counted, BatchCount, AtMostOne DEF PaymentStatus

LEMMA FirstAttempt ==
  ASSUME IInv, NEW o \in Orders, OneLife(o), NEW s \in {"ready", "checked"},
         copies[InventoryOrderCreated][o][s] > 0
  PROVE  orders[o] # "NONE" /\ rows[o] = <<>> /\ o \notin refused
<1>1. /\ copies[InventoryOrderCreated][o]["ready"] \in Nat
      /\ copies[InventoryOrderCreated][o]["checked"] \in Nat
      /\ Batches(o) \in Nat /\ (Batches(o) = 0 <=> rows[o] = <<>>)
  BY Counted, BatchCount, NoBatch, QueueFacts, StageFacts
<1>2. orders[o] # "NONE"
  BY KnownOrder, QueueFacts, StageFacts
<1> QED BY <1>1, <1>2, SMTT(30) DEF OneLife, OneAttempt, One

Life == Lifecycle!Next \/ UNCHANGED Lifecycle!vars

\* Steps that the customer, the stock and the payments do not show.
LEMMA UnseenStep ==
  ASSUME UNCHANGED <<orders, rows, payments, refused>>
  PROVE  Life
<1>1. \A o \in Orders : HoldOf(o)' = HoldOf(o) /\ ChargeOf(o)' = ChargeOf(o)
  BY HoldKept, ChargeKept
<1> QED BY <1>1 DEF Life, Lifecycle!vars

LEMMA PlaceStep ==
  ASSUME NEW o \in Orders, CreateOrder(o)
  PROVE  Life
<1>1. \A x \in Orders : HoldOf(x)' = HoldOf(x) /\ ChargeOf(x)' = ChargeOf(x)
  BY HoldKept, ChargeKept DEF CreateOrder
<1>2. Lifecycle!Place(o)
  BY <1>1 DEF CreateOrder, Lifecycle!Place
<1> QED BY <1>2 DEF Life, Lifecycle!Next

LEMMA HoldStep ==
  ASSUME IInv, NEW o \in Orders, OneLife(o), ReserveStock(o)
  PROVE  Life
<1>1. orders[o] # "NONE" /\ rows[o] = <<>> /\ o \notin refused
  BY FirstAttempt DEF ReserveStock
<1>2. /\ UNCHANGED <<orders, payments, refused>>
      /\ \A x \in Orders \ {o} : rows'[x] = rows[x]
      /\ rows'[o] = <<"RESERVED">>
  <2>1. rows' = [rows EXCEPT ![o] = <<"RESERVED">>] /\ DOMAIN rows = Orders
    BY <1>1 DEF ReserveStock, IInv, TypeOK
  <2> QED BY <2>1 DEF ReserveStock
<1>3. HoldOf(o) = "none" /\ HoldOf(o)' = "held"
  BY <1>1, <1>2, HoldIsNow, HoldIsNext DEF HoldIs
<1>4. /\ \A x \in Orders \ {o} : HoldOf(x)' = HoldOf(x)
      /\ \A x \in Orders : ChargeOf(x)' = ChargeOf(x)
  BY <1>2, HoldKept, ChargeKept
<1>5. Lifecycle!Hold(o)
  BY <1>1, <1>2, <1>3, <1>4 DEF Lifecycle!Hold
<1> QED BY <1>5 DEF Life, Lifecycle!Next

LEMMA RefuseStep ==
  ASSUME IInv, NEW o \in Orders, OneLife(o), RefuseStock(o)
  PROVE  Life
<1>1. orders[o] # "NONE" /\ rows[o] = <<>> /\ o \notin refused
  BY FirstAttempt DEF RefuseStock
<1>2. /\ refused' = refused \cup {o}
      /\ UNCHANGED <<orders, payments, rows>>
  BY DEF RefuseStock
<1>3. HoldOf(o) = "none" /\ HoldOf(o)' = "refused"
  BY <1>1, <1>2, HoldIsNow, HoldIsNext DEF HoldIs
<1>4. /\ \A x \in Orders \ {o} : HoldOf(x)' = HoldOf(x)
      /\ \A x \in Orders : ChargeOf(x)' = ChargeOf(x)
  BY <1>2, HoldKept, ChargeKept
<1>5. Lifecycle!Refuse(o)
  BY <1>1, <1>2, <1>3, <1>4 DEF Lifecycle!Refuse
<1> QED BY <1>5 DEF Life, Lifecycle!Next

LEMMA ChargeStep ==
  ASSUME IInv, IInv', NEW o \in Orders, OneLife(o), SavePendingPayment(o)
  PROVE  Life
<1>1. /\ copies[PaymentInventoryReserved][o]["ready"] > 0
      /\ UNCHANGED <<orders, rows, refused>>
      /\ \A x \in Orders \ {o} : payments'[x] = payments[x]
      /\ payments'[o]["PENDING"] = payments[o]["PENDING"] + 1
      /\ payments'[o]["SUCCEEDED"] = payments[o]["SUCCEEDED"]
      /\ payments'[o]["FAILED"] = payments[o]["FAILED"]
  BY DEF SavePendingPayment, IInv, TypeOK, PaymentStatus
<1>2. /\ Batches(o) = 1 /\ PaymentRows(o) = 0
      /\ payments[o]["PENDING"] = 0 /\ payments[o]["SUCCEEDED"] = 0
      /\ payments[o]["FAILED"] = 0
  <2>1. /\ copies[PaymentInventoryReserved][o]["ready"] \in Nat
        /\ copies[InventoryOrderCreated][o]["reserved"] \in Nat
    BY Counted, BatchCount, QueueFacts, StageFacts
  <2>2. Batches(o) = 1 /\ PaymentRows(o) = 0
    BY <1>1, <2>1, LifeCounts DEF OneLife, OnePayment
  <2> QED BY <2>2, PaymentCounts
<1>3. rows[o] = <<"RESERVED">>
  <2>1. ~HasRow(o, "CONFIRMED") /\ ~HasRow(o, "RELEASED")
    BY <1>2 DEF IInv, Provenance, RowsCaused
  <2> QED BY <1>2, <2>1, OnlyRow DEF HasRow
<1>4. HoldOf(o) = "held"
  BY <1>3, HoldIsNow DEF HoldIs
<1>5. PaymentRows(o)' = 1 /\ payments'[o]["PENDING"] = 1
  BY <1>1, <1>2 DEF PaymentRows
<1>6. ChargeOf(o) = "none" /\ ChargeOf(o)' = "pending"
  BY <1>2, <1>5, ChargeIsNow, ChargeIsNext DEF IInv, TypeOK, ChargeIs
<1>7. /\ \A x \in Orders \ {o} : ChargeOf(x)' = ChargeOf(x)
      /\ \A x \in Orders : HoldOf(x)' = HoldOf(x)
  BY <1>1, HoldKept, ChargeKept
<1>8. Lifecycle!Charge(o)
  BY <1>1, <1>4, <1>6, <1>7 DEF Lifecycle!Charge
<1> QED BY <1>8 DEF Life, Lifecycle!Next

LEMMA DecideStep ==
  ASSUME IInv, IInv', NEW o \in Orders, OneLife(o), NEW stage, NEW status,
         NEW outcome \in {"approved", "declined"},
         (outcome = "approved" /\ status = "SUCCEEDED")
           \/ (outcome = "declined" /\ status = "FAILED"),
         SavePaymentResult(o, stage, status)
  PROVE  Life
<1>1. /\ copies[PaymentInventoryReserved][o]["write"] > 0
      /\ UNCHANGED <<orders, rows, refused>>
      /\ payments' = [payments EXCEPT ![o]["PENDING"] = @ - 1, ![o][status] = @ + 1]
      /\ payments \in [Orders -> [PaymentStatus -> Nat]]
  BY DEF SavePaymentResult, IInv, TypeOK
<1>2. /\ \A x \in Orders \ {o} : payments'[x] = payments[x]
      /\ payments'[o]["PENDING"] = payments[o]["PENDING"] - 1
      /\ payments'[o]["SUCCEEDED"] = payments[o]["SUCCEEDED"] + One(status = "SUCCEEDED")
      /\ payments'[o]["FAILED"] = payments[o]["FAILED"] + One(status = "FAILED")
  BY <1>1 DEF PaymentStatus, One
<1>3. PaymentRows(o) = 1 /\ payments[o]["PENDING"] = 1 /\ payments[o]["SUCCEEDED"] = 0
        /\ payments[o]["FAILED"] = 0
  <2>1. copies[PaymentInventoryReserved][o]["write"] <= payments[o]["PENDING"]
    BY DEF IInv, Provenance, RowsCaused
  <2>2. copies[PaymentInventoryReserved][o]["write"] \in Nat
    BY Counted, BatchCount, QueueFacts, StageFacts
  <2>3. payments[o]["PENDING"] > 0 /\ PaymentRows(o) <= 1
    BY <1>1, <2>1, <2>2, LifeCounts
  <2>4. PaymentRows(o) > 0
    BY <2>3, LifeCounts, PaymentCounts
  <2> QED BY <2>3, <2>4, LifeCounts, PaymentCounts
<1>4. /\ PaymentRows(o)' = 1
      /\ payments'[o]["SUCCEEDED"] = One(outcome = "approved")
      /\ payments'[o]["FAILED"] = One(outcome = "declined")
  BY <1>2, <1>3 DEF PaymentRows, One
<1>5. ChargeOf(o) = "pending" /\ ChargeOf(o)' = outcome
  BY <1>3, <1>4, ChargeIsNow, ChargeIsNext DEF IInv, TypeOK, ChargeIs, One
<1>6. /\ \A x \in Orders \ {o} : ChargeOf(x)' = ChargeOf(x)
      /\ \A x \in Orders : HoldOf(x)' = HoldOf(x)
  BY <1>1, <1>2, HoldKept, ChargeKept
<1>7. Lifecycle!Decide(o, outcome)
  BY <1>1, <1>5, <1>6 DEF Lifecycle!Decide
<1> QED BY <1>7 DEF Life, Lifecycle!Next

\* A payment the inventory service has heard of was decided, once.
LEMMA Decided ==
  ASSUME IInv, NEW o \in Orders, OneLife(o)
  PROVE  /\ payments[o]["SUCCEEDED"] > 0 => ChargeOf(o) = "approved"
         /\ payments[o]["FAILED"] > 0 => ChargeOf(o) = "declined"
<1>1. PaymentRows(o) <= 1
  BY LifeCounts
<1> QED BY <1>1, PaymentCounts, ChargeIsNow DEF ChargeIs, IInv, TypeOK

\* What a settlement makes of the one batch of an order.
LEMMA SettledOnce ==
  ASSUME IInv, NEW o \in Orders, OneLife(o), NEW q \in SettlementQueues,
         NEW i \in DOMAIN found[q][o], NEW status \in {"CONFIRMED", "RELEASED"},
         SettleReservations(q, o, i, status)
  PROVE  /\ HoldOf(o) = "held"
         /\ rows'[o] = <<status>>
         /\ \A x \in Orders \ {o} : HoldOf(x)' = HoldOf(x)
         /\ \A x \in Orders : ChargeOf(x)' = ChargeOf(x)
         /\ Caused(q.event, o)
<1>1. /\ q \in Queues /\ copies[q][o]["found"] > 0
      /\ UNCHANGED <<payments, refused>>
  BY ListenerFacts DEF SettleReservations
<1>2. rows[o] = <<"RESERVED">> /\ found[q][o][i] = {1}
  BY <1>1 DEF OneLife, RowsAsFound
<1>3. /\ rows'[o] \in Seq(ReservationStatus) /\ Len(rows'[o]) = 1
      /\ rows'[o][1] = status
  <2>1. Len(rows[o]) = 1 /\ 1 \in DOMAIN rows[o] /\ 1 \in found[q][o][i]
    BY <1>2
  <2>2. /\ rows' \in [Orders -> Seq(ReservationStatus)]
        /\ Len(rows'[o]) = Len(rows[o])
        /\ \A b \in DOMAIN rows[o] :
             rows'[o][b] = IF b \in found[q][o][i] THEN status ELSE rows[o][b]
    BY SettleRows
  <2> QED BY <2>1, <2>2
<1>4. rows'[o] = <<status>>
  BY <1>3, SingleRow
<1>5. /\ \A x \in Orders \ {o} : HoldOf(x)' = HoldOf(x)
      /\ \A x \in Orders : ChargeOf(x)' = ChargeOf(x)
  BY <1>1, SettleRows, HoldKept, ChargeKept
<1>6. HoldOf(o) = "held"
  BY <1>2, HoldIsNow DEF HoldIs
<1>7. Caused(q.event, o)
  BY <1>1, CopyCaused, StageFacts DEF CausedStage
<1> QED BY <1>4, <1>5, <1>6, <1>7

LEMMA SellStep ==
  ASSUME IInv, NEW o \in Orders, OneLife(o),
         NEW i \in DOMAIN found[InventoryPaymentSucceeded][o],
         SettleReservations(InventoryPaymentSucceeded, o, i, "CONFIRMED")
  PROVE  Life
<1> DEFINE q == InventoryPaymentSucceeded
<1>1. /\ HoldOf(o) = "held"
      /\ rows'[o] = <<"CONFIRMED">>
      /\ \A x \in Orders \ {o} : HoldOf(x)' = HoldOf(x)
      /\ \A x \in Orders : ChargeOf(x)' = ChargeOf(x)
      /\ Caused(q.event, o)
  BY SettledOnce, SettlementFacts
<1>2. HoldOf(o)' = "sold"
  BY <1>1, HoldIsNext DEF HoldIs
<1>3. ChargeOf(o) = "approved"
  BY <1>1, Decided, EventFacts DEF Caused
<1>4. Lifecycle!Sell(o)
  BY <1>1, <1>2, <1>3 DEF Lifecycle!Sell, SettleReservations
<1> QED BY <1>4 DEF Life, Lifecycle!Next

LEMMA GiveBackStep ==
  ASSUME IInv, NEW o \in Orders, OneLife(o),
         NEW i \in DOMAIN found[InventoryPaymentFailed][o],
         SettleReservations(InventoryPaymentFailed, o, i, "RELEASED")
  PROVE  Life
<1> DEFINE q == InventoryPaymentFailed
<1>1. /\ HoldOf(o) = "held"
      /\ rows'[o] = <<"RELEASED">>
      /\ \A x \in Orders \ {o} : HoldOf(x)' = HoldOf(x)
      /\ \A x \in Orders : ChargeOf(x)' = ChargeOf(x)
      /\ Caused(q.event, o)
  BY SettledOnce, SettlementFacts
<1>2. HoldOf(o)' = "returned"
  BY <1>1, HoldIsNext DEF HoldIs
<1>3. ChargeOf(o) = "declined"
  BY <1>1, Decided, EventFacts DEF Caused
<1>4. Lifecycle!GiveBack(o)
  BY <1>1, <1>2, <1>3 DEF Lifecycle!GiveBack, SettleReservations
<1> QED BY <1>4 DEF Life, Lifecycle!Next

\* What a handler of the order service writes is what OrderLifecycle shows.
LEMMA ShowStep ==
  ASSUME IInv, NEW o \in Orders, OneLife(o), NEW q \in OrderQueues,
         SaveOrder(q, o, After(q))
  PROVE  Life
<1>1. /\ q \in Queues
      /\ copies[q][o]["write"] > 0
      /\ orders' = [orders EXCEPT ![o] = After(q)]
      /\ UNCHANGED <<rows, payments, refused>>
  BY DEF SaveOrder, Queues, WorkQueues
<1>2. /\ \A x \in Orders : HoldOf(x)' = HoldOf(x)
      /\ \A x \in Orders : ChargeOf(x)' = ChargeOf(x)
  BY <1>1, HoldKept, ChargeKept
<1>3. Caused(q.event, o) /\ StatusAsRead(o)
  BY <1>1, CopyCaused, StageFacts DEF CausedStage, OneLife
<1>4. CASE q = OrderInventoryReserved
  <2>1. orders[o] = "PENDING" /\ rows[o] # <<>>
    BY <1>1, <1>3, <1>4, EventFacts DEF StatusAsRead, Caused
  <2>2. HoldOf(o) \notin {"none", "refused"}
    BY <2>1, NoBatch, HoldIsNow DEF HoldIs
  <2>3. After(q) = "INVENTORY_RESERVED"
    BY <1>4, QueuesApart DEF After
  <2>4. Lifecycle!ShowReserved(o)
    BY <1>1, <1>2, <2>1, <2>2, <2>3 DEF Lifecycle!ShowReserved, Lifecycle!Show
  <2> QED BY <2>4 DEF Life, Lifecycle!Next
<1>5. CASE q = OrderReservationFailed
  <2>1. orders[o] = "PENDING" /\ o \in refused /\ Batches(o) = 0
    BY <1>1, <1>3, <1>5, EventFacts, LifeCounts DEF StatusAsRead, Caused
  <2>2. HoldOf(o) = "refused"
    BY <2>1, NoBatch, HoldIsNow DEF HoldIs
  <2>3. After(q) = "CANCELLED"
    BY <1>5, QueuesApart DEF After
  <2>4. Lifecycle!ShowCancelled(o)
    BY <1>1, <1>2, <2>1, <2>2, <2>3 DEF Lifecycle!ShowCancelled, Lifecycle!Show
  <2> QED BY <2>4 DEF Life, Lifecycle!Next
<1>6. CASE q = OrderPaymentSucceeded
  <2>1. orders[o] = "INVENTORY_RESERVED" /\ payments[o]["SUCCEEDED"] > 0
    BY <1>1, <1>3, <1>6, EventFacts DEF StatusAsRead, Caused
  <2>2. ChargeOf(o) = "approved"
    BY <2>1, Decided
  <2>3. After(q) = "PAID"
    BY <1>6, QueuesApart DEF After
  <2>4. Lifecycle!ShowPaid(o)
    BY <1>1, <1>2, <2>1, <2>2, <2>3 DEF Lifecycle!ShowPaid, Lifecycle!Show
  <2> QED BY <2>4 DEF Life, Lifecycle!Next
<1>7. CASE q = OrderPaymentFailed
  <2>1. orders[o] = "INVENTORY_RESERVED" /\ payments[o]["FAILED"] > 0
    BY <1>1, <1>3, <1>7, EventFacts DEF StatusAsRead, Caused
  <2>2. ChargeOf(o) = "declined"
    BY <2>1, Decided
  <2>3. After(q) = "PAYMENT_FAILED"
    BY <1>7, QueuesApart DEF After
  <2>4. Lifecycle!ShowFailed(o)
    BY <1>1, <1>2, <2>1, <2>2, <2>3 DEF Lifecycle!ShowFailed, Lifecycle!Show
  <2> QED BY <2>4 DEF Life, Lifecycle!Next
<1> QED BY <1>4, <1>5, <1>6, <1>7 DEF OrderQueues

LEMMA LifeOfStep ==
  ASSUME IInv, IInv', \A x \in Orders : OneLife(x), \A x \in Orders : OneLife(x)',
         NEW o \in Orders,
         \/ CreateOrder(o) \/ PublishOrderCreated(o)
         \/ MarkInventoryReserved(o) \/ CancelForInventoryFailure(o)
         \/ MarkPaid(o) \/ MarkPaymentFailed(o)
         \/ CheckStock(o) \/ ReserveStock(o) \/ RefuseStock(o)
         \/ PublishInventoryReserved(o) \/ PublishReservationFailed(o)
         \/ ConfirmReservation(o) \/ ReleaseReservation(o)
         \/ SavePendingPayment(o) \/ ApprovePayment(o) \/ DeclinePayment(o)
         \/ PublishPaymentSucceeded(o) \/ PublishPaymentFailed(o)
  PROVE  Life
<1>1. CASE CreateOrder(o)
  BY <1>1, PlaceStep
<1>2. CASE PublishOrderCreated(o)
  BY <1>2, UnseenStep DEF PublishOrderCreated
<1>3. ASSUME NEW q, NEW expected, FindOrder(q, o, expected) PROVE Life
  BY <1>3, UnseenStep DEF FindOrder
<1>4. ASSUME NEW q, NEW stage, NEW event, PublishFrom(q, o, stage, event) PROVE Life
  BY <1>4, UnseenStep DEF PublishFrom
<1>5. CASE \/ MarkInventoryReserved(o) \/ CancelForInventoryFailure(o)
           \/ MarkPaid(o) \/ MarkPaymentFailed(o)
  <2>1. /\ After(OrderInventoryReserved) = "INVENTORY_RESERVED"
        /\ After(OrderReservationFailed) = "CANCELLED"
        /\ After(OrderPaymentSucceeded) = "PAID"
        /\ After(OrderPaymentFailed) = "PAYMENT_FAILED"
    BY QueuesApart DEF After
  <2> QED BY <1>3, <1>5, <2>1, ShowStep DEF MarkInventoryReserved,
          CancelForInventoryFailure, MarkPaid, MarkPaymentFailed, OrderQueues
<1>6. CASE CheckStock(o) \/ ReserveStock(o) \/ RefuseStock(o)
  <2>1. CASE CheckStock(o)
    BY <2>1, UnseenStep DEF CheckStock
  <2> QED BY <1>6, <2>1, HoldStep, RefuseStep
<1>7. CASE ConfirmReservation(o) \/ ReleaseReservation(o)
  <2>1. ASSUME NEW q, FindReservations(q, o) PROVE Life
    BY <2>1, UnseenStep DEF FindReservations
  <2> QED BY <1>7, <2>1, SellStep, GiveBackStep DEF ConfirmReservation, ReleaseReservation
<1>8. CASE SavePendingPayment(o)
  BY <1>8, ChargeStep
<1>9. CASE ApprovePayment(o) \/ DeclinePayment(o)
  <2>1. \/ SavePaymentResult(o, "approved", "SUCCEEDED")
        \/ SavePaymentResult(o, "declined", "FAILED")
    BY <1>9 DEF ApprovePayment, DeclinePayment
  <2> QED BY <2>1, DecideStep
<1>10. CASE \/ PublishInventoryReserved(o) \/ PublishReservationFailed(o)
            \/ PublishPaymentSucceeded(o) \/ PublishPaymentFailed(o)
  BY <1>4, <1>10 DEF PublishInventoryReserved, PublishReservationFailed,
     PublishPaymentSucceeded, PublishPaymentFailed
<1> QED BY <1>1, <1>2, <1>5, <1>6, <1>7, <1>8, <1>9, <1>10

LEMMA LifeInit == Init => Lifecycle!Init
<1> SUFFICES ASSUME Init PROVE Lifecycle!Init
  OBVIOUS
<1>1. ASSUME NEW o \in Orders PROVE HoldOf(o) = "none" /\ ChargeOf(o) = "none"
  <2>1. /\ rows[o] = <<>> /\ PaymentRows(o) = 0 /\ o \notin refused
        /\ payments \in [Orders -> [PaymentStatus -> Nat]]
    BY DEF Init, PaymentRows, PaymentStatus
  <2> QED BY <2>1, HoldIsNow, ChargeIsNow DEF HoldIs, ChargeIs
<1> QED BY <1>1 DEF Init, Lifecycle!Init

LEMMA LifeNext ==
  ASSUME MaxCrashes = 0, MaxFailures = 0, LInv, LInv', [Next]_vars
  PROVE  Life
<1>1. /\ IInv /\ IInv'
      /\ crashes = 0 /\ crashes' = 0
      /\ failures = 0 /\ failures' = 0
  BY DEF LInv, IInv, TypeOK
<1>2. /\ \A x \in Orders : OneLife(x)
      /\ \A x \in Orders : OneLife(x)'
  BY <1>1 DEF LInv, Faultless
<1>3. ASSUME NEW o \in Orders, CreateOrder(o) PROVE Life
  BY <1>1, <1>2, <1>3, LifeOfStep
<1>4. CASE Progress
  <2>1. ASSUME NEW q \in Queues, NEW o \in Orders,
               Ack(q, o) \/ Notify(q, o) \/ RetryExpires(q, o)
        PROVE  Life
    BY <1>1, <1>2, <2>1, AckOnce, UnseenStep
  <2> QED BY <1>1, <1>2, <1>4, <2>1, LifeOfStep DEF Progress
<1>5. ASSUME NEW q \in WorkQueues, NEW o \in Orders, NEW stage \in AtDatabase,
             HandlerFails(q, o, stage) \/ GiveUp(q, o, stage)
      PROVE  FALSE
  BY <1>1, <1>5, RetriesAssumption DEF HandlerFails, GiveUp
<1>6. ASSUME NEW service, Crash(service) PROVE FALSE
  BY <1>1, <1>6 DEF Crash
<1>7. CASE UNCHANGED vars
  BY <1>7, UnseenStep DEF vars
<1> QED BY <1>3, <1>4, <1>5, <1>6, <1>7 DEF Next

\* When nothing crashes or throws, every order of the checkout goes through one
\* life of OrderLifecycle, whatever order events and awaits come in: property
\* LifecycleSpec, for any number of orders.
THEOREM ImplementsLifecycle ==
  ASSUME MaxCrashes = 0, MaxFailures = 0
  PROVE  Spec => LifecycleSpec
<1>1. LInv /\ LInv' /\ [Next]_vars => [Lifecycle!Next]_(Lifecycle!vars)
  BY LifeNext DEF Life
<1> QED BY <1>1, LifeInit, LInvHolds, PTL DEF Spec, LifecycleSpec, Lifecycle!Spec
=============================================================================
