------------------------------ MODULE Checkout ------------------------------
(***************************************************************************)
(* The checkout saga of SwiftCart: Order, Inventory, Payment and           *)
(* Notification services that talk through one RabbitMQ topic exchange.    *)
(*                                                                         *)
(* The unit of the model is a COPY of an event in one consumer queue.  A   *)
(* copy is in a stage: it waits in the retry queue or in the main queue    *)
(* ("ready"), or its handler has run up to some await ("write", ... ,      *)
(* "done") and has not acknowledged it yet.  Consumers set no prefetch, so *)
(* any number of handlers of one service can be between two awaits at the  *)
(* same time: copies of the same event for the same order in the same      *)
(* stage are interchangeable and the state only counts them.               *)
(*                                                                         *)
(* The quantities are left to module Inventory.  Its transactions overlap  *)
(* and overwrite each other, so what the check of reserveStockForOrder     *)
(* finds may be anything, and it is a free choice here; orders meet only   *)
(* in those quantities.  What is kept is the status of the reservation     *)
(* rows: all rows that one delivery inserts for an order are saved by one  *)
(* transaction, found together and settled together.  They are a BATCH.    *)
(***************************************************************************)
EXTENDS Integers, SequencesExt

CONSTANTS
  Orders,       \* order ids
  Approvals,    \* what shouldApprovePayment may answer in the configured mode
  Notified,     \* events that have a notification consumer
  MaxRetries,   \* maxRetries of the helper; every caller leaves it at 3
  MaxCrashes,   \* bound: process crashes in one behaviour
  MaxFailures   \* bound: handlers that throw and are retried

Events == {"order.created", "inventory.reserved", "inventory.reservation_failed",
           "payment.succeeded", "payment.failed"}

ASSUME ApprovalsAssumption == Approvals \in (SUBSET BOOLEAN) \ {{}}
ASSUME NotifiedAssumption == Notified \subseteq Events
ASSUME RetriesAssumption == MaxRetries \in Nat \ {0}
ASSUME CrashAssumption == MaxCrashes \in Nat
ASSUME FailureAssumption == MaxFailures \in Nat

-----------------------------------------------------------------------------
(* Consumers.  Each has a queue of its own bound to one routing key.       *)

Queue(service, event) == [service |-> service, event |-> event]

OrderInventoryReserved       == Queue("order", "inventory.reserved")
OrderReservationFailed       == Queue("order", "inventory.reservation_failed")
OrderPaymentSucceeded        == Queue("order", "payment.succeeded")
OrderPaymentFailed           == Queue("order", "payment.failed")
InventoryOrderCreated        == Queue("inventory", "order.created")
InventoryPaymentSucceeded    == Queue("inventory", "payment.succeeded")
InventoryPaymentFailed       == Queue("inventory", "payment.failed")
PaymentInventoryReserved     == Queue("payment", "inventory.reserved")
NotificationOrderCreated      == Queue("notification", "order.created")
NotificationInventoryReserved == Queue("notification", "inventory.reserved")
NotificationReservationFailed == Queue("notification", "inventory.reservation_failed")
NotificationPaymentSucceeded  == Queue("notification", "payment.succeeded")
NotificationPaymentFailed     == Queue("notification", "payment.failed")

OrderQueues == {OrderInventoryReserved, OrderReservationFailed,
                OrderPaymentSucceeded, OrderPaymentFailed}
InventoryQueues == {InventoryOrderCreated, InventoryPaymentSucceeded,
                    InventoryPaymentFailed}
NotificationQueues ==
  {q \in {NotificationOrderCreated, NotificationInventoryReserved,
          NotificationReservationFailed, NotificationPaymentSucceeded,
          NotificationPaymentFailed} : q.event \in Notified}
\* Queues whose handlers settle the reservations of an order.
SettlementQueues == {InventoryPaymentSucceeded, InventoryPaymentFailed}
\* Queues whose handlers change state.
WorkQueues == OrderQueues \cup InventoryQueues \cup {PaymentInventoryReserved}
Queues == WorkQueues \cup NotificationQueues

OrderStatus == {"NONE", "PENDING", "INVENTORY_RESERVED", "CANCELLED", "PAID",
                "PAYMENT_FAILED"}
ReservationStatus == {"RESERVED", "RELEASED", "CONFIRMED"}
PaymentStatus == {"PENDING", "SUCCEEDED", "FAILED"}

\* Stages of a copy that a handler has taken and not acknowledged:
\*   write      order: findOne passed the guard; payment: PENDING row saved
\*   checked    inventory: every item was there when it was read
\*   reserved   inventory: rows committed, event not yet published
\*   refused    inventory: some item was missing, event not yet published
\*   found      inventory: the RESERVED rows are read, not yet settled
\*   approved, declined   payment: final row saved, event not yet published
\*   done       nothing left but the ack
Unacked == {"write", "checked", "reserved", "refused", "found", "approved",
            "declined", "done"}
\* Stages between two statements of a database, where a handler may throw.
AtDatabase == {"ready", "write", "checked", "found"}
Stages == {"retry", "ready"} \cup Unacked

VARIABLES
  orders,     \* orders[o]: status column of the order row, "NONE" if no row
  creating,   \* orders whose HTTP request has saved the row, not published
  copies,     \* copies[q][o][s]: copies of q's event for o in stage s
  found,      \* found[q][o]: batches that each copy in stage "found" holds
  rows,       \* rows[o]: status of o's reservation batches, as committed
  payments,   \* payments[o][s]: payment rows of o with status s
  refused,    \* history: orders a reservation attempt was refused for
  givenUp,    \* history: givenUp[q]: orders a copy of q was dead-lettered for
  crashes,    \* crashes so far
  failures    \* handlers that threw and are retried so far

vars == <<orders, creating, copies, found, rows, payments, refused, givenUp,
          crashes, failures>>

Init ==
  /\ orders = [o \in Orders |-> "NONE"]
  /\ creating = {}
  /\ copies = [q \in Queues |-> [o \in Orders |-> [s \in Stages |-> 0]]]
  /\ found = [q \in SettlementQueues |-> [o \in Orders |-> <<>>]]
  /\ rows = [o \in Orders |-> <<>>]
  /\ payments = [o \in Orders |-> [s \in PaymentStatus |-> 0]]
  /\ refused = {}
  /\ givenUp = [q \in WorkQueues |-> {}]
  /\ crashes = 0
  /\ failures = 0

-----------------------------------------------------------------------------
(* What happens to copies.                                                 *)

\* The handler of one copy of q for o goes from stage a to stage b.
Move(q, o, a, b) ==
  [copies EXCEPT ![q][o][a] = @ - 1, ![q][o][b] = @ + 1]

\* One more copy for o in stage s of every queue bound to the routing key.
Fanout(from, event, o, s) ==
  [q \in Queues |-> IF q.event = event
                    THEN [from[q] EXCEPT ![o][s] = @ + 1]
                    ELSE from[q]]

Drop(q, o, s) == [copies EXCEPT ![q][o][s] = @ - 1]

\* Mutant: no retry exchange, a rejected copy is gone.
NackLost(q, o, s) == Drop(q, o, s)

\* nack without requeue: the queue's dead-letter setting hands the copy to the
\* retry exchange, and that is a topic exchange to which the retry queue of
\* EVERY consumer of the event is bound.
Nack(q, o, s) == Fanout(Drop(q, o, s), q.event, o, "retry")

\* Mutant: the consumers are registered with noAck, and what a handler had
\* taken dies with it.
RequeuedNone(service) ==
  [q \in Queues |->
    IF q.service # service THEN copies[q]
    ELSE [o \in Orders |-> [s \in Stages |->
           IF s \in Unacked THEN 0 ELSE copies[q][o][s]]]]

\* noAck: false: the broker requeues every unacknowledged copy of a service that
\* went down.
Requeued(service) ==
  [q \in Queues |->
    IF q.service # service THEN copies[q]
    ELSE [o \in Orders |-> LET n == copies[q][o] IN
           [s \in Stages |->
             CASE s = "retry" -> n["retry"]
               [] s = "ready" -> n["ready"] + n["write"] + n["checked"]
                                 + n["reserved"] + n["refused"] + n["found"]
                                 + n["approved"] + n["declined"] + n["done"]
               [] OTHER -> 0]]]

-----------------------------------------------------------------------------
(* Order service.                                                          *)

\* POST /orders: the row is committed before the event is published.
CreateOrder(o) ==
  /\ orders[o] = "NONE"
  /\ orders' = [orders EXCEPT ![o] = "PENDING"]
  /\ creating' = creating \cup {o}
  /\ UNCHANGED <<copies, found, rows, payments, refused, givenUp, crashes,
                 failures>>

PublishOrderCreated(o) ==
  /\ o \in creating
  /\ creating' = creating \ {o}
  /\ copies' = Fanout(copies, "order.created", o, "ready")
  /\ UNCHANGED <<orders, found, rows, payments, refused, givenUp, crashes,
                 failures>>

\* Mutant: the status guard is missing.
FindAnyOrder(q, o, expected) ==
  /\ copies[q][o]["ready"] > 0
  /\ copies' = IF orders[o] = "NONE" THEN Nack(q, o, "ready")
               ELSE Move(q, o, "ready", "write")
  /\ UNCHANGED <<orders, creating, found, rows, payments, refused, givenUp,
                 crashes, failures>>

\* findOne and the status guard.  A missing row is a NotFoundException, hence
\* a nack; a row in another status is left alone and the copy acknowledged.
FindOrder(q, o, expected) ==
  /\ copies[q][o]["ready"] > 0
  /\ copies' = IF orders[o] = "NONE" THEN Nack(q, o, "ready")
               ELSE IF orders[o] = expected THEN Move(q, o, "ready", "write")
               ELSE Move(q, o, "ready", "done")
  /\ UNCHANGED <<orders, creating, found, rows, payments, refused, givenUp,
                 crashes, failures>>

\* save: the status read before the await is not looked at again.
SaveOrder(q, o, status) ==
  /\ copies[q][o]["write"] > 0
  /\ orders' = [orders EXCEPT ![o] = status]
  /\ copies' = Move(q, o, "write", "done")
  /\ UNCHANGED <<creating, found, rows, payments, refused, givenUp, crashes,
                 failures>>

MarkInventoryReserved(o) ==
  \/ FindOrder(OrderInventoryReserved, o, "PENDING")
  \/ SaveOrder(OrderInventoryReserved, o, "INVENTORY_RESERVED")

CancelForInventoryFailure(o) ==
  \/ FindOrder(OrderReservationFailed, o, "PENDING")
  \/ SaveOrder(OrderReservationFailed, o, "CANCELLED")

MarkPaid(o) ==
  \/ FindOrder(OrderPaymentSucceeded, o, "INVENTORY_RESERVED")
  \/ SaveOrder(OrderPaymentSucceeded, o, "PAID")

MarkPaymentFailed(o) ==
  \/ FindOrder(OrderPaymentFailed, o, "INVENTORY_RESERVED")
  \/ SaveOrder(OrderPaymentFailed, o, "PAYMENT_FAILED")

-----------------------------------------------------------------------------
(* Inventory service.                                                      *)

\* The checking loop of reserveStockForOrder found every item.
CheckStock(o) ==
  /\ copies[InventoryOrderCreated][o]["ready"] > 0
  /\ copies' = Move(InventoryOrderCreated, o, "ready", "checked")
  /\ UNCHANGED <<orders, creating, found, rows, payments, refused, givenUp,
                 crashes, failures>>

\* Mutant: reservation rows are saved in the loop that checks the items.
RefuseStockKeepingRows(o) ==
  /\ copies[InventoryOrderCreated][o]["ready"] > 0
  /\ refused' = refused \cup {o}
  /\ rows' = [rows EXCEPT ![o] = Append(@, "RESERVED")]
  /\ copies' = Move(InventoryOrderCreated, o, "ready", "refused")
  /\ UNCHANGED <<orders, creating, found, payments, givenUp, crashes,
                 failures>>

\* It missed one: the transaction returns without changing anything.
RefuseStock(o) ==
  /\ copies[InventoryOrderCreated][o]["ready"] > 0
  /\ refused' = refused \cup {o}
  /\ copies' = Move(InventoryOrderCreated, o, "ready", "refused")
  /\ UNCHANGED <<orders, creating, found, rows, payments, givenUp, crashes,
                 failures>>

\* The reserving loop, which does not check again, and the commit.
ReserveStock(o) ==
  /\ copies[InventoryOrderCreated][o]["checked"] > 0
  /\ rows' = [rows EXCEPT ![o] = Append(@, "RESERVED")]
  /\ copies' = Move(InventoryOrderCreated, o, "checked", "reserved")
  /\ UNCHANGED <<orders, creating, found, payments, refused, givenUp, crashes,
                 failures>>

\* After the commit: publish the result, still before the ack.
PublishFrom(q, o, stage, event) ==
  /\ copies[q][o][stage] > 0
  /\ copies' = Fanout(Move(q, o, stage, "done"), event, o, "ready")
  /\ UNCHANGED <<orders, creating, found, rows, payments, refused, givenUp,
                 crashes, failures>>

PublishInventoryReserved(o) ==
  PublishFrom(InventoryOrderCreated, o, "reserved", "inventory.reserved")

PublishReservationFailed(o) ==
  PublishFrom(InventoryOrderCreated, o, "refused", "inventory.reservation_failed")

\* Both payment outcomes act on whatever rows of the order are RESERVED now.
Outstanding(o) == {b \in DOMAIN rows[o] : rows[o][b] = "RESERVED"}

\* find of confirmReservationForOrder and releaseReservationForOrder.
FindReservations(q, o) ==
  /\ copies[q][o]["ready"] > 0
  /\ IF Outstanding(o) = {}
     THEN copies' = Move(q, o, "ready", "done") /\ UNCHANGED found
     ELSE /\ copies' = Move(q, o, "ready", "found")
          /\ found' = [found EXCEPT ![q][o] = Append(@, Outstanding(o))]
  /\ UNCHANGED <<orders, creating, rows, payments, refused, givenUp, crashes,
                 failures>>

\* The loop over the rows that were found and the commit: nobody looks whether
\* another delivery has settled them meanwhile.
SettleReservations(q, o, i, status) ==
  /\ copies[q][o]["found"] > 0
  /\ rows' = [rows EXCEPT ![o] =
       [b \in DOMAIN rows[o] |-> IF b \in found[q][o][i] THEN status
                                 ELSE rows[o][b]]]
  /\ found' = [found EXCEPT ![q][o] = RemoveAt(@, i)]
  /\ copies' = Move(q, o, "found", "done")
  /\ UNCHANGED <<orders, creating, payments, refused, givenUp, crashes,
                 failures>>

ConfirmReservation(o) ==
  \/ FindReservations(InventoryPaymentSucceeded, o)
  \/ \E i \in DOMAIN found[InventoryPaymentSucceeded][o] :
       SettleReservations(InventoryPaymentSucceeded, o, i, "CONFIRMED")

ReleaseReservation(o) ==
  \/ FindReservations(InventoryPaymentFailed, o)
  \/ \E i \in DOMAIN found[InventoryPaymentFailed][o] :
       SettleReservations(InventoryPaymentFailed, o, i, "RELEASED")

-----------------------------------------------------------------------------
(* Payment service: every delivery creates a payment row of its own.       *)

SavePendingPayment(o) ==
  /\ copies[PaymentInventoryReserved][o]["ready"] > 0
  /\ payments' = [payments EXCEPT ![o]["PENDING"] = @ + 1]
  /\ copies' = Move(PaymentInventoryReserved, o, "ready", "write")
  /\ UNCHANGED <<orders, creating, found, rows, refused, givenUp, crashes,
                 failures>>

SavePaymentResult(o, stage, status) ==
  /\ copies[PaymentInventoryReserved][o]["write"] > 0
  /\ payments' = [payments EXCEPT ![o]["PENDING"] = @ - 1, ![o][status] = @ + 1]
  /\ copies' = Move(PaymentInventoryReserved, o, "write", stage)
  /\ UNCHANGED <<orders, creating, found, rows, refused, givenUp, crashes,
                 failures>>

ApprovePayment(o) ==
  TRUE \in Approvals /\ SavePaymentResult(o, "approved", "SUCCEEDED")

DeclinePayment(o) ==
  FALSE \in Approvals /\ SavePaymentResult(o, "declined", "FAILED")

\* Mutant: the outcome is published before it is saved.
PublishUnsavedPayment(o) ==
  PublishFrom(PaymentInventoryReserved, o, "write", "payment.succeeded")

PublishPaymentSucceeded(o) ==
  PublishFrom(PaymentInventoryReserved, o, "approved", "payment.succeeded")

\* Mutant: a declined payment is saved and nobody is told.
ForgetPaymentFailed(o) ==
  /\ copies[PaymentInventoryReserved][o]["declined"] > 0
  /\ copies' = Move(PaymentInventoryReserved, o, "declined", "done")
  /\ UNCHANGED <<orders, creating, found, rows, payments, refused, givenUp,
                 crashes, failures>>

PublishPaymentFailed(o) ==
  PublishFrom(PaymentInventoryReserved, o, "declined", "payment.failed")

-----------------------------------------------------------------------------
(* Consumer helper, notification service and broker.                       *)

\* Mutant: the handler and the helper both acknowledge.
AckTwice(q, o) ==
  /\ copies[q][o]["done"] > 0
  /\ copies' = [copies EXCEPT ![q][o]["done"] = @ - 2]
  /\ UNCHANGED <<orders, creating, found, rows, payments, refused, givenUp,
                 crashes, failures>>

\* handleEvent resolved: ack.
Ack(q, o) ==
  /\ copies[q][o]["done"] > 0
  /\ copies' = Drop(q, o, "done")
  /\ UNCHANGED <<orders, creating, found, rows, payments, refused, givenUp,
                 crashes, failures>>

\* A notification handler writes a log line and is acknowledged at once.
Notify(q, o) ==
  /\ q \in NotificationQueues
  /\ copies[q][o]["ready"] > 0
  /\ copies' = Drop(q, o, "ready")
  /\ UNCHANGED <<orders, creating, found, rows, payments, refused, givenUp,
                 crashes, failures>>

\* A handler that threw keeps nothing of what it had read.
Forget(q, o, stage) ==
  IF stage # "found" THEN UNCHANGED found
  ELSE \E i \in DOMAIN found[q][o] :
         found' = [found EXCEPT ![q][o] = RemoveAt(@, i)]

\* A database statement of a handler throws, or its transaction is the victim
\* of a deadlock; what it did is rolled back and the helper asks for a retry.
HandlerFails(q, o, stage) ==
  /\ copies[q][o][stage] > 0
  /\ failures < MaxFailures
  /\ failures' = failures + 1
  /\ Forget(q, o, stage)
  /\ copies' = Nack(q, o, stage)
  /\ UNCHANGED <<orders, creating, rows, payments, refused, givenUp, crashes>>

\* The helper gives the copy up: it is published to the dead-letter exchange,
\* whose queues have no consumer, and acknowledged.  Nothing is given up
\* before it was retried MaxRetries times (theorem NeverGivenUpEarly of
\* RetryTopologyProofs), and every retry had a failure of its own.
GiveUp(q, o, stage) ==
  /\ copies[q][o][stage] > 0
  /\ failures >= MaxRetries
  /\ Forget(q, o, stage)
  /\ copies' = Drop(q, o, stage)
  /\ givenUp' = [givenUp EXCEPT ![q] = @ \cup {o}]
  /\ UNCHANGED <<orders, creating, rows, payments, refused, crashes, failures>>

\* The TTL of a retry queue dead-letters the copy to the main exchange, which
\* again delivers it to every consumer of the event.
RetryExpires(q, o) ==
  /\ copies[q][o]["retry"] > 0
  /\ copies' = Fanout(Drop(q, o, "retry"), q.event, o, "ready")
  /\ UNCHANGED <<orders, creating, found, rows, payments, refused, givenUp,
                 crashes, failures>>

\* A service process dies (or is restarted) at any point between two steps.
Crash(service) ==
  /\ crashes < MaxCrashes
  /\ crashes' = crashes + 1
  /\ copies' = Requeued(service)
  /\ creating' = IF service = "order" THEN {} ELSE creating
  /\ found' = IF service = "inventory"
              THEN [q \in SettlementQueues |-> [o \in Orders |-> <<>>]]
              ELSE found
  /\ UNCHANGED <<orders, rows, payments, refused, givenUp, failures>>

-----------------------------------------------------------------------------
\* What the program and the broker owe once something has been started.
Progress ==
  \/ \E o \in Orders :
       \/ PublishOrderCreated(o)
       \/ MarkInventoryReserved(o)
       \/ CancelForInventoryFailure(o)
       \/ MarkPaid(o)
       \/ MarkPaymentFailed(o)
       \/ CheckStock(o)
       \/ RefuseStock(o)
       \/ ReserveStock(o)
       \/ PublishInventoryReserved(o)
       \/ PublishReservationFailed(o)
       \/ ConfirmReservation(o)
       \/ ReleaseReservation(o)
       \/ SavePendingPayment(o)
       \/ ApprovePayment(o)
       \/ DeclinePayment(o)
       \/ PublishPaymentSucceeded(o)
       \/ PublishPaymentFailed(o)
  \/ \E q \in Queues, o \in Orders : Ack(q, o) \/ Notify(q, o) \/ RetryExpires(q, o)

Next ==
  \/ \E o \in Orders : CreateOrder(o)
  \/ Progress
  \/ \E q \in WorkQueues, o \in Orders, stage \in AtDatabase :
       HandlerFails(q, o, stage) \/ GiveUp(q, o, stage)
  \/ \E service \in {"order", "inventory", "payment"} : Crash(service)

Spec == Init /\ [][Next]_vars

\* Every behaviour has finitely many steps, so it is enough to assume that the
\* system as a whole does not stop while the program or the broker has a step
\* to take.  Nobody has to place an order, crash or fail.
FairSpec == Spec /\ WF_vars(Progress)

-----------------------------------------------------------------------------
(* Properties.                                                             *)

HasRow(o, status) == \E b \in DOMAIN rows[o] : rows[o][b] = status

PaymentRows(o) ==
  payments[o]["PENDING"] + payments[o]["SUCCEEDED"] + payments[o]["FAILED"]

InStage(q, o, stages) == \E s \in stages : copies[q][o][s] > 0

TypeOK ==
  /\ orders \in [Orders -> OrderStatus]
  /\ creating \in SUBSET Orders
  /\ copies \in [Queues -> [Orders -> [Stages -> Nat]]]
  /\ found \in [SettlementQueues -> [Orders -> Seq(SUBSET Nat)]]
  /\ \A q \in SettlementQueues, o \in Orders :
       Len(found[q][o]) = copies[q][o]["found"]
  /\ rows \in [Orders -> Seq(ReservationStatus)]
  /\ payments \in [Orders -> [PaymentStatus -> Nat]]
  /\ refused \in SUBSET Orders
  /\ givenUp \in [WorkQueues -> SUBSET Orders]
  /\ crashes \in 0..MaxCrashes
  /\ failures \in 0..MaxFailures

(* What must have happened before an event about o may exist.              *)
Caused(event, o) ==
  CASE event = "order.created" -> orders[o] # "NONE"
    [] event = "inventory.reserved" -> rows[o] # <<>>
    [] event = "inventory.reservation_failed" -> o \in refused
    [] event = "payment.succeeded" -> payments[o]["SUCCEEDED"] > 0
    [] event = "payment.failed" -> payments[o]["FAILED"] > 0

\* What must have happened before a copy of q for o may be in stage s.
CausedStage(q, o, s) ==
  /\ Caused(q.event, o)
  /\ s = "reserved" => rows[o] # <<>>
  /\ s = "refused" => o \in refused
  /\ s = "approved" => payments[o]["SUCCEEDED"] > 0
  /\ s = "declined" => payments[o]["FAILED"] > 0

CopiesCaused ==
  \A q \in Queues, o \in Orders, s \in Stages :
    copies[q][o][s] > 0 => CausedStage(q, o, s)

RowsCaused ==
  \A o \in Orders :
    /\ o \in creating => orders[o] # "NONE"
    /\ rows[o] # <<>> \/ o \in refused => orders[o] # "NONE"
    /\ PaymentRows(o) > 0 => rows[o] # <<>>
    /\ copies[PaymentInventoryReserved][o]["write"] <= payments[o]["PENDING"]
    /\ HasRow(o, "CONFIRMED") => payments[o]["SUCCEEDED"] > 0
    /\ HasRow(o, "RELEASED") => payments[o]["FAILED"] > 0

StatusCaused ==
  \A o \in Orders :
    /\ orders[o] = "INVENTORY_RESERVED" => rows[o] # <<>>
    /\ orders[o] = "CANCELLED" => o \in refused
    /\ orders[o] = "PAID" => payments[o]["SUCCEEDED"] > 0
    /\ orders[o] = "PAYMENT_FAILED" => payments[o]["FAILED"] > 0

\* No service ever acts on something that did not happen in another one: a
\* copy of an event is caused by rows its publisher has committed, and the
\* status of the order, of its reservations and its payments each follow from
\* a committed step upstream, whatever is crashed, retried or duplicated.  In
\* particular no consumer meets an order that does not exist.
Provenance == CopiesCaused /\ RowsCaused /\ StatusCaused

\* A copy that would have led to settling o's stock is in a dead-letter queue.
Abandoned(o) ==
  \E q \in {InventoryOrderCreated, PaymentInventoryReserved,
            InventoryPaymentSucceeded, InventoryPaymentFailed} : o \in givenUp[q]

\* Stock that is still reserved for an order has a copy on its way that will
\* end in confirming or releasing it (or in trying to reserve once more):
\* stock is never forgotten between two services, however the handlers throw,
\* die and overlap.  Two things may end that: an attempt to reserve again was
\* refused, and then the order is cancelled; or the helper gave a copy up.
ReservedStockIsPursued ==
  \A o \in Orders : HasRow(o, "RESERVED") =>
    \/ o \in refused
    \/ Abandoned(o)
    \/ InStage(InventoryOrderCreated, o, {"retry", "ready", "checked", "reserved"})
    \/ InStage(PaymentInventoryReserved, o,
               {"retry", "ready", "write", "approved", "declined"})
    \/ InStage(InventoryPaymentSucceeded, o, {"retry", "ready", "found"})
    \/ InStage(InventoryPaymentFailed, o, {"retry", "ready", "found"})

\* What the user is told agrees with what the other services hold, when nothing
\* crashes or throws: a cancelled order has no stock and no payment, a paid
\* one only payments that succeeded, a failed one only payments that failed.
StatusAgrees ==
  \A o \in Orders :
    /\ orders[o] = "CANCELLED" => rows[o] = <<>> /\ PaymentRows(o) = 0
    /\ orders[o] = "PAID" => payments[o]["FAILED"] = 0
    /\ orders[o] = "PAYMENT_FAILED" => /\ payments[o]["SUCCEEDED"] = 0
                                       /\ ~HasRow(o, "CONFIRMED")

(* Checkout without faults implements OrderLifecycle.  A second batch of   *)
(* rows or a second payment has no counterpart there.                      *)

HoldOf(o) ==
  CASE rows[o] = <<>> -> IF o \in refused THEN "refused" ELSE "none"
    [] rows[o] = <<"RESERVED">> -> "held"
    [] rows[o] = <<"CONFIRMED">> -> "sold"
    [] rows[o] = <<"RELEASED">> -> "returned"
    [] OTHER -> "twice"

ChargeOf(o) ==
  CASE PaymentRows(o) = 0 -> "none"
    [] PaymentRows(o) = 1 /\ payments[o]["PENDING"] = 1 -> "pending"
    [] PaymentRows(o) = 1 /\ payments[o]["SUCCEEDED"] = 1 -> "approved"
    [] PaymentRows(o) = 1 /\ payments[o]["FAILED"] = 1 -> "declined"
    [] OTHER -> "twice"

Lifecycle == INSTANCE OrderLifecycle WITH
  status <- orders,
  hold <- [o \in Orders |-> HoldOf(o)],
  charge <- [o \in Orders |-> ChargeOf(o)]

\* Whatever the order of events and awaits, when nothing crashes or throws, an
\* order goes through one life: one reservation, one payment, a settlement that
\* agrees with the payment, and a status that never runs ahead of them.  (How
\* much stock there is when transactions overlap is another matter, see
\* Inventory.)
LifecycleSpec == Lifecycle!Spec

\* An order whose order.created reached the inventory service leaves PENDING,
\* in spite of crashes and retries.
AcceptedOrderIsDecided ==
  \A o \in Orders :
    InStage(InventoryOrderCreated, o, Stages) ~> orders[o] \notin {"NONE", "PENDING"}

\* Stock reserved for an order is sooner or later sold or given back, unless
\* another attempt to reserve for the same order was refused or a copy was
\* dead-lettered.
ReservedStockIsSettled ==
  \A o \in Orders :
    HasRow(o, "RESERVED") ~>
      (~HasRow(o, "RESERVED") \/ o \in refused \/ Abandoned(o))

\* What the README tells a user who placed an order: query it again to see its
\* final status, PAID, PAYMENT_FAILED or CANCELLED.
EveryOrderIsFinal ==
  \A o \in Orders :
    orders[o] # "NONE" ~> orders[o] \in {"PAID", "PAYMENT_FAILED", "CANCELLED"}
=============================================================================
