--------------------------- MODULE MCEventChannel ---------------------------
(* A small instance of EventChannel: the order service publishes           *)
(* order.created, the inventory service publishes one of two outcomes, and *)
(* the order service has a queue for each.                                 *)
EXTENDS EventChannel

MCServices == {"order", "inventory"}
MCEvent ==
  [q \in {"inventory.order-created", "order.inventory-reserved",
          "order.inventory-reservation-failed"} |->
     CASE q = "inventory.order-created" -> "order.created"
       [] q = "order.inventory-reserved" -> "inventory.reserved"
       [] OTHER -> "inventory.reservation_failed"]
MCQueues == DOMAIN MCEvent
MCOwner == [q \in MCQueues |->
              IF q = "inventory.order-created" THEN "inventory" ELSE "order"]
MCOutcomes ==
  [q \in MCQueues |->
     IF q = "inventory.order-created"
     THEN {"inventory.reserved", "inventory.reservation_failed"} ELSE {}]
=============================================================================
