\* A finite set of orders is placed and processed, then the system rests.
CHECK_DEADLOCK FALSE
SPECIFICATION FairSpec
CONSTANTS
  o1 = o1
  Orders = {o1}
  Approvals = {TRUE, FALSE}
  Notified = {"order.created", "payment.failed"}
  MaxRetries = 3
  MaxCrashes = 0
  MaxFailures = 0
INVARIANT StatusAgrees
PROPERTY LifecycleSpec
PROPERTY ReservedStockIsSettled
