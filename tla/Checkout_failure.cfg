\* A finite set of orders is placed and processed, then the system rests.
CHECK_DEADLOCK FALSE
SPECIFICATION Spec
CONSTANTS
  o1 = o1
  Orders = {o1}
  Approvals = {FALSE}
  Notified = {}
  MaxRetries = 1
  MaxCrashes = 0
  MaxFailures = 1
INVARIANT ReservedStockIsPursued
