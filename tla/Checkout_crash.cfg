\* A finite set of orders is placed and processed, then the system rests.
CHECK_DEADLOCK FALSE
SPECIFICATION FairSpec
CONSTANTS
  o1 = o1
  Orders = {o1}
  Approvals = {TRUE, FALSE}
  Notified = {}
  MaxRetries = 3
  MaxCrashes = 1
  MaxFailures = 0
INVARIANT TypeOK
INVARIANT Provenance
PROPERTY AcceptedOrderIsDecided
PROPERTY ReservedStockIsSettled
