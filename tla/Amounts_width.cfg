\* Orders and repeated deliveries are finite in number.
CHECK_DEADLOCK FALSE
SPECIFICATION FairSpec
CONSTANTS
  Orders = {"even", "large", "dear"}
  Lines <- MCLines
  UnitCents = 2
  MaxInt = 4
  MaxRetries = 1
  MaxRepeats = 1
INVARIANT TypeOK
INVARIANT HeldHasReason
 
PROPERTY SettledUnlessTooLarge
