SPECIFICATION FairSpec
CONSTANTS
  c1 = c1
  c2 = c2
  Consumers <- MCConsumers
  MaxRetries = 1
  Poisoned <- MCOnePoisoned
  MaxTransient = 3
\* The system rests when the last copy is acknowledged.
CHECK_DEADLOCK FALSE
INVARIANT TypeOK
INVARIANT NotLost
PROPERTY ComesToRest
