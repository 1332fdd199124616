SPECIFICATION Spec
CONSTANTS
  c1 = c1
  c2 = c2
  Consumers <- MCConsumers
  MaxRetries = 2
  Poisoned <- MCOnePoisoned
  MaxTransient = 0
\* The system rests when the last copy is acknowledged.
CHECK_DEADLOCK FALSE
INVARIANT HeaderBounded
INVARIANT TrailBounded
PROPERTY GivenUpLate
