SPECIFICATION Spec
CONSTANTS
  Attempts = {"first", "capital", "again", "login", "other login"}
  Addresses = {"ann@shop", "Ann@shop"}
  Kind <- MCKind
  Address <- MCAddress
  Password <- MCPassword
  Head <- MCHead
  Normal <- MCNormal
  MaxFaults = 2
\* The system rests when every attempt is over.
CHECK_DEADLOCK FALSE
INVARIANT OneRowPerAddress
INVARIANT AnswerIsTrue
INVARIANT LoginIsTrue
