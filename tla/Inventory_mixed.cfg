SPECIFICATION Spec
CONSTANTS
  Products = {"tea", "cup", "pot"}
  Stocked = {"tea", "cup"}
  InitialStock <- MCOneUnit
  Orders = {"order1", "order2"}
  Txns = {"reserve1", "reserveCups", "confirm1", "release1", "add1"}
  Kind <- MCKind
  OrderOf <- MCOrderOf
  Lines <- MCLines
  MaxRollbacks = 0
\* The system rests when every transaction has ended.
CHECK_DEADLOCK FALSE
INVARIANT ReservedMatchesRows
INVARIANT AvailableMatchesRows
PROPERTY SettledForGood
PROPERTY LedgerSpec
