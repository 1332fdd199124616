SPECIFICATION FairSpec
CONSTANTS
  Products = {"tea", "cup", "pot"}
  Stocked = {"tea", "cup"}
  InitialStock <- MCTwoUnits
  Orders = {"order1", "order2"}
  Txns = {"reserve1", "reserve2", "release1", "addMissing"}
  Kind <- MCKind
  OrderOf <- MCOrderOf
  Lines <- MCLines
  MaxRollbacks = 1
\* The system rests when every transaction has ended.
CHECK_DEADLOCK FALSE
INVARIANT TypeOK
INVARIANT BooksBalance
INVARIANT AllOrNothing
PROPERTY EveryTxnEnds
