SPECIFICATION FairSpec
CONSTANTS
  Products = {"mug"}
  Reads = {"mug1", "list"}
  Writes = {"post", "patchName", "patchPrice"}
  KeyOf <- MCKeyOf
  Kind <- MCKind
  Target <- MCTarget
  Change <- MCChange
  Initial <- MCInitial
  MaxRedisErrors = 1
INVARIANT TypeOK
INVARIANT StaleHasCause
PROPERTY StalenessEnds
