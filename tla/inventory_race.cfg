\* A database compressed between the glob and its stat() ends the inventory
\* with FileNotFoundError.
SPECIFICATION Spec
CONSTANTS
  NumDbs <- RaceDbs
  LIST_LIMIT <- RaceLimit
  Compressible <- RaceCompressible
  Commands <- InventoryOnly
INVARIANT InventoryCompletes
