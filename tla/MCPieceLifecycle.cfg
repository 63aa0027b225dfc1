SPECIFICATION LifecycleSpec
CONSTANTS
  InfoHashes = {{1}}
  PieceSize = 2
  Stamps = {1}
  MaxSize = 2
  SizeBound = 4
  Faulty = TRUE
  Disturbances = {"crash", "late alert", "purge", "rm", "sparse", "verify"}
INVARIANTS
  HaveIsWholeOrGone
PROPERTIES
  CacheRefined
