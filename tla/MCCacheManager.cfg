SPECIFICATION FairSpec
CONSTANTS
  InfoHashes = {{1}, {2}}
  PieceSize = 2
  Stamps = {1, 2}
  MaxSize = 2
  SizeBound = 5
  Faulty = TRUE
INVARIANTS
  LruMirrorsMetadata
  TagsConsistent
  NeverUnderAccounts
PROPERTIES
  EvictionEnds
