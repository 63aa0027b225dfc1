SPECIFICATION LifecycleSpec
CONSTANTS
  InfoHashes = {{1, 2}}
  PieceSize = 2
  Stamps = {1}
  MaxSize = 2
  SizeBound = 4
  Faulty = FALSE
  Disturbances = {"crash"}
PROPERTIES
  EvictsNothingInFlight
