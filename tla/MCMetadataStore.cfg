SPECIFICATION FairSpec
CONSTANTS
  MaxVersion = 3
  MaxFaults = 2
INVARIANTS
  NoLostUpdate
PROPERTIES
  NoRollback
  ImplementsDurableMap
  EventuallyPublished
  ShutdownEnds
