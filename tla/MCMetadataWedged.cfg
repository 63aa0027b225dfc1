SPECIFICATION WedgedSpec
CONSTANTS
  MaxVersion = 1
  MaxFaults = 0
PROPERTIES
  ShutdownEnds
