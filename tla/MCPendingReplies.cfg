SPECIFICATION Spec
CONSTANTS
  Reads = {"r1", "r2", "r3"}
  Torrents = {1, 2}
  RangeOf <- MCRangeOf
  TorrentOf <- MCTorrentOf
  Workers = {"w1"}
  MAX_PENDING = 1
  QueueDepth = 1
  MaxUnlinks = 1
INVARIANTS
  ReplyHeldOnce
  GaugeCountsPending
  GroupsAreServed
  UnlinkTakesItsOwn
PROPERTIES
  ImplementsReadReplies
  BackpressureEnds
CHECK_DEADLOCK FALSE
