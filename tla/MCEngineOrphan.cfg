CONSTANTS
  Torrents = {"t"}
  Reads = {1, 2}
  TorrentOf <- MCTorrentOf
  FirstOf <- MCFirstOf
  LastOf <- MCLastOf
  Pieces = {1}
  read_timeout_secs = {2}
  peer_discovery_wait_secs = {}
  no_seeder_read_timeout_secs = {0}
  peer_wait_cap_secs = {0}
  DEFAULT_READ_TIMEOUT_SECS = 4
  DEFAULT_PEER_DISCOVERY_WAIT_SECS = 2
  DEFAULT_NO_SEEDER_READ_TIMEOUT_SECS = 1
  MAX_LOCAL_TIMEOUT_SECS = 9
  RECHECK_WAIT_CAP = 1
  RECHECK_GRACE = 0
  READ_DEADLINE_MARGIN = 1
  CacheCapacity = 1
  Timed = {1}
  MaxDisturbances = 1
  InfoHashes = {{1, 2}}
  PieceSize = 2
  Stamps = {1, 2}
  MaxSize = 2
  SizeBound = 4
  Faulty = TRUE
  Disturbances = {"crash"}
SPECIFICATION PartSpec
INVARIANTS HandlesAreListed
CHECK_DEADLOCK FALSE
