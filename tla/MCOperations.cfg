SPECIFICATION Spec
CONSTANTS
  NumPieces = 3
  PieceLength = 2
  FileSize = 6
  Reads = {1, 2}
  OffsetOf <- MCOffsetOf
  SizeOf <- MCSizeOf
  CacheCapacity = 5
  piece_priority <- MCTable
  DEFAULT_PRIORITIES <- MCPriorities
  LIBTORRENT_DEFAULT = 4
  MaxMishaps = 2
  Bytes = {"x", "y"}
  Paths = {"", "d"}
  TitleOf <- MCTitleOf
  FileNames = {"a", "b"}
  MaxRows = 3
  MaxKills = 1
  SNAPSHOT_INTERVAL = 2
  READER_DEMAND_TTL = 4
  Infos = {"a", "b"}
  TrackersOf <- MCTrackersOf
  PieceCount = 2
  NO_SEEDER_GRACE = 3
  SLOW_SWARM_GRACE = 2
  FileSizes <- MCFileSizes
  piece_length = 3
  Sizes = {4}
  MAX_L1_ENTRIES = 2
  Hashes = {"h"}
  NumBlocks = 2
  Readers = {1}
  MaxStorages = 2
  MaxFiles = 2
  MaxWriteErrors = 1
  Pids = {1, 2}
  PieceKeys = {"p", "q"}
  OtherNames = {"o"}
  MaxWrites = 1
INVARIANTS
  AskedForWhatIsRead
  UpgradeKeepsTorrents
  WatcherSeesFresh
  ReportIsBacked
  PrivateTrackersIsolated
  ReadIsSlice
  GuardedReadIsOneState
  StartsInOrder
PROPERTIES
  FinishedPiecesHandled
