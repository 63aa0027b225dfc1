SPECIFICATION MountSpec
CONSTANTS
  Contents = {"x", "y"}
  Torrent <- MCTorrent
  InfoHash <- MCInfoHash
  Names <- MCNames
  DirNames = {"d", "e"}
  Files = {1, 2}
  Dirs = {3, 4}
  Handles = {1, 2}
  RowIds = {1, 2}
  MaxRequests = 5
  MaxFailures = 1
  MaxCrashes = 1
  Containers = {1, 2, 3}
  Rootful = {1, 2}
  MAX_SESSION_RECOVERIES = 1
  MaxStarts = 2
  MaxFaults = 1
INVARIANTS
  RowsHaveNames
  ClosedTorrentsKept
  HandlesHaveRows
  CachesAreCurrent
  MirrorListsTorrent
  MountsAccountedFor
