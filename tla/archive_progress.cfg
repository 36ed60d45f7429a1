\* Fairness: the thread that holds the mutex keeps running.
CONSTANTS
  Clients = {c1}
  FilePaths <- MCFilePaths
  TagPaths <- MCTwoTags
  PathLength <- MCPathLength
  BlobIds = {b1, b2}
  MstateIds = {m1}
  BlobSizes = {0}
  MstateSizes = {0}
  Versions = {256, 512}
  HZ_ARCHIVE_VERSION = 256
  MaxBlobs = 2
  MaxEof = 1320
  MaxLoads = 2
  NoPath = NoPath  NoId = NoId  NoEnd = NoEnd
SPECIFICATION FairSpec
PROPERTIES LoadEnds RemoveEnds ImplementsStoreAcrossLoads
CHECK_DEADLOCK FALSE
