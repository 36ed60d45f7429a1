\* Two sessions of the server on a fresh archive.
CONSTANTS
  Clients = {c1, c2}
  FilePaths <- MCFilePaths
  TagPaths <- MCNestedTags
  PathLength <- MCPathLength
  BlobIds = {b1, b2}
  MstateIds = {m1, m2}
  BlobSizes = {0}
  MstateSizes = {0}
  Versions = {256}
  HZ_ARCHIVE_VERSION = 256
  MaxBlobs = 2
  MaxEof = 1500
  MaxLoads = 1
  NoPath = NoPath  NoId = NoId  NoEnd = NoEnd
SPECIFICATION ServerSpec
SYMMETRY IdSymmetry
INVARIANTS TagsKept DependenciesCounted
PROPERTIES ImplementsStore
CHECK_DEADLOCK FALSE
