\* Written, closed and loaded again: all public operations of one session.
CONSTANTS
  Clients = {c1}
  FilePaths <- MCFilePaths
  TagPaths <- MCTagPaths
  PathLength <- MCPathLength
  BlobIds = {b1, b2}
  MstateIds = {m1}
  BlobSizes = {0}
  MstateSizes = {0}
  Versions = {256, 512}
  HZ_ARCHIVE_VERSION = 256
  MaxBlobs = 2
  MaxEof = 1500
  MaxLoads = 2
  NoPath = NoPath  NoId = NoId  NoEnd = NoEnd
SPECIFICATION Spec
SYMMETRY BlobSymmetry
INVARIANTS TypeOK Tiling IndexMatchesFile BlobsOwnedOnce
PROPERTIES LiveDataStable BlobsOutliveFiles
CHECK_DEADLOCK FALSE
