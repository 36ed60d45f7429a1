\* Violated: an mstate is uninstalled under the blobs that need it once the archive was loaded again.
CONSTANTS
  Clients = {c1}
  FilePaths <- MCFilePaths
  TagPaths <- MCTagPaths
  PathLength <- MCPathLength
  BlobIds = {b1, b2}
  MstateIds = {m1, m2}
  BlobSizes = {0}
  MstateSizes = {0}
  Versions = {256}
  HZ_ARCHIVE_VERSION = 256
  MaxBlobs = 2
  MaxEof = 1500
  MaxLoads = 2
  NoPath = NoPath  NoId = NoId  NoEnd = NoEnd
SPECIFICATION ServerSpec
SYMMETRY IdSymmetry
INVARIANT BlobsResolve
CHECK_DEADLOCK FALSE
