\* Two sessions share an archive: encoding with and without a tag, decoding,
\* training, uninstalling and deleting; one chunk shrinks and one does not.
SPECIFICATION FairSpec
CONSTANTS
  Clients = {c1, c2}
  Files = {f1}
  Tags = {t1}
  Chunks = {d1, d2}
  Incompressible = {d2}
  EncodeTags = {t1, NoTag}
  Streams <- MCStreams
  d1 = d1
  d2 = d2
  MaxIds = 16
  MaxRequests = 2
  NoTag = NoTag
  NoId = NoId
INVARIANTS TypeOK  FilesComplete 
PROPERTIES TagReturns
CHECK_DEADLOCK FALSE
