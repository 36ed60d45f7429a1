SPECIFICATION Spec
CONSTANTS
  Clients = {c1, c2}
  Files = {f1}
  Tags = {t1}
  Chunks = {d1, d2}
  Incompressible = {d2}
  EncodeTags = {t1, NoTag}
  Streams <- MCStreams
  d1 = d1
  d2 = d2
  MaxIds = 6
  MaxRequests = 2
  NoTag = NoTag
  NoId = NoId
CHECK_DEADLOCK FALSE
INVARIANTS
  EveryBlobDecodes
