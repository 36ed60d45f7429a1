\* Violated: a failed recv passes for success and the session never ends.
CONSTANTS
  Clients = {c1}
  MaxInstances = 1
  Threads = 1
  MaxCommands = 1
  MaxBlobs = 1
  NoClient = NoClient
SPECIFICATION FairSpec
PROPERTY LostSessionEnds
CHECK_DEADLOCK FALSE
