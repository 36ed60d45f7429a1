\* Two clients: the accept loop waits for a slot when both are served, and their
\* streams for the one processor thread.
CONSTANTS
  Clients = {c1, c2}
  MaxInstances = 2
  Threads = 1
  MaxCommands = 2
  MaxBlobs = 2
  NoClient = NoClient
SPECIFICATION FairSpec
INVARIANTS TypeOK JobsHaveTheirStreamer SlotsAccounted ProcessorAccounted
PROPERTIES StreamEnds ClosedSessionEnds
CHECK_DEADLOCK FALSE
