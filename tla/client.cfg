\* One client with every fault of the socket and of the data base, a shutdown,
\* timeouts of whole seconds, of a fraction of one and none.
SPECIFICATION FairSpec
CONSTANTS
  Timeouts = {"none", "seconds", "fraction"}
  DbFaults = {"put", "get", "truncate"}
  MaxPackets = 3
  WriteFaults = TRUE
  Shutdown = TRUE
INVARIANTS
  QueueExclusion
  QueueCount
PROPERTIES
  StreamKept
  QueuedIsTaken
  KilledIsJoined
  ExitIsReaped
