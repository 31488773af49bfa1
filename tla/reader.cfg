\* All types of sources; packets of 13 bytes.
SPECIFICATION FairSpec
CONSTANTS
  PadSize = 2
  DataSize = 5
  MaxByte = 13
  Header <- MCHeader
  Sources <- MCSources
  Types = {"bb", "serial", "wx14_raw", "wx14_msg", "infeed"}
  MaxMessage = 11
  Retry = 1
  MaxFaults = 1
  MaxLost = 1
INVARIANTS
  SavedIsSent
  InSync
PROPERTY KeepsDelivering
