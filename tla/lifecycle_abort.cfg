SPECIFICATION FairSpec
CONSTANTS
  p1 = p1
  p2 = p2
  Procs <- MCProcs
  None = None
  Empty = Empty
PROPERTY
  SignalEnds
CHECK_DEADLOCK FALSE
