SPECIFICATION FairSpec
CONSTANTS
  p1 = p1
  p2 = p2
  Procs <- MCProcs
  None = None
  Empty = Empty
INVARIANTS
  LifecycleInv
  OneDaemon
  PidFileNamesDaemon
PROPERTIES
  TerminatedEnds
  HelpersEnd
CHECK_DEADLOCK FALSE
