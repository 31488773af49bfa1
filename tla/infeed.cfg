SPECIFICATION FairSpec
CONSTANTS
  i1 = i1
  i2 = i2
  None = None
  Inserts <- MCInserts
  Files <- MCFiles
  DataSize = 2
  MaxNumber = 2
  Units = 2
  PipeSize = 2
  MaxOpens = 2
INVARIANTS
  InsertsApart
  RefusedIsTorn
PROPERTIES
  DoneIsSaved
  InserterEnds
CHECK_DEADLOCK FALSE
