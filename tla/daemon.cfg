\* Lists of up to two servers, or one that cannot be read; two signals.
SPECIFICATION FairSpec
CONSTANTS
  MaxServers = 2
  MinConsecutive = 2
  MaxBad = 2
  Signals = {"hup", "term", "abort"}
  MaxSignals = 2
  MaxUnsaved = 1
  Files <- AnyFile
  Failures = {"spawn", "init"}
INVARIANT OneSourceOpen
PROPERTY SleepsWhenAllRefused
PROPERTY ShutdownCompletes
PROPERTY PoorServerIsLeft
PROPERTY QRunnerRunsAgain
PROPERTY ReloadIsServed
CHECK_DEADLOCK FALSE
