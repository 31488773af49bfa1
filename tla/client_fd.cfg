\* A shutdown: conn_table_destroy closes the socket of a running thread.
SPECIFICATION Spec
CONSTANTS
  Timeouts = {"seconds"}
  DbFaults = {}
  MaxPackets = 2
  WriteFaults = FALSE
  Shutdown = TRUE
INVARIANT WritesToOpenFd
