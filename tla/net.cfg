\* Two addresses, with and without a limit of one client, with and without
\* clients of the older protocol, and every failure.
SPECIFICATION FairSpec
CONSTANTS
  a = a
  b = b
  NoIp = NoIp
  Ip = {a, b}
  Settings <- MCSettings
  MaxEntries = 3
  Faults = {"accept", "denied", "add", "ident", "read", "queue", "thread", "close"}
INVARIANTS
  TablesParallel
  ResourcesAccounted
  ClientLimit
  OneConnectionPerIp
PROPERTIES
  FinishedIsRemoved
  SilentIsServed
