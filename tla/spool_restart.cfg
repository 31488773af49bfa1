SPECIFICATION Spec
CONSTANTS
  a = a
  b = b
  A1 = A1
  A2 = A2
  B1 = B1
  NoFile = NoFile
  Empty = Empty
  Name <- MCName
  Product <- MCProduct
  NameOf <- MCNameOf
  NumBlocks <- MCNumBlocks
  MaxBlocks = 3
  FirstKey = 0
  LastKey = 3
  Faults = {}
  MaxPackets = 4
  MaxCrashes = 1
  Headerless = {}
INVARIANT
  PublishedUnmixed
