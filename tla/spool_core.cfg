SPECIFICATION FairSpec
CONSTANTS
  a = a
  b = b
  A1 = A1
  A2 = A2
  B1 = B1
  NoFile = NoFile
  Empty = Empty
  Name <- MCName
  Product <- MCProduct
  NameOf <- MCNameOf
  NumBlocks <- MCNumBlocks
  MaxBlocks = 3
  FirstKey = 0
  LastKey = 4
  Faults = {"cat"}
  MaxPackets = 4
  MaxCrashes = 0
  Headerless = {}
INVARIANTS
  PublishedInOrder
  PublishedWhole
  FilteredOnce
PROPERTIES
  ScriptSparesOpenProducts
  ReleasedIsDrained
  TakenIsPublished
