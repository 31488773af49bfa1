SPECIFICATION Spec
CONSTANTS
  a = a
  b = b
  A1 = A1
  A2 = A2
  B1 = B1
  NoFile = NoFile
  Empty = Empty
  Name <- MCName
  Product <- SmallProduct
  NameOf <- SmallNameOf
  NumBlocks <- SmallNumBlocks
  MaxBlocks = 2
  FirstKey = 0
  LastKey = 1
  Faults = {"write", "qinfo", "purge", "cat", "kill"}
  MaxPackets = 3
  MaxCrashes = 1
  Headerless = {B1}
INVARIANTS
  TypeOK
  PartialBlockStaysInTmp
  IInv
