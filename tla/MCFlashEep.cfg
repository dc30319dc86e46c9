SPECIFICATION Spec
CONSTANTS
  app = app
  app2 = app2
  short = short
  name1 = name1
  name2 = name2
  key1 = key1
  key2 = key2
  VER <- MCVer
  Ids <- WithName
  Values <- FixedValues
  Size <- MCSize
  FF = FF
  Garbage = Garbage
  Missing = Missing
  NumBanks = 3
  BankWords = 9
  MaxSize = 2
  Top = 3
  CrashInFormat = FALSE
  MaxCrashes = 1
INVARIANTS
  TypeOK
  CopyNotCurrent
  PackIntoErased
PROPERTIES
  ImplementsStore
  ComesUp
