SPECIFICATION Spec
CONSTANTS
  app = app
  app2 = app2
  short = short
  name1 = name1
  name2 = name2
  key1 = key1
  key2 = key2
  VER <- MCVer
  Ids <- WithNameKey
  Values <- FixedValues
  Size <- MCSize
  FF = FF
  Garbage = Garbage
  Missing = Missing
  NumBanks = 2
  BankWords = 10
  MaxSize = 2
  Top = 7
  CrashInFormat = FALSE
  MaxCrashes = 0
PROPERTIES
  OnlySavedChanges
