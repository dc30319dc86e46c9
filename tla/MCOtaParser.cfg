SPECIFICATION Spec
CONSTANTS
  imgA = imgA
  imgX = imgX
  idX = idX
  Images = {imgA, imgX}
  Total <- MCTotal
  HeaderId <- MCHeaderId
  START_UP_FLAG = PHY6
  FF = FF
  Garbage = Garbage
  Other = Other
  IdxMod = 8
  CmdBase = 6
  FlashBlocks = 5
  FlashMax = 6
  BlocksPerSector = 2
  AddrMod = 18
  AppAddr = 8
  Offsets <- MCOffsets
  HostTotals = {1, 2}
  EraseAddrs = {}
INVARIANTS
  BootableImpliesIntact
  RefusedOffsetUnused
  EndMeansStored
  ProgramOnlyErased
PROPERTIES
  ErrorStopsWriting
