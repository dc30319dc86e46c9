SPECIFICATION SysSpec
CONSTANTS
  imgA = imgA
  imgB = imgB
  Images = {imgA, imgB}
  Total <- MCTotal
  HeaderId <- MCHeaderId
  START_UP_FLAG = PHY6
  FF = FF
  Garbage = Garbage
  Other = Other
  IdxMod = 8
  CmdBase = 6
  FlashBlocks = 4
  FlashMax = 8
  BlocksPerSector = 2
  AddrMod = 18
  AppAddr = 8
  Offsets = {}
  HostTotals = {}
  EraseAddrs = {}
  CheckEvery = 2
  MaxFaults = 3
INVARIANTS
  DoneMeansInstalled
  IndicesAgree
PROPERTIES
  AttemptEnds
  UpdateCompletes
