SPECIFICATION Spec
CONSTANTS
  imgA = imgA
  imgX = imgX
  idX = idX
  Images = {imgA}
  Total <- MCTotal
  HeaderId <- MCHeaderId
  START_UP_FLAG = PHY6
  FF = FF
  Garbage = Garbage
  Other = Other
  IdxMod = 8
  CmdBase = 6
  FlashBlocks = 8
  FlashMax = 5
  BlocksPerSector = 2
  AddrMod = 18
  AppAddr = 8
  Offsets <- MCSlots
  HostTotals = {0}
  EraseAddrs = {}
INVARIANTS
  NoWritePastEnd
