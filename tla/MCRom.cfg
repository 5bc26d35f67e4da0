CONSTANTS
  NumBlocks = 1
  NumSms = 4
  NumGpios = 48
  WordBits = 32
  NumInstrs = 9
  UbInstrs = {}
  Setups = {}
  Host <- RomHost
  Apio <- RomApio
  MaxPreInstrs = 32
  SramAddrs <- RomAddrs
  NumChannels = 2
  DmaHost <- RomDmaHost
  Waits <- RomWaits
  MaxBurst = 2
  Settle = 13
SPECIFICATION RomSpec
INVARIANTS SystemTypeOK BootLeavesPins PreloadsInOrder ServesByte KeepsUp FirstByteInTime
PROPERTIES ChainsServe WaitsReturn
