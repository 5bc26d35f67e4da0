CONSTANTS
  NumBlocks = 1
  NumSms = 4
  NumGpios = 48
  WordBits = 32
  NumInstrs = 9
  UbInstrs = {}
  Setups = {}
  Host <- RomHost
  Apio <- RomApio
  MaxPreInstrs = 32
  SramAddrs <- RomAddrs
  NumChannels = 2
  DmaHost <- RomDmaHost
  Waits <- ExactWait
  MaxBurst = 2
  Settle = 13
SPECIFICATION RomSpec
PROPERTIES GivesUpOnNothing
