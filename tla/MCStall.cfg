CONSTANTS
  NumBlocks = 1
  NumSms = 1
  NumGpios = 48
  WordBits = 32
  NumInstrs = 32
  UbInstrs = {}
  Setups <- StallSetups
  Host <- StallHost
SPECIFICATION Spec
INVARIANTS StallJustified FifoBounded
PROPERTIES StallFreezes
