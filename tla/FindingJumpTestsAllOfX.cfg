CONSTANTS
  NumBlocks = 2
  NumSms = 3
  NumGpios = 48
  WordBits = 32
  NumInstrs = 5
  UbInstrs = {}
  Setups <- FindingsSetups
  Host <- FindingsHost
SPECIFICATION Spec
PROPERTIES JumpTestsAllOfX
