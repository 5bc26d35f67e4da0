CONSTANTS
  NumBlocks = 3
  NumSms = 2
  NumGpios = 48
  WordBits = 32
  NumInstrs = 8
  UbInstrs = {}
  Setups <- IrqSetups
  Host <- IrqHost
SPECIFICATION FairSpec
INVARIANTS OneToken
PROPERTIES HandedOver TokenCirculates ItemsFlow PulsesHeard
