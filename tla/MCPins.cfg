CONSTANTS
  NumBlocks = 2
  NumSms = 2
  NumGpios = 48
  WordBits = 32
  NumInstrs = 3
  UbInstrs = {}
  Setups <- PinsSetups
  Host <- PinsHost
SPECIFICATION Spec
INVARIANTS HighestWins RepeaterFollows GpioTypeOK OneController OneOverride ForcedHighReadsHigh
PROPERTIES OwnerWrites ForcedLowHolds
