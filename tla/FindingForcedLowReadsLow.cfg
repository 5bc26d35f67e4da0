CONSTANTS
  NumBlocks = 2
  NumSms = 1
  NumGpios = 2
SPECIFICATION PinsSpec
INVARIANT ForcedLowReadsLow
