CONSTANTS
  NumBlocks = 1
  NumSms = 2
  WordBits = 32
  SramAddrs <- DmaAddrs
  NumChannels = 2
  FifoDepth = 2
  Others <- DmaOthers
  DmaHost <- HostOfDma
SPECIFICATION DmaSpec
INVARIANTS DmaTypeOK
PROPERTIES ChainsAreLookups ChainsDeliver
