CONSTANTS
  NumBlocks = 1
  NumSms = 2
  NumGpios = 48
  WordBits = 32
  NumInstrs = 6
  UbInstrs = {}
  Setups <- EchoSetups
  Host <- EchoHost
  Me <- Echo
  Words <- EchoWords
SPECIFICATION FairSpec
INVARIANTS InProgram
PROPERTIES EchoIsChannel EchoFlows
