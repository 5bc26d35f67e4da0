CONSTANTS
  NumBlocks = 1
  NumSms = 1
  NumGpios = 48
  WordBits = 32
  NumInstrs = 2
  UbInstrs = {}
  Setups <- ExecSetups
  Host <- ExecHost
SPECIFICATION Spec
INVARIANTS TypeOK ExecInPlace ExecAtOnce
PROPERTIES ExecStalls HostBesideProgram
