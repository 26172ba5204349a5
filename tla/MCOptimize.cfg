SPECIFICATION Spec
CONSTANTS
  MAX_STMTS = 7
  Chains <- MCChains
  OddChains <- MCOddChains
  Packets <- MCPackets
INVARIANTS FateKept 
CHECK_DEADLOCK FALSE
