SPECIFICATION Spec
CONSTANTS
  ByteBits = 2
  WordBytes = 2
  AddrLen = 4
  ObjNameLen = 8
  Singles = {"comparisons", "flags", "bits", "operations", "nats", "natmaps", "writes", "others", "hours", "bounds"}
  Pairs = {"pairs"}
  Keys <- MCKeys
  Types <- MCTypes
  Rules <- MCRules
  Misfits <- MCMisfits
  Packets <- MCPackets
INVARIANTS EvaluatedAsWritten RegistersReleased CodeMeansRule ListingMeansCode
CHECK_DEADLOCK FALSE
