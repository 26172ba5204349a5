SPECIFICATION Spec
CONSTANTS
    MaxRules = 2
    MaxCommands = 4
    MaxMoves = 1
INVARIANTS PlacedAsCounted StaysWithReference IdsResolve
CHECK_DEADLOCK FALSE
