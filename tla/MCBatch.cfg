SPECIFICATION Spec
CONSTANTS
    Inputs <- TestInputs
    Modes = {"plain", "echo", "json"}
    Room = 2
    Name <- TestNames
    Key <- TestKeys
    MaxErrors = 2
    MaxRuns = 2
    MaxFaults = 1
    Unset = 1000
INVARIANTS
    SentAsGiven
    ReferencesFirst
    ErrorsAtCulprit
    ResultTrue
    SocketDrained
    HandlesAtCommands
PROPERTY AllReported
CHECK_DEADLOCK FALSE
