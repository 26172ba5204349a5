SPECIFICATION Spec
CONSTANTS
    MaxKey = 4
    Stored <- MCStored
    Given <- MCGiven
    MaxCommands = 2
PROPERTIES AddsExactly DeletesExactly KernelAgrees OverlapsAreErrors
