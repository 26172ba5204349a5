SPECIFICATION Spec
CONSTANTS
    Families <- MCFamilies
    Rules <- MCRules
    Packets <- MCPackets
INVARIANTS
    CodeDoesAsSaid
    ListingIsTheRule
    AssertionsHold
CHECK_DEADLOCK FALSE
