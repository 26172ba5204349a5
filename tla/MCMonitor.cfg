SPECIFICATION Spec
CONSTANTS
    MaxKey = 2
    Named = {"s", "p"}
    Ranged = {"s"}
    Anonymous = {"a0"}
    Objects = {"o"}
    Given <- MCGiven
    MaxCommits = 4
    MaxLag = 0
    MaxSpoilt = 1
INVARIANTS RulesShowTheirSets RangesExact CopyFollows
CHECK_DEADLOCK FALSE
