SPECIFICATION Spec
CONSTANTS
    t = t
    c = c
    k = k
    s = s
    e = e
    nothing = nothing
    Item <- Items
    KindOf <- MCKindOf
    OwnerOf <- MCOwnerOf
    TableOf <- MCTableOf
    Interval = {s}
    Anonymous = {}
    Nothing = nothing
    Inputs <- Batches
    MaxBatch = 2
    MaxErrors = 2
    Dry = {}
    Optimize = {}
    MaxGen = 2
INVARIANT CacheTruth
PROPERTIES EvaluationStartsTrue RefusalJustified
CHECK_DEADLOCK FALSE
