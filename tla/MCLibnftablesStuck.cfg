SPECIFICATION Spec
CONSTANTS
    t = t
    c = c
    k = k
    s = s
    e = e
    nothing = nothing
    Item <- Items
    KindOf <- MCKindOf
    OwnerOf <- MCOwnerOf
    TableOf <- MCTableOf
    Interval = {s}
    Anonymous = {}
    Nothing = nothing
    Inputs <- Changing
    MaxBatch = 2
    MaxErrors = 2
    Dry = {}
    Optimize = {TRUE}
    MaxGen = 2
PROPERTIES SuccessCommits
CHECK_DEADLOCK FALSE
