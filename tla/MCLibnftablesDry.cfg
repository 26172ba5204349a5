SPECIFICATION Spec
CONSTANTS
    t = t
    c = c
    k = k
    s = s
    e = e
    nothing = nothing
    Item <- Items
    KindOf <- MCKindOf
    OwnerOf <- MCOwnerOf
    TableOf <- MCTableOf
    Interval = {s}
    Anonymous = {}
    Nothing = nothing
    Inputs <- Samples
    MaxBatch = 2
    MaxErrors = 2
    Dry = {TRUE, FALSE}
    Optimize = {TRUE, FALSE}
    MaxGen = 2
PROPERTIES CommitsOnlyWhenAsked
CHECK_DEADLOCK FALSE
