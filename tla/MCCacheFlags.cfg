SPECIFICATION Spec
CONSTANTS
    t1 = t1
    t2 = t2
    c1 = c1
    d1 = d1
    c2 = c2
    r1 = r1
    q1 = q1
    s1 = s1
    e1 = e1
    o2 = o2
    f2 = f2
    nothing = nothing
    Item <- Items
    KindOf <- MCKindOf
    OwnerOf <- MCOwnerOf
    TableOf <- MCTableOf
    Interval = {s1}
    Anonymous = {}
    Nothing = nothing
    Command <- MCCommand
    MaxBatch = 3
INVARIANTS IInv RequestIsSound LookupsLoaded ListingsLoaded
CHECK_DEADLOCK FALSE
