SPECIFICATION Spec
CONSTANTS
    t1 = t1
    t2 = t2
    c1 = c1
    r1 = r1
    s1 = s1
    e1 = e1
    o2 = o2
    Item <- Items
    KindOf <- MCKindOf
    OwnerOf <- MCOwnerOf
    TableOf <- MCTableOf
    Interval = {s1}
    Anonymous = {}
    Requests <- MCRequests
    Faulty = {"chain", "flowtable"}
    GenMod = 8
    MaxGen = 3
INVARIANTS IInv ReuseIsSound
PROPERTIES ServedSnapshot ImplementsContract UpdateReturns
