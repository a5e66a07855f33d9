SPECIFICATION Spec
CONSTANTS
    Clients = {c1, c2, c3}
    s1 = s1
    sealed = sealed
    cache = cache
    Sectors = {s1}
    FileTypes = {sealed, cache}
    Requests <- MCRequests
    Objects = {o1, o2, o3}
    None = None
    MaxRefs = 4
SYMMETRY Symmetry
INVARIANTS
    TypeOK
    OneObject
    NoLostWakeup
    Exclusion
PROPERTY ImplementsLocks
CHECK_DEADLOCK FALSE
