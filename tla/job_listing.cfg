CONSTANTS
    c1 = c1  c2 = c2  a1 = a1  b1 = b1  b2 = b2
    None = None
    NoWalk = NoWalk
    Clients = {c1, c2}
    Addresses = {a1}
    AddressOf <- MCAddressOf
    Buckets = {b1, b2}
    ApiBurst = 1
    Jobs = {1, 2, 3}
    Walkers = {c1}
    Limits = {2, 3}
    MaxLimit = 2
    DefaultLimit = 1
SPECIFICATION Spec
INVARIANTS
    ClientRateBounded
    WalkMissesNothing
PROPERTY
    PageAsTotalSays
