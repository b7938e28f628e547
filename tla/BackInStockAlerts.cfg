SPECIFICATION FairSpec
CONSTANTS
    u1 = u1  u2 = u2  v1 = v1  v2 = v2  p1 = p1  p2 = p2
    User = {u1, u2}
    Variety = {v1}
    Product = {p1}
    ProductOf <- MCOneVariety
    MaxInterruptions = 2
INVARIANTS TypeOK DuplicatesOnlyFromInterruptions MarkedWasTried
PROPERTIES ImplementsLifecycle PendingIsServed
