SPECIFICATION Spec
CONSTANTS
    User = {u1}
    ApiUser = {}
    Tab = {t1, t2}
    Line = {l1, l2}
    Valid = {l1}
    Bare = {l1, l2}
    PostType = {p1}
    NoPost = NoPost
    Stamp = {s1, s2}
    MaxOrders = 2
    Removable = {}
    Overlap = TRUE
SYMMETRY SlotSymmetry
INVARIANTS TypeOK PlacedComplete
