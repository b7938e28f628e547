SPECIFICATION Spec
CONSTANTS
    User = {u1, u2}
    ApiUser = {u1}
    Tab = {t1}
    Line = {l1, l2}
    Valid = {l1}
    Bare = {l1, l2}
    PostType = {p1}
    NoPost = NoPost
    Stamp = {s1}
    MaxOrders = 2
    Removable = {1, 2}
    Overlap = FALSE
SYMMETRY SlotSymmetry
INVARIANTS OneDraftEach PayableMatchesLines
PROPERTIES SyncConsolidates ImplementsOrderBook
