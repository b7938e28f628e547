SPECIFICATION Spec
CONSTANTS
    Item = {i1, i2, b1}
    Bare = {b1}
    Line = {l1, l2}
    Slot = {t1, t2}
    Price = {1}
    Count = {1, 2}
SYMMETRY Symmetry
INVARIANTS TypeOK OneLinePerItem
PROPERTIES AloneIsRight RemovedStaysRemoved
