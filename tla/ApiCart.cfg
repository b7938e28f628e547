SPECIFICATION Spec
CONSTANTS
    Item = {i1, i2}
    Slot = {t1, t2}
    MaxPieces = 2
    MaxOrders = 2
SYMMETRY Symmetry
INVARIANTS TypeOK NoPieceTwice NothingLost
PROPERTY OrderAddsUp
