SPECIFICATION Spec
CONSTANTS
    Receipt = {r1, r2, r3}
    Payment = {}
    Slot = {t1, t2}
    Price = {1, 2}
    StaffStatus = {}
    FormStatus = {"Processing"}
    ManyClerks = FALSE
SYMMETRY Symmetry
INVARIANT DeletedWasUnjudged
PROPERTY AcceptanceIsCovered
