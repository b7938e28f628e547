SPECIFICATION Spec
CONSTANTS
    Receipt = {r1}
    Payment = {}
    Slot = {t1}
    Price = {1, 2}
    StaffStatus = {}
    FormStatus = {}
    ManyClerks = FALSE
SYMMETRY Symmetry
PROPERTY PaidIsCovered
