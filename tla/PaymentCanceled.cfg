SPECIFICATION Spec
CONSTANTS
    Receipt = {}
    Payment = {p1}
    Slot = {t1}
    Price = {1}
    StaffStatus = {}
    FormStatus = {}
    ManyClerks = FALSE
SYMMETRY Symmetry
PROPERTY SuccessIsNotCanceled
