SPECIFICATION Spec
CONSTANTS
    Receipt = {r1, r2}
    Payment = {p1}
    Slot = {t1}
    Price = {1, 2}
    StaffStatus = {"Sending", "Canceled"}
    FormStatus = {}
    ManyClerks = FALSE
SYMMETRY Symmetry
INVARIANTS TypeOK SuccessWasVerified TrailTellsStatus
