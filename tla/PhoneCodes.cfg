SPECIFICATION Spec
CONSTANTS
    u1 = u1  u2 = u2  p1 = p1  p2 = p2
    User = {u1, u2}
    Phone = {p1, p2}
    OwnPhone <- MCOwnPhone
    Addressee = {u1}
    Slot = {t1, t2}
    MaxCodes = 3
SYMMETRY SlotSymmetry
INVARIANTS TypeOK LatestTextCounts ConfirmedWasProved TextsAreFew OwnCodeIsAccepted
