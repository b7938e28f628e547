SPECIFICATION RoundSpec
CONSTANTS
    u1 = u1  u2 = u2  v1 = v1  p1 = p1
    User = {u1}
    Variety = {v1}
    Product = {p1}
    ProductOf <- MCProductOf
    MaxInterruptions = 1
    Ticket = {k1}
    Slot = {t1}
    MaxClosingsCut = 1
INVARIANTS RoundTypeOK
PROPERTIES ServesAlerts ServesTickets
