SPECIFICATION FairSpec
CONSTANTS
    Ticket = {k1, k2}
    Slot = {t1, t2}
    MaxInterruptions = 1
INVARIANTS TypeOK StatusTellsAuthor
PROPERTIES ClosedWasIdle ClosedStaysClosed StaleIsClosed
