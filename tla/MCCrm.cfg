SPECIFICATION Spec
CONSTANTS
    Emails = {e1, e2}
    Phones = {p1}
    Txns = {t1, t2}
    Wanted = {"NEGOTIATION", "WON", "LOST"}
    MaxContacts = 2
    MaxOpps = 2
    MaxVersion = 3
    None = None
CONSTRAINT Bound
SYMMETRY Symmetry
CHECK_DEADLOCK FALSE
INVARIANTS
    ErasedStaysEmpty
    OneOpenLead
PROPERTIES
    ClosedByStaff
