SPECIFICATION Spec
CONSTANTS
    Msgs = {m1, m2}
    Slots = {s1, s2}
    Turns = {w1, w2}
    People = {p1}
    Wanted = {"OPEN"}
    MaxOffer = 1
    MaxCopies = 2
    None = None
CONSTRAINT Bound
SYMMETRY Symmetry
INVARIANTS
    HandledOnce
    BookingsKnown
PROPERTIES
    PeopleKeep
