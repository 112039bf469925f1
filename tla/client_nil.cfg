SPECIFICATION Spec
CONSTANTS
    Client = {c1, c2}
    NoPeer = NoPeer
    MaxTexts = 1
    c1 = c1
    c2 = c2
INVARIANTS
    NoNilContext
CHECK_DEADLOCK FALSE
