SPECIFICATION Spec
CONSTANTS
    Client = {c1, c2, c3}
    NoPeer = NoPeer
    MaxTexts = 3
    c1 = c1
    c2 = c2
    c3 = c3
SYMMETRY Symmetry
INVARIANTS
    Inv
    TypeOK
    FlagMeansContext
    PairAgrees
    InOrder
    ReadyLosesNothing
CHECK_DEADLOCK FALSE
