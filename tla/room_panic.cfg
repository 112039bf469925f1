SPECIFICATION Spec
CONSTANTS
    Room = {r1}
    Client = {c1}
    Key = {k1}
    Handler = {h1, h2}
    OneCallEach = FALSE
    r1 = r1
    c1 = c1
    k1 = k1
    h1 = h1
    h2 = h2
    NoKey = NoKey
    Absent = Absent
    NoRoom = NoRoom
    NoClient = NoClient
    Free = Free
INVARIANTS
    NoPanic
