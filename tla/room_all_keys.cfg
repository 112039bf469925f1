SPECIFICATION Spec
CONSTANTS
    Room = {r1}
    Client = {c1, c2}
    Key = {k1}
    Handler = {h1}
    OneCallEach = TRUE
    r1 = r1
    c1 = c1
    c2 = c2
    k1 = k1
    h1 = h1
    NoKey = NoKey
    Absent = Absent
    NoRoom = NoRoom
    NoClient = NoClient
    Free = Free
PROPERTIES
    AllKeysReported
