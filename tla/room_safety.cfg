SPECIFICATION Spec
CONSTANTS
    Room = {r1}
    Client = {c1, c2, c3}
    Key = {k1}
    Handler = {h1, h2}
    OneCallEach = TRUE
    r1 = r1
    c1 = c1
    c2 = c2
    c3 = c3
    k1 = k1
    h1 = h1
    h2 = h2
    NoKey = NoKey
    Absent = Absent
    NoRoom = NoRoom
    NoClient = NoClient
    Free = Free
SYMMETRY Symmetry
INVARIANTS
    Inv
    TypeOK
    Capacity
    RedisTracksMembers
    KeyStoreAgreement
    ChannelLoss
    RecordOutlivesExchange
PROPERTIES
    ImplementsRoomSpec
