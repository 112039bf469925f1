SPECIFICATION Spec
CONSTANTS
    User = {u1, u2, u3}
    Chat = {r1}
    Handler = {h1, h2}
    NoUser = NoUser
    NoChat = NoChat
    MaxRequests = 3
    u1 = u1
    u2 = u2
    u3 = u3
    r1 = r1
    h1 = h1
    h2 = h2
SYMMETRY Symmetry
INVARIANTS
    TypeOK
    MembersAreParticipants
    PublicHasPrivate
    ToldMeansSeated
    SecretsAgree
PROPERTIES
    KeysAreFinal
CHECK_DEADLOCK FALSE
