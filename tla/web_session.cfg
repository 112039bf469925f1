SPECIFICATION Spec
CONSTANTS
    User = {u1, u2}
    Password = {p1, p2}
    Browser = {b1, b2}
    Sender = {s1, s2}
    NoUser = NoUser
    NoPassword = NoPassword
    MaxConnections = 2
    u1 = u1
    u2 = u2
    p1 = p1
    p2 = p2
    b1 = b1
    b2 = b2
    s1 = s1
    s2 = s2
SYMMETRY Symmetry
INVARIANTS
    AccountsHold
    EntriesFollowHandlers
