SPECIFICATION FairSpec
CONSTANTS
    Client = {c1, c2, c3}
    NoPeer = NoPeer
    MaxTexts = 1
    c1 = c1
    c2 = c2
    c3 = c3
PROPERTIES
    KeysMeet
    QueuesDrain
CHECK_DEADLOCK FALSE
