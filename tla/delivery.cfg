SPECIFICATION FairSpec
CONSTANTS
    Client = {a, b}
    Name = {n1}
    NoName = NoName
    NoChunk = NoChunk
    Garbled = Garbled
    MaxChunks = 2
    MaxSends = 2
    PageLimit = 1
    Ciphers <- MCCiphers
    a = a
    b = b
    n1 = n1
INVARIANTS
    TypeOK
    SavedExactly
    NothingOverwritten
    PanicNeedsLoss
    HistoryTold
PROPERTIES
    FilesArrive
    BrokenStreamsEnd
CHECK_DEADLOCK FALSE
