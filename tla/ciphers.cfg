SPECIFICATION Spec
CONSTANTS
    Base = 4
    N = 2
    XorByte <- MCXor
    Increment <- MCIncrement
    Enc <- MCEnc
    Dec <- MCDec
    IV <- MCIV
    Data <- MCData
    ChunkBlocks = 2
    BufferSize = 3
    Modulus = 4
    Xor <- MCXor
    Rol <- MCRol
    Ror <- MCRor
    F <- MCF
    Delta = 1
    P = 3
    Q = 1
    Rounds = 2
INVARIANTS
    BlockRoundTrip
    ModesRoundTrip
    ContextRoundTrip
    FileRoundTrip
CHECK_DEADLOCK FALSE
