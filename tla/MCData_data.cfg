\* Two messages of two-byte pieces; two threads on one chunk of buffers.
CONSTANTS
    Messages = 2
    Datas <- MCDatas
    BufferSizes = {2}
    Small = 2
    Std = 2
    Reserve = 1
    BlockSize = 2
    MaxParts = 4
    MaxBytes = 3
    BufThreads = {b1, b2}
    MaxChunks = 1
    TwoPower = 4
    TotBuffers = 3
    MaxUsed = 1
SPECIFICATION DataSpec
INVARIANTS
    DataInv
    NoBufferStranded
PROPERTIES
    MessagesAreStrings
CHECK_DEADLOCK FALSE
