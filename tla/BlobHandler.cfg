SPECIFICATION MCSpec
CONSTANTS
    Byte <- MCByte
    StorageSize = 3
    Times = {0}
    DirVers = {0, 1}
    Sessions = {s1, s2}
    NoSession = NoSession
    Chunks <- MCChunks
    Files <- MCFiles
    MaxWrites = 3
INVARIANTS
    OneOutcome
    BufferIsReplay
