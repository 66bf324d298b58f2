SPECIFICATION TransferSpec
CONSTANTS
    Byte <- MCByte
    StorageSize = 2
    Times = {0}
    DirVers = {0, 1}
    Sessions = {s1}
    NoSession = NoSession
    Chunks <- MCChunks
    MaxDirEntries = 1
    VersionModulus = 2
    DataIds = {"smbios"}
    SmbiosTableId = "smbios"
    DirVersions = {1}
    Garbage <- MCGarbage
    Sizes = {0}
    DataVers = {}
    Packets = {}
    Supported <- MCSupported
    Broken <- MCBroken
    HostFiles = {}
PROPERTIES
    OnlyBrokenDeleted
