SPECIFICATION Spec
CONSTANTS
    Byte <- MCByte
    StorageSize = 2
    Times = {0}
    DirVers = {0, 1}
    MaxDirEntries = 1
    VersionModulus = 2
    DataIds = {"smbios", "other"}
    SmbiosTableId = "smbios"
    DirVersions = {1}
    Garbage <- MCZeroPage
    Supported <- MCSupported
    Broken <- MCBroken
    Sizes = {}
    DataVers = {0}
    Packets = {}
    HostFiles <- MCHostFiles
INVARIANTS
    RefusedNotPublished
