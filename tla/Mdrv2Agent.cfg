SPECIFICATION FairSpec
CONSTANTS
    Byte <- MCByte
    StorageSize = 2
    Times = {0}
    DirVers = {0, 1}
    MaxDirEntries = 1
    VersionModulus = 2
    DataIds = {"smbios", "other"}
    SmbiosTableId = "smbios"
    DirVersions = {1, 2}
    Garbage <- MCGarbage
    Supported <- MCSupported
    Broken <- MCBroken
    Sizes = {0}
    DataVers = {0}
    Packets <- MCPackets
    HostFiles <- MCHostFiles
INVARIANTS
    NoLostPublication
    TableHasValidEntry
PROPERTIES
    EventuallyPublished
