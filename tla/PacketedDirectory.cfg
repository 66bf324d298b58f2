SPECIFICATION HostSpec
CONSTANTS
    Byte = {0, 1}
    StorageSize = 1
    Times = {0, 1}
    DirVers = {0, 1}
    MaxDirEntries = 2
    VersionModulus = 4
    DataIds = {"smbios", "acpi", "other"}
    SmbiosTableId = "smbios"
    DirVersions = {1, 2}
    Garbage <- MCGarbage
    Sizes = {0, 1}
    DataVers = {0, 5}
    Packets <- MCPackets
PROPERTIES
    DirectoryQueryable
