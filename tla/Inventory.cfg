SPECIFICATION MCSpec
CONSTANTS
    mdrSMBIOSSize = 8
    limitEntryLen = 2
    MemoryInfoSize = 6
    StartTables <- AllTables
    Tables <- MCTables
    Anchors = {1, 2}
    ChassisAnchors = {2}
    Modules <- MCModules
    Versions <- MCVersions
    InventoryPath = 0
    MaxTables = 2
    MaxSignals = 1
    MayFail = {"anchors", "modules", "instances", "versions"}
INVARIANTS
    InventoryMatchesTable
    PathsUnique
    RecordsMatchDimms
    OneChassis
