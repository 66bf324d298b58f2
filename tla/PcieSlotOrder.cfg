SPECIFICATION Spec
CONSTANTS
    mdrSMBIOSSize = 8
    limitEntryLen = 2
    MemoryInfoSize = 6
    StartTables = {}
    Tables <- MixedSlots
    Anchors = {1}
    ChassisAnchors = {}
    Modules = {}
    Versions <- MCVersions
    InventoryPath = 0
    MaxTables = 1
    MaxSignals = 1
    MayFail = {}
INVARIANT EachSlotOnce
