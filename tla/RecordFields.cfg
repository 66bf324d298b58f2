SPECIFICATION FairFieldsSpec
CONSTANTS
    Tables <- MCTables
    MaxTables = 1
    baseNewVersionDimmSize = 8
    dimmSizeUnit = 4
    Word = 64
    mdrSMBIOSSize = 6
    onlyDimmLocationCode = FALSE
INVARIANTS
    FieldsOfThisTable
    OlderRecordUnknown
    SizeExact
PROPERTIES
    HarmlessShown
CHECK_DEADLOCK FALSE
