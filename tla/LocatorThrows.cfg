SPECIFICATION FieldsSpec
CONSTANTS
    Tables <- MCTables
    MaxTables = 1
    baseNewVersionDimmSize = 8
    dimmSizeUnit = 4
    Word = 64
    mdrSMBIOSSize = 6
    onlyDimmLocationCode = FALSE
INVARIANT LocatorSurvived
