SPECIFICATION FairSstSpec
CONSTANTS
    NumCpus = 3
    Capable = {0, 2}
    MaxErrors = 3
    MaxDepth = 3
    MaxFaults = 4
    Faults = {"error", "notReady", "badId"}
INVARIANTS
    NoLostRetry
    NothingPartial
    StaleIsReplaced
PROPERTIES
    DiscoveryEnds
