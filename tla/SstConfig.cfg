SPECIFICATION FairSstConfigSpec
CONSTANTS
    Cpus <- MCCpus
    WordBits = 2
    WordBuckets = 2
    LevelModulus = 4
    mhzPerRatio = 100
    MaxDisturbances = 3
INVARIANTS
    LevelsListed
    AppliedIsListed
    CoresExact
    TurboExact
PROPERTIES
    ConfigWalkEnds
