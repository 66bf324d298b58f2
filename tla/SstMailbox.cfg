SPECIFICATION FairSstMailboxSpec
CONSTANTS
    Levels = {0, 3}
    MbRetries = 2
    MaxDisturbances = 1
INVARIANTS
    AnswerIsOurs
    WakeNotLeaked
PROPERTIES
    LevelWasCurrent
    OperationEnds
    BfLevelExplained
