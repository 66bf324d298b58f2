SPECIFICATION SstMailboxSpec
CONSTANTS
    Levels = {0, 3}
    MbRetries = 2
    MaxDisturbances = 1
PROPERTIES
    BfIsCurrent
