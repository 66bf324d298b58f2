SPECIFICATION FairHostStateSpec
CONSTANTS
    HostAtStart = {"done"}
    MaxInbox = 1
PROPERTIES
    DoneIsNoticed
