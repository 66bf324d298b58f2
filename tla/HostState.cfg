SPECIFICATION FairHostStateSpec
CONSTANTS
    HostAtStart = {"off", "post"}
    MaxInbox = 2
PROPERTIES
    NoJumpBack
    HostStateConverges
