SPECIFICATION CpuInfoSpec
CONSTANTS
    Cpus = {1, 2}
    Specs <- MCSpecs
    Absent = Absent
    FromTable = FromTable
    MaxMoves = 0
    Bytes <- MCBytes
    Contents <- MCContents
    Unprintable = "np"
    LetterS = "S"
    Addresses = {"a", "b"}
    NoReply = NoReply
    NoCpu = NoCpu
    NoSpec = NoSpec
    MaxFailedReads = 2
    MaxChanges = 0
PROPERTIES
    GivesUpOnOwnFailures
