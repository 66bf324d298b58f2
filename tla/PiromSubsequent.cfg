SPECIFICATION CpuInfoSpec
CONSTANTS
    Cpus = {1}
    Specs <- MCSpecs
    Absent = Absent
    FromTable = FromTable
    MaxMoves = 2
    Bytes <- MCBytes
    Contents <- MCContents
    Unprintable = "np"
    LetterS = "S"
    Addresses = {"a", "b"}
    NoReply = NoReply
    NoCpu = NoCpu
    NoSpec = NoSpec
    MaxFailedReads = 1
    MaxChanges = 2
PROPERTIES
    SubsequentReads
