SPECIFICATION SstSpec
CONSTANTS
    NumCpus = 2
    Capable = {0, 1}
    MaxErrors = 3
    MaxDepth = 2
    MaxFaults = 4
    Faults = {"error"}
PROPERTIES
    GivenUpIfUnsupported
