\* One instance with two workers, no crash, no database error.
CONSTANTS
    i1 = i1
    i2 = i2
    w1 = w1
    w2 = w2
    w3 = w3
    NULL = NULL
    Instance = {i1}
    Worker = {w1, w2}
    File = {f1}
    InstanceOf <- MCOneInstance
    ArchiveModes = {"delete", "move"}
    MaxRetries = 2
    FoundRows = TRUE
    LoadsCap = 2
SPECIFICATION ReliableSpec
PROPERTIES ClaimsResolve
