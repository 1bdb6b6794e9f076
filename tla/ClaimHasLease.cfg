\* A retried claim without a lease (ADR-2 of CONTEXT.md).
CONSTANTS
    i1 = i1
    i2 = i2
    w1 = w1
    w2 = w2
    w3 = w3
    NULL = NULL
    Instance = {i1, i2}
    Worker = {w1, w2, w3}
    File = {f1}
    InstanceOf <- MCInstanceOf
    ArchiveModes = {"delete", "move"}
    MaxRetries = 2
    FoundRows = TRUE
    LoadsCap = 2
SPECIFICATION Spec
INVARIANTS ClaimHasLease
