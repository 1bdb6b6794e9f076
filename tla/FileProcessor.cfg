\* Safety of the claim protocol: two instances, three workers, crashes,
\* restarts, expiring leases, database errors, operator retries.
CONSTANTS
    i1 = i1
    i2 = i2
    w1 = w1
    w2 = w2
    w3 = w3
    NULL = NULL
    Instance = {i1, i2}
    Worker = {w1, w2, w3}
    File = {f1}
    InstanceOf <- MCInstanceOf
    ArchiveModes = {"delete", "move"}
    MaxRetries = 2
    FoundRows = TRUE
    LoadsCap = 2
SPECIFICATION Spec
SYMMETRY ThreadSymmetry
INVARIANTS
    TypeOK
    ExclusiveProcessing
    RetryBound
    NoFileLost
    ExhaustedIsOurs
    SecondLoadNeedsTakeover
    FirstAttemptHasLease
    VerdictContract
PROPERTIES
    SuccessIsFinal
    ImplementsLifecycle
