\* One task, two submitters, two workers, a queue of two.
CONSTANTS
    t1 = t1
    NoTask = NoTask
    Task = {t1}
    Submitter = {s1, s2}
    Worker = {w1, w2}
    Priority <- MCPriority
    FailureThreshold = 2
    QueueMax = 2
    CountsCap = 4
SPECIFICATION FairSpec
INVARIANTS TypeOK BacklogCovers
PROPERTIES ProbeIsAlone BreakerRecovers
