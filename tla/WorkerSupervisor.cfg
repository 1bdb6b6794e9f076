\* Two worker slots, two restarts in the window.
CONSTANTS
    Worker = {w1, w2}
    RestartMax = 2
SPECIFICATION FairSpec
INVARIANTS TypeOK StoppedMeansQuiet
PROPERTIES DeadWorkerIsSeen StopEndsThreads
CHECK_DEADLOCK FALSE
