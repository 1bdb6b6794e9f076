SPECIFICATION ScanFairSpec
CONSTANTS
    MaxTime = 3
    PollModes = {"off", "incremental", "full"}
INVARIANTS ScanTypeOK ScannedIsOffered
PROPERTIES FullPollingFindsAll
