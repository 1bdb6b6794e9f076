\* Two requests at one time on a file of at most two tasks.
CONSTANTS
    t1 = t1
    t2 = t2
    a1 = a1
    a2 = a2
    NONE = NONE
    Task = {t1, t2}
    Placeholder = t1
    Request = {a1, a2}
    EditBusy = 0
    Fields = {"enabled", "poll_interval"}
    GlobalFields = {}
    HandWritten <- MCHandWritten
    Forms <- MCForms
SPECIFICATION Spec
SYMMETRY RequestSymmetry
INVARIANTS
    TypeOK
    AcknowledgedChangesStay
    InstalledIsFile
    WatchersFollow
