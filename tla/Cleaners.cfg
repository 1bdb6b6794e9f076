\* Two templates, two requests at one time, one result.  stop_watching is final.
CONSTANTS
    a = a
    b = b
    r1 = r1
    r2 = r2
    NONE = NONE
    EMPTY = EMPTY
    MIXED = MIXED
    Name = {a, b}
    Source = {v1}
    Cleans = {v1}
    Found = {v1, NONE}
    Request = {r1, r2}
    Token = {k1}
    Ttl = 1
    LastTick = 2
    EventsMax = 2
SPECIFICATION Spec
SYMMETRY CleanerSymmetry
INVARIANTS
    TypeOK
    RegistryFollows
    KeptUntilRedeemed
