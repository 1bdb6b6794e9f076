\* Three users, two roles, two requests at one time.  When every user is disabled and
\* every token has expired, nothing more can happen.
CONSTANTS
    u1 = u1
    u2 = u2
    u3 = u3
    r1 = r1
    r2 = r2
    NONE = NONE
    User = {u1, u2, u3}
    Password = {p1, p2}
    Role = {"admin", "viewer"}
    Request = {r1, r2}
SPECIFICATION Spec
SYMMETRY AccountSymmetry
INVARIANTS
    TypeOK
    AdminRemains
    VerifiedIsCurrent
CHECK_DEADLOCK FALSE
