\* Two workers, two months, two files with a common row; the first table has a unique key.
CONSTANTS
    f1 = f1
    f2 = f2
    x = x
    y = y
    z = z
    k1 = k1
    k2 = k2
    NONE = NONE
    Worker = {k1, k2}
    File = {f1, f2}
    Row = {x, y, z}
    Content <- MCContent
    MonthOf <- MCMonthOf
    LastMonth = 2
    Keyed = {1}
    MaxCopies = 2
SPECIFICATION Spec
SYMMETRY WorkerSymmetry
INVARIANTS
    TypeOK
    NoRowTwice
    LoadedIsRegistered
PROPERTIES
    ImplementsLoading
