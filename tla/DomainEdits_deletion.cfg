CONSTANTS
    o1 = o1
    a1 = a1
    n1 = n1
    NoNote = NoNote
    Owners = {o1}
    Admins = {a1}
    Notes = {n1}
    MaxVersion = 4
SPECIFICATION Spec
PROPERTY VersionsOnlyGrow
CHECK_DEADLOCK FALSE
