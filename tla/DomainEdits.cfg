CONSTANTS
    o1 = o1
    o2 = o2
    a1 = a1
    n1 = n1
    NoNote = NoNote
    Owners = {o1, o2}
    Admins = {a1}
    Notes = {n1}
    MaxVersion = 4
SPECIFICATION Spec
PROPERTIES EditsBuildOnTheirPage RefreshFollowsSwitch
CHECK_DEADLOCK FALSE
SYMMETRY Tabs
CONSTRAINT Promised
