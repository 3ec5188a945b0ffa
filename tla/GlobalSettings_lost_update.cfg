SPECIFICATION Spec
CONSTANTS
    Admin = {a1, a2}
    Loop = {worker}
    Api = api
    Key <- MCKey
    Batch <- MCBatch
    Value = {1, 2, 3}
    Allowed <- MCAllowed
    RefreshKey = "ttl"
    Default <- MCDefault
    ValidPolicy <- MCValidPolicy
    MaxSaves = 2
INVARIANTS NoLostUpdate
