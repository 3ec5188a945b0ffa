SPECIFICATION Spec
CONSTANTS
    Address = {a, b}
    Allowed = {a}
    Request = {r1, r2}
    None = None
    DefaultEnabled = TRUE
    MaxLinks = 3
INVARIANTS RegistrationIsProven
