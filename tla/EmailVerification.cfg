SPECIFICATION Spec
CONSTANTS
    Address = {a, b}
    Allowed = {a, b}
    Request = {r1, r2}
    None = None
    DefaultEnabled = FALSE
    MaxLinks = 3
SYMMETRY Symmetry
INVARIANTS LinksWorkOnce VerifiedIsProven MailWaitsForProof
