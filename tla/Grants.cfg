\* Issue and revoke while versions are published, over either store.
SPECIFICATION Spec
CONSTANTS
    a = a
    b = b
    Fps = {a, b}
    Bodies <- ReadGrants
    Memberships <- Changing
    Never = Never
    Requests = {r1, r2, r3, r4}
    MaxVersion = 1
    MaxSecond = 1
SYMMETRY Symmetry
INVARIANTS IssuedByDelegate GoneByIssuer RevokedStaysRevoked
CHECK_DEADLOCK FALSE
