\* Share, fetch and revoke race, and the server restarts.
SPECIFICATION Spec
CONSTANTS
    Fps = {a, b}
    Files = {h}
    Keys = {k1, k2}
    Requests = {r1, r2, r3, r4}
    MaxRestarts = 1
SYMMETRY Symmetry
INVARIANTS ServedAsShared ShareKept RevokedUntilSharedAgain
CHECK_DEADLOCK FALSE
