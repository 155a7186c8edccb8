\* A publish that is checked against one version and stored on the next.
SPECIFICATION Spec
CONSTANTS
    a = a
    b = b
    Keyspaces = {k}
    Fps = {a, b}
    Hash = {h1, h2, h3}
    NoHash = NoHash
    Bodies <- HandOver
    Requests = {r1, r2, r3}
    MaxVersion = 2
SYMMETRY Symmetry
INVARIANTS PublisherSignsPrior
CHECK_DEADLOCK FALSE
