\* Puts interleave between reading the versions and writing.
SPECIFICATION MCSpec
CONSTANTS
    a = a
    b = b
    h0 = h0
    r0 = r0
    Keyspaces = {k}
    Fps = {a, b}
    Hash = {h0, h1, h2, h3}
    NoHash = NoHash
    Bodies <- HandOver
    Requests = {r0, r1, r2, r3}
    MaxVersion = 2
SYMMETRY Symmetry
INVARIANTS CurrentIsNewest AncestryStored ListByMember
PROPERTIES ChainUnlessRaced
CHECK_DEADLOCK FALSE
