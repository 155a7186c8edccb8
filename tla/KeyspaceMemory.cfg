\* Concurrent creates and publishes, on stored and on unstored parents.
SPECIFICATION Spec
CONSTANTS
    a = a
    b = b
    Keyspaces = {k}
    Fps = {a, b}
    Hash = {h1, h2, h3}
    NoHash = NoHash
    Bodies <- HandOver
    Requests = {r1, r2, r3}
    MaxVersion = 2
SYMMETRY Symmetry
INVARIANTS StoreConsistent PublisherWasSigner
PROPERTIES ImplementsChain
CHECK_DEADLOCK FALSE
