\* Uploads, deletes and downloads of a file race, break off and restart.
SPECIFICATION Spec
CONSTANTS
    Fps = {a, b}
    NoOwner = NoOwner
    Hashes = {h}
    Requests = {r1, r2, r3, r4}
    MaxRestarts = 1
SYMMETRY Symmetry
INVARIANTS UploadKept StoresAgree
CHECK_DEADLOCK FALSE
