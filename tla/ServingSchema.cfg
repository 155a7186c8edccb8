\* A server started on a new SQLite file.
SPECIFICATION MCSpec
CONSTANTS
    Requests = {r1, r2}
    Stamps <- MCStamps
    Uuids = {u}
    Malformed = Malformed
    WindowSecs = 1
    Instants <- MCInstants
    MaxRestarts = 1
    Hashes = {h1}
    Users = {u1, u2}
    MaxCalls = 4
    MaxFaults = 2
    Keys = {alice, bob}
    Blobs = {f1}
    Nobody = Nobody
    Callers = {p1, p2}
    MaxOwnerCalls = 5
    Tracked = {f1, f2}
    Urls = {s1, s2, s3}
    Openers = {o1, o2}
    MaxOpens = 4
    MaxCuts = 2
    Drafts <- MCDrafts
    GrantDrafts <- MCGrantDrafts
    LibraryDocs <- MCLibraryDocs
    Width = 2
    MaxPosts = 2
    MaxSeconds = 1
    lake = lake
    moor = moor
    Fps = {a, b}
    Subjects = {lake, moor}
    Permission = {"read", "delegate"}
    Digests = {1, 2}
    Capabilities <- Mixed
    Never = Never
    NoParent = NoParent
    Unverified = Unverified
    max_depth = 3
    Moments = {0, 1}
CHECK_DEADLOCK FALSE
INVARIANTS ServingIsUsable
