\* Three commands on one path, with one fault.
SPECIFICATION FileSpec
CONSTANTS
    x = x
    y = y
    Commands = {p1, p2, p3}
    Identities = {alice, bob}
    Bytes = {x, y}
    Plaintexts <- Files
    GroupSize = 2
    MaxFileSize = 6
    RangesAsked <- Asked
    MaxFaults = 1
    Noise = Noise
SYMMETRY Symmetry
INVARIANTS DecryptedAsEncrypted VerifiedPrefix RangeExact SettledDecrypts
CHECK_DEADLOCK FALSE
