SPECIFICATION Spec
CONSTANTS
    alice = alice
    bob = bob
    m1 = m1
    m2 = m2
    m3 = m3
    doc = doc
    pic = pic
    Eds = {alice, bob}
    Mls = {m1, m2, m3}
    Files = {doc, pic}
    Nothing = Nothing
    Ids <- MCIds
    Cmds = {c1, c2}
    Shared <- MCShared
    MaxFaults = 1
    MaxRestarts = 1
SYMMETRY Symmetry
CHECK_DEADLOCK FALSE
INVARIANTS
    AtMostOnce
    AnswersTrue
    ActedAsAsked
    HonestAccepted
    AccountStays
