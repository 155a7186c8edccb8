CONSTANTS
    Keys = {k1, k2}
    None = None
    Bad = Bad
    Err = Err
    Known = {lattice}
    Unknown = Unknown
    Now = Now
    Procs = {p1, p2}
    Names <- MCNames
    Unnamed = Unnamed
    NewNames <- MCNewNames
    ImportNames <- MCImportNames
    Files = {f}
    MaxCommands = 4
    MaxChanges = 1
SPECIFICATION WalletSpec
SYMMETRY Symmetry
INVARIANTS
    Loadable
    KeptUnlessRaced
    ImportedAsSigned
    ExportsReimport
CHECK_DEADLOCK FALSE
