SPECIFICATION Spec
CONSTANTS
    openroad = openroad
    orfs = orfs
    p1 = p1
    p2 = p2
    Order <- MCOrder
    Archives = {openroad}
    Orfs = orfs
    Workers = {p1, p2}
    Goals = {"hydrate", "verify", "lock", "doctor", "smoke"}
    ArchiveSize = 2
    MaxCommands = 3
    MaxManifests = 2
    MaxEdits = 3
    MaxDeaths = 2
    MaxLocks = 2
    None = None
INVARIANTS
    Provenance
    PairBound
    ReportNamesWhatRan
SYMMETRY MCSymmetry
CHECK_DEADLOCK FALSE
