\* Two processes and two contents in one fan-out directory; the power goes, or a blob rots, twice.
SPECIFICATION FairStoreSpec
CONSTANTS
    p1 = p1  p2 = p2  d1 = d1  d2 = d2  Nobody = Nobody
    dir = dir
    Depth = 1
    FanOut <- OneDirectory
    Procs = {p1, p2}
    Digests = {d1, d2}
    MaxDamage = 2
INVARIANTS
    BlobsDurable
    NeverReplaced
PROPERTIES
    PutEnds
