\* Two faults of any kind; a session after them always goes through.
SPECIFICATION Spec
\* The operator gives up on a run whose queue stays blocked.
CHECK_DEADLOCK FALSE
CONSTANTS
    None = None
    Stages <- MCStages
    Recipes = {r1, r2}
    MaxFaults = 2
    MaxBlocked = 2
INVARIANTS
    PassIsCoherent
    ResumeSound
    OnlyOwnLease
PROPERTIES
    ReachesSearching
