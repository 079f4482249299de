\* Two processes call for the same candidate; a foreign event in the journal.
\* The parent is analysed once more, the candidate's index written twice.
SPECIFICATION FairSpec
CONSTANTS
    p1 = p1  p2 = p2  None = None
    Callers = {p1, p2}
    MaxOther = 1
    MaxReanalyses = 1
    MaxRewrites = 2
INVARIANTS
    LadderFollowsGates
PROPERTIES
    SealedIsFinal
    CreatedGetsSealed
