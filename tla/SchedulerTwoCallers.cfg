\* Two threads share one scheduler; only two of the three jobs fit the budget.
SPECIFICATION Spec
CONSTANTS
    j1 = j1  j2 = j2  j3 = j3  r1 = r1  c1 = c1  c2 = c2  l1 = l1
    synthesis = synthesis  formal = formal  None = None
    Jobs = {j1, j2, j3}
    Kinds = {synthesis, formal}
    Runs = {r1}
    Callers = {c1, c2}
    Logs = {l1}
    KindOf <- MCKindOf
    RunOf <- MCRunOf
    Demand <- MCDemand
    Limits <- TwoAtATime
    MaxCandidates = 3
    MaxTokens = 3
    MaxRetryDepth = 0
    StartMayFail = {j2}
    KillMayFail = {j1, j2}
    MaxCrashes = 1
    MaxAttempts = 1
INVARIANTS
    PolicyKept
    QueueDiscipline
PROPERTIES
    TerminalIsFinal
    ImplementsLeases
SYMMETRY ThreadSymmetry
CHECK_DEADLOCK FALSE
