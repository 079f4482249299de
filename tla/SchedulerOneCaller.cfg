\* One calling thread, as the command line uses the scheduler, with a crash.
SPECIFICATION FairSpec
CONSTANTS
    j1 = j1  j2 = j2  j3 = j3  r1 = r1  c1 = c1  c2 = c2  l1 = l1
    synthesis = synthesis  formal = formal  None = None
    Jobs = {j1, j2, j3}
    Kinds = {synthesis, formal}
    Runs = {r1}
    Callers = {c1}
    Logs = {}
    KindOf <- MCKindOf
    RunOf <- MCRunOf
    Demand <- MCDemand
    Limits <- OneAtATime
    MaxCandidates = 3
    MaxTokens = 4
    MaxRetryDepth = 0
    StartMayFail = {j2}
    KillMayFail = {j1, j2}
    MaxCrashes = 1
    MaxAttempts = 2
INVARIANTS
    LeaseCoversWorker
    NoLostWakeup
PROPERTIES
    QuarantineReleasedByDeath
    TransientSettles
CHECK_DEADLOCK FALSE
