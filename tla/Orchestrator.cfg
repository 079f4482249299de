\* Two processes of one run directory, and a third with another policy.
SPECIFICATION Spec
CONSTANTS
    r1 = r1 k1 = k1 k2 = k2 s1 = s1 p1 = p1 a = a b = b e = e h1 = h1 h2 = h2
    None = None
    Runs = {r1}
    Candidates = {k1, k2}
    Stages = {s1}
    Payloads = {p1}
    Callers = {a, b, e}
    PolicyOf <- MCPolicyOf
    MaxEvents = 5
INVARIANTS
    JournalSound
    RecoveryLineage
    ReplaySucceeds
PROPERTY
    ImplementsJournal
CHECK_DEADLOCK FALSE
