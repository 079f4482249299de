CONSTANTS
    MaxCommits = 2
    MaxMoves = 1
    MaxTouches = 1
    MaxAttempts = 4
    Signed = {0, 4}
    Milestones <- MCMilestones
    Absent = Absent
SPECIFICATION SignoffSpec
INVARIANTS VerifiedIsCoherent PacketsPermanent
PROPERTIES DependencyOutlivesCommits
CHECK_DEADLOCK FALSE
