\* The published policy, with lower bounds that all can be met.
SPECIFICATION Spec
CONSTANTS
    None = None
    Rules <- MCRules
    Diagnoses <- MCDiagnoses
    Mechanisms <- MCMechanisms
    MaxDepth = 2
    Threshold = 85
    RepeatedCount = 2
    FamilyBudget = 2
    LineageBudget = 3
INVARIANTS
    DecisionsSound
PROPERTIES
    EscalationMonotonic
    OnlyAuthorizedChildren
    GoingOnSpends
