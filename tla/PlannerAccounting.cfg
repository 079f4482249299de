SPECIFICATION Spec
CONSTANTS
    Proposals <- MCProposals
    Id <- MCId
    Edit <- MCEdit
    Authorized <- MCAuthorized
    Planned <- MCPlanned
    Advice <- MCAdvice
    Evidence <- MCEvidence
    Grants <- MCGrants
    Objections <- MCObjections
    Tokens <- MCTokens
    Budget = 8
    AnswerBudget = 3
    Limit = 2
    MaxFinal = 2
    None = None
INVARIANT AccountingNeverReset
CHECK_DEADLOCK FALSE
