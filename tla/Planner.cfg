SPECIFICATION FairSpec
CONSTANTS
    Proposals <- MCProposals
    Id <- MCId
    Edit <- MCEdit
    Authorized <- MCAuthorized
    Planned <- MCPlanned
    Advice <- MCAdvice
    Evidence <- MCEvidence
    Grants <- MCGrants
    Objections <- MCObjections
    Tokens <- MCTokens
    Budget = 8
    AnswerBudget = 3
    Limit = 2
    MaxFinal = 2
    None = None
INVARIANTS
    OnlyAuthorized
    TokensReported
    CouncilWithinBudget
    EveryFinalReviewed
    ProposersBlinded
PROPERTY
    ProposeEnds
CHECK_DEADLOCK FALSE
