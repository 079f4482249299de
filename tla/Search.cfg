\* Four proposals, tight and loose budgets, callbacks that raise, every edit and
\* three metric vectors.  No identity of a source or patch is special.
SPECIFICATION Spec
CONSTANTS
    a = a  b = b  c = c  d = d  wns = wns  area = area  None = None  Root = Root
    Proposals = {a, b, c, d}
    Opportunity <- MCOpportunity
    Rank <- MCRank
    Hash <- MCHash
    Parent <- MCParent
    Cost <- MCCost
    Opportunities = 2
    PlannerCosts <- MCPlannerCosts
    Requests <- MCRequests
    s1 = s1  s2 = s2  s3 = s3  h1 = h1  h2 = h2  h3 = h3  i1 = i1  i2 = i2
    Sources = {s1, s2, s3}
    Patches = {h1, h2, h3}
    Metrics = {wns, area}
    Maximize <- MCMaximize
    Vectors <- ThreeVectors
    PolicyRanks = {1, 2}
    Identities = {i1, i2}
INVARIANTS
    LoopSound
    FrontierSound
SYMMETRY EditSymmetry
