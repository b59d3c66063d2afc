SPECIFICATION Spec
CONSTANTS
    i1 = i1
    i2 = i2
    Items = {i1, i2}
    Scope <- TwoScopes
    Policies <- ThreePolicies
    Restrictions <- TwoRestrictions
    MaxIterations = 3
    TokenLimit = 2
    MaxTakeovers = 2
INVARIANTS EventsAreAccepted CallBudgetHolds ProvenanceIsExact
PROPERTIES RecallIsPermitted FactsFollowRun
CHECK_DEADLOCK FALSE
