\* A cancellation against the submission of the unit it read.
CONSTANTS
    u1 = u1
    w1 = w1
    w2 = w2
    r1 = r1
    s1 = s1
    s2 = s2
    cap = cap
    p1 = p1
    plan1 = plan1
    plan2 = plan2
    Units = {u1}
    Actors = {w1, r1}
    Sessions = {s1, s2}
    Versions = {v1}
    Capabilities = {cap}
    None = None
    NoTx = NoTx
    DependsOn <- MCDependsOn
    RequiredCapability <- MCRequiredCapability
    HasCapability <- MCHasCapability
    MaxRevision = 5
    Projects = {p1}
    Plans = {plan1, plan2}
    Managers = {m1}
    ProjectOf <- MCProjectOf
    PlanOf <- MCPlanOf
    MaxProjectRevision = 4
SPECIFICATION ScopedSpec
SYMMETRY MCSymmetry
CHECK_DEADLOCK FALSE
PROPERTY OnlyClaimedIsCancelled
