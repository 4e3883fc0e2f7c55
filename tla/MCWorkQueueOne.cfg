\* One unit, its whole life twice around: claim, expiry, recovery, submission,
\* rejection, rework, second submission, approval.
CONSTANTS
    u1 = u1
    u2 = u2
    w1 = w1
    w2 = w2
    r1 = r1
    s1 = s1
    s2 = s2
    cap = cap
    v1 = v1
    v2 = v2
    Units = {u1}
    Actors = {w1, w2, r1}
    Sessions = {s1, s2}
    Versions = {v1, v2}
    Capabilities = {cap}
    None = None
    NoTx = NoTx
    DependsOn <- MCDependsOn
    RequiredCapability <- MCRequiredCapability
    HasCapability <- MCHasCapability
    MaxRevision = 8
SPECIFICATION Spec
SYMMETRY MCSymmetry
CHECK_DEADLOCK FALSE
PROPERTY CallsAreAtomic
INVARIANT IInv
PROPERTY LeaseNotStolen
PROPERTY LeaseIsFenced
PROPERTY ReviewOfExactArtifact
PROPERTY ReworkReservedAndCounted
