\* Two units, the second built on the first, two workers in two sessions and a
\* reviewer: what a claim snapshots stays true, and whoever loses a race lost it to a
\* call that got through.
CONSTANTS
    u1 = u1
    u2 = u2
    w1 = w1
    w2 = w2
    r1 = r1
    s1 = s1
    s2 = s2
    cap = cap
    v1 = v1
    v2 = v2
    Units = {u1, u2}
    Actors = {w1, w2, r1}
    Sessions = {s1, s2}
    Versions = {v1, v2}
    Capabilities = {cap}
    None = None
    NoTx = NoTx
    DependsOn <- MCDependsOn
    RequiredCapability <- MCRequiredCapability
    HasCapability <- MCHasCapability
    MaxRevision = 5
SPECIFICATION Spec
SYMMETRY MCSymmetry
CHECK_DEADLOCK FALSE
INVARIANT LostOnlyToProgress
INVARIANT SnapshotIsApproved
PROPERTY ApprovedIsFinal
