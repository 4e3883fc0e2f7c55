\* Two executions: the lease of e1 may expire under its adapter, that of e2 only
\* after its worker crashed.
CONSTANTS
    Executions = {e1, e2}
    Workers = {w1, w2, w3}
    None = None
    NoCall = NoCall
    MaxClaims = 3
    Lapsing = {e1}
SPECIFICATION Spec
SYMMETRY MCSymmetry
CHECK_DEADLOCK FALSE
INVARIANT FencedInv
PROPERTY LiveClaimNotTaken
PROPERTY SuccessIsFinal
PROPERTY AtomicSpec
