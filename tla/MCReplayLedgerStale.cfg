\* A completion whose claim is reclaimed between its check and its write.
CONSTANTS
    Executions = {e1}
    Workers = {w1, w2, w3}
    None = None
    NoCall = NoCall
    MaxClaims = 3
    Lapsing = {e1}
SPECIFICATION Spec
SYMMETRY MCSymmetry
CHECK_DEADLOCK FALSE
PROPERTY ConcludedByHolder
