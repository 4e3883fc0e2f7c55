\* A take-over that read the receipt before its owner completed it.
CONSTANTS
    Keys = {k1}
    Workers = {w1, w2, w3}
    Requests = {a1, a2}
    None = None
    Retaken = {k1}
    MaxClaims = 3
    Lapsing = {k1}
SPECIFICATION Spec
SYMMETRY MCSymmetry
CHECK_DEADLOCK FALSE
PROPERTY CompletedIsReplayed
