\* Two plans of one branch, one delivery, two workers; p1 may outlive its lease.
CONSTANTS
    Plans = {p1, p2}
    Deliveries = {d1}
    b1 = b1
    Branches = {b1}
    BranchOf <- MCBranchOf
    Payloads = {x1, x2}
    Keys <- MCKeys
    Requests <- MCRequests
    Workers = {w1, w2}
    None = None
    Conflicted = Conflicted
    Retaken = {p1, d1}
    MaxClaims = 2
    Lapsing = {p1}
SPECIFICATION FactorySpec
SYMMETRY MCSymmetry
CHECK_DEADLOCK FALSE
INVARIANT EvidenceIsPublished
INVARIANT DeliveryIsAuthorized
INVARIANT OneOperationAtATime
INVARIANT OneRequestPerKey
PROPERTY ResultIsFinal
PROPERTY LiveLeaseNotTaken
PROPERTY CompletedIsFinal
