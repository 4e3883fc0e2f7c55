\* A project through its whole lifecycle and the continuation of it, under two
\* concurrent commands; the command 8 is denied.
CONSTANTS
    p1 = p1
    p2 = p2
    s1 = s1
    s2 = s2
    Projects = {p1, p2}
    Plans = {a}
    CommandIds = {1, 2, 3, 4, 5, 6, 7, 8}
    Denied = {8}
    Sessions = {s1, s2}
    None = None
    NoTx = NoTx
    MaxRevision = 5
    MaxEvents = 14
SPECIFICATION Spec
SYMMETRY MCSymmetry
ACTION_CONSTRAINT MCFreshIsSmallest
ACTION_CONSTRAINT MCOneLineage
ACTION_CONSTRAINT MCOneDenial
ACTION_CONSTRAINT MCOneActivation
CHECK_DEADLOCK FALSE
INVARIANT HistoryMirrorsProject
INVARIANT CompletionIsProven
INVARIANT LineageIsCompleted
INVARIANT CommandOnce
PROPERTY NoLostUpdate
PROPERTY AggregateSpec
