\* A worker completes a task before the snapshot that holds it is saved.
CONSTANTS
  Apis = {a1}
  Requests = {q1}
  HomeOf <- MCHome
  Workers = {k1}
  None = None
  Reasons = {e1, e2}
  MaxAttempts = 2
  MaxRound = 1
  MaxRework = 1
  MaxEdits = 0
  MaxFaults = 0
  Horizon = 5
  Decisions <- MCDecisions
SPECIFICATION Spec
SYMMETRY ProcessSymmetry
CHECK_DEADLOCK FALSE
INVARIANT RecreateRestores
