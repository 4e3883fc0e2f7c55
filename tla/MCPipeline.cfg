\* One API process with two request threads, one worker; one fault (a crash, a lapsed
\* lease, a database error or two requests at once); to the approved architecture.
SPECIFICATION Spec
CONSTANTS
  Apis = {a1}
  Requests = {q1, q2}
  HomeOf <- MCHome
  Workers = {k1}
  None = None
  Reasons = {e1, e2}
  MaxAttempts = 2
  MaxRound = 1
  MaxRework = 1
  MaxEdits = 1
  MaxFaults = 1
  Horizon = 5
  Decisions <- MCDecisions
SYMMETRY ProcessSymmetry
INVARIANT SettledWasDelivered
INVARIANT StageIsEarned
PROPERTY CompletionKeepsDecisions
PROPERTY ReworkOpensItsRound
CHECK_DEADLOCK FALSE
