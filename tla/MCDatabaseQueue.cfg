\* One message, three workers, two deliveries, crashes and expiry.
CONSTANTS
    Messages = {m1}
    Workers = {w1, w2, w3}
    None = None
    MaxAttempts = 2
    Deployments <- MCDeployments
SPECIFICATION LiveSpec
CHECK_DEADLOCK FALSE
PROPERTY EveryMessageEnds
INVARIANT OneClaimant
INVARIANT DeliveriesBounded
PROPERTY TableIsTaskQueue
PROPERTY LeaseEndsByHolder
