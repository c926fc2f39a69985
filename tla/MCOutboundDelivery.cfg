\* One push and its retries by one worker: two attempts, two faults.  Or three
\* pushes to one endpoint at once.
SPECIFICATION MCSpec
CONSTANTS
    e1 = e1
    e2 = e2
    e3 = e3
    p1 = p1
    w1 = w1
    Api = api
    Nobody = nobody
    Events <- MCEvents
    Endpoints <- MCEndpoints
    Workers <- MCWorkers
    Breakers <- MCBreakers
    RetryMax = 2
    MaxTries = 1
    MaxFaults = 2
    FailureThreshold = 2
    SuccessThreshold = 2
INVARIANTS
    TypeOK
    DeliveriesAccounted
PROPERTIES
    BreakerFollowsResults
    FailuresRetried
CHECK_DEADLOCK FALSE
