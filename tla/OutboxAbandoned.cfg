\* Is an event the relay gave up still somewhere?  One relay is enough.
CONSTANTS
    Events <- MCEvents
    r1 = r1
    Relays = {r1}
    MaxRetries = 2
    BatchSize = 2
    PublishAttempts = 2
    MaxRollbacks = 0
    MaxLostAcks = 0
    p1 = p1
    Partitions = {}
    Last <- MCLast
    Poison = {}
    Consumers = {}
    NoOne = NoOne
    DlqEnabled = TRUE
    MaxFaults = 0
SPECIFICATION MessagingSpec
INVARIANT AbandonedEventKept
CHECK_DEADLOCK FALSE
