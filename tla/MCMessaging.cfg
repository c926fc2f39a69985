\* Two events, two relays, batches of two; two members, two partitions with two
\* messages and one, one fault.
CONSTANTS
    Events <- MCEvents
    r1 = r1
    r2 = r2
    Relays = {r1, r2}
    MaxRetries = 2
    BatchSize = 2
    PublishAttempts = 2
    MaxRollbacks = 1
    MaxLostAcks = 1
    p1 = p1
    Partitions = {p1, p2}
    Last <- MCLast
    Poison <- MCPoison
    Consumers = {c1, c2}
    NoOne = NoOne
    DlqEnabled = TRUE
    MaxFaults = 1
SPECIFICATION FairMessagingSpec
INVARIANTS
    TypeOK
    NoPhantomEvent
    DuplicatesExcused
    GivenUpWhenExhausted
PROPERTIES
    ImplementsDelivery
    ConsumptionKept
    EverythingSettles
CHECK_DEADLOCK FALSE
