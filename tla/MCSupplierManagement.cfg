\* Two suppliers and contacts, two requests in turn or at once; one document,
\* two confirm requests, one crash; one certificate, two sweeps at a time, three in
\* all; two scorecards, one redelivery.
CONSTANTS
    s1 = s1
    s2 = s2
    c1 = c1
    c2 = c2
    q1 = q1
    q2 = q2
    d1 = d1
    u1 = u1
    u2 = u2
    w1 = w1
    w2 = w2
    k1 = k1
    Suppliers = {s1, s2}
    Countries = {"DE", "FR"}
    Contacts = {c1, c2}
    Statuses = {"banned"}
    Calls = {q1, q2}
    MaxCalls = 2
    Documents = {d1}
    Uploaders = {u1, u2}
    Scanners = {w1, w2}
    MaxConfirms = 2
    MaxCrashes = 1
    Certificates = {k1}
    Sweeps = {w1, w2}
    ShortNotice = 1
    LongNotice = 2
    LastDay = 3
    MaxSweeps = 3
    Deliveries <- MCDeliveries
    Quantities <- MCQuantities
    Invoices <- MCInvoices
    MaxCards = 2
    MaxRedeliveries = 1
SPECIFICATION MCSpec
INVARIANTS
    TypeOK
    ExpiryAnnouncedOnce
    ScorecardsFair
PROPERTIES
    RegistryKept
    ScansSettle
CHECK_DEADLOCK FALSE
