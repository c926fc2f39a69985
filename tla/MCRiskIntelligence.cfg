\* Three models and three changes, two at a time; a task and a request over two
\* suppliers; two indicators measured by overlapping sweeps and a request.
CONSTANTS
    m1 = m1
    m2 = m2
    m3 = m3
    a1 = a1
    a2 = a2
    c1 = c1
    t1 = t1
    s1 = s1
    s2 = s2
    k1 = k1
    k2 = k2
    q1 = q1
    w1 = w1
    w2 = w2
    Models = {m1, m2, m3}
    Admins = {a1, a2}
    MaxChanges = 3
    Suppliers = {s1, s2}
    Counted = {s1}
    Calls = {c1}
    Tasks = {t1}
    OtdRates <- MCOtdRates
    Features <- MCFeatures
    ModelScore <- MCModelScore
    Ttl = 1
    MaxRetries = 1
    MaxTime = 3
    MaxLost = 1
    Watched = {s1}
    Kris = {k1, k2}
    Definition <- MCDefinition
    Values = {1, 2, 3}
    Recorders = {q1}
    Sweeps = {w1, w2}
    MaxSnapshots = 3
SPECIFICATION Spec
INVARIANTS
    TypeOK
    ScoresAccounted
    BreachesReported
CHECK_DEADLOCK FALSE
