\* Two replicas, two partitions with one event each, one forced rebalance; two
\* tasks, two workers, one retry each, one crash or visibility timeout; four
\* requests on settings, two at a time.
CONSTANTS
    r1 = r1
    r2 = r2
    g1 = g1
    p1 = p1
    p2 = p2
    e1 = e1
    e2 = e2
    c1 = c1
    c2 = c2
    j1 = j1
    j2 = j2
    w1 = w1
    w2 = w2
    q1 = q1
    q2 = q2
    mail = mail
    inapp = inapp
    pager = pager
    Rules = {r1}
    Partitions = {p1, p2}
    Log <- MCLog
    Matches <- MCMatches
    OfficeRules = {r1}
    Replicas = {c1, c2}
    MaxMoves = 1
    Jobs = {j1, j2}
    Workers = {w1, w2}
    External = {mail}
    InApp = {inapp}
    Unsupported = {pager}
    Eligible <- MCEligible
    MaxRetries = 1
    MaxFaults = 1
    OwnRules = {r2}
    Foreign <- MCForeign
    MailTargets = {mail}
    Bodies <- MCBodies
    Payloads <- MCPayloads
    AlertLevels = {"critical", "medium", "low"}
    Requests = {q1, q2}
    MaxRequests = 4
SPECIFICATION FairEngineSpec
INVARIANTS
    EngineTypeOK
    AlertsPerCooldownBounded
    DispatchAccounted
    SettingsKept
PROPERTY EverythingEnds
CHECK_DEADLOCK FALSE
