\* One channel; alerts of three severities.
CONSTANTS
    r1 = r1
    r2 = r2
    g1 = g1
    p1 = p1
    p2 = p2
    e1 = e1
    e2 = e2
    c1 = c1
    q1 = q1
    j1 = j1
    j2 = j2
    mail = mail
    inapp = inapp
    pager = pager
    Rules = {}
    Partitions = {}
    Log <- NoLog
    Matches = {}
    OfficeRules = {}
    Replicas = {c1}
    MaxMoves = 0
    Jobs = {}
    Workers = {}
    External = {}
    InApp = {}
    Unsupported = {}
    Eligible = {}
    MaxRetries = 0
    MaxFaults = 0
    OwnRules = {}
    Foreign <- NoForeign
    MailTargets = {mail}
    Bodies <- MCBodies
    Payloads = {}
    AlertLevels = {"critical", "medium", "low"}
    Requests = {q1}
    MaxRequests = 2
SPECIFICATION EngineSpec
INVARIANT DigestFromSeverityUp
CHECK_DEADLOCK FALSE
