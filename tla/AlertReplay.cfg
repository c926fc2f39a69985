\* Does an event that is read again raise its alert once?
CONSTANTS
    r1 = r1
    r2 = r2
    g1 = g1
    p1 = p1
    p2 = p2
    e1 = e1
    e2 = e2
    c1 = c1
    c2 = c2
    j1 = j1
    j2 = j2
    mail = mail
    inapp = inapp
    pager = pager
    Rules = {r1}
    Partitions = {p1, p2}
    Log <- MCLog
    Matches <- MCMatches
    OfficeRules = {}
    Replicas = {c1, c2}
    MaxMoves = 1
    Jobs = {}
    Workers = {}
    External = {}
    InApp = {}
    Unsupported = {}
    Eligible = {}
    MaxRetries = 0
    MaxFaults = 0
    OwnRules = {}
    Foreign <- NoForeign
    MailTargets = {}
    Bodies <- MCBodies
    Payloads = {}
    AlertLevels = {}
    Requests = {}
    MaxRequests = 0
SPECIFICATION EngineSpec
INVARIANT ReplayedEventAlertsOnce
CHECK_DEADLOCK FALSE
