\* Two orders, two requests, two ERP consumers with one message of each kind and a
\* rebalance; three scans, two at a time; a reading read twice and one posted, two
\* fences; three hours of the ERP sync with a fault, a late beat or booked dates, or
\* its last beat with a request.
CONSTANTS
    o1 = o1
    o2 = o2
    q1 = q1
    q2 = q2
    s1 = s1
    d1 = d1
    m1 = m1
    m2 = m2
    f1 = f1
    f2 = f2
    post = post
    iot = iot
    Orders = {o1, o2}
    Requests = {q1, q2}
    e1 = e1
    e2 = e2
    Erp = {e1, e2}
    ErpLog <- MCErpLog
    Pasts <- MCPasts
    MaxOrderCalls = 2
    Shipments = {s1}
    ScanTypes = {"departed", "delivered", "exception"}
    Scans = {q1, q2}
    Times = {1, 5}
    Spots = {"port", "sea"}
    ScanSpots = {"port"}
    MaxScans = 3
    Readings = {m1, m2}
    Reading <- MCReading
    IotLog <- MCIotLog
    Iot = iot
    Posts = {post}
    Devices = {d1}
    Fences = {f1, f2}
    Polygon <- MCPolygon
    Box <- MCBox
    MaxPosts = 1
    MaxRereads = 1
    h1 = h1
    r1 = r1
    r2 = r2
    r3 = r3
    Hooks = {h1}
    HookRequests = {r1, r2, r3}
    RateLimit = 1
    RateWindow = 2
    MaxMillis = 3
    MaxTroubles = 1
    x1 = x1
    x2 = x2
    k1 = k1
    k2 = k2
    Records = {x1, x2}
    SyncWorkers = {k1}
    SyncRequests = {k2}
    Period = 1
    LookBack = 2
    PageSize = 1
    PullTries = 1
    MaxHours = 3
    MaxVersions = 2
    MaxEdits = 3
    MaxBreaks = 1
SPECIFICATION MCSpec
SYMMETRY Symmetry
INVARIANTS
    TypeOK
    ShipmentsKept
    TelemetryAccounted
    WebhooksKept
PROPERTIES
    OrdersKept
    ErpKept
CHECK_DEADLOCK FALSE
