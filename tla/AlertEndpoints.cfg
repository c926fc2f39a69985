\* Do the endpoints act on the alert of their path?
CONSTANTS
    a1 = a1
    u1 = u1
    q1 = q1
    q2 = q2
    s1 = s1
    Alerts = {a1}
    Users = {u1}
    Calls = {q1, q2}
    Sweepers = {s1}
SPECIFICATION Spec
INVARIANT EndpointFindsAlert
CHECK_DEADLOCK FALSE
