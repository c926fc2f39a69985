\* Two alerts, three calls (create, resolve and a late one), two sweeps that
\* may overlap.
CONSTANTS
    a1 = a1
    a2 = a2
    u1 = u1
    q1 = q1
    q2 = q2
    q3 = q3
    s1 = s1
    s2 = s2
    Alerts = {a1, a2}
    Users = {u1}
    Calls = {q1, q2, q3}
    Sweepers = {s1, s2}
SPECIFICATION Spec
SYMMETRY Symmetry
INVARIANTS
    TypeOK
    SweptOnce
    NoticesAccounted
PROPERTY TerminalLeftOnlyByOverlap
CHECK_DEADLOCK FALSE
