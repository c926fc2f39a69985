\* One user, two pairs of tokens, two requests at a time, two changes of the row;
\* four calls on roles; four calls on accounts, three at a time.
CONSTANTS
    u1 = u1
    x1 = x1
    x2 = x2
    q1 = q1
    q2 = q2
    q3 = q3
    Users = {u1}
    Pairs = {x1, x2}
    Requests = {q1, q2}
    MaxChanges = 2
    r1 = r1
    r2 = r2
    RoleIds = {r1, r2}
    PermIds = {x1, x2}
    Titles = {"buyer"}
    Members = {u1}
    Admins = {q1, q2, q3}
    MaxRoleCalls = 4
    a1 = a1
    a2 = a2
    AccountIds = {a1, a2}
    Emails = {"mail"}
    Passwords = {"old", "new"}
    Clients = {q1, q2, q3}
    Patches <- MCPatches
    MaxAccountCalls = 4
SPECIFICATION IdentitySpec
SYMMETRY Symmetry
INVARIANTS
    IdentityTypeOK
    OneTokenPerSession
    IssuedToAdmitted
PROPERTIES
    ReactivatedKnowingly
    DirectoryKept
CHECK_DEADLOCK FALSE
