SPECIFICATION Spec
CONSTANTS
    u1 = u1  u2 = u2  c1 = c1  c2 = c2  p1 = p1
    admin = admin  user = user  root = root  every = every
    Roles = {admin, user}
    Domains = {every}
    Loop = Loop
    None = None
    Grants = {u1}
    storedGrants = {u1}
    DefSets <- TwoDefs
    Policies = {p1}
    defaultPolicies = {p1}
    Callers = {c1}
    QueueLimit = 1
    MaxCommits = 2
INVARIANTS
    InSync
CHECK_DEADLOCK FALSE
