SPECIFICATION MCSpec
CONSTANTS
    u1 = u1  u2 = u2  c1 = c1  c2 = c2  p1 = p1
    admin = admin  user = user  root = root  every = every
    Roles = {admin, user, root}
    Domains = {every}
    Loop = Loop
    None = None
    Grants = {u1, u2}
    storedGrants = {u1, u2}
    DefSets <- ThreeDefs
    Policies = {p1}
    defaultPolicies = {p1}
    Callers = {c1}
    QueueLimit = 1
    MaxCommits = 2
INVARIANTS
    InheritanceIsReachability
    InSyncUnlessRaced
    RebuildHeals
    PoliciesAreStored
    RebuildsExclude
SYMMETRY GrantSymmetry
CHECK_DEADLOCK FALSE
