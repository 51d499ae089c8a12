--------------------------- MODULE MCAuthzManager ---------------------------
\* Small instances of AuthzManager for TLC.
EXTENDS AuthzManager, TLC

CONSTANTS u1, u2, c1, c2, p1, admin, user, root, every

def(name, parents) == [name |-> name, domain |-> every, inherits |-> parents]

\* A chain whose middle names itself, one step of it, and a cycle.
Chain == {def(root, {admin}), def(admin, {user, admin})}
Flat == {def(admin, {user})}
Cycle == {def(admin, {user}), def(user, {admin})}

ThreeDefs == {Flat, Chain, Cycle}
TwoDefs == {Flat, Cycle}

\* The chain, whose rules make the longest rebuilds, is there from the start or
\* never, and sees one commit; the other definitions see all MaxCommits.
ChainIsForItself ==
    /\ db'.defs = Chain <=> db.defs = Chain
    /\ db'.defs = Chain => db'.commits <= 1

MCSpec == Init /\ [][Next /\ ChainIsForItself]_vars

GrantSymmetry == Permutations(Grants)
=============================================================================
