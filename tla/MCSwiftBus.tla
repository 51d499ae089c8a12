----------------------------- MODULE MCSwiftBus -----------------------------
\* Small instances of SwiftBus for TLC.
EXTENDS SwiftBus, TLC

CONSTANTS s1, s2, p1, t1, t2

\* One subscription to a topic and one to everything.
PlainAndWild == s1 :> t1 @@ s2 :> Wildcard
=============================================================================
