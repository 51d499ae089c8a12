SPECIFICATION Spec
CONSTANTS
    s1 = s1  s2 = s2  p1 = p1  t1 = t1  t2 = t2
    Subs = {s1, s2}
    Pubs = {p1}
    Topics = {t1}
    Wildcard = Wildcard
    TopicOf <- PlainAndWild
    Buffer = 1
    MaxMsgs = 1
INVARIANTS
    CancelKeepsOthers
CHECK_DEADLOCK FALSE
