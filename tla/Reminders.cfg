SPECIFICATION FairSpec
CONSTANTS
    Items = {i1}
    Accounts = {a1}
    Endpoints = {e1, e2}
    Workers = {w1}
    Callers = {c1}
    Nobody = Nobody
    Texts = {t1, t2}
    Expiries = {2}
    MaxVersion = 3
    MaxRow = 1
    MaxTime = 2
INVARIANTS TypeOK SentAsConfirmed
PROPERTIES AtMostOnce DueIsAttempted
CHECK_DEADLOCK FALSE
