SPECIFICATION FairSpec
CONSTANTS
    c1 = c1  c2 = c2
    Conn = {c1, c2}
    q1 = q1
    Quote = {q1}
    f1 = f1
    Field = {f1}
    Nobody = Nobody
    MaxEdits = 1
INVARIANT LockHasTimer
CHECK_DEADLOCK FALSE
