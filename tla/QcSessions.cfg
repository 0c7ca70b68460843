SPECIFICATION PartsSpec
CONSTANTS
    c1 = c1  c2 = c2
    Conn = {c1, c2}
    q1 = q1  q2 = q2
    Quote = {q1, q2}
    f1 = f1
    Field = {f1}
    Nobody = Nobody
    MaxEdits = 2
    CleanupEdits = 1
INVARIANTS OrphanedByException SubscriberInSession GoneLeavesNothing
PROPERTY LocksAreReleased
CHECK_DEADLOCK FALSE
