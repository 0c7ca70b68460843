SPECIFICATION Spec
CONSTANTS
    Msg = {m1, m2}
    Worker = {w1, w2}
    PriorityOf <- AllLeastUrgent
    Cleaner = cleaner
    NPriority = 2
    MaxRetries = 2
INVARIANT TimedOutIsKept
