SPECIFICATION Spec
CONSTANTS
    c1 = c1
    c2 = c2
    u1 = u1
    Conn = {c1}
    Room = {r1}
    User = {u1}
    UserOf <- OneUser
    MaxConnections = 1
    StoresFail = FALSE
    Heartbeat = heartbeat
    NoTask = NoTask
INVARIANT NoGhostMembers
