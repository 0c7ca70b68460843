SPECIFICATION FairSpec
CONSTANTS
    c1 = c1
    c2 = c2
    u1 = u1
    Conn = {c1}
    Room = {r1, r2}
    User = {u1}
    UserOf <- OneUser
    MaxConnections = 1
    StoresFail = TRUE
    Heartbeat = heartbeat
    NoTask = NoTask
PROPERTY GoneIsForgotten
