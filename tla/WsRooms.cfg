SPECIFICATION Spec
CONSTANTS
    c1 = c1
    c2 = c2
    u1 = u1
    Conn = {c1, c2}
    Room = {r1}
    User = {u1}
    UserOf <- OneUser
    MaxConnections = 2
    StoresFail = FALSE
    Heartbeat = heartbeat
    NoTask = NoTask
SYMMETRY Symmetry
INVARIANT RegistryInv StackBound
PROPERTY ClosedBeforeForgotten EndedIsForgotten
