SPECIFICATION FairSpec
CONSTANTS
    Sockets = {w1, w2}
    Tickets = {t1}
    Hooks = {}
    MaxConnections = 0
    MaxJoined = 2
    AllowJoin = FALSE
CHECK_DEADLOCK FALSE
PROPERTIES CloseResolves
