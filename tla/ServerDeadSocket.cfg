SPECIFICATION Spec
CONSTANTS
    Sockets = {w1, w2}
    Tickets = {t1, t2}
    Hooks = {"auth"}
    MaxConnections = 0
    MaxJoined = 2
    AllowJoin = FALSE
CHECK_DEADLOCK FALSE
INVARIANTS NoTunnelOnDeadSocket
