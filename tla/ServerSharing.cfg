SPECIFICATION Spec
CONSTANTS
    Sockets = {w1, w2, w3}
    Tickets = {t1, t2, t3}
    Hooks = {}
    MaxConnections = 0
    MaxJoined = 2
    AllowJoin = TRUE
CHECK_DEADLOCK FALSE
SYMMETRY Symmetric
CONSTRAINT Serving
INVARIANTS TypeOK OneTunnelPerTicket JoinLimitHoldsInSequence SharingNeedsConsent
