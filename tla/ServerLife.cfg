SPECIFICATION FairSpec
CONSTANTS
    Sockets = {w1, w2}
    Tickets = {t1, t2}
    Hooks = {"before", "auth"}
    MaxConnections = 1
    MaxJoined = 2
    AllowJoin = FALSE
CHECK_DEADLOCK FALSE
INVARIANTS TableIsExact NoSilentRefusal LimitHoldsInSequence RefusalKeepsTicket
PROPERTIES EveryRequestSettles CloseResolvesUnlessStripped
