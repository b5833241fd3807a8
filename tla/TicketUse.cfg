SPECIFICATION FairSpec
CONSTANTS
    c1 = c1
    c2 = c2
    c3 = c3
    m1 = m1
    m2 = m2
    Tickets = {t1}
    Calls = {c1, c2, c3}
    Managers = {m1}
    ManagerOf <- OneManager
    Stores = {"memory", "custom"}
    StoreMayFail = TRUE
CHECK_DEADLOCK FALSE
INVARIANTS TypeOK UnusedTicketSurvives LockDiscipline SingleUse ClosedStaysClosed
PROPERTIES DeadTicketsAreSwept MarkIsFinal EveryCallSettles OneTime
