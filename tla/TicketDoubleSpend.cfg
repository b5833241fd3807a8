SPECIFICATION Spec
CONSTANTS
    c1 = c1
    c2 = c2
    c3 = c3
    m1 = m1
    m2 = m2
    Tickets = {t1}
    Calls = {c1, c2, c3}
    Managers = {m1, m2}
    ManagerOf <- TwoManagers
    Stores = {"custom"}
    StoreMayFail = FALSE
CHECK_DEADLOCK FALSE
INVARIANTS SingleUse
