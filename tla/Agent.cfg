SPECIFICATION FairSpec
CONSTANTS
    a1 = a1
    a2 = a2
    Clients = {c1, c2}
    Agents = {a1, a2}
    Cap = 2
    Menu <- MCMenu
    Budget = 2
    None = None
INVARIANTS ValueIsHistory
PROPERTIES AwaitIsBarrier CallsReturn
\* Clients make finitely many calls: the system stops after the last.
CHECK_DEADLOCK FALSE
