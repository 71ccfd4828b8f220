SPECIFICATION FairSpec
CONSTANTS
    u = u
    b = b
    t = t
    Chans = {u, b, t}
    Timeouts = {t}
    Calls = {k1, k2, k3}
    Cap <- MCCap
    Menu <- MCMenu
    None = None
INVARIANTS TypeOK OneCommit
PROPERTIES ClosedIsRefused TimeoutReturns
\* Calls are finitely many and may park for good: the system may stop.
CHECK_DEADLOCK FALSE
