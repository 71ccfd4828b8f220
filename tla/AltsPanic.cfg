SPECIFICATION Spec
CONSTANTS
    u = u
    b = b
    t = t
    Chans = {u, b, t}
    Timeouts = {t}
    Calls = {k1, k2}
    Cap <- MCCap
    Menu <- MCMenu
    None = None
INVARIANTS PutsNeverPanic
\* Calls are finitely many and may park for good: the system may stop.
CHECK_DEADLOCK FALSE
