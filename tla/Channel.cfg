SPECIFICATION FairSpec
CONSTANTS
    Msgs = {m1, m2, m3}
    Receivers = {r1, r2}
    Cancellable = {r2}
    Closers = {c1, c2}
    Cap = 1
    Nobody = Nobody
INVARIANTS CloseRunsOnce VerdictMatchesFate
PROPERTIES KeepsPromise CloseReleases
\* The calls of Send and Close are finitely many: the system may stop.
CHECK_DEADLOCK FALSE
