SPECIFICATION FairSpec
CONSTANTS
    w1 = w1
    w2 = w2
    Calls = {t1, t2, t3}
    Value <- MCValue
    Initial = 0
    Menu <- MCMenu
    Watch = {w1, w2}
    Faulty = {w2}
    Raises = Raises
    NoOp = NoOp
INVARIANTS OnlyRacesInvalidate WatchesHearUpdates
PROPERTIES KeepsPromise CallsReturn
\* Calls are finitely many: the system stops when all have returned.
CHECK_DEADLOCK FALSE
