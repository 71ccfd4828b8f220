SPECIFICATION FairSpec
CONSTANTS
    Main = Main
    Workers = {k1, k2, k3}
    Futures = {f1}
    Helpers = {h1}
INVARIANTS StateIsOwn JoinIsComplete
PROPERTIES JoinReturns
\* The system stops when every goroutine has exited.
CHECK_DEADLOCK FALSE
