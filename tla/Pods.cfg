SPECIFICATION FairSpec
CONSTANTS
    Describe = Describe
    i1 = i1
    i2 = i2
    Invokes = {i1, i2}
    Cap = 1
    Menu <- MCMenu
    MaxSaid = 4
INVARIANTS AnswersAreOwn ReturnedLeavesNothing SuccessMeansDone
PROPERTIES InvokeReturns RouterMoves
\* A pod that says no more and is asked no more: the system may stop.
CHECK_DEADLOCK FALSE
