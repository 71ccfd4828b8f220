SPECIFICATION FairSpec
CONSTANTS
    s1 = s1
    s2 = s2
    s3 = s3
    Kinds <- MCKinds
    Sinks = {s1, s2, s3}
    Out = s1
    Alt = s2
    Slow = {s2, s3}
    Quitters = {s2}
    N = 3
    TopicOf <- MCTopicOf
    Changes = 3
INVARIANTS TypeOK EachGetsItsStream NothingAfterLeaving
PROPERTIES OnlySlowOnesStopIt EndIsHeard
\* A combinator ends with its source, or waits for a slow channel for good.
CHECK_DEADLOCK FALSE
