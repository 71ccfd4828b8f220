SPECIFICATION DelayFairSpec
CONSTANTS
    Forcers = {f1, f2, f3}
    Probers = {p1, p2}
    Nobody = Nobody
INVARIANTS OneBody DoneIsOpen OneValue RealizedOnceProduced
PROPERTIES ForcesEnd
\* Every goroutine forces or asks once: the system stops after the last.
CHECK_DEADLOCK FALSE
