SPECIFICATION Spec
CONSTANTS
    Starter = {s1, s2}
    Stopper = {k1}
    Old = old
    NoFile = noFile
INVARIANTS NeverShared
CHECK_DEADLOCK FALSE
