SPECIFICATION Spec
CONSTANTS
    Tab = {t1}
    Session = {s1, s2}
    None = None
    MaxCalls = 2
    MaxDocs = 2
    MaxErrors = 1
    MaxDetaches = 1
    MaxLinks = 2
SYMMETRY SessionSymmetry
INVARIANTS TypeOK RefsOfTheDocument EffectsAccounted
CHECK_DEADLOCK FALSE
