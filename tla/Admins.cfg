SPECIFICATION FairSpec
CONSTANTS
    Terminals = {t1, t2}
    Passes = {pA, pB}
    Verbs = {"backup", "show", "rotate", "change", "reset"}
    None = None
    Torn = Torn
    MaxCommands = 3
    MaxFaults = 1
INVARIANTS TypeOK SealedWithActive
PROPERTIES EachItsPart ResetRepairs
CHECK_DEADLOCK FALSE
