SPECIFICATION SpecBoth
CONSTANTS
    Keys = {kA, kB, kC}
    Ports = {5678}
    DefaultPort = 5678
    MaxTime = 2
    MaxRev = 2
    CrashLoops = FALSE
    None = None
    Torn = Torn
    Empty = Empty
    Terminals = {t1}
    Passes = {pA}
    LocalKey = kA
    ForeignKey = kB
    ForeignPass = pA
    LocalPort = 5678
    ForeignPort = 5678
    InitKinds = {"booting"}
    Verbs = {"up", "down"}
    MaxCommands = 2
    MaxAborts = 0
    SameSecond = TRUE
    MaxBeside = 1
    MaxFaults = 1
INVARIANTS KeyStays SafetyHolds
PROPERTY VolumeKept
CHECK_DEADLOCK FALSE
