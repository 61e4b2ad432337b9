SPECIFICATION Spec
CONSTANTS
    Keys = {kA, kB, kC, kD}
    Ports = {5678, 5679}
    DefaultPort = 5678
    MaxTime = 1
    MaxRev = 2
    CrashLoops = TRUE
    None = None
    Torn = Torn
    Empty = Empty
    Terminals = {t1, t2}
    LocalKey = kA
    ForeignKey = kB
    LocalPort = 5679
    Asked = {None}
    AskedInit = {None, 5678}
    InitKinds = {"running", "stopped", "down", "adoptable", "restored"}
    Verbs = {"init", "up", "down", "stop", "start", "restart", "status", "open"}
    MaxCommands = 4
    MaxFaults = 2
INVARIANTS DataOpens OneVolume PollsPublished
CHECK_DEADLOCK FALSE
