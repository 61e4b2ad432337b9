SPECIFICATION FairSpec
CONSTANTS
    Keys = {kA, kB, kC, kD, kE}
    Ports = {5678, 5679}
    DefaultPort = 5678
    MaxTime = 1
    MaxRev = 2
    CrashLoops = FALSE
    None = None
    Torn = Torn
    Empty = Empty
    Terminals = {t1}
    LocalKey = kA
    ForeignKey = kB
    LocalPort = 5679
    Asked = {None}
    AskedInit = {None}
    InitKinds = {"none", "running", "stopped", "down", "adoptable", "restored"}
    Verbs = {"init", "up", "down", "stop", "start", "restart", "status", "open"}
    MaxCommands = 3
    MaxFaults = 2
INVARIANTS TypeOK
PROPERTIES EnvKept UpHeals
CHECK_DEADLOCK FALSE
