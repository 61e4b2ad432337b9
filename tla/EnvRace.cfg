SPECIFICATION Spec
CONSTANTS
    Keys = {kA, kB, kC, kD}
    Ports = {5678, 5679}
    DefaultPort = 5678
    MaxTime = 1
    MaxRev = 2
    CrashLoops = FALSE
    None = None
    Torn = Torn
    Empty = Empty
    Terminals = {t1, t2}
    LocalKey = kA
    ForeignKey = kB
    LocalPort = 5679
    Asked = {None}
    AskedInit = {None}
    InitKinds = {"none"}
    Verbs = {"up"}
    MaxCommands = 2
    MaxFaults = 0
PROPERTY EnvKept
CHECK_DEADLOCK FALSE
