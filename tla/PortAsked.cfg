SPECIFICATION Spec
CONSTANTS
    Keys = {kA, kB, kC, kD}
    Ports = {5678, 5679}
    DefaultPort = 5678
    MaxTime = 1
    MaxRev = 2
    CrashLoops = FALSE
    None = None
    Torn = Torn
    Empty = Empty
    Terminals = {t1}
    LocalKey = kA
    ForeignKey = kB
    LocalPort = 5679
    Asked = {None, 5678}
    AskedInit = {None}
    InitKinds = {"none", "down"}
    Verbs = {"up"}
    MaxCommands = 2
    MaxFaults = 1
INVARIANT AskedPortPublished
CHECK_DEADLOCK FALSE
