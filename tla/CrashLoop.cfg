SPECIFICATION Spec
CONSTANTS
    Keys = {kA, kB}
    Ports = {5678, 5679}
    DefaultPort = 5678
    MaxTime = 1
    MaxRev = 2
    CrashLoops = TRUE
    None = None
    Torn = Torn
    Empty = Empty
    Passes = {pA, pB}
    LocalKey = kA
    ForeignKey = kB
    ForeignPass = pB
    LocalPort = 5678
    ForeignPort = 5679
    InitKinds = {"running"}
    MaxCommands = 1
    MaxAborts = 0
    SameSecond = FALSE
INVARIANT SnapshotQuiesced
CHECK_DEADLOCK FALSE
