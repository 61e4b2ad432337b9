SPECIFICATION FairSpec
CONSTANTS
    Keys = {kA, kB}
    Ports = {5678, 5679}
    DefaultPort = 5678
    MaxTime = 2
    MaxRev = 2
    CrashLoops = FALSE
    None = None
    Torn = Torn
    Empty = Empty
    Passes = {pA, pB}
    LocalKey = kA
    ForeignKey = kB
    ForeignPass = pB
    LocalPort = 5678
    ForeignPort = 5679
    InitKinds = {"none", "running", "booting", "stopped", "down"}
    MaxCommands = 2
    MaxAborts = 1
    SameSecond = FALSE
INVARIANTS TypeOK StoresAgree RunningRestored SnapshotQuiesced KeyNeverLost SafetyNet RowsHaveBundles
PROPERTIES Atomic CommandEnds
CHECK_DEADLOCK FALSE
