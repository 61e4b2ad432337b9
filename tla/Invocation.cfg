SPECIFICATION Spec
CONSTANTS
    PipeSize = 2
    Timeout = 4
    Interval = 2
    PollMax = 3
INVARIANTS TypeOK OneDocument ChangesAreMeant PreviewTells ExitTells NothingLeftRunning VerdictInTime
PROPERTY InvocationEnds
\* A run of lon that has ended takes no more steps.
CHECK_DEADLOCK FALSE
