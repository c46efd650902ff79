SPECIFICATION Spec
CONSTANTS
    t1 = t1
    t2 = t2
    Track = {t1, t2}
    NoTrack = NoTrack
    Logs <- MCLogs
    Replays <- MCReplays
    ChanSize = 1
    QueueSize = 1
    EvalInterval = 1
    TickInterval = 2
    Window = 1
    MaxRuns = 2
INVARIANT TypeOK DirtyExact AppliedOnce Accounted  CleanStop
PROPERTY ShutdownEnds
CHECK_DEADLOCK FALSE
