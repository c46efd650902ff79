SPECIFICATION MCSpec
CONSTANTS
    p1 = p1
    p2 = p2
    s1 = s1
    MaxLines = 3
    MaxFiles = 3
    MaxErrors = 1
    MaxRuns = 2
    Serials = 3
    Forms <- MCForms
    MaxAge = 1
    MaxLost = 1
    KeepOpen = 2
    Pid = {p1, p2}
    Socket = {s1}
    MaxStart = 3
    MaxFailures = 1
    RefreshEvery = 3
    Entries = 3
    Other = {2}
    PipeSize = 1
    Backlog = 1
    MaxDeaths = 2
    MaxUnsaved = 1
INVARIANT ReadersTypeOK NothingSkipped LinesWhole EventWhole ScanView JournalExact
PROPERTY LineFed ExecTold ProcKnown
CHECK_DEADLOCK FALSE
