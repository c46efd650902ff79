SPECIFICATION Spec
CONSTANTS
    Track = {t1}
    Windows <- FreezeWindows
    Interval = 1
    MaxTime = 5
    MaxRuns = 1
INVARIANT TypeOK  CarriedInFreeze OccurrenceTold
PROPERTY PromiseKept
CHECK_DEADLOCK FALSE
