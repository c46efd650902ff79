SPECIFICATION Spec
CONSTANTS
    Sinks <- TwoSinks
    Retries = 1
    MaxAlerts = 3
INVARIANT TypeOK CountedOnce Flushed
PROPERTY KeepsPromise Settles
CHECK_DEADLOCK FALSE
