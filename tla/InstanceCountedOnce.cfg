\* The slow log and the slow queries after a probe that failed.
CONSTANTS
    Nothing = Nothing
    Database <- MCDatabase
    Limits <- MCLimits
    WriteThreads = {w1}
    QueueLength = 2
    MaxEvents = 1
    MaxRestarts = 0
    MaxTime = 3
SPECIFICATION InstanceSpec
CHECK_DEADLOCK FALSE
INVARIANT CountedOnce
