\* Two callers; one to two workers, and a third name because the maximum can be
\* overshot by one.
SPECIFICATION FairSpec
CONSTANTS
    c1 = c1
    c2 = c2
    Clients = {c1, c2}
    Workers = {w1, w2, w3}
    ThreadsMin = 1
    ThreadsMax = 2
    HighWatermark = 1
    Capacity = 2
    MaxQueries <- MCMaxQueries
INVARIANTS OvershootBounded EachQueryOnce AnswersAreTrue QuietStopIsClean
PROPERTIES CallsReturn StopReturns
\* A stopped dispatcher, all calls made, has nothing left to do.
CHECK_DEADLOCK FALSE
