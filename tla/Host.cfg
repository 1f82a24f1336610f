\* Two hosts with an ingest thread each, two writers, a queue of two.
SPECIFICATION FairSpec
CHECK_DEADLOCK FALSE
CONSTANTS
    h1 = h1
    s1 = s1
    s2 = s2
    h2 = h2
    Hosts <- MCHosts
    IngestThreads <- MCIngestThreads
    threadOf <- MCThreadOf
    Writers = {w1, w2}
    Capacity = 2
    MaxSamples = 3
INVARIANTS SamplesConserved IngestRatesLookBack NewestKept StopDrains
PROPERTIES ScoresNeverRegress BackgroundWorkDone
