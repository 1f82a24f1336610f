\* Two hosts with an ingest thread each, two writers, a queue of two.
SPECIFICATION Spec
CHECK_DEADLOCK FALSE
CONSTANTS
    h1 = h1
    h2 = h2
    s1 = s1
    s2 = s2
    Hosts <- MCHosts
    IngestThreads <- MCIngestThreads
    threadOf <- MCThreadOf
    Writers = {w1, w2}
    Capacity = 2
    MaxSamples = 2
INVARIANT WriterRatesLookBack
