\* Three callers of RedisCache and a pool of one to two connections; three handles
\* leave one for a replacement.
SPECIFICATION Spec
CONSTANTS
    Threads = {t1, t2, t3}
    Handles = {h1, h2, h3}
    NoConn = NoConn
    MinSize = 1
    MaxSize = 2
INVARIANTS NoAbandonedEntry
PROPERTIES PruneKeepsMinimum LeaseSpec
\* A stopped pool with all its users outside has nothing left to do.
CHECK_DEADLOCK FALSE
