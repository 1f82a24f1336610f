\* Three users of a pool of one to two connections; four handles leave room for
\* the replacement of both.
SPECIFICATION Spec
CONSTANTS
    Threads = {t1, t2, t3}
    Handles = {h1, h2, h3, h4}
    NoConn = NoConn
    MinSize = 1
    MaxSize = 2

INVARIANT NoHandleLeaked
\* A stopped pool with all its users outside has nothing left to do.
CHECK_DEADLOCK FALSE
