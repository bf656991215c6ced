\* is a get() of a two-word T atomic?
SPECIFICATION MutexSpec
CONSTANTS
    t1 = t1   t2 = t2   lo = lo   hi = hi   c0 = c0   c1 = c1
    NoThread = NoThread
    Thread <- TwoThreads
    Word <- TwoWords
    Char <- TwoChars
CHECK_DEADLOCK FALSE
INVARIANT GetIsAtomic
