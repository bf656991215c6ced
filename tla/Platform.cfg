\* a variable shared by two threads; one Executor, used for two children
SPECIFICATION PlatformSpec
CONSTANTS
    t1 = t1   t2 = t2   lo = lo   hi = hi   c0 = c0   c1 = c1
    NoThread = NoThread
    Thread <- TwoThreads
    Word <- TwoWords
    Char <- TwoChars
    x = x   y = y   NUL = NUL
    Script <- Scripts
    Cap = 2
    BufSize = 3
    MaxChild = 2
    MaxLine = 2
\* an exception in T::operator= leaves the mutex locked; a parent may wait for
\* a child that waits for it, or be killed
CHECK_DEADLOCK FALSE
INVARIANTS MutexTypeOK FreeMeansCommitted WordsAreCurrent TypeOK ReadIsComplete StatusIsAChilds
PROPERTIES LockReleased ReadReturns WaitReturns OrphansEnd
