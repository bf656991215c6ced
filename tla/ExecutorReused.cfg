\* one Executor, used for two children
SPECIFICATION Spec
CONSTANTS
    x = x   y = y   NUL = NUL
    Script <- Scripts
    Cap = 2
    BufSize = 3
    MaxChild = 2
    MaxLine = 2
\* a parent may wait for a child that waits for it, or be killed
CHECK_DEADLOCK FALSE
INVARIANT RunningMeansMinusOne
