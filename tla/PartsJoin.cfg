\* what join() of a process returns, in the instance of Parts.cfg
SPECIFICATION PartsSpec
CONSTANTS
    chr = chr
    NUL = NUL
    Texts <- TheTexts
    MaxMsg = 2
    MaxSent = 3
    MaxNoise = 1
    MaxStarts = 2
    p1 = p1
    p2 = p2
    Threads = {t1}
    Processes = {p1, p2}
    Words = {0, 256}
    Garbage = {0, 7}
    MaxKids = 2
    Fd = {1, 2}
    MaxStream = 2
    MaxConn = 2
    MaxChar = 2
    MaxList = 2
    Values = {0, 1, 5}
    Windows <- TheWindows
    Leftover = {0, 7}
    MaxSamples = 4
    MaxSets = 2
    Lists <- TheLists
    Configs <- TheConfigs
    MaxBatch = 4
    MaxSeen = 10
    MaxResets = 1
\* the program may end, and wait for a message or a child that does not come
CHECK_DEADLOCK FALSE
INVARIANT JoinReturnsStatus
