\* loggers, log statements and backends; declaration, assignment, parsing, and a
\* config file from one run to the next
SPECIFICATION ServicesSpec
CONSTANTS
    bf = bf   pf = pf   con = con   short = short   blank = blank
    Backend <- TheBackends
    Entry <- TheEntries
    Kind <- TheKinds
    BufSize <- TheBufSizes
    Size <- TheSizes
    Id = {sys}
    Message = {short, blank}
    Blank = {blank}
    File = {f1, f2}
    Caller = {f1}
    Level = {0, 1}
    ActionLevel = 0
    ActionFile = f1
    MaxNest = 2
    MaxLog = 3
    flag = flag   num = num   part = part   str = str   maps = maps
    fl = fl   ls = ls   w = w   v = v
    n1 = n1   n2 = n2   n3 = n3   n4 = n4   n5 = n5   n6 = n6
    GroupName = {g, h}
    Declaration <- Declarations
    Worth <- Worths
    Whole <- Wholes
    One = 10
    Value <- Values
    CmdLine <- CmdLines
    HandWritten <- HandFiles
    MaxGroup = 2
    MaxOption = 2
SYMMETRY GroupsAlike
\* a process that has ended does nothing; a run may crash, and ends after the
\* second reading of the file
CHECK_DEADLOCK FALSE
INVARIANTS LoggerTypeOK KeptInOrder BufferBounded SiblingsAgree NoDanglingBackend TypeOK CommandsResolve FlagsMeanData RoundTrip
PROPERTIES BackendsAreAppendLogs CommandsAreStable ParseIsAllOrNothing
