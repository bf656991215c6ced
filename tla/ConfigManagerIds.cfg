\* two groups may each have an option of the same id
SPECIFICATION Spec
CONSTANTS
    flag = flag   num = num   part = part   str = str   maps = maps
    fl = fl   ls = ls   w = w   v = v
    n1 = n1   n2 = n2   n3 = n3   n4 = n4   n5 = n5   n6 = n6
    GroupName = {g, h}
    Declaration <- Declarations
    Worth <- Worths
    Whole <- Wholes
    One = 10
    Value <- Values
    CmdLine <- CmdLines
    HandWritten <- HandFiles
    MaxGroup = 2
    MaxOption = 2
\* a run may crash, and ends after the second reading of the file
CHECK_DEADLOCK FALSE
INVARIANT DuplicateIdsAreCaught
