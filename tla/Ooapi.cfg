\* one connection, its statements and their results; a run of the test framework
SPECIFICATION OoapiSpec
CONSTANTS
    foo = foo   bla = bla   u = u
    Column = {foo, bla}
    Value = {u}
    Null = Null
    ColumnList <- Lists
    Script <- OneRow
    MaxStmt = 2
    MaxRow = 1
    MaxResult = 1
    a = a   b = b
    TestSuites <- Suites
    Filters <- Asking
    RepeatTimes <- Rounds
    Durations <- Times
    MaxMacros = 3
    MaxDepth = 2
    Kilo = 10
\* nothing can follow the use of a finalized statement; a test may end the
\* process, and a run ends
CHECK_DEADLOCK FALSE
INVARIANTS SQLiteTypeOK InitedIsPrepared ResultsStayLive TypeOK VerdictsMeanChecks ShownTimes
PROPERTIES InsertIsAtomic
