SPECIFICATION Spec
CONSTANTS
    a = a
    b = b
    TestSuites <- Suites
    Filters <- Asking
    RepeatTimes <- Rounds
    Durations <- Times
    MaxMacros = 3
    MaxDepth = 2
    Kilo = 10
INVARIANT TimesAreOfTheirRound
CHECK_DEADLOCK FALSE
