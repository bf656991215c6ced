---------------------------- MODULE TestingSuite --------------------------
(***************************************************************************)
(* ooapi/testing_suite.cc and the CHECK macros of testing_suite.h: the     *)
(* framework runs the tests of its suites, several rounds of them, rates   *)
(* and times them, and shows an overview (src/tests/run_tests.cc).         *)
(*                                                                         *)
(* The body of a test is any sequence of macros, an early return or an     *)
(* exception; what an expression evaluates to is chosen anew whenever the  *)
(* macro evaluates it.  The text of a test's details is left out: kept is  *)
(* whether there is any.                                                   *)
(***************************************************************************)
EXTENDS Integers, SequencesExt, XTime, XUnit

CONSTANTS
    TestSuites,     \* a sequence of suites, a suite the sequence of its tests, in map order
    Filters,        \* for each choice of --execute-test, the tests whose id contains it
    RepeatTimes,    \* the choices of --repeat-times
    Durations,      \* microseconds a test may take
    MaxMacros,      \* bound: macros executed by all tests
    MaxDepth        \* bound: nested PREPARE_WITH

Test == UNION {ToSet(TestSuites[s]) : s \in DOMAIN TestSuites}

NoTest == "none"

(* A suite keeps its tests in a map of its own, and each its result.       *)
TestsAreDistinct ==
    \A s, u \in DOMAIN TestSuites : \A i \in DOMAIN TestSuites[s], j \in DOMAIN TestSuites[u] :
        TestSuites[s][i] = TestSuites[u][j] => s = u /\ i = j

ASSUME TestingSuiteAssumption ==
    /\ TestSuites \in Seq(Seq(Test)) /\ NoTest \notin Test
    /\ TestsAreDistinct
    /\ RepeatTimes \subseteq Int /\ Durations \subseteq Nat
    /\ MaxMacros \in Nat /\ MaxDepth \in Nat \ {0}
    /\ \A f \in Filters : f \subseteq Test

VARIABLES
    options,        \* TestFramework: execute_test, return_on_fail, repeat_times
    res,            \* the TestResult of each test
    check_count,    \* of each suite
    active_test,
    pc,             \* where the program is
    at,             \* the loops of run() and execute_tests()
    frames,         \* the test method, and those it calls by PREPARE_WITH
    shown,          \* the lines TestResult::show() has printed of each test
    overview,       \* what show_result_overview() has printed
    macros,         \* history: macros executed
    said,           \* history: how often the bodies of each test were seen to be good,
                    \*          to be bad and to throw
    took            \* history: how long each round of each test has taken

history == <<macros, said, took>>
vars == <<options, res, check_count, active_test, pc, at, frames, shown, overview, history>>

TestResult == [result |-> TRUE, run |-> FALSE, details |-> FALSE,
               timer |-> NewTimer, runtimes |-> <<>>]

Init ==
    /\ options = [execute_test |-> Test, return_on_fail |-> TRUE, repeat_times |-> 1]
    /\ res = [t \in Test |-> TestResult]
    /\ check_count = [s \in DOMAIN TestSuites |-> 0]
    /\ active_test = NoTest
    /\ pc = "main" /\ at = [suite |-> 1, run |-> 0, test |-> 1]
    /\ frames = <<>>
    /\ shown = [t \in Test |-> <<>>]
    /\ overview = <<>>
    /\ macros = 0
    /\ said = [t \in Test |-> [good |-> 0, bad |-> 0, threw |-> 0]]
    /\ took = [t \in Test |-> <<>>]

-----------------------------------------------------------------------------
(* TestFramework(argc, argv): the command line is parsed, or is wrong and  *)
(* the program exits.  -d is parsed as well, and show_details never used.  *)
TestFramework ==
    /\ pc = "main"
    /\ \/ \E f \in Filters, r \in BOOLEAN, n \in RepeatTimes :
              /\ options' = [execute_test |-> f, return_on_fail |-> r, repeat_times |-> n]
              /\ at' = [at EXCEPT !.run = n]
              /\ pc' = "loop"
       \/ pc' = "exited" /\ UNCHANGED <<options, at>>
    /\ UNCHANGED <<res, check_count, active_test, frames, shown, overview, history>>

(* TestFramework::run() and the two loops of execute_tests().              *)
InSuites == at.suite \in DOMAIN TestSuites
InRound  == InSuites /\ at.run # 0 /\ at.test \in DOMAIN TestSuites[at.suite]
Chosen   == TestSuites[at.suite][at.test]

Loops ==
    /\ pc = "loop"
    /\ \/ /\ InRound /\ Chosen \notin options.execute_test
          /\ at' = [at EXCEPT !.test = @ + 1] /\ pc' = pc
       \/ /\ InSuites /\ ~ InRound /\ at.run # 0
          /\ at' = [at EXCEPT !.run = @ - 1, !.test = 1] /\ pc' = pc
       \/ /\ InSuites /\ at.run = 0
          /\ at' = [suite |-> at.suite + 1, run |-> options.repeat_times, test |-> 1] /\ pc' = pc
       \/ /\ ~ InSuites
          /\ pc' = "ran" /\ at' = at
    /\ UNCHANGED <<options, res, check_count, active_test, frames, shown, overview, history>>

(* setup() is called outside of the try block: what it throws ends the     *)
(* program.  Otherwise the timer is started and the method called.         *)
StartTest ==
    /\ pc = "loop" /\ InRound /\ Chosen \in options.execute_test
    /\ active_test' = Chosen
    /\ \/ /\ pc' = "body"
          /\ res' = [res EXCEPT ![Chosen].run = TRUE, ![Chosen].timer = Start(@)]
          /\ frames' = <<[do_checks |-> TRUE, return_on_fail |-> options.return_on_fail]>>
       \/ /\ pc' = "terminated"
          /\ res' = [res EXCEPT ![Chosen].run = TRUE]
          /\ frames' = frames
    /\ UNCHANGED <<options, check_count, at, shown, overview, history>>

-----------------------------------------------------------------------------
(* The body of a test.                                                     *)
Frame == Last(frames)

Say(what) == said' = [said EXCEPT ![Chosen][what] = @ + 1]

Macro ==
    /\ pc = "body" /\ frames # <<>> /\ macros < MaxMacros
    /\ macros' = macros + 1
    /\ UNCHANGED <<options, active_test, pc, at, shown, overview, took>>

(* Mutant: the last check of a test decides alone.                         *)
add_check_last(expr, text) ==
    /\ res' = [res EXCEPT ![active_test].result = expr,
                          ![active_test].details = @ \/ ~ expr \/ text]
    /\ check_count' = [check_count EXCEPT ![at.suite] = @ + 1]

(* TestSuite::add_check(expr), then text in the details or not.  The line  *)
(* of a good check is not added, show_good_details being always false.     *)
add_check(expr, text) ==
    /\ res' = [res EXCEPT ![active_test].result = @ /\ expr,
                          ![active_test].details = @ \/ ~ expr \/ text]
    /\ check_count' = [check_count EXCEPT ![at.suite] = @ + 1]

add_exc_check(expr) == add_check(expr, ~ expr)

add_iter_check(expr) == add_check(expr, ~ expr)

add_details(text) ==
    /\ res' = [res EXCEPT ![active_test].details = @ \/ text]
    /\ UNCHANGED check_count

LeaveIf(b) == frames' = IF b /\ Frame.return_on_fail THEN Front(frames) ELSE frames

(* CHECK and CHECK_EQ evaluate their expression for the result, for the    *)
(* details and for the return; do_checks guards the first alone.           *)
CHECK(first, second, third) ==
    /\ Macro
    /\ \/ Frame.do_checks /\ add_check(first, ~ second) /\ Say(IF first THEN "good" ELSE "bad")
       \/ ~ Frame.do_checks /\ add_details(~ second) /\ UNCHANGED said
    /\ LeaveIf(~ third)

(* The other macros evaluate it once, and nothing without do_checks.       *)
CHECK_APPROX(expr) ==
    /\ Macro /\ Frame.do_checks
    /\ add_check(expr, ~ expr) /\ Say(IF expr THEN "good" ELSE "bad")
    /\ LeaveIf(~ expr)

CHECK_ITER(expr) ==
    /\ Macro /\ Frame.do_checks
    /\ add_iter_check(expr) /\ Say(IF expr THEN "good" ELSE "bad")
    /\ UNCHANGED frames

(* A call that throws nothing is not noticed.                              *)
CHECK_EXC(thrown) ==
    /\ Macro /\ Frame.do_checks
    /\ \/ thrown = "expected" /\ add_exc_check(TRUE) /\ Say("good") /\ UNCHANGED frames
       \/ thrown = "other" /\ add_exc_check(FALSE) /\ Say("bad") /\ LeaveIf(TRUE)
       \/ thrown = "none" /\ UNCHANGED <<res, check_count, said, frames>>

(* test_x(false): return_on_fail has its default.                          *)
PREPARE_WITH ==
    /\ Macro /\ Len(frames) < MaxDepth
    /\ frames' = Append(frames, [do_checks |-> FALSE, return_on_fail |-> TRUE])
    /\ UNCHANGED <<res, check_count, said>>

Return ==
    /\ pc = "body" /\ frames # <<>>
    /\ frames' = Front(frames)
    /\ UNCHANGED <<options, res, check_count, active_test, pc, at, shown, overview, history>>

(* Mutant: the exception leaves the test with its timer running.           *)
ThrowPastStop ==
    /\ pc = "body" /\ frames # <<>> /\ macros < MaxMacros
    /\ macros' = macros + 1
    /\ res' = [res EXCEPT ![active_test].details = TRUE]
    /\ frames' = <<>> /\ pc' = "loop" /\ at' = [at EXCEPT !.test = @ + 1]
    /\ Say("threw")
    /\ UNCHANGED <<options, check_count, active_test, shown, overview, took>>

(* Whatever is caught, the details tell of it and the result does not.     *)
handle_exception == add_details(TRUE)

Throw ==
    /\ Macro
    /\ handle_exception
    /\ frames' = <<>>
    /\ Say("threw")

Body ==
    \/ \E first, second, third \in BOOLEAN : CHECK(first, second, third)
    \/ \E expr \in BOOLEAN : CHECK_APPROX(expr) \/ CHECK_ITER(expr)
    \/ \E thrown \in {"expected", "other", "none"} : CHECK_EXC(thrown)
    \/ PREPARE_WITH
    \/ Return
    \/ Throw

-----------------------------------------------------------------------------
(* TestResult::show(false).                                                *)
(* numeric_limits<double>::min() is the least positive number, not the     *)
(* least one: here one that is less than what the smallest prefix shows.   *)
Tiny == [n |-> 1, d |-> power(Kilo)[5]]

SumVal(r) == SumFunction(r.runtimes)
MinVal(r) == Whole(Min(ToSet(r.runtimes)))
MaxVal(r) == IF ToSet(r.runtimes) = {0} THEN Tiny ELSE Whole(Max(ToSet(r.runtimes)))

Show(r) ==
    [rating   |-> r.result,
     total    |-> XUnit(Whole(SumVal(r)), -6),
     repeated |-> r.timer.cycles > 1,
     mean     |-> XUnit([n |-> SumVal(r), d |-> Kilo * Kilo * Len(r.runtimes)], 0),
     min      |-> XUnit(MinVal(r), -6),
     max      |-> XUnit(MaxVal(r), -6),
     details  |-> r.details /\ ~ r.result]

(* The rest of execute_tests() for a test: the timer is stopped, and       *)
(* tear_down() may throw out of the program as setup() may.                *)
RuntimeTotal(r) == DiffUs(r.timer)  \* mutant: the time of all rounds so far

Runtime(r) ==
    IF r.runtimes = <<>> THEN DiffUs(r.timer) ELSE DiffUs(r.timer) - Last(r.runtimes)

EndTest ==
    /\ pc = "body" /\ frames = <<>>
    /\ \E us \in Durations :
         LET stopped == [res[Chosen] EXCEPT !.timer = Stop(@, us)]
             done    == [stopped EXCEPT !.runtimes = Append(@, Runtime(stopped))] IN
         /\ took' = [took EXCEPT ![Chosen] = Append(@, us)]
         /\ \/ /\ res' = [res EXCEPT ![Chosen] = done]
               /\ shown' = IF at.run = 1 THEN [shown EXCEPT ![Chosen] = Append(@, Show(done))]
                                         ELSE shown
               /\ active_test' = NoTest
               /\ pc' = "loop" /\ at' = [at EXCEPT !.test = @ + 1]
            \/ /\ res' = [res EXCEPT ![Chosen] = stopped]
               /\ pc' = "terminated"
               /\ UNCHANGED <<shown, active_test, at>>
    /\ UNCHANGED <<options, check_count, frames, overview, macros, said>>

show_result_overview ==
    /\ pc = "ran"
    /\ LET Rated(b) == Cardinality({t \in Test : res[t].run /\ res[t].result = b}) IN
       overview' = <<[all_tests |-> SumFunction(check_count),
                      good |-> Rated(TRUE), bad |-> Rated(FALSE)]>>
    /\ pc' = "done"
    /\ UNCHANGED <<options, res, check_count, active_test, at, frames, shown, history>>

Next ==
    \/ TestFramework
    \/ Loops
    \/ StartTest
    \/ Body
    \/ EndTest
    \/ show_result_overview

Spec == Init /\ [][Next]_vars

-----------------------------------------------------------------------------
(* Types, and what the assertions of xtime.cc ask for: a timer runs only   *)
(* while the method of its test does, so start() finds it stopped and      *)
(* stop() running, whatever test was left by an exception.                 *)
TypeOK ==
    /\ options \in [execute_test : Filters \cup {Test}, return_on_fail : BOOLEAN,
                    repeat_times : RepeatTimes \cup {1}]
    /\ \A t \in Test :
         /\ res[t].result \in BOOLEAN /\ res[t].run \in BOOLEAN /\ res[t].details \in BOOLEAN
         /\ res[t].timer \in Timer /\ res[t].runtimes \in Seq(Nat)
         /\ res[t].timer.active <=> pc = "body" /\ active_test = t
         /\ said[t] \in [good : Nat, bad : Nat, threw : Nat] /\ took[t] \in Seq(Nat)
    /\ check_count \in [DOMAIN TestSuites -> Nat]
    /\ active_test \in Test \cup {NoTest}
    /\ pc \in {"main", "exited", "loop", "body", "ran", "done", "terminated"}
    /\ at \in [suite : Nat, run : Int, test : Nat]
    /\ frames \in Seq([do_checks : BOOLEAN, return_on_fail : BOOLEAN])
    /\ macros \in 0..MaxMacros

(* What a run tells of its tests.  The overview counts the checks that     *)
(* were made, and every test that was asked for is good or bad; each of    *)
(* them is shown once, on its last round, as good or bad as the overview   *)
(* counts it, and with details exactly if it is bad.  A test of which a    *)
(* check failed, in any of its rounds, is bad, and one that is bad had a   *)
(* check that failed or threw an exception.  Whether an exception makes it *)
(* bad is left open: "[E] test failed - exception caught: " is written to  *)
(* the details of a test that may be good (testing_suite.cc:72).           *)
Asked == IF options.repeat_times = 0 THEN {} ELSE options.execute_test

VerdictsMeanChecks ==
    \A o \in ToSet(overview) :
        LET Bad == {t \in Test : \E l \in ToSet(shown[t]) : ~ l.rating} IN
        /\ o.all_tests = SumFunction([t \in Test |-> said[t].good + said[t].bad])
        /\ o.bad = Cardinality(Bad) /\ o.good = Cardinality(Asked \ Bad)
        /\ \A t \in Test :
             /\ Len(shown[t]) = IF t \in Asked THEN 1 ELSE 0
             /\ said[t].bad > 0 => t \in Bad
             /\ t \in Bad => said[t].bad + said[t].threw > 0
             /\ \A l \in ToSet(shown[t]) : l.details = ~ l.rating

(* What the line of a test says of its times.  One is noted for each       *)
(* round, and never less than the round took; of one or two rounds they    *)
(* are what the rounds took (for more, see TimesAreOfTheirRound).  The sum,*)
(* the mean, the least and the greatest of those that are noted are shown, *)
(* the mean counted in seconds and the others in microseconds; they mean   *)
(* the same, and all are brought between 1 and Kilo.  Of the maximum of    *)
(* times that are all 0 nothing is said: Tiny is shown.                    *)
Same(x, y) ==
    LET Up(z) == power(Kilo)[IF z.exponent < -6 THEN 0 ELSE (z.exponent + 6) \div 3]
        Down(z) == power(Kilo)[IF z.exponent < -6 THEN -((z.exponent + 6) \div 3) ELSE 0] IN
    x.data.n * Up(x) * y.data.d * Down(y) = y.data.n * Up(y) * x.data.d * Down(x)

ShownTimes ==
    \A t \in Test : \A l \in ToSet(shown[t]) :
        LET noted == res[t].runtimes
            n == Len(took[t])
            Is(x, us) == Same(x, [data |-> us, exponent |-> -6])
            total == SumFunction(noted) IN
        /\ Len(noted) = n /\ \A k \in 1..n : noted[k] >= took[t][k]
        /\ n <= 2 => noted = took[t]
        /\ Is(l.total, Whole(total)) /\ Is(l.mean, [n |-> total, d |-> n])
        /\ Is(l.min, Whole(Min(ToSet(noted))))
        /\ total > 0 => Is(l.max, Whole(Max(ToSet(noted))))
        /\ \A x \in {l.total, l.mean, l.min, l.max} :
             x.data.n = 0 \/ (Leq(lower, x.data) /\ Leq(x.data, upper))

(* "save this specific time taken (instead of the overall duration)"       *)
(* (testing_suite.cc:129): what is noted for a round is the time of that   *)
(* round.  execute_tests() takes from the total only the time it noted for *)
(* the round before, so that from the third on others are contained.       *)
TimesAreOfTheirRound ==
    \A t \in Test : \A k \in DOMAIN res[t].runtimes : res[t].runtimes[k] = took[t][k]
=============================================================================
