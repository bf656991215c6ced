------------------------- MODULE TestingSuite_proofs ------------------------
(* Theorems about TestingSuite: for any suites, filters, rounds and bodies *)
(* of tests, timers are started and stopped as they ask for, the overview  *)
(* and the verdicts mean the checks that were made, and a line shows the   *)
(* times that were noted, in units that can be read.                       *)
EXTENDS TestingSuite, Operators_proofs

-----------------------------------------------------------------------------
(* The invariant.                                                          *)

Result == [result : BOOLEAN, run : BOOLEAN, details : BOOLEAN, timer : Timer, runtimes : Seq(Nat)]
Said == [good : Nat, bad : Nat, threw : Nat]
AFrame == [do_checks : BOOLEAN, return_on_fail : BOOLEAN]

(* Where the program is: the loops count from 1.                           *)
Places ==
    /\ options \in [execute_test : Filters \cup {Test}, return_on_fail : BOOLEAN,
                    repeat_times : RepeatTimes \cup {1}]
    /\ active_test \in Test \cup {NoTest}
    /\ pc \in {"main", "exited", "loop", "body", "ran", "done", "terminated"}
    /\ at \in [suite : Nat \ {0}, run : Int, test : Nat \ {0}]
    /\ frames \in Seq(AFrame)
    /\ macros \in 0..MaxMacros

(* What is known of the tests.                                             *)
Data ==
    /\ res \in [Test -> Result] /\ said \in [Test -> Said] /\ took \in [Test -> Seq(Nat)]
    /\ DOMAIN shown = Test
    /\ check_count \in [DOMAIN TestSuites -> Nat]

TimersRun == \A t \in Test : res[t].timer.active <=> pc = "body" /\ active_test = t

(* The time noted last is one of those the timer has added up.             *)
TimesFit == \A t \in Test : res[t].runtimes # <<>> => Last(res[t].runtimes) <= res[t].timer.passed_us

(* While a test's method runs, it is the one the loops have come to.       *)
Running ==
    pc = "body" => /\ InRound /\ Chosen \in options.execute_test
                   /\ active_test = Chosen /\ res[Chosen].run

(* A result is bad as soon as a check of its test was.                     *)
Rated(t) ==
    /\ res[t].result <=> said[t].bad = 0
    /\ said[t].bad > 0 => res[t].run /\ res[t].details

Checks == [t \in Test |-> said[t].good + said[t].bad]
Counted == SumFunction(check_count) = SumFunction(Checks)

(* The loops are behind the i-th test of suite s, on the last round.       *)
Behind(s, i) ==
    \/ s < at.suite
    \/ s = at.suite /\ (at.run = 0 \/ (at.run = 1 /\ i < at.test))

(* Without a round to do there is none.                                    *)
Countdown == options.repeat_times = 0 => at.run = 0

(* A test that was asked for is shown when it is behind, as it then stays. *)
ShownOnce(s, i) ==
    LET t == TestSuites[s][i] IN
    shown[t] = IF t \in Asked /\ Behind(s, i) THEN <<Show(res[t])>> ELSE <<>>

RunOnce(s, i) ==
    LET t == TestSuites[s][i] IN
    /\ res[t].run => t \in Asked
    /\ t \in Asked /\ Behind(s, i) => res[t].run

Started == pc \notin {"main", "exited"}

Progress ==
    /\ Started => Countdown
    /\ Started => \A s \in DOMAIN TestSuites : \A i \in DOMAIN TestSuites[s] :
                      ShownOnce(s, i) /\ RunOnce(s, i)
    /\ ~ Started => \A t \in Test : shown[t] = <<>> /\ ~ res[t].run
    /\ pc = "main" => at.suite = 1 /\ at.test = 1
    /\ pc \in {"ran", "done"} => ~ InSuites

(* The overview when it is there: here a test is bad exactly if a check of *)
(* it was, whatever it threw.                                              *)
Verdicts ==
    \A o \in ToSet(overview) :
        LET Bad == {t \in Test : said[t].bad > 0} IN
        /\ o.all_tests = SumFunction([t \in Test |-> said[t].good + said[t].bad])
        /\ o.bad = Cardinality(Bad) /\ o.good = Cardinality(Asked \ Bad)
        /\ \A t \in Test :
             /\ Len(shown[t]) = IF t \in Asked THEN 1 ELSE 0
             /\ t \in Bad => t \in Asked
             /\ \A l \in ToSet(shown[t]) : l.rating = (t \notin Bad) /\ l.details = (t \in Bad)

Overviewed == (pc # "done" => overview = <<>>) /\ Verdicts

Inv == /\ Places /\ Data /\ TimersRun /\ TimesFit /\ Running /\ Counted /\ Progress /\ Overviewed
       /\ \A t \in Test : Rated(t)

-----------------------------------------------------------------------------
(* The constants.                                                          *)

(* There are finitely many tests.                                          *)
LEMMA TestsAreFinite == IsFiniteSet(Test) /\ IsFiniteSet(DOMAIN TestSuites)
<1>1. TestSuites \in Seq(Seq(Test))
    BY TestingSuiteAssumption
<1>2. DOMAIN TestSuites = 1..Len(TestSuites) /\ Len(TestSuites) \in Nat
    BY <1>1
<1>3. IsFiniteSet(DOMAIN TestSuites)
    BY <1>2, FS_Interval
<1> DEFINE Sets == {ToSet(TestSuites[s]) : s \in DOMAIN TestSuites}
           f == [s \in DOMAIN TestSuites |-> ToSet(TestSuites[s])]
<1>4. f \in Surjection(DOMAIN TestSuites, Sets)
    BY DEF Surjection
<1>5. IsFiniteSet(Sets)
  <2> HIDE DEF f, Sets
  <2> QED
      BY <1>3, <1>4, FS_Surjection
<1>6. ASSUME NEW s \in DOMAIN TestSuites PROVE IsFiniteSet(ToSet(TestSuites[s]))
  <2> DEFINE suite == TestSuites[s]
             g == [i \in DOMAIN suite |-> suite[i]]
  <2>1. suite \in Seq(Test)
      BY <1>1
  <2>2. DOMAIN suite = 1..Len(suite) /\ Len(suite) \in Nat
      BY <2>1
  <2>3. IsFiniteSet(DOMAIN suite)
      BY <2>2, FS_Interval
  <2>4. g \in Surjection(DOMAIN suite, ToSet(suite))
      BY DEF Surjection, ToSet
  <2> HIDE DEF g, suite
  <2>5. IsFiniteSet(ToSet(suite))
      BY <2>3, <2>4, FS_Surjection
  <2> QED
      BY <2>5 DEF suite
<1>7. \A T \in Sets : IsFiniteSet(T)
    BY <1>6
<1>8. Test = UNION Sets
    BY DEF Test
<1>9. IsFiniteSet(UNION Sets)
  <2> HIDE DEF Sets
  <2> QED
      BY <1>5, <1>7, FS_UNION
<1> QED
    BY <1>3, <1>8, <1>9

(* A test has its place in the suites.                                     *)
LEMMA TestsHavePlaces ==
    /\ \A s \in DOMAIN TestSuites : \A i \in DOMAIN TestSuites[s] : TestSuites[s][i] \in Test
    /\ \A t \in Test : \E s \in DOMAIN TestSuites : \E i \in DOMAIN TestSuites[s] :
          TestSuites[s][i] = t
    /\ DOMAIN TestSuites = 1..Len(TestSuites) /\ Len(TestSuites) \in Nat
    /\ \A s \in DOMAIN TestSuites : /\ DOMAIN TestSuites[s] = 1..Len(TestSuites[s])
                                    /\ Len(TestSuites[s]) \in Nat
<1>1. TestSuites \in Seq(Seq(Test))
    BY TestingSuiteAssumption
<1>2. /\ DOMAIN TestSuites = 1..Len(TestSuites) /\ Len(TestSuites) \in Nat
      /\ \A s \in DOMAIN TestSuites : TestSuites[s] \in Seq(Test)
    BY <1>1
<1>3. \A s \in DOMAIN TestSuites : /\ DOMAIN TestSuites[s] = 1..Len(TestSuites[s])
                                   /\ Len(TestSuites[s]) \in Nat
                                   /\ \A i \in DOMAIN TestSuites[s] : TestSuites[s][i] \in Test
    BY <1>2
<1>4. \A t \in Test : \E s \in DOMAIN TestSuites : \E i \in DOMAIN TestSuites[s] :
          TestSuites[s][i] = t
    BY DEF Test, ToSet
<1> QED
    BY <1>2, <1>3, <1>4

(* The frames below the last are frames.                                   *)
LEMMA FrontOfFrames ==
    ASSUME frames \in Seq(AFrame), frames # <<>>
    PROVE  Front(frames) \in Seq(AFrame) /\ Frame \in AFrame
<1>1. Len(frames) \in Nat /\ Len(frames) > 0 /\ \A i \in 1..Len(frames) : frames[i] \in AFrame
    BY EmptySeq, LenProperties
<1>2. \A i \in 1..Len(frames) - 1 : frames[i] \in AFrame
    BY <1>1
<1>3. SubSeq(frames, 1, Len(frames) - 1) \in Seq(AFrame)
    BY <1>1, <1>2, SubSeqProperties
<1> QED
    BY <1>1, <1>3 DEF Front, Frame, Last

-----------------------------------------------------------------------------
(* What the macros of a test's body do.                                    *)
Checked(b, text) == add_check(b, text) /\ Say(IF b THEN "good" ELSE "bad")
Noted(text)      == add_details(text) /\ (UNCHANGED said \/ Say("threw"))
Silent           == UNCHANGED <<res, check_count, said>>

(* A macro makes a check, or adds a detail, or neither.                    *)
LEMMA BodyCases ==
    ASSUME Places, Body
    PROVE  /\ pc = "body" /\ UNCHANGED <<options, active_test, pc, at, shown, overview, took>>
           /\ frames' \in Seq(AFrame) /\ macros' \in 0..MaxMacros
           /\ \/ \E b, text \in BOOLEAN : Checked(b, text)
              \/ \E text \in BOOLEAN : Noted(text)
              \/ Silent
<1>1. frames \in Seq(AFrame) /\ macros \in 0..MaxMacros /\ MaxMacros \in Nat
    BY TestingSuiteAssumption DEF Places
<1>2. frames # <<>> => Front(frames) \in Seq(AFrame)
    BY <1>1, FrontOfFrames
<1>3. Macro => macros' \in 0..MaxMacros
    BY <1>1 DEF Macro
<1>4. ASSUME NEW first \in BOOLEAN, NEW second \in BOOLEAN, NEW third \in BOOLEAN,
             CHECK(first, second, third)
      PROVE  /\ frames' \in Seq(AFrame)
             /\ \/ \E b, text \in BOOLEAN : Checked(b, text)
                \/ \E text \in BOOLEAN : Noted(text)
  <2>1. frames' \in Seq(AFrame)
      BY <1>1, <1>2, <1>4 DEF CHECK, LeaveIf, Macro
  <2> QED
      BY <1>4, <2>1 DEF CHECK, Checked, Noted
<1>5. ASSUME NEW expr \in BOOLEAN, CHECK_APPROX(expr)
      PROVE  frames' \in Seq(AFrame) /\ \E b, text \in BOOLEAN : Checked(b, text)
  <2>1. frames' \in Seq(AFrame)
      BY <1>1, <1>2, <1>5 DEF CHECK_APPROX, LeaveIf, Macro
  <2> QED
      BY <1>5, <2>1 DEF CHECK_APPROX, Checked
<1>6. ASSUME NEW expr \in BOOLEAN, CHECK_ITER(expr)
      PROVE  frames' \in Seq(AFrame) /\ \E b, text \in BOOLEAN : Checked(b, text)
    BY <1>1, <1>6 DEF CHECK_ITER, add_iter_check, Checked
<1>7. ASSUME NEW thrown \in {"expected", "other", "none"}, CHECK_EXC(thrown)
      PROVE  /\ frames' \in Seq(AFrame)
             /\ Silent \/ \E b, text \in BOOLEAN : Checked(b, text)
  <2>1. frames' \in Seq(AFrame)
      BY <1>1, <1>2, <1>7 DEF CHECK_EXC, LeaveIf, Macro
  <2> QED
      BY <1>7, <2>1 DEF CHECK_EXC, add_exc_check, Checked, Silent
<1>8. ASSUME PREPARE_WITH
      PROVE  frames' \in Seq(AFrame) /\ Silent
  <2>1. [do_checks |-> FALSE, return_on_fail |-> TRUE] \in AFrame
      BY DEF AFrame
  <2> QED
      BY <1>1, <1>8, <2>1 DEF PREPARE_WITH, Silent
<1>9. ASSUME Return
      PROVE  frames' \in Seq(AFrame) /\ macros' = macros /\ Silent
    BY <1>2, <1>9 DEF Return, Silent, history
<1>10. ASSUME Throw
       PROVE  frames' \in Seq(AFrame) /\ \E text \in BOOLEAN : Noted(text)
  <2>1. Noted(TRUE)
      BY <1>10 DEF Throw, handle_exception, Noted
  <2>2. frames' \in Seq(AFrame)
      BY <1>10 DEF Throw
  <2> QED
      BY <2>1, <2>2
<1>11. \/ \E first, second, third \in BOOLEAN : CHECK(first, second, third)
       \/ \E expr \in BOOLEAN : CHECK_APPROX(expr) \/ CHECK_ITER(expr)
       \/ \E thrown \in {"expected", "other", "none"} : CHECK_EXC(thrown)
       \/ PREPARE_WITH \/ Return \/ Throw
    BY DEF Body
<1>12. Macro \/ Return
    BY <1>11 DEF CHECK, CHECK_APPROX, CHECK_ITER, CHECK_EXC, PREPARE_WITH, Throw
<1>13. pc = "body" /\ UNCHANGED <<options, active_test, pc, at, shown, overview, took>>
    BY <1>12 DEF Macro, Return, history
<1>14. macros' \in 0..MaxMacros
    BY <1>1, <1>3, <1>9, <1>12
<1>15. /\ frames' \in Seq(AFrame)
       /\ \/ \E b, text \in BOOLEAN : Checked(b, text)
          \/ \E text \in BOOLEAN : Noted(text)
          \/ Silent
    BY <1>4, <1>5, <1>6, <1>7, <1>8, <1>9, <1>10, <1>11
<1> QED
    BY <1>13, <1>14, <1>15

-----------------------------------------------------------------------------
(* Where the program is.                                                   *)

(* What the loops count.                                                   *)
LEMMA Counters ==
    ASSUME Places
    PROVE  /\ at = [suite |-> at.suite, run |-> at.run, test |-> at.test]
           /\ at.suite \in Nat \ {0} /\ at.run \in Int /\ at.test \in Nat \ {0}
           /\ options.repeat_times \in Int /\ options.execute_test \subseteq Test
<1>1. at \in [suite : Nat \ {0}, run : Int, test : Nat \ {0}]
    BY DEF Places
<1>2. options.repeat_times \in RepeatTimes \cup {1}
    BY DEF Places
<1>3. \A n \in RepeatTimes \cup {1} : n \in Int
    BY TestingSuiteAssumption
<1>4. options.repeat_times \in Int
    BY <1>2, <1>3
<1>6. options.execute_test \subseteq Test
  <2>1. options.execute_test \in Filters \cup {Test}
      BY DEF Places
  <2>2. \A f \in Filters : f \subseteq Test
      BY TestingSuiteAssumption
  <2> QED
      BY <2>1, <2>2, Zenon
<1>5. /\ at = [suite |-> at.suite, run |-> at.run, test |-> at.test]
      /\ at.suite \in Nat \ {0} /\ at.run \in Int /\ at.test \in Nat \ {0}
    BY <1>1
<1> QED
    BY <1>4, <1>5, <1>6

(* Every step leaves the program in one of its places.                     *)
LEMMA PlacesStep ==
    ASSUME Places, Running, [Next]_vars
    PROVE  Places'
<1>1. CASE UNCHANGED vars
    BY <1>1 DEF Places, vars, history
<1>2. ASSUME TestFramework
      PROVE  Places'
  <2>1. UNCHANGED <<active_test, frames, macros>>
      BY <1>2 DEF TestFramework, history
  <2>2. CASE pc' = "exited" /\ UNCHANGED <<options, at>>
      BY <2>1, <2>2 DEF Places
  <2>3. ASSUME NEW f \in Filters, NEW r \in BOOLEAN, NEW n \in RepeatTimes,
               options' = [execute_test |-> f, return_on_fail |-> r, repeat_times |-> n],
               at' = [at EXCEPT !.run = n], pc' = "loop"
        PROVE  Places'
    <3>1. n \in Int
        BY TestingSuiteAssumption
    <3> QED
        BY <2>1, <2>3, <3>1 DEF Places
  <2> QED
      BY <1>2, <2>2, <2>3 DEF TestFramework
<1>3. ASSUME Loops
      PROVE  Places'
  <2>1. UNCHANGED <<options, active_test, frames, macros>> /\ pc' \in {"loop", "ran"}
      BY <1>3 DEF Loops, history
  <2>2. /\ at = [suite |-> at.suite, run |-> at.run, test |-> at.test]
        /\ at.suite \in Nat \ {0} /\ at.run \in Int /\ at.test \in Nat \ {0}
        /\ options.repeat_times \in Int
      BY Counters
  <2>3. at' \in [suite : Nat \ {0}, run : Int, test : Nat \ {0}]
    <3>1. \/ at' = [at EXCEPT !.test = @ + 1]
          \/ at' = [at EXCEPT !.run = @ - 1, !.test = 1]
          \/ at' = [suite |-> at.suite + 1, run |-> options.repeat_times, test |-> 1]
          \/ at' = at
        BY <1>3 DEF Loops
    <3>2. CASE at' = [at EXCEPT !.test = @ + 1]
      <4>1. at' = [suite |-> at.suite, run |-> at.run, test |-> at.test + 1]
          BY <2>2, <3>2
      <4> QED
          BY <2>2, <4>1
    <3>3. CASE at' = [at EXCEPT !.run = @ - 1, !.test = 1]
      <4>1. at' = [suite |-> at.suite, run |-> at.run - 1, test |-> 1]
          BY <2>2, <3>3
      <4> QED
          BY <2>2, <4>1
    <3>4. CASE at' = [suite |-> at.suite + 1, run |-> options.repeat_times, test |-> 1]
        BY <2>2, <3>4
    <3>5. CASE at' = at
        BY <3>5 DEF Places
    <3> QED
        BY <3>1, <3>2, <3>3, <3>4, <3>5
  <2> QED
      BY <2>1, <2>3 DEF Places
<1>4. ASSUME StartTest
      PROVE  Places'
  <2>1. UNCHANGED <<options, at, macros>> /\ pc' \in {"body", "terminated"}
      BY <1>4 DEF StartTest, history
  <2>2. active_test' \in Test
      BY <1>4, TestsHavePlaces DEF StartTest, InRound, InSuites, Chosen
  <2>3. frames' \in Seq(AFrame)
    <3>1. options.return_on_fail \in BOOLEAN
        BY DEF Places
    <3> DEFINE f == [do_checks |-> TRUE, return_on_fail |-> options.return_on_fail]
    <3>2. f \in AFrame
        BY <3>1 DEF AFrame
    <3>3. frames' = <<f>> \/ frames' = frames
        BY <1>4 DEF StartTest
    <3>4. frames \in Seq(AFrame)
        BY DEF Places
    <3> HIDE DEF f
    <3>5. <<f>> \in Seq(AFrame)
        BY <3>2
    <3> QED
        BY <3>3, <3>4, <3>5
  <2> QED
      BY <2>1, <2>2, <2>3 DEF Places
<1>5. ASSUME Body
      PROVE  Places'
    BY <1>5, BodyCases DEF Places
<1>6. ASSUME EndTest
      PROVE  Places'
  <2>1. UNCHANGED <<options, frames, macros>> /\ pc' \in {"loop", "terminated"}
      BY <1>6 DEF EndTest
  <2>2. \/ active_test' = NoTest /\ at' = [at EXCEPT !.test = @ + 1]
        \/ UNCHANGED <<active_test, at>>
      BY <1>6 DEF EndTest
  <2> QED
      BY <2>1, <2>2 DEF Places
<1>7. ASSUME show_result_overview
      PROVE  Places'
    BY <1>7 DEF Places, show_result_overview, history
<1> QED
    BY <1>1, <1>2, <1>3, <1>4, <1>5, <1>6, <1>7 DEF Next

(* The method that runs is that of the test the loops have come to.        *)
LEMMA RunningStep ==
    ASSUME Places, Data, Running, [Next]_vars
    PROVE  Running'
<1>1. CASE UNCHANGED vars
    BY <1>1 DEF Running, vars, InRound, InSuites, Chosen
<1>2. CASE pc' # "body"
    BY <1>2 DEF Running
<1>3. ASSUME StartTest, pc' = "body"
      PROVE  Running'
  <2>1. /\ InRound /\ Chosen \in options.execute_test /\ active_test' = Chosen
        /\ res' = [res EXCEPT ![Chosen].run = TRUE, ![Chosen].timer = Start(@)]
        /\ UNCHANGED <<options, at>>
      BY <1>3 DEF StartTest
  <2>2. Chosen \in Test
      BY <2>1, TestsHavePlaces DEF InRound, InSuites, Chosen
  <2>3. InRound' /\ Chosen' = Chosen
      BY <2>1 DEF InRound, InSuites, Chosen
  <2>4. res'[Chosen].run
    <3> HIDE DEF Chosen
    <3> DEFINE one == [res[Chosen] EXCEPT !.run = TRUE]
               two == [one EXCEPT !.timer = Start(one.timer)]
    <3>1. res'[Chosen] = two
        BY <2>1, <2>2 DEF Data
    <3>2. res[Chosen] \in Result
        BY <2>2 DEF Data
    <3> QED
        BY <3>1, <3>2 DEF Result
  <2> QED
      BY <2>1, <2>3, <2>4 DEF Running
<1>4. ASSUME Body
      PROVE  Running'
  <2>1. pc = "body" /\ UNCHANGED <<options, active_test, pc, at>>
      BY <1>4, BodyCases
  <2>2. InRound /\ Chosen \in options.execute_test /\ active_test = Chosen /\ res[Chosen].run
      BY <2>1 DEF Running
  <2>3. InRound' /\ Chosen' = Chosen
      BY <2>1, <2>2 DEF InRound, InSuites, Chosen
  <2>4. res'[Chosen].run
    <3>1. active_test \in Test /\ res[active_test] \in Result
        BY <2>2, TestsHavePlaces DEF InRound, InSuites, Chosen, Data
    <3>2. ASSUME NEW b \in BOOLEAN, NEW text \in BOOLEAN, Checked(b, text)
          PROVE  res'[active_test].run
        BY <2>2, <3>1, <3>2 DEF Checked, add_check, Data, Result
    <3>3. ASSUME NEW text \in BOOLEAN, Noted(text)
          PROVE  res'[active_test].run
        BY <2>2, <3>1, <3>3 DEF Noted, add_details, Data, Result
    <3>4. Silent => res'[active_test].run
        BY <2>2 DEF Silent
    <3> QED
        BY <1>4, <2>2, <3>2, <3>3, <3>4, BodyCases
  <2> QED
      BY <2>1, <2>2, <2>3, <2>4 DEF Running
<1>5. pc' = "body" => UNCHANGED vars \/ StartTest \/ Body
    BY DEF Next, TestFramework, Loops, EndTest, show_result_overview
<1> QED
    BY <1>1, <1>2, <1>3, <1>4, <1>5

-----------------------------------------------------------------------------
(* What a step does to the test the loops have come to, and to no other.   *)
Others ==
    /\ res' \in [Test -> Result] /\ said' \in [Test -> Said]
    /\ \A t \in Test : t # Chosen => res'[t] = res[t] /\ said'[t] = said[t]

(* The test of the loops is one.                                           *)
LEMMA ChosenIsATest ==
    ASSUME InRound
    PROVE  Chosen \in Test /\ at.suite \in DOMAIN TestSuites
    BY TestsHavePlaces DEF InRound, InSuites, Chosen

(* A check: the result, the details and the counters.                      *)
LEMMA CheckedChanges ==
    ASSUME Data, InRound, active_test = Chosen, NEW b \in BOOLEAN, NEW text \in BOOLEAN,
           Checked(b, text)
    PROVE  /\ Others
           /\ res'[Chosen].timer = res[Chosen].timer /\ res'[Chosen].run = res[Chosen].run
           /\ res'[Chosen].runtimes = res[Chosen].runtimes
           /\ res'[Chosen].result = (res[Chosen].result /\ b)
           /\ res'[Chosen].details = (res[Chosen].details \/ ~ b \/ text)
           /\ said'[Chosen].bad = IF b THEN said[Chosen].bad ELSE said[Chosen].bad + 1
           /\ said'[Chosen].good + said'[Chosen].bad = said[Chosen].good + said[Chosen].bad + 1
           /\ check_count' = [check_count EXCEPT ![at.suite] = check_count[at.suite] + 1]
<1> DEFINE c == Chosen
           old == res[c]
           new == [old EXCEPT !.result = old.result /\ b, !.details = old.details \/ ~ b \/ text]
           told == said[c]
           tell == IF b THEN [told EXCEPT !.good = told.good + 1]
                        ELSE [told EXCEPT !.bad = told.bad + 1]
<1>1. c \in Test
    BY ChosenIsATest
<1>2. old \in Result /\ told \in Said
    BY <1>1 DEF Data
<1>3. res' = [res EXCEPT ![c] = new]
  <2>1. res' = [res EXCEPT ![c].result = old.result /\ b,
                           ![c].details = old.details \/ ~ b \/ text]
      BY <1>1 DEF Checked, add_check, Data, Result
  <2> QED
      BY <1>1, <2>1 DEF Data
<1>4. said' = [said EXCEPT ![c] = tell]
    BY <1>1 DEF Checked, Say, Data
<1> HIDE DEF c, old, told
<1>5. /\ new \in Result /\ new.timer = old.timer /\ new.run = old.run
      /\ new.runtimes = old.runtimes
      /\ new.result = (old.result /\ b) /\ new.details = (old.details \/ ~ b \/ text)
    BY <1>2 DEF Result
<1>6. /\ tell \in Said /\ tell.bad = IF b THEN told.bad ELSE told.bad + 1
      /\ tell.good + tell.bad = told.good + told.bad + 1
    BY <1>2 DEF Said
<1>7. check_count' = [check_count EXCEPT ![at.suite] = check_count[at.suite] + 1]
    BY DEF Checked, add_check
<1> HIDE DEF new, tell
<1>8. res' \in [Test -> Result] /\ res'[c] = new /\ \A t \in Test : t # c => res'[t] = res[t]
    BY <1>1, <1>3, <1>5 DEF Data
<1>9. said' \in [Test -> Said] /\ said'[c] = tell /\ \A t \in Test : t # c => said'[t] = said[t]
    BY <1>1, <1>4, <1>6 DEF Data
<1>10. Others
    BY <1>8, <1>9 DEF Others, c
<1> QED
    BY <1>5, <1>6, <1>7, <1>8, <1>9, <1>10 DEF c, old, told

(* A line more in the details, or an exception.                            *)
LEMMA NotedChanges ==
    ASSUME Data, InRound, active_test = Chosen, NEW text \in BOOLEAN, Noted(text)
    PROVE  /\ Others
           /\ res'[Chosen].timer = res[Chosen].timer /\ res'[Chosen].run = res[Chosen].run
           /\ res'[Chosen].runtimes = res[Chosen].runtimes
           /\ res'[Chosen].result = res[Chosen].result
           /\ res'[Chosen].details = (res[Chosen].details \/ text)
           /\ said'[Chosen].bad = said[Chosen].bad /\ said'[Chosen].good = said[Chosen].good
           /\ check_count' = check_count
<1> DEFINE c == Chosen
           old == res[c]
           new == [old EXCEPT !.details = old.details \/ text]
           told == said[c]
           tell == [told EXCEPT !.threw = told.threw + 1]
<1>1. c \in Test
    BY ChosenIsATest
<1>2. old \in Result /\ told \in Said
    BY <1>1 DEF Data
<1>3. res' = [res EXCEPT ![c] = new] /\ check_count' = check_count
    BY <1>1 DEF Noted, add_details, Data
<1>4. said' = said \/ said' = [said EXCEPT ![c] = tell]
    BY <1>1 DEF Noted, Say, Data
<1> HIDE DEF c, old, told
<1>5. /\ new \in Result /\ new.timer = old.timer /\ new.run = old.run
      /\ new.runtimes = old.runtimes
      /\ new.result = old.result /\ new.details = (old.details \/ text)
    BY <1>2 DEF Result
<1>6. tell \in Said /\ tell.bad = told.bad /\ tell.good = told.good
    BY <1>2 DEF Said
<1> HIDE DEF new, tell
<1>8. res' \in [Test -> Result] /\ res'[c] = new /\ \A t \in Test : t # c => res'[t] = res[t]
    BY <1>1, <1>3, <1>5 DEF Data
<1>9. /\ said' \in [Test -> Said] /\ \A t \in Test : t # c => said'[t] = said[t]
      /\ said'[c].bad = told.bad /\ said'[c].good = told.good
  <2>1. CASE said' = said
      BY <2>1 DEF Data, told
  <2>2. CASE said' = [said EXCEPT ![c] = tell]
      BY <1>1, <1>6, <2>2 DEF Data
  <2> QED
      BY <1>4, <2>1, <2>2
<1>10. Others
    BY <1>8, <1>9 DEF Others, c
<1> QED
    BY <1>3, <1>5, <1>8, <1>9, <1>10 DEF c, old, told

(* A test is started, or setup() throws.                                   *)
LEMMA StartChanges ==
    ASSUME Data, InRound, StartTest
    PROVE  /\ Others /\ UNCHANGED <<said, took, shown, check_count>>
           /\ res'[Chosen].run
           /\ res'[Chosen].result = res[Chosen].result
           /\ res'[Chosen].details = res[Chosen].details
           /\ res'[Chosen].runtimes = res[Chosen].runtimes
           /\ res'[Chosen].timer.passed_us = res[Chosen].timer.passed_us
           /\ res'[Chosen].timer.active = (pc' = "body" \/ res[Chosen].timer.active)
<1> DEFINE c == Chosen
           old == res[c]
           ran == [old EXCEPT !.run = TRUE]
           timer == [old.timer EXCEPT !.active = TRUE]
           new == [ran EXCEPT !.timer = timer]
<1>1. c \in Test
    BY ChosenIsATest
<1>2. old \in Result
    BY <1>1 DEF Data
<1>3. UNCHANGED <<said, took, shown, check_count>>
    BY DEF StartTest, history
<1>4. \/ pc' = "body" /\ res' = [res EXCEPT ![c].run = TRUE, ![c].timer = Start(@)]
      \/ pc' = "terminated" /\ res' = [res EXCEPT ![c].run = TRUE]
    BY DEF StartTest
<1> HIDE DEF c
<1>5. ran \in Result /\ ran.run /\ ran.timer = old.timer /\ ran.result = old.result
      /\ ran.details = old.details /\ ran.runtimes = old.runtimes
    BY <1>2 DEF Result
<1>6. \/ pc' = "body" /\ res' = [res EXCEPT ![c] = new]
      \/ pc' = "terminated" /\ res' = [res EXCEPT ![c] = ran]
  <2>1. CASE pc' = "body" /\ res' = [res EXCEPT ![c].run = TRUE, ![c].timer = Start(@)]
    <3>1. res' = [res EXCEPT ![c] = [ran EXCEPT !.timer = Start(ran.timer)]]
        BY <1>1, <2>1 DEF Data
    <3>2. Start(ran.timer) = timer
        BY <1>5 DEF Start
    <3> QED
        BY <2>1, <3>1, <3>2
  <2>2. CASE pc' = "terminated" /\ res' = [res EXCEPT ![c].run = TRUE]
      BY <1>1, <2>2 DEF Data
  <2> QED
      BY <1>4, <2>1, <2>2
<1>7. old.timer \in Timer
    BY <1>2 DEF Result
<1>8. timer \in Timer /\ timer.passed_us = old.timer.passed_us /\ timer.active
    BY <1>7 DEF Timer
<1> HIDE DEF old, timer, ran
<1>9. new \in Result /\ new.run /\ new.timer = timer /\ new.result = old.result
      /\ new.details = old.details /\ new.runtimes = old.runtimes
    BY <1>5, <1>8 DEF Result
<1> HIDE DEF new
<1>10. /\ res' \in [Test -> Result] /\ \A t \in Test : t # c => res'[t] = res[t]
       /\ \/ pc' = "body" /\ res'[c] = new
          \/ pc' = "terminated" /\ res'[c] = ran
    BY <1>1, <1>5, <1>6, <1>9 DEF Data
<1>11. Others
    BY <1>3, <1>10 DEF Others, c, Data
<1>12. /\ res'[c].run /\ res'[c].result = old.result /\ res'[c].details = old.details
       /\ res'[c].runtimes = old.runtimes
       /\ res'[c].timer.passed_us = old.timer.passed_us
    BY <1>5, <1>8, <1>9, <1>10
<1>13. res'[c].timer.active = (pc' = "body" \/ old.timer.active)
  <2>1. CASE pc' = "body" /\ res'[c] = new
      BY <1>8, <1>9, <2>1 DEF Timer
  <2>2. CASE pc' = "terminated" /\ res'[c] = ran
    <3>1. pc' # "body" /\ res'[c].timer.active = old.timer.active
        BY <1>5, <2>2
    <3>2. old.timer.active \in BOOLEAN
        BY <1>7 DEF Timer
    <3> QED
        BY <3>1, <3>2
  <2> QED
      BY <1>10, <2>1, <2>2
<1> QED
    BY <1>3, <1>11, <1>12, <1>13 DEF c, old

(* The time of a round is a number, and no more than that of all.          *)
LEMMA RuntimeFits ==
    ASSUME NEW r \in Result, r.runtimes # <<>> => Last(r.runtimes) <= r.timer.passed_us
    PROVE  Runtime(r) \in Nat /\ Runtime(r) <= r.timer.passed_us
<1> DEFINE k == Len(r.runtimes)
           last == r.runtimes[k]
<1>1. r.runtimes \in Seq(Nat) /\ r.timer.passed_us \in Nat
    BY DEF Result, Timer
<1>2. k \in Nat /\ (r.runtimes # <<>> => last \in Nat)
    BY <1>1
<1>3. r.runtimes # <<>> => last <= r.timer.passed_us
    BY DEF Last
<1>4. Runtime(r) = IF r.runtimes = <<>> THEN r.timer.passed_us ELSE r.timer.passed_us - last
    BY DEF Runtime, DiffUs, Last
<1> HIDE DEF last
<1> QED
    BY <1>1, <1>2, <1>3, <1>4

(* A round of us microseconds is noted.                                    *)
RoundNoted(old, new, us) ==
    /\ new.timer.passed_us = old.timer.passed_us + us
    /\ new.runtimes = Append(old.runtimes, IF old.runtimes = <<>> THEN new.timer.passed_us
                                           ELSE new.timer.passed_us - Last(old.runtimes))

RoundEnds == \E us \in Nat :
    /\ took' = [took EXCEPT ![Chosen] = Append(took[Chosen], us)]
    /\ pc' # "terminated" => RoundNoted(res[Chosen], res'[Chosen], us)

(* A test ends, with its timer stopped, and its time noted if tear_down()  *)
(* does not throw.                                                         *)
LEMMA EndChanges ==
    ASSUME Data, TimesFit, InRound, EndTest
    PROVE  /\ Others /\ UNCHANGED <<options, said, check_count, overview>>
           /\ took' \in [Test -> Seq(Nat)] /\ RoundEnds
           /\ res'[Chosen].run = res[Chosen].run
           /\ res'[Chosen].result = res[Chosen].result
           /\ res'[Chosen].details = res[Chosen].details
           /\ ~ res'[Chosen].timer.active
           /\ res'[Chosen].runtimes # <<>> =>
                 Last(res'[Chosen].runtimes) <= res'[Chosen].timer.passed_us
           /\ \/ /\ pc' = "loop" /\ active_test' = NoTest /\ at' = [at EXCEPT !.test = @ + 1]
                 /\ shown' = IF at.run = 1
                             THEN [shown EXCEPT ![Chosen] = Append(@, Show(res'[Chosen]))]
                             ELSE shown
              \/ pc' = "terminated" /\ UNCHANGED <<at, active_test, shown>>
<1> DEFINE c == Chosen
           old == res[c]
<1>1. c \in Test
    BY ChosenIsATest
<1>2. old \in Result
    BY <1>1 DEF Data
<1>3. PICK us \in Durations :
         LET stopped == [old EXCEPT !.timer = Stop(@, us)]
             done    == [stopped EXCEPT !.runtimes = Append(@, Runtime(stopped))] IN
         /\ took' = [took EXCEPT ![c] = Append(@, us)]
         /\ \/ /\ res' = [res EXCEPT ![c] = done]
               /\ shown' = IF at.run = 1 THEN [shown EXCEPT ![c] = Append(@, Show(done))]
                                         ELSE shown
               /\ active_test' = NoTest
               /\ pc' = "loop" /\ at' = [at EXCEPT !.test = @ + 1]
            \/ /\ res' = [res EXCEPT ![c] = stopped]
               /\ pc' = "terminated"
               /\ UNCHANGED <<shown, active_test, at>>
    BY DEF EndTest
<1> DEFINE timer == Stop(old.timer, us)
           stopped == [old EXCEPT !.timer = timer]
           runtime == Runtime(stopped)
           done == [stopped EXCEPT !.runtimes = Append(stopped.runtimes, runtime)]
<1>4. us \in Nat
    BY TestingSuiteAssumption
<1>5. UNCHANGED <<options, said, check_count, overview>>
    BY DEF EndTest
<1>6. /\ took' = [took EXCEPT ![c] = Append(took[c], us)]
      /\ \/ /\ res' = [res EXCEPT ![c] = done]
            /\ shown' = IF at.run = 1 THEN [shown EXCEPT ![c] = Append(@, Show(done))]
                                      ELSE shown
            /\ active_test' = NoTest
            /\ pc' = "loop" /\ at' = [at EXCEPT !.test = @ + 1]
         \/ /\ res' = [res EXCEPT ![c] = stopped]
            /\ pc' = "terminated"
            /\ UNCHANGED <<shown, active_test, at>>
    BY <1>3
<1>7. old.runtimes # <<>> => Last(old.runtimes) <= old.timer.passed_us
    BY <1>1 DEF TimesFit
<1> HIDE DEF c, old
<1>8. old.timer \in Timer
    BY <1>2 DEF Result
<1>9. timer \in Timer /\ ~ timer.active /\ timer.passed_us = old.timer.passed_us + us
    BY <1>4, <1>8 DEF Timer, Stop
<1> HIDE DEF timer
<1>10. /\ stopped \in Result /\ stopped.timer = timer /\ stopped.run = old.run
       /\ stopped.result = old.result /\ stopped.details = old.details
       /\ stopped.runtimes = old.runtimes
    BY <1>2, <1>9 DEF Result
<1>11. stopped.runtimes # <<>> => Last(stopped.runtimes) <= stopped.timer.passed_us
  <2> DEFINE last == Last(old.runtimes)
  <2>1. old.runtimes # <<>> => last \in Nat
    <3>1. old.runtimes \in Seq(Nat)
        BY <1>2 DEF Result
    <3> QED
        BY <3>1 DEF Last
  <2>2. old.timer.passed_us \in Nat
      BY <1>8 DEF Timer
  <2>3. old.runtimes # <<>> => last <= old.timer.passed_us
      BY <1>7
  <2> HIDE DEF last
  <2>4. old.runtimes # <<>> => last <= timer.passed_us
      BY <1>4, <1>9, <2>1, <2>2, <2>3
  <2> QED
      BY <1>10, <2>4 DEF last
<1> HIDE DEF stopped
<1>12. runtime \in Nat /\ runtime <= timer.passed_us
    BY <1>10, <1>11, RuntimeFits
<1> HIDE DEF runtime
<1>13. stopped.runtimes \in Seq(Nat)
    BY <1>10 DEF Result
<1>14. /\ Append(stopped.runtimes, runtime) \in Seq(Nat)
       /\ Last(Append(stopped.runtimes, runtime)) = runtime
    BY <1>12, <1>13 DEF Last
<1>15. /\ done \in Result /\ done.timer = timer /\ done.run = old.run
       /\ done.result = old.result /\ done.details = old.details
       /\ done.runtimes = Append(stopped.runtimes, runtime)
    BY <1>10, <1>14 DEF Result
<1> HIDE DEF done
<1>16. PICK new \in {stopped, done} : res' = [res EXCEPT ![c] = new]
    BY <1>6
<1>17. /\ new \in Result /\ new.timer = timer /\ new.run = old.run
       /\ new.result = old.result /\ new.details = old.details
    BY <1>10, <1>15, <1>16
<1>18. new.runtimes # <<>> => Last(new.runtimes) <= new.timer.passed_us
    BY <1>10, <1>11, <1>12, <1>14, <1>15, <1>16
<1>19. res' \in [Test -> Result] /\ res'[c] = new /\ \A t \in Test : t # c => res'[t] = res[t]
    BY <1>1, <1>16, <1>17 DEF Data
<1>20. Others
    BY <1>5, <1>19 DEF Others, c, Data
<1>21. took' \in [Test -> Seq(Nat)]
  <2>1. took \in [Test -> Seq(Nat)]
      BY DEF Data
  <2>2. Append(took[c], us) \in Seq(Nat)
      BY <1>1, <1>4, <2>1
  <2>3. took' = [took EXCEPT ![c] = Append(took[c], us)]
      BY <1>6
  <2> HIDE DEF timer
  <2> QED
      BY <2>1, <2>2, <2>3
<1>22. \/ /\ pc' = "loop" /\ active_test' = NoTest /\ at' = [at EXCEPT !.test = @ + 1]
          /\ shown' = IF at.run = 1
                      THEN [shown EXCEPT ![c] = Append(@, Show(res'[c]))]
                      ELSE shown
       \/ pc' = "terminated" /\ UNCHANGED <<at, active_test, shown>>
  <2>1. CASE res' = [res EXCEPT ![c] = done]
    <3>1. res'[c] = done
        BY <1>1, <2>1 DEF Data
    <3> QED
        BY <1>6, <3>1
  <2>2. CASE pc' = "terminated"
      BY <1>6, <2>2
  <2> QED
      BY <1>6, <2>1, <2>2
<1>23. RoundEnds
  <2>1. took' = [took EXCEPT ![c] = Append(took[c], us)]
      BY <1>6
  <2>2. ASSUME pc' # "terminated"
        PROVE  RoundNoted(old, res'[c], us)
    <3>1. res' = [res EXCEPT ![c] = done]
        BY <1>6, <2>2
    <3>2. res'[c] = done
        BY <1>1, <3>1 DEF Data
    <3>3. runtime = IF old.runtimes = <<>> THEN timer.passed_us
                    ELSE timer.passed_us - Last(old.runtimes)
        BY <1>10 DEF runtime, Runtime, DiffUs
    <3> QED
        BY <1>9, <1>10, <1>15, <3>2, <3>3 DEF RoundNoted
  <2> QED
      BY <1>4, <2>1, <2>2 DEF RoundEnds, c, old
<1> QED
    BY <1>5, <1>9, <1>17, <1>18, <1>19, <1>20, <1>21, <1>22, <1>23 DEF c, old

-----------------------------------------------------------------------------
(* The steps, for what is known of each test.                              *)

(* Only starting a test, its body and its end concern the tests.           *)
LEMMA StepKinds ==
    ASSUME Running, [Next]_vars
    PROVE  \/ /\ UNCHANGED <<res, said, took, shown, check_count, active_test>>
              /\ pc' = pc \/ (pc # "body" /\ pc' # "body")
           \/ StartTest /\ InRound /\ pc = "loop"
           \/ Body /\ InRound /\ active_test = Chosen
           \/ EndTest /\ InRound /\ active_test = Chosen /\ pc = "body"
<1>1. CASE UNCHANGED vars
    BY <1>1 DEF vars, history
<1>2. CASE TestFramework
    BY <1>2 DEF TestFramework, history
<1>3. CASE Loops
    BY <1>3 DEF Loops, history
<1>4. CASE StartTest
    BY <1>4 DEF StartTest
<1>5. CASE Body
  <2>1. pc = "body"
      BY <1>5 DEF Body, CHECK, CHECK_APPROX, CHECK_ITER, CHECK_EXC, PREPARE_WITH, Return, Throw, Macro
  <2> QED
      BY <1>5, <2>1 DEF Running
<1>6. CASE EndTest
    BY <1>6 DEF EndTest, Running
<1>7. CASE show_result_overview
    BY <1>7 DEF show_result_overview, history
<1> QED
    BY <1>1, <1>2, <1>3, <1>4, <1>5, <1>6, <1>7 DEF Next

(* What is known of the tests stays of its types.                          *)
LEMMA DataStep ==
    ASSUME Places, Data, TimesFit, Running, [Next]_vars
    PROVE  Data'
<1>1. CASE UNCHANGED <<res, said, took, shown, check_count>>
    BY <1>1 DEF Data
<1>2. CASE StartTest /\ InRound
    BY <1>2, StartChanges DEF Data, Others
<1>3. CASE Body /\ InRound /\ active_test = Chosen
  <2>1. UNCHANGED <<took, shown>>
      BY <1>3, BodyCases
  <2>2. ASSUME NEW b \in BOOLEAN, NEW text \in BOOLEAN, Checked(b, text)
        PROVE  Data'
    <3>1. Others /\ check_count' = [check_count EXCEPT ![at.suite] = check_count[at.suite] + 1]
        BY <1>3, <2>2, CheckedChanges
    <3>2. check_count' \in [DOMAIN TestSuites -> Nat]
      <4>1. check_count \in [DOMAIN TestSuites -> Nat]
          BY DEF Data
      <4>2. at.suite \in DOMAIN TestSuites
          BY <1>3, ChosenIsATest
      <4>3. check_count[at.suite] + 1 \in Nat
          BY <4>1, <4>2
      <4> QED
          BY <3>1, <4>1, <4>2, <4>3
    <3> QED
        BY <2>1, <3>1, <3>2 DEF Data, Others
  <2>3. ASSUME NEW text \in BOOLEAN, Noted(text)
        PROVE  Data'
    <3>1. Others /\ check_count' = check_count
        BY <1>3, <2>3, NotedChanges
    <3> QED
        BY <2>1, <3>1 DEF Data, Others
  <2>4. Silent => Data'
      BY <2>1 DEF Silent, Data
  <2> QED
      BY <1>3, <2>2, <2>3, <2>4, BodyCases
<1>4. CASE EndTest /\ InRound
  <2>1. /\ Others /\ check_count' = check_count /\ took' \in [Test -> Seq(Nat)]
        /\ \/ shown' = shown
           \/ shown' = [shown EXCEPT ![Chosen] = Append(@, Show(res'[Chosen]))]
      BY <1>4, EndChanges, Zenon
  <2>2. DOMAIN shown' = Test
      BY <2>1 DEF Data
  <2> QED
      BY <2>1, <2>2 DEF Data, Others
<1> QED
    BY <1>1, <1>2, <1>3, <1>4, StepKinds

(* A timer runs while the method of its test does.                         *)
LEMMA TimersStep ==
    ASSUME Places, Data, TimesFit, Running, TimersRun, [Next]_vars
    PROVE  TimersRun'
<1> SUFFICES ASSUME NEW t \in Test
             PROVE  res'[t].timer.active <=> pc' = "body" /\ active_test' = t
    BY DEF TimersRun
<1>0. res[t].timer.active <=> pc = "body" /\ active_test = t
    BY DEF TimersRun
<1>1. CASE /\ UNCHANGED <<res, active_test>>
           /\ pc' = pc \/ (pc # "body" /\ pc' # "body")
    BY <1>0, <1>1
<1>2. CASE StartTest /\ InRound /\ pc = "loop"
  <2>1. /\ ~ res[t].timer.active /\ active_test' = Chosen
        /\ pc' \in {"body", "terminated"}
      BY <1>0, <1>2 DEF StartTest
  <2>2. CASE t = Chosen
    <3>1. res'[t].timer.active = (pc' = "body" \/ res[t].timer.active)
        BY <1>2, <2>2, StartChanges
    <3> QED
        BY <2>1, <2>2, <3>1
  <2>3. CASE t # Chosen
    <3>1. res'[t] = res[t]
        BY <1>2, <2>3, StartChanges DEF Others
    <3> QED
        BY <2>1, <2>3, <3>1
  <2> QED
      BY <2>2, <2>3
<1>3. CASE Body /\ InRound /\ active_test = Chosen
  <2>1. UNCHANGED <<pc, active_test>>
      BY <1>3, BodyCases
  <2>2. ASSUME NEW b \in BOOLEAN, NEW text \in BOOLEAN, Checked(b, text)
        PROVE  res'[t].timer = res[t].timer
      BY <1>3, <2>2, CheckedChanges DEF Others
  <2>3. ASSUME NEW text \in BOOLEAN, Noted(text)
        PROVE  res'[t].timer = res[t].timer
      BY <1>3, <2>3, NotedChanges DEF Others
  <2>4. Silent => res'[t].timer = res[t].timer
      BY DEF Silent
  <2>5. res'[t].timer = res[t].timer
      BY <1>3, <2>2, <2>3, <2>4, BodyCases
  <2> QED
      BY <1>0, <2>1, <2>5
<1>4. CASE EndTest /\ InRound /\ active_test = Chosen /\ pc = "body"
  <2>1. pc' # "body"
      BY <1>4 DEF EndTest
  <2>2. CASE t = Chosen
    <3>1. ~ res'[t].timer.active
        BY <1>4, <2>2, EndChanges
    <3> QED
        BY <2>1, <3>1
  <2>3. CASE t # Chosen
    <3>1. res'[t] = res[t]
        BY <1>4, <2>3, EndChanges DEF Others
    <3> QED
        BY <1>0, <1>4, <2>1, <2>3, <3>1
  <2> QED
      BY <2>2, <2>3
<1> QED
    BY <1>1, <1>2, <1>3, <1>4, StepKinds

(* The time noted last is one of those added up.                           *)
LEMMA TimesStep ==
    ASSUME Places, Data, TimesFit, Running, [Next]_vars
    PROVE  TimesFit'
<1> DEFINE Fits(r) == r.runtimes # <<>> => Last(r.runtimes) <= r.timer.passed_us
<1> SUFFICES ASSUME NEW t \in Test PROVE Fits(res'[t])
    BY DEF TimesFit
<1>0. Fits(res[t])
    BY DEF TimesFit
<1>1. ASSUME res'[t].runtimes = res[t].runtimes,
             res'[t].timer.passed_us = res[t].timer.passed_us
      PROVE  Fits(res'[t])
    BY <1>0, <1>1
<1>2. CASE UNCHANGED res
    BY <1>0, <1>2
<1>3. CASE StartTest /\ InRound
    BY <1>1, <1>3, StartChanges DEF Others
<1>4. CASE Body /\ InRound /\ active_test = Chosen
  <2>1. ASSUME NEW b \in BOOLEAN, NEW text \in BOOLEAN, Checked(b, text)
        PROVE  Fits(res'[t])
      BY <1>1, <1>4, <2>1, CheckedChanges DEF Others
  <2>2. ASSUME NEW text \in BOOLEAN, Noted(text)
        PROVE  Fits(res'[t])
      BY <1>1, <1>4, <2>2, NotedChanges DEF Others
  <2>3. Silent => Fits(res'[t])
      BY <1>2 DEF Silent
  <2> QED
      BY <1>4, <2>1, <2>2, <2>3, BodyCases
<1>5. CASE EndTest /\ InRound
  <2>1. CASE t = Chosen
      BY <1>5, <2>1, EndChanges
  <2>2. CASE t # Chosen
      BY <1>1, <1>5, <2>2, EndChanges DEF Others
  <2> QED
      BY <2>1, <2>2
<1> QED
    BY <1>2, <1>3, <1>4, <1>5, StepKinds

(* A result is bad as soon as a check was, and its details tell of it.     *)
LEMMA RatedStep ==
    ASSUME Places, Data, TimesFit, Running, \A t \in Test : Rated(t), [Next]_vars
    PROVE  \A t \in Test : Rated(t)'
<1> SUFFICES ASSUME NEW t \in Test PROVE Rated(t)'
    OBVIOUS
<1>0. Rated(t)
    OBVIOUS
<1>1. ASSUME res'[t].result = res[t].result, res[t].run => res'[t].run,
             res[t].details => res'[t].details, said'[t].bad = said[t].bad
      PROVE  Rated(t)'
    BY <1>0, <1>1 DEF Rated
<1>2. CASE UNCHANGED <<res, said>>
    BY <1>0, <1>2 DEF Rated
<1>3. CASE t # Chosen /\ Others
    BY <1>0, <1>3 DEF Others, Rated
<1>4. CASE t = Chosen /\ StartTest /\ InRound
    BY <1>1, <1>4, StartChanges
<1>5. CASE t = Chosen /\ EndTest /\ InRound
    BY <1>1, <1>5, EndChanges
<1>6. CASE t = Chosen /\ Body /\ InRound /\ active_test = Chosen
  <2>1. ASSUME NEW b \in BOOLEAN, NEW text \in BOOLEAN, Checked(b, text)
        PROVE  Rated(t)'
    <3>1. /\ res'[t].run = res[t].run
          /\ res'[t].result = (res[t].result /\ b)
          /\ res'[t].details = (res[t].details \/ ~ b \/ text)
          /\ said'[t].bad = IF b THEN said[t].bad ELSE said[t].bad + 1
        BY <1>6, <2>1, CheckedChanges
    <3>2. CASE b
      <4>1. res[t].result \in BOOLEAN
          BY DEF Data, Result
      <4>2. res'[t].result = res[t].result
          BY <3>1, <3>2, <4>1
      <4>3. (res[t].run => res'[t].run) /\ (res[t].details => res'[t].details)
          BY <3>1
      <4>4. said'[t].bad = said[t].bad
          BY <3>1, <3>2
      <4> QED
          BY <1>1, <4>2, <4>3, <4>4
    <3>3. CASE ~ b
      <4>1. res[t].run
          BY <1>6, BodyCases DEF Running
      <4>2. said[t].bad \in Nat
          BY DEF Data, Said
      <4>3. said'[t].bad > 0
          BY <3>1, <3>3, <4>2
      <4>4. said'[t].bad # 0
          BY <3>1, <3>3, <4>2
      <4>5. ~ res'[t].result /\ res'[t].run /\ res'[t].details
          BY <3>1, <3>3, <4>1
      <4> QED
          BY <4>3, <4>4, <4>5 DEF Rated
    <3> QED
        BY <3>2, <3>3
  <2>2. ASSUME NEW text \in BOOLEAN, Noted(text)
        PROVE  Rated(t)'
      BY <1>1, <1>6, <2>2, NotedChanges
  <2>3. Silent => Rated(t)'
      BY <1>2 DEF Silent
  <2> QED
      BY <1>6, <2>1, <2>2, <2>3, BodyCases
<1>7. StartTest /\ InRound => Others
    BY StartChanges
<1>8. EndTest /\ InRound => Others
    BY EndChanges
<1>9. Body /\ InRound /\ active_test = Chosen => Others \/ UNCHANGED <<res, said>>
    BY BodyCases, CheckedChanges, NotedChanges DEF Silent
<1> QED
    BY <1>2, <1>3, <1>4, <1>5, <1>6, <1>7, <1>8, <1>9, StepKinds

-----------------------------------------------------------------------------
(* The counters.                                                           *)

(* The counters of the suites are those of the tests' checks together.     *)
LEMMA CountedStep ==
    ASSUME Places, Data, TimesFit, Running, Counted, [Next]_vars
    PROVE  Counted'
<1> DEFINE Suites == DOMAIN TestSuites
<1>0. IsFiniteSet(Test) /\ IsFiniteSet(Suites)
    BY TestsAreFinite
<1>1. /\ check_count \in [Suites -> Nat] /\ said \in [Test -> Said]
      /\ \A t \in Test : said[t].good \in Nat /\ said[t].bad \in Nat
    BY DEF Data, Said
<1>2. ASSUME \A t \in Test : said'[t].good = said[t].good /\ said'[t].bad = said[t].bad,
             UNCHANGED check_count
      PROVE  Counted'
  <2>1. Checks' = Checks
      BY <1>2 DEF Checks
  <2> QED
      BY <1>2, <2>1 DEF Counted
<1>3. CASE UNCHANGED <<said, check_count>>
    BY <1>2, <1>3
<1>4. ASSUME InRound, active_test = Chosen, NEW text \in BOOLEAN, Noted(text)
      PROVE  Counted'
    BY <1>2, <1>4, NotedChanges DEF Others
<1>5. ASSUME InRound, active_test = Chosen, NEW b \in BOOLEAN, NEW text \in BOOLEAN,
             Checked(b, text)
      PROVE  Counted'
  <2> DEFINE s == at.suite
             c == Chosen
             new == [check_count EXCEPT ![s] = check_count[s] + 1]
             more == [t \in Test |-> said'[t].good + said'[t].bad]
  <2>1. /\ \A t \in Test : t # c => said'[t] = said[t]
        /\ said'[c].good + said'[c].bad = said[c].good + said[c].bad + 1
        /\ check_count' = new /\ said' \in [Test -> Said]
      BY <1>5, CheckedChanges DEF Others
  <2>2. c \in Test /\ s \in Suites
      BY <1>5, ChosenIsATest
  <2> HIDE DEF s, c, Suites
  <2>3. /\ DOMAIN new = Suites /\ DOMAIN check_count = Suites
        /\ \A u \in Suites : check_count[u] \in Int /\ new[u] \in Int
        /\ \A u \in Suites \ {s} : new[u] = check_count[u]
        /\ new[s] = check_count[s] + 1
      BY <1>1, <2>2
  <2>4. \A t \in Test : said'[t].good \in Nat /\ said'[t].bad \in Nat
      BY <2>1 DEF Said
  <2>5. /\ DOMAIN more = Test /\ DOMAIN Checks = Test
        /\ \A t \in Test : Checks[t] \in Int /\ more[t] \in Int
        /\ \A t \in Test \ {c} : more[t] = Checks[t]
        /\ more[c] = Checks[c] + 1
      BY <1>1, <2>1, <2>2, <2>4 DEF Checks
  <2>6. Checks' = more
      BY DEF Checks
  <2> HIDE DEF new, more
  <2>7. SumFunctionOnSet(new, Suites) = SumFunctionOnSet(check_count, Suites) - check_count[s] + new[s]
      BY <1>0, <2>2, <2>3, SumOfChanged
  <2>8. SumFunctionOnSet(more, Test) = SumFunctionOnSet(Checks, Test) - Checks[c] + more[c]
      BY <1>0, <2>2, <2>5, SumOfChanged
  <2>9. /\ SumFunctionOnSet(check_count, Suites) \in Int
        /\ SumFunctionOnSet(Checks, Test) \in Int
    <3>1. IsSum(check_count, Suites)
        BY <1>0, <2>3, SumOfIntegers
    <3>2. IsSum(Checks, Test)
        BY <1>0, <2>5, SumOfIntegers
    <3> QED
        BY <3>1, <3>2 DEF IsSum
  <2>10. SumFunctionOnSet(check_count, Suites) = SumFunctionOnSet(Checks, Test)
      BY <2>3, <2>5 DEF Counted, SumFunction
  <2>11. SumFunctionOnSet(new, Suites) = SumFunctionOnSet(more, Test)
    <3>1. check_count[s] \in Int /\ Checks[c] \in Int
        BY <2>2, <2>3, <2>5
    <3> QED
        BY <2>3, <2>5, <2>7, <2>8, <2>9, <2>10, <3>1
  <2>12. SumFunction(check_count') = SumFunction(Checks')
      BY <2>1, <2>3, <2>5, <2>6, <2>11 DEF SumFunction
  <2> QED
      BY <2>12 DEF Counted
<1>6. StartTest /\ InRound => UNCHANGED <<said, check_count>>
    BY StartChanges
<1>7. EndTest /\ InRound => UNCHANGED <<said, check_count>>
    BY EndChanges
<1>8. Body /\ InRound /\ active_test = Chosen => Counted'
    BY <1>3, <1>4, <1>5, BodyCases DEF Silent
<1> QED
    BY <1>3, <1>6, <1>7, <1>8, StepKinds

-----------------------------------------------------------------------------
(* The loops.                                                              *)

(* A test has one place.                                                   *)
LEMMA PlacesAreDistinct ==
    ASSUME InRound, NEW s \in DOMAIN TestSuites, NEW i \in DOMAIN TestSuites[s],
           s # at.suite \/ i # at.test
    PROVE  TestSuites[s][i] \in Test /\ TestSuites[s][i] # Chosen
<1>1. at.suite \in DOMAIN TestSuites /\ at.test \in DOMAIN TestSuites[at.suite]
    BY DEF InRound, InSuites
<1>2. TestSuites[s][i] = TestSuites[at.suite][at.test] => s = at.suite /\ i = at.test
    BY <1>1, TestingSuiteAssumption DEF TestsAreDistinct
<1> QED
    BY <1>2, TestsHavePlaces DEF Chosen

(* Whatever happens to the test the loops are at, it is not behind them.   *)
LEMMA ProgressOfChosen ==
    ASSUME Places, Progress, Started, Started', pc' \notin {"ran", "done"}, InRound, Others,
           UNCHANGED <<options, at, shown>>, res'[Chosen].run => Chosen \in Asked
    PROVE  Progress'
<1>1. Asked' = Asked
    BY DEF Asked
<1>2. Countdown'
    BY DEF Progress, Countdown
<1>3. ASSUME NEW s \in DOMAIN TestSuites, NEW i \in DOMAIN TestSuites[s]
      PROVE  ShownOnce(s, i)' /\ RunOnce(s, i)'
  <2>1. ShownOnce(s, i) /\ RunOnce(s, i) /\ (Behind(s, i)' <=> Behind(s, i))
      BY DEF Progress, Behind
  <2>2. CASE s = at.suite /\ i = at.test
    <3>1. TestSuites[s][i] = Chosen
        BY <2>2 DEF Chosen
    <3>2. ~ Behind(s, i)
        BY <2>2, Counters DEF Behind, InRound
    <3>3. shown[Chosen] = <<>>
        BY <2>1, <3>1, <3>2 DEF ShownOnce
    <3> QED
        BY <1>1, <2>1, <3>1, <3>2, <3>3 DEF ShownOnce, RunOnce
  <2>3. CASE s # at.suite \/ i # at.test
    <3>1. res'[TestSuites[s][i]] = res[TestSuites[s][i]]
        BY <2>3, PlacesAreDistinct DEF Others
    <3> QED
        BY <1>1, <2>1, <3>1 DEF ShownOnce, RunOnce
  <2> QED
      BY <2>2, <2>3
<1> QED
    BY <1>2, <1>3 DEF Progress, Started

(* The test that is executed was asked for.                                *)
LEMMA ChosenIsAsked ==
    ASSUME Progress, Started, InRound, Chosen \in options.execute_test
    PROVE  Chosen \in Asked
    BY DEF Progress, Countdown, InRound, Asked

(* The loops go on: what is behind them of the tests asked for stays so.   *)
LEMMA LoopStep ==
    ASSUME Places, Progress, Loops
    PROVE  Progress'
<1>0. /\ UNCHANGED <<options, res, shown>> /\ Started /\ Started' /\ pc = "loop"
      /\ pc' \in {"loop", "ran"} /\ (pc' = "ran" => ~ InSuites /\ at' = at)
    BY DEF Loops, Started
<1>1. Asked' = Asked
    BY <1>0 DEF Asked
<1>2. /\ at = [suite |-> at.suite, run |-> at.run, test |-> at.test]
      /\ at.suite \in Nat /\ at.suite > 0 /\ at.run \in Int /\ at.test \in Nat /\ at.test > 0
      /\ options.repeat_times \in Int
    BY Counters
<1>3. /\ \A s \in DOMAIN TestSuites : s \in Nat
      /\ \A s \in DOMAIN TestSuites : \A i \in DOMAIN TestSuites[s] : i \in Nat /\ i > 0
    BY TestsHavePlaces
<1>4. ASSUME Countdown', \A s \in DOMAIN TestSuites : \A i \in DOMAIN TestSuites[s] :
                           TestSuites[s][i] \in Asked => (Behind(s, i)' <=> Behind(s, i))
      PROVE  Progress'
  <2>1. ASSUME NEW s \in DOMAIN TestSuites, NEW i \in DOMAIN TestSuites[s]
        PROVE  ShownOnce(s, i)' /\ RunOnce(s, i)'
    <3>1. ShownOnce(s, i) /\ RunOnce(s, i)
        BY <1>0 DEF Progress
    <3> QED
        BY <1>0, <1>1, <1>4, <3>1 DEF ShownOnce, RunOnce
  <2>2. pc' \in {"ran", "done"} => ~ InSuites'
      BY <1>0 DEF InSuites
  <2> QED
      BY <1>0, <1>4, <2>1, <2>2 DEF Progress, Started
<1>5. Countdown
    BY <1>0 DEF Progress
<1>6. CASE InRound /\ Chosen \notin options.execute_test /\ at' = [at EXCEPT !.test = @ + 1]
  <2>1. at'.suite = at.suite /\ at'.run = at.run /\ at'.test = at.test + 1
      BY <1>2, <1>6
  <2>2. Countdown'
      BY <1>0, <1>5, <2>1 DEF Countdown
  <2>3. ASSUME NEW s \in DOMAIN TestSuites, NEW i \in DOMAIN TestSuites[s],
               TestSuites[s][i] \in Asked
        PROVE  Behind(s, i)' <=> Behind(s, i)
    <3>1. ~ (s = at.suite /\ i = at.test)
        BY <1>6, <2>3 DEF Chosen, Asked
    <3>2. s = at.suite => (i < at.test + 1 <=> i < at.test)
        BY <1>2, <1>3, <3>1
    <3> QED
        BY <2>1, <3>2 DEF Behind
  <2> QED
      BY <1>4, <2>2, <2>3
<1>7. CASE InSuites /\ ~ InRound /\ at.run # 0 /\ at' = [at EXCEPT !.run = @ - 1, !.test = 1]
  <2>1. at'.suite = at.suite /\ at'.run = at.run - 1 /\ at'.test = 1
      BY <1>2, <1>7
  <2>2. Countdown'
      BY <1>0, <1>5, <1>7, <2>1 DEF Countdown
  <2>3. ASSUME NEW s \in DOMAIN TestSuites, NEW i \in DOMAIN TestSuites[s]
        PROVE  Behind(s, i)' <=> Behind(s, i)
    <3>1. at'.run = 0 <=> at.run = 1
        BY <1>2, <2>1
    <3>2. ~ (i < at'.test)
        BY <1>3, <2>1
    <3>3. s = at.suite => i < at.test
      <4>1. at.test \notin DOMAIN TestSuites[at.suite] /\ at.suite \in DOMAIN TestSuites
          BY <1>7 DEF InRound, InSuites
      <4>2. /\ DOMAIN TestSuites[at.suite] = 1..Len(TestSuites[at.suite])
            /\ Len(TestSuites[at.suite]) \in Nat
          BY <4>1, TestsHavePlaces
      <4>3. at.test > Len(TestSuites[at.suite])
          BY <1>2, <4>1, <4>2
      <4>4. s = at.suite => i \in 1..Len(TestSuites[at.suite])
          BY <4>2
      <4> QED
          BY <1>2, <4>2, <4>3, <4>4
    <3> QED
        BY <1>7, <2>1, <3>1, <3>2, <3>3 DEF Behind
  <2> QED
      BY <1>4, <2>2, <2>3
<1>8. CASE /\ InSuites /\ at.run = 0
           /\ at' = [suite |-> at.suite + 1, run |-> options.repeat_times, test |-> 1]
  <2>1. at'.suite = at.suite + 1 /\ at'.run = options.repeat_times /\ at'.test = 1
      BY <1>8
  <2>2. Countdown'
      BY <1>0, <2>1 DEF Countdown
  <2>3. ASSUME NEW s \in DOMAIN TestSuites, NEW i \in DOMAIN TestSuites[s],
               TestSuites[s][i] \in Asked
        PROVE  Behind(s, i)' <=> Behind(s, i)
    <3>1. at'.run # 0
        BY <2>1, <2>3 DEF Asked
    <3>2. ~ (i < at'.test)
        BY <1>3, <2>1
    <3>3. s < at.suite + 1 <=> s < at.suite \/ s = at.suite
        BY <1>2, <1>3
    <3> QED
        BY <1>8, <2>1, <3>1, <3>2, <3>3 DEF Behind
  <2> QED
      BY <1>4, <2>2, <2>3
<1>9. CASE at' = at
    BY <1>0, <1>4, <1>5, <1>9 DEF Behind, Countdown
<1> QED
    BY <1>6, <1>7, <1>8, <1>9 DEF Loops

(* A test is shown when it ends on the last round, and then is behind.     *)
LEMMA EndStep ==
    ASSUME Places, Data, TimesFit, Running, Progress, EndTest, pc' = "loop"
    PROVE  Progress'
<1>0. pc = "body" /\ InRound /\ Chosen \in options.execute_test /\ res[Chosen].run /\ Started
    BY DEF EndTest, Running, Started
<1>1. /\ Others /\ UNCHANGED options /\ res'[Chosen].run = res[Chosen].run
      /\ at' = [at EXCEPT !.test = @ + 1]
      /\ shown' = IF at.run = 1 THEN [shown EXCEPT ![Chosen] = Append(@, Show(res'[Chosen]))]
                                ELSE shown
    BY <1>0, EndChanges, Zenon
<1>2. /\ at = [suite |-> at.suite, run |-> at.run, test |-> at.test]
      /\ at.suite \in Nat /\ at.suite > 0 /\ at.run \in Int /\ at.test \in Nat /\ at.test > 0
    BY Counters
<1>3. at'.suite = at.suite /\ at'.run = at.run /\ at'.test = at.test + 1
    BY <1>1, <1>2
<1>4. Asked' = Asked /\ Chosen \in Asked /\ Chosen \in Test
    BY <1>0, <1>1, ChosenIsAsked, ChosenIsATest DEF Asked
<1>5. Countdown'
    BY <1>0, <1>1, <1>3 DEF Progress, Countdown
<1>6. ASSUME NEW s \in DOMAIN TestSuites, NEW i \in DOMAIN TestSuites[s]
      PROVE  ShownOnce(s, i)' /\ RunOnce(s, i)'
  <2>1. ShownOnce(s, i) /\ RunOnce(s, i)
      BY <1>0 DEF Progress
  <2>2. s \in Nat /\ i \in Nat
      BY TestsHavePlaces
  <2>3. CASE s = at.suite /\ i = at.test
    <3>1. TestSuites[s][i] = Chosen /\ at.run # 0
        BY <1>0, <2>3 DEF Chosen, InRound
    <3>2. ~ Behind(s, i) /\ (Behind(s, i)' <=> at.run = 1)
        BY <1>2, <1>3, <2>3, <3>1 DEF Behind
    <3>3. shown[Chosen] = <<>>
        BY <2>1, <3>1, <3>2 DEF ShownOnce
    <3>4. shown'[Chosen] = IF at.run = 1 THEN <<Show(res'[Chosen])>> ELSE <<>>
      <4>1. DOMAIN shown = Test
          BY DEF Data
      <4>2. \A v : Append(<<>>, v) = <<v>>
          OBVIOUS
      <4> QED
          BY <1>1, <1>4, <3>3, <4>1, <4>2
    <3>5. ShownOnce(s, i)'
        BY <1>4, <3>1, <3>2, <3>4 DEF ShownOnce
    <3> QED
        BY <1>0, <1>1, <1>4, <3>1, <3>5 DEF RunOnce
  <2>4. CASE s # at.suite \/ i # at.test
    <3>1. TestSuites[s][i] \in Test /\ TestSuites[s][i] # Chosen
        BY <1>0, <2>4, PlacesAreDistinct
    <3>2. res'[TestSuites[s][i]] = res[TestSuites[s][i]]
        BY <1>1, <3>1 DEF Others
    <3>3. shown'[TestSuites[s][i]] = shown[TestSuites[s][i]]
        BY <1>1, <3>1 DEF Data
    <3>4. Behind(s, i)' <=> Behind(s, i)
      <4>1. s = at.suite => (i < at.test + 1 <=> i < at.test)
          BY <1>2, <2>2, <2>4
      <4> QED
          BY <1>3, <4>1 DEF Behind
    <3> QED
        BY <1>4, <2>1, <3>2, <3>3, <3>4 DEF ShownOnce, RunOnce
  <2> QED
      BY <2>3, <2>4
<1> QED
    BY <1>5, <1>6 DEF Progress, Started

(* A test is run and shown if it was asked for, and once.                  *)
LEMMA ProgressStep ==
    ASSUME Places, Data, TimesFit, Running, Progress, [Next]_vars
    PROVE  Progress'
<1>1. ASSUME UNCHANGED <<options, res, at, shown>>, pc' = pc \/ (pc = "ran" /\ pc' = "done")
      PROVE  Progress'
  <2>1. Asked' = Asked /\ (InSuites' <=> InSuites) /\ (Countdown' <=> Countdown)
        /\ (Started' <=> Started)
      BY <1>1 DEF Asked, InSuites, Countdown, Started
  <2>2. ASSUME NEW s \in DOMAIN TestSuites, NEW i \in DOMAIN TestSuites[s],
               ShownOnce(s, i), RunOnce(s, i)
        PROVE  ShownOnce(s, i)' /\ RunOnce(s, i)'
      BY <1>1, <2>1, <2>2 DEF ShownOnce, RunOnce, Behind
  <2> QED
      BY <1>1, <2>1, <2>2 DEF Progress
<1>2. ASSUME TestFramework
      PROVE  Progress'
  <2>1. /\ at.suite = 1 /\ at.test = 1 /\ pc = "main" /\ UNCHANGED <<res, shown>>
        /\ \A t \in Test : shown[t] = <<>> /\ ~ res[t].run
      BY <1>2 DEF TestFramework, Progress, Started
  <2>2. CASE pc' = "exited"
      BY <2>1, <2>2 DEF Progress, Started
  <2>3. ASSUME NEW f \in Filters, NEW r \in BOOLEAN, NEW n \in RepeatTimes,
               options' = [execute_test |-> f, return_on_fail |-> r, repeat_times |-> n],
               at' = [at EXCEPT !.run = n], pc' = "loop"
        PROVE  Progress'
    <3>1. at'.suite = 1 /\ at'.run = n /\ at'.test = 1 /\ options'.repeat_times = n
        BY <2>1, <2>3, Counters
    <3>2. Countdown'
        BY <3>1 DEF Countdown
    <3>3. ASSUME NEW s \in DOMAIN TestSuites, NEW i \in DOMAIN TestSuites[s]
          PROVE  ShownOnce(s, i)' /\ RunOnce(s, i)'
      <4>1. TestSuites[s][i] \in Test /\ s \in Nat /\ s > 0 /\ i \in Nat /\ i > 0
          BY TestsHavePlaces
      <4>2. TestSuites[s][i] \in Asked' => n # 0
          BY <3>1 DEF Asked
      <4>3. ~ (TestSuites[s][i] \in Asked' /\ Behind(s, i)')
          BY <3>1, <4>1, <4>2 DEF Behind
      <4> QED
          BY <2>1, <4>1, <4>3 DEF ShownOnce, RunOnce
    <3> QED
        BY <2>3, <3>2, <3>3 DEF Progress, Started
  <2> QED
      BY <1>2, <2>2, <2>3 DEF TestFramework
<1>3. ASSUME StartTest
      PROVE  Progress'
  <2>1. /\ InRound /\ Started /\ Started' /\ pc' \notin {"ran", "done"}
        /\ UNCHANGED <<options, at>> /\ Chosen \in options.execute_test
      BY <1>3 DEF StartTest, Started
  <2>2. Others /\ UNCHANGED shown
      BY <1>3, <2>1, StartChanges
  <2>3. Chosen \in Asked
      BY <2>1, ChosenIsAsked
  <2> QED
      BY <2>1, <2>2, <2>3, ProgressOfChosen
<1>4. ASSUME Body
      PROVE  Progress'
  <2>1. pc = "body" /\ UNCHANGED <<options, pc, at, shown>>
      BY <1>4, BodyCases
  <2>2. InRound /\ Started /\ Started' /\ Chosen \in options.execute_test /\ active_test = Chosen
      BY <2>1 DEF Running, Started
  <2>3. Chosen \in Asked
      BY <2>2, ChosenIsAsked
  <2>4. Others \/ Silent
      BY <1>4, <2>2, BodyCases, CheckedChanges, NotedChanges
  <2>5. CASE Others
      BY <2>1, <2>2, <2>3, <2>5, ProgressOfChosen
  <2>6. CASE Silent
      BY <1>1, <2>1, <2>6 DEF Silent
  <2> QED
      BY <2>4, <2>5, <2>6
<1>5. ASSUME EndTest
      PROVE  Progress'
  <2>1. InRound /\ Started /\ Chosen \in options.execute_test
      BY <1>5 DEF EndTest, Running, Started
  <2>2. CASE pc' = "terminated" /\ UNCHANGED <<at, active_test, shown>>
    <3>1. Others /\ UNCHANGED options
        BY <1>5, <2>1, EndChanges, Zenon
    <3>2. Chosen \in Asked /\ Started'
        BY <2>1, <2>2, ChosenIsAsked DEF Started
    <3> QED
        BY <2>1, <2>2, <3>1, <3>2, ProgressOfChosen
  <2>3. CASE pc' = "loop"
      BY <1>5, <2>3, EndStep
  <2> QED
      BY <1>5, <2>1, <2>2, <2>3, EndChanges, Zenon
<1>6. ASSUME show_result_overview
      PROVE  Progress'
    BY <1>1, <1>6 DEF show_result_overview
<1> QED
    BY <1>1, <1>2, <1>3, <1>4, <1>5, <1>6, LoopStep DEF Next, vars

-----------------------------------------------------------------------------
(* The overview.                                                           *)

(* What a line shows of a result.                                          *)
LEMMA Shows == \A r : Show(r).rating = r.result /\ Show(r).details = (r.details /\ ~ r.result)
    BY DEF Show

(* At the end the tests asked for, and no others, were run and shown.      *)
LEMMA AllBehind ==
    ASSUME Places, Progress, pc = "ran", NEW t \in Test
    PROVE  /\ res[t].run <=> t \in Asked
           /\ shown[t] = IF t \in Asked THEN <<Show(res[t])>> ELSE <<>>
<1>1. PICK s \in DOMAIN TestSuites : \E j \in DOMAIN TestSuites[s] : TestSuites[s][j] = t
    BY TestsHavePlaces
<1>2. PICK i \in DOMAIN TestSuites[s] : TestSuites[s][i] = t
    BY <1>1
<1>3. ShownOnce(s, i) /\ RunOnce(s, i) /\ at.suite \notin DOMAIN TestSuites
    BY DEF Progress, Started, InSuites
<1>4. Behind(s, i)
  <2>1. at.suite \in Nat /\ at.suite > 0
      BY Counters
  <2>2. /\ DOMAIN TestSuites = 1..Len(TestSuites) /\ Len(TestSuites) \in Nat
        /\ s \in 1..Len(TestSuites)
      BY TestsHavePlaces
  <2>3. s < at.suite
      BY <1>3, <2>1, <2>2
  <2> QED
      BY <2>3 DEF Behind
<1> QED
    BY <1>2, <1>3, <1>4 DEF ShownOnce, RunOnce

(* What is shown of a test is its result.                                  *)
LEMMA ShownLine ==
    ASSUME Progress, NEW t \in Test, shown[t] # <<>>
    PROVE  shown[t] = <<Show(res[t])>>
<1>1. PICK s \in DOMAIN TestSuites : \E j \in DOMAIN TestSuites[s] : TestSuites[s][j] = t
    BY TestsHavePlaces
<1>2. PICK i \in DOMAIN TestSuites[s] : TestSuites[s][i] = t
    BY <1>1
<1>3. Started => ShownOnce(s, i)
    BY DEF Progress
<1>4. ~ Started => shown[t] = <<>>
    BY DEF Progress
<1> QED
    BY <1>2, <1>3, <1>4 DEF ShownOnce

(* The overview is right when it is shown, and nothing happens after it.   *)
LEMMA OverviewStep ==
    ASSUME Places, Data, Progress, Counted, \A t \in Test : Rated(t), Overviewed, [Next]_vars
    PROVE  Overviewed'
<1>1. CASE UNCHANGED <<pc, options, said, shown, overview>>
  <2>1. Asked' = Asked
      BY <1>1 DEF Asked
  <2>2. Verdicts'
      BY <1>1, <2>1 DEF Overviewed, Verdicts
  <2> QED
      BY <1>1, <2>2 DEF Overviewed
<1>2. ASSUME pc # "done", pc' # "done", UNCHANGED overview
      PROVE  Overviewed'
  <2>1. overview' = <<>>
      BY <1>2 DEF Overviewed
  <2>2. ToSet(overview') = {}
      BY <2>1 DEF ToSet
  <2> QED
      BY <1>2, <2>1, <2>2 DEF Overviewed, Verdicts
<1>3. ASSUME show_result_overview
      PROVE  Overviewed'
  <2> DEFINE Bad == {t \in Test : said[t].bad > 0}
             Run(b) == {t \in Test : res[t].run /\ res[t].result = b}
             o == [all_tests |-> SumFunction(check_count),
                   good |-> Cardinality(Run(TRUE)), bad |-> Cardinality(Run(FALSE))]
  <2>1. /\ pc = "ran" /\ overview' = <<o>> /\ pc' = "done"
        /\ UNCHANGED <<options, said, shown>>
      BY <1>3 DEF show_result_overview, history
  <2>2. Asked' = Asked /\ Asked \subseteq Test
      BY <2>1, Counters DEF Asked
  <2>3. \A t \in Test : /\ res[t].run <=> t \in Asked
                        /\ shown[t] = IF t \in Asked THEN <<Show(res[t])>> ELSE <<>>
      BY <2>1, AllBehind
  <2>4. \A t \in Test : /\ res[t].result \in BOOLEAN
                        /\ res[t].result <=> t \notin Bad
                        /\ t \in Bad => res[t].run /\ res[t].details
    <3>1. \A t \in Test : res[t].result \in BOOLEAN
        BY DEF Data, Result
    <3>2. ASSUME NEW t \in Test
          PROVE  (res[t].result <=> t \notin Bad) /\ (t \in Bad => res[t].run /\ res[t].details)
      <4>1. said[t].bad \in Nat
          BY DEF Data, Said
      <4>2. Rated(t)
          OBVIOUS
      <4> QED
          BY <4>1, <4>2 DEF Rated
    <3> QED
        BY <3>1, <3>2
  <2> HIDE DEF Bad
  <2>5. Run(FALSE) = Bad
    <3>1. Bad \subseteq Test
        BY DEF Bad
    <3> QED
        BY <2>4, <3>1
  <2>6. Run(TRUE) = Asked \ Bad
      BY <2>2, <2>3, <2>4
  <2>7. o.all_tests = SumFunction(Checks)
      BY DEF Counted
  <2>8. ASSUME NEW t \in Test
        PROVE  /\ Len(shown[t]) = IF t \in Asked THEN 1 ELSE 0
               /\ t \in Bad => t \in Asked
               /\ \A l \in ToSet(shown[t]) : l.rating = (t \notin Bad) /\ l.details = (t \in Bad)
    <3>1. CASE t \notin Asked
      <4>1. shown[t] = <<>>
          BY <2>3, <3>1
      <4>2. ToSet(shown[t]) = {} /\ Len(shown[t]) = 0
          BY <4>1 DEF ToSet
      <4> QED
          BY <2>3, <2>4, <3>1, <4>2
    <3>2. CASE t \in Asked
      <4> DEFINE l == Show(res[t])
      <4>1. shown[t] = <<l>>
          BY <2>3, <3>2
      <4>2. l.rating = res[t].result /\ l.details = (res[t].details /\ ~ res[t].result)
          BY Shows
      <4> HIDE DEF l
      <4>3. ToSet(shown[t]) = {l} /\ Len(shown[t]) = 1
          BY <4>1 DEF ToSet
      <4>4. l.rating = (t \notin Bad)
          BY <2>4, <4>2
      <4>5. l.details = (t \in Bad)
          BY <2>4, <4>2
      <4> QED
          BY <3>2, <4>3, <4>4, <4>5
    <3> QED
        BY <3>1, <3>2
  <2>9. ToSet(overview') = {o}
    <3> HIDE DEF o
    <3> QED
        BY <2>1 DEF ToSet
  <2>10. Bad' = Bad
      BY <2>1 DEF Bad
  <2>11. /\ o.all_tests = SumFunction([t \in Test |-> said[t].good + said[t].bad])
         /\ o.bad = Cardinality(Bad) /\ o.good = Cardinality(Asked \ Bad)
      BY <2>5, <2>6, <2>7 DEF Checks
  <2> HIDE DEF o
  <2>12. Verdicts'
      BY <2>1, <2>2, <2>8, <2>9, <2>11 DEF Verdicts, Bad
  <2> QED
      BY <2>1, <2>12 DEF Overviewed
<1>4. CASE UNCHANGED vars
    BY <1>1, <1>4 DEF vars, history
<1>5. TestFramework \/ Loops \/ StartTest \/ EndTest =>
          pc # "done" /\ pc' # "done" /\ UNCHANGED overview
    BY DEF TestFramework, Loops, StartTest, EndTest
<1>6. Body => pc # "done" /\ pc' # "done" /\ UNCHANGED overview
    BY BodyCases
<1> QED
    BY <1>2, <1>3, <1>4, <1>5, <1>6 DEF Next

-----------------------------------------------------------------------------
(* The invariant holds before main() has done anything.                    *)
LEMMA InitInv == Init => Inv
<1> SUFFICES ASSUME Init PROVE Inv
    OBVIOUS
<1>1. TestResult \in Result
    BY DEF TestResult, Result, NewTimer, Timer
<1>2. [good |-> 0, bad |-> 0, threw |-> 0] \in Said
    BY DEF Said
<1>3. Data
  <2>1. <<>> \in Seq(Nat)
      OBVIOUS
  <2> QED
      BY <1>1, <1>2, <2>1 DEF Init, Data
<1>4. Places
    BY TestingSuiteAssumption DEF Init, Places
<1>5. \A t \in Test : res[t] = TestResult /\ said[t].good = 0 /\ said[t].bad = 0 /\ shown[t] = <<>>
    BY DEF Init
<1>6. TimersRun /\ TimesFit
    BY <1>5 DEF Init, TimersRun, TimesFit, TestResult, NewTimer
<1>7. \A t \in Test : Rated(t)
    BY <1>5 DEF Rated, TestResult
<1>8. Running
    BY DEF Init, Running
<1>9. Progress
    BY <1>5 DEF Init, Progress, Started, TestResult
<1>10. Overviewed
  <2>1. overview = <<>> /\ ToSet(overview) = {}
      BY DEF Init, ToSet
  <2> QED
      BY <2>1 DEF Overviewed, Verdicts
<1>11. Counted
  <2>2. IsFiniteSet(Test) /\ IsFiniteSet(DOMAIN TestSuites)
      BY TestsAreFinite
  <2>3. SumFunction(check_count) = 0
    <3>1. DOMAIN check_count = DOMAIN TestSuites /\ \A s \in DOMAIN TestSuites : check_count[s] = 0
        BY DEF Init
    <3> QED
        BY <2>2, <3>1, SumOfZeros DEF SumFunction
  <2>4. SumFunction(Checks) = 0
    <3>1. DOMAIN Checks = Test /\ \A t \in Test : Checks[t] = 0
        BY <1>5 DEF Checks
    <3> QED
        BY <2>2, <3>1, SumOfZeros DEF SumFunction
  <2> QED
      BY <2>3, <2>4 DEF Counted
<1> QED
    BY <1>3, <1>4, <1>6, <1>7, <1>8, <1>9, <1>10, <1>11 DEF Inv

(* Types, positions and results stay as they are described above, and the  *)
(* counters, the verdicts and what is shown agree with what was checked.   *)
THEOREM Invariance == Spec => []Inv
<1>1. Inv /\ [Next]_vars => Inv'
    BY PlacesStep, DataStep, TimersStep, TimesStep, RunningStep, RatedStep, CountedStep,
       ProgressStep, OverviewStep DEF Inv
<1> QED
    BY <1>1, InitInv, PTL DEF Spec

(* Every variable keeps its type, and a timer runs exactly while the       *)
(* method of its test does: what the assertions of xtime.cc ask for.       *)
THEOREM TypeCorrect == Spec => []TypeOK
<1>1. Inv => TypeOK
  <2> SUFFICES ASSUME Inv PROVE TypeOK
      OBVIOUS
  <2>1. Places /\ Data /\ TimersRun
      BY DEF Inv
  <2>2. \A t \in Test :
          /\ res[t].result \in BOOLEAN /\ res[t].run \in BOOLEAN /\ res[t].details \in BOOLEAN
          /\ res[t].timer \in Timer /\ res[t].runtimes \in Seq(Nat)
          /\ said[t] \in [good : Nat, bad : Nat, threw : Nat] /\ took[t] \in Seq(Nat)
      BY <2>1 DEF Data, Result, Said
  <2>3. \A t \in Test : res[t].timer.active <=> pc = "body" /\ active_test = t
      BY <2>1 DEF TimersRun
  <2>4. /\ options \in [execute_test : Filters \cup {Test}, return_on_fail : BOOLEAN,
                        repeat_times : RepeatTimes \cup {1}]
        /\ active_test \in Test \cup {NoTest}
        /\ pc \in {"main", "exited", "loop", "body", "ran", "done", "terminated"}
        /\ frames \in Seq([do_checks : BOOLEAN, return_on_fail : BOOLEAN])
        /\ macros \in 0..MaxMacros /\ check_count \in [DOMAIN TestSuites -> Nat]
      BY <2>1 DEF Places, Data, AFrame
  <2>5. at \in [suite : Nat, run : Int, test : Nat]
      BY <2>1 DEF Places
  <2> QED
      BY <2>2, <2>3, <2>4, <2>5 DEF TypeOK
<1> QED
    BY <1>1, Invariance, PTL

(* The overview counts the checks that were made, a test is rated bad      *)
(* if a check of it was, and only if one was or it threw, as it is shown,  *)
(* and each that was asked for is shown once (TestSuite::execute_tests(),  *)
(* TestFramework::show_result_overview()).                                 *)
THEOREM VerdictsCorrect == Spec => []VerdictsMeanChecks
<1>1. Inv => VerdictsMeanChecks
  <2> SUFFICES ASSUME Inv, NEW o \in ToSet(overview)
               PROVE  LET Bad == {t \in Test : \E l \in ToSet(shown[t]) : ~ l.rating} IN
                      /\ o.all_tests = SumFunction([t \in Test |-> said[t].good + said[t].bad])
                      /\ o.bad = Cardinality(Bad) /\ o.good = Cardinality(Asked \ Bad)
                      /\ \A t \in Test :
                           /\ Len(shown[t]) = IF t \in Asked THEN 1 ELSE 0
                           /\ said[t].bad > 0 => t \in Bad
                           /\ t \in Bad => said[t].bad + said[t].threw > 0
                           /\ \A l \in ToSet(shown[t]) : l.details = ~ l.rating
      BY DEF VerdictsMeanChecks
  <2> DEFINE Failed == {t \in Test : said[t].bad > 0}
             Bad == {t \in Test : \E l \in ToSet(shown[t]) : ~ l.rating}
  <2>1. /\ o.all_tests = SumFunction([t \in Test |-> said[t].good + said[t].bad])
        /\ o.bad = Cardinality(Failed) /\ o.good = Cardinality(Asked \ Failed)
        /\ \A t \in Test :
             /\ Len(shown[t]) = IF t \in Asked THEN 1 ELSE 0
             /\ t \in Failed => t \in Asked
             /\ \A l \in ToSet(shown[t]) :
                   l.rating = (t \notin Failed) /\ l.details = (t \in Failed)
      BY DEF Inv, Overviewed, Verdicts
  <2>2. ASSUME NEW t \in Failed
        PROVE  t \in Bad
    <3>1. t \in Test /\ Len(shown[t]) = 1
        BY <2>1
    <3>2. shown[t] # <<>>
      <4>1. Len(<<>>) # 1
          OBVIOUS
      <4> QED
          BY <3>1, <4>1, Zenon
    <3>3. \E l : l \in ToSet(shown[t])
      <4>1. t \in Asked /\ Started
        <5>1. Started \/ shown[t] = <<>>
            BY <3>1 DEF Inv, Progress
        <5> QED
            BY <2>1, <3>1, <3>2, <5>1
      <4>2. shown[t] = <<Show(res[t])>>
          BY <3>1, <3>2, <4>1, ShownLine DEF Inv
      <4> QED
          BY <4>2 DEF ToSet
    <3> QED
        BY <2>1, <3>1, <3>3
  <2>3. Bad = Failed
      BY <2>1, <2>2
  <2>4. \A t \in Test : said[t].bad \in Nat /\ said[t].threw \in Nat
      BY DEF Inv, Data, Said
  <2>5. \A t \in Test : /\ said[t].bad > 0 => t \in Bad
                        /\ t \in Bad => said[t].bad + said[t].threw > 0
      BY <2>3, <2>4
  <2>6. ASSUME NEW t \in Test, NEW l \in ToSet(shown[t])
        PROVE  l.details = ~ l.rating
    <3>1. l.rating = (t \notin Failed) /\ l.details = (t \in Failed)
        BY <2>1
    <3> HIDE DEF Failed
    <3>2. CASE t \in Failed
      <4>1. l.rating = FALSE /\ l.details = TRUE
          BY <3>1, <3>2
      <4> QED
          BY <4>1
    <3>3. CASE t \notin Failed
      <4>1. (t \notin Failed) = TRUE /\ (t \in Failed) = FALSE
          BY <3>3
      <4>2. l.rating = TRUE
          BY <3>1, <4>1, Zenon
      <4>3. l.details = FALSE
          BY <3>1, <4>1, Zenon
      <4> QED
          BY <4>2, <4>3
    <3> QED
        BY <3>2, <3>3
  <2> HIDE DEF Bad, Failed
  <2> QED
      BY <2>1, <2>3, <2>5, <2>6 DEF Bad
<1> QED
    BY <1>1, Invariance, PTL

-----------------------------------------------------------------------------
(* Units.                                                                  *)

(* The loops of si_scale() are over, and one round of them.                *)
InRange(c) == Leq(lower, c) /\ Leq(c, upper)
Over == {x \in Scaled : x.data.n = 0 \/ InRange(x.data)}
OneRound == [x \in Scaled |->
    IF ~ Leq(x.data, upper)
    THEN [data |-> [x.data EXCEPT !.d = Kilo * @], exponent |-> x.exponent + 3]
    ELSE [data |-> [x.data EXCEPT !.n = Kilo * @], exponent |-> x.exponent - 3]]

(* The powers of Kilo.                                                     *)
LEMMA KiloPowers ==
    /\ Kilo \in Nat /\ Kilo > 1 /\ power(Kilo)[0] = 1
    /\ \A e \in Nat : /\ power(Kilo)[e] \in Nat /\ power(Kilo)[e] > e
                      /\ power(Kilo)[e + 1] = Kilo * power(Kilo)[e]
<1> DEFINE p == CHOOSE p : p = [e \in Nat |-> IF e = 0 THEN 1 ELSE Kilo * p[e - 1]]
<1>1. power(Kilo) = p
    BY DEF power
<1> HIDE DEF p
<1>2. Kilo \in Nat /\ Kilo > 1
    BY XUnitAssumption
<1>3. p[0] = 1 /\ \A e \in Nat : p[e] \in Nat /\ p[e + 1] = Kilo * p[e]
    BY <1>2, PowerFunction DEF p
<1>4. \A e \in Nat : p[e] > e
  <2> DEFINE T == {e \in Nat : p[e] > e}
  <2>1. 0 \in T
      BY <1>3
  <2>2. ASSUME NEW e \in Nat, e \in T
        PROVE  e + 1 \in T
    <3>1. PICK q \in Nat : q = p[e] /\ q > e /\ p[e + 1] = Kilo * q
        BY <1>3, <2>2
    <3>2. Kilo * q >= 2 * q
        BY <1>2
    <3>3. p[e + 1] > e + 1
        BY <1>2, <3>1, <3>2
    <3> QED
        BY <3>3
  <2> HIDE DEF T
  <2>3. Nat \subseteq T
      BY <2>1, <2>2, Induction
  <2> QED
      BY <2>3 DEF T
<1> QED
    BY <1>1, <1>2, <1>3, <1>4

(* A round is one on fractions.                                            *)
LEMMA RoundOf ==
    ASSUME NEW x \in Scaled
    PROVE  /\ OneRound[x] \in Scaled
           /\ ~ Leq(x.data, upper) =>
                 /\ OneRound[x].data = [n |-> x.data.n, d |-> Kilo * x.data.d]
                 /\ OneRound[x].exponent = x.exponent + 3
           /\ Leq(x.data, upper) =>
                 /\ OneRound[x].data = [n |-> Kilo * x.data.n, d |-> x.data.d]
                 /\ OneRound[x].exponent = x.exponent - 3
<1>1. PICK n \in Int, d \in Nat \ {0}, e \in Int : x = [data |-> [n |-> n, d |-> d], exponent |-> e]
    BY DEF Scaled, Fraction
<1>2. Kilo * n \in Int /\ Kilo * d \in Nat \ {0} /\ e + 3 \in Int /\ e - 3 \in Int
    BY KiloPowers
<1>3. PICK kn, kd : kn = Kilo * n /\ kd = Kilo * d
    OBVIOUS
<1>4. OneRound[x] = IF ~ Leq(x.data, upper)
                    THEN [data |-> [n |-> n, d |-> kd], exponent |-> e + 3]
                    ELSE [data |-> [n |-> kn, d |-> d], exponent |-> e - 3]
    BY <1>1, <1>3 DEF OneRound
<1> QED
    BY <1>1, <1>2, <1>3, <1>4 DEF Scaled, Fraction

(* si_scale() goes round by round until it is over.                        *)
LEMMA ScaleByRounds ==
    ASSUME NEW x \in Scaled
    PROVE  si_scale[x] = IF x \in Over THEN x ELSE si_scale[OneRound[x]]
<1> DEFINE Defines(f) == f = [y \in Scaled |->
              LET c == y.data IN
              IF c.n = 0 THEN y
              ELSE IF ~Leq(c, upper)
                   THEN f[[data |-> [c EXCEPT !.d = Kilo * @], exponent |-> y.exponent + 3]]
              ELSE IF ~Leq(lower, c)
                   THEN f[[data |-> [c EXCEPT !.n = Kilo * @], exponent |-> y.exponent - 3]]
              ELSE y]
           Rounds(f) == f = [y \in Scaled |-> IF y \in Over THEN y ELSE f[OneRound[y]]]
           f == CHOOSE f : Defines(f)
<1>1. \A g : Rounds(g) <=> Defines(g)
  <2> TAKE g
  <2>1. ASSUME NEW y \in Scaled
        PROVE  (IF y \in Over THEN y ELSE g[OneRound[y]]) =
               (LET c == y.data IN
                IF c.n = 0 THEN y
                ELSE IF ~Leq(c, upper)
                     THEN g[[data |-> [c EXCEPT !.d = Kilo * @], exponent |-> y.exponent + 3]]
                ELSE IF ~Leq(lower, c)
                     THEN g[[data |-> [c EXCEPT !.n = Kilo * @], exponent |-> y.exponent - 3]]
                ELSE y)
    <3>1. y \in Over <=> y.data.n = 0 \/ (Leq(lower, y.data) /\ Leq(y.data, upper))
        BY DEF Over, InRange
    <3>2. OneRound[y] = IF ~ Leq(y.data, upper)
              THEN [data |-> [y.data EXCEPT !.d = Kilo * @], exponent |-> y.exponent + 3]
              ELSE [data |-> [y.data EXCEPT !.n = Kilo * @], exponent |-> y.exponent - 3]
        BY DEF OneRound
    <3> QED
        BY <3>1, <3>2
  <2> QED
      BY <2>1
<1>2. \E g : Rounds(g)
  <2>1. PICK S, step, done : S = Scaled /\ step = OneRound /\ done = Over
      OBVIOUS
  <2>2. \A y \in S : step[y] \in S
      BY <2>1, RoundOf, Zenon
  <2>3. \E g : g = [y \in S |-> IF y \in done THEN y ELSE g[step[y]]]
      BY ONLY <2>2, LoopFunction
  <2> QED
      BY <2>1, <2>3
<1> HIDE DEF Rounds, Defines
<1>3. Defines(f)
    BY <1>1, <1>2, Zenon
<1>4. si_scale = f
    BY DEF si_scale, Defines
<1> HIDE DEF f
<1>5. Rounds(f)
    BY <1>1, <1>3
<1> QED
    BY <1>4, <1>5 DEF Rounds

(* The quantity n / d with exponent e.                                     *)
At(n, d, e) == [data |-> [n |-> n, d |-> d], exponent |-> e]

(* What a round of the loops does to n / d.                                *)
LEMMA ScaledOnce ==
    ASSUME NEW n \in Nat, NEW d \in Nat \ {0}, NEW e \in Int
    PROVE  /\ n = 0 => si_scale[At(n, d, e)] = At(n, d, e)
           /\ InRange([n |-> n, d |-> d]) <=> d <= n /\ n <= Kilo * d
           /\ d <= n /\ n <= Kilo * d => si_scale[At(n, d, e)] = At(n, d, e)
           /\ n # 0 /\ ~ (n <= Kilo * d) => si_scale[At(n, d, e)] = si_scale[At(n, Kilo * d, e + 3)]
           /\ n # 0 /\ ~ (d <= n) => si_scale[At(n, d, e)] = si_scale[At(Kilo * n, d, e - 3)]
<1>1. PICK x : x = At(n, d, e)
    OBVIOUS
<1>2. /\ x \in Scaled /\ x.data = [n |-> n, d |-> d] /\ x.data.n = n /\ x.data.d = d
      /\ x.exponent = e
    BY <1>1 DEF At, Scaled, Fraction
<1>3. PICK b \in Nat : b = Kilo * d
    BY KiloPowers
<1>4. d <= b
    BY <1>3, KiloPowers
<1>5. (Leq(x.data, upper) <=> n <= b) /\ (Leq(lower, x.data) <=> d <= n)
    BY <1>2, <1>3, KiloPowers DEF Leq, upper, lower, Whole
<1>6. x \in Over <=> n = 0 \/ (d <= n /\ n <= b)
    BY <1>2, <1>5 DEF Over, InRange
<1>7. InRange([n |-> n, d |-> d]) <=> d <= n /\ n <= b
    BY <1>2, <1>5 DEF InRange
<1>8. si_scale[x] = IF x \in Over THEN x ELSE si_scale[OneRound[x]]
    BY <1>2, ScaleByRounds
<1>9. /\ ~ (n <= b) => OneRound[x] = At(n, b, e + 3)
      /\ n <= b => OneRound[x] = At(Kilo * n, d, e - 3)
  <2>1. OneRound[x] \in Scaled
      BY <1>2, RoundOf
  <2>2. PICK dat, ex : OneRound[x] = [data |-> dat, exponent |-> ex]
      BY <2>1 DEF Scaled
  <2>3. /\ ~ (n <= b) => dat = [n |-> n, d |-> b] /\ ex = e + 3
        /\ n <= b => dat = [n |-> Kilo * n, d |-> d] /\ ex = e - 3
    <3>1. OneRound[x].data = dat /\ OneRound[x].exponent = ex
        BY <2>2
    <3>2. /\ ~ Leq(x.data, upper) =>
                OneRound[x].data = [n |-> x.data.n, d |-> Kilo * x.data.d] /\ OneRound[x].exponent = x.exponent + 3
          /\ Leq(x.data, upper) =>
                OneRound[x].data = [n |-> Kilo * x.data.n, d |-> x.data.d] /\ OneRound[x].exponent = x.exponent - 3
        BY <1>2, RoundOf, Zenon
    <3> QED
        BY <1>2, <1>3, <1>5, <3>1, <3>2
  <2> QED
      BY <2>2, <2>3 DEF At
<1>10. /\ n = 0 => si_scale[x] = x
       /\ d <= n /\ n <= b => si_scale[x] = x
       /\ n # 0 /\ ~ (n <= b) => si_scale[x] = si_scale[At(n, b, e + 3)]
    BY <1>6, <1>8, <1>9
<1>11. n # 0 /\ ~ (d <= n) => si_scale[x] = si_scale[At(Kilo * n, d, e - 3)]
    BY <1>4, <1>6, <1>8, <1>9
<1> QED
    BY <1>1, <1>3, <1>7, <1>10, <1>11

(* What is too large is divided, as often as it takes.                     *)
LEMMA ScaledDown ==
    ASSUME NEW n \in Nat \ {0}, NEW d \in Nat \ {0}, NEW e \in Int, d <= n
    PROVE  \E j \in Nat : /\ InRange([n |-> n, d |-> power(Kilo)[j] * d])
                          /\ si_scale[At(n, d, e)] = At(n, power(Kilo)[j] * d, e + 3 * j)
<1>1. PICK P : P = power(Kilo)
    OBVIOUS
<1>2. PICK K \in Nat : K = Kilo /\ K > 1
    BY KiloPowers
<1>3. P[0] = 1 /\ \A m \in Nat : P[m] \in Nat /\ P[m] > m /\ P[m + 1] = K * P[m]
    BY <1>1, <1>2, KiloPowers
<1> DEFINE Is(b, ex, j) == /\ InRange([n |-> n, d |-> P[j] * b])
                           /\ si_scale[At(n, b, ex)] = At(n, P[j] * b, ex + 3 * j)
           T == {k \in Nat : \A b \in Nat \ {0}, ex \in Int :
                     b <= n /\ n <= P[k] * b => \E j \in Nat : Is(b, ex, j)}
<1>4. ASSUME NEW b \in Nat \ {0}, NEW ex \in Int, b <= n, n <= K * b
      PROVE  Is(b, ex, 0)
  <2>1. P[0] * b = b /\ ex + 3 * 0 = ex
      BY <1>3
  <2>2. InRange([n |-> n, d |-> b]) /\ si_scale[At(n, b, ex)] = At(n, b, ex)
      BY <1>2, <1>4, ScaledOnce
  <2> QED
      BY <2>1, <2>2
<1>5. 0 \in T
  <2>1. ASSUME NEW b \in Nat \ {0}, NEW ex \in Int, b <= n, n <= P[0] * b
        PROVE  Is(b, ex, 0)
    <3>1. n <= b
        BY <1>3, <2>1
    <3>2. b <= K * b
        BY <1>2
    <3>3. n <= K * b
        BY <3>1, <3>2, <1>2
    <3> HIDE DEF Is
    <3> QED
        BY <1>4, <2>1, <3>3
  <2> HIDE DEF Is
  <2> QED
      BY <2>1
<1>6. ASSUME NEW k \in Nat, k \in T
      PROVE  k + 1 \in T
  <2> SUFFICES ASSUME NEW b \in Nat \ {0}, NEW ex \in Int, b <= n, n <= P[k + 1] * b
               PROVE  \E j \in Nat : Is(b, ex, j)
      OBVIOUS
  <2>1. CASE n <= K * b
    <3> HIDE DEF Is
    <3> QED
        BY <1>4, <2>1
  <2>2. CASE ~ (n <= K * b)
    <3>1. PICK c \in Nat \ {0} : c = K * b
        BY <1>2
    <3>2. c <= n
        BY <2>2, <3>1
    <3>3. P[k + 1] * b = P[k] * c
      <4>1. PICK p \in Nat : p = P[k] /\ P[k + 1] = K * p
          BY <1>3
      <4>2. (K * p) * b = p * (K * b)
          BY <1>2
      <4> QED
          BY <3>1, <4>1, <4>2
    <3>4. n <= P[k] * c
        BY <3>3
    <3>5. ex + 3 \in Int
        OBVIOUS
    <3>6. PICK j \in Nat : Is(c, ex + 3, j)
      <4> HIDE DEF Is
      <4> QED
          BY <1>6, <3>2, <3>4, <3>5
    <3>7. si_scale[At(n, b, ex)] = si_scale[At(n, c, ex + 3)]
        BY <1>2, <2>2, <3>1, ScaledOnce
    <3>8. P[j] * c = P[j + 1] * b
      <4>1. PICK p \in Nat : p = P[j] /\ P[j + 1] = K * p
          BY <1>3
      <4>2. (K * p) * b = p * (K * b)
          BY <1>2
      <4> QED
          BY <3>1, <4>1, <4>2
    <3>9. (ex + 3) + 3 * j = ex + 3 * (j + 1) /\ j + 1 \in Nat
        OBVIOUS
    <3>10. Is(b, ex, j + 1)
        BY <3>6, <3>7, <3>8, <3>9
    <3> HIDE DEF Is
    <3> QED
        BY <3>9, <3>10
  <2> QED
      BY <2>1, <2>2
<1> HIDE DEF T
<1>7. n \in T
    BY <1>5, <1>6, Induction
<1>8. n <= P[n] * d
  <2>1. PICK p \in Nat : p = P[n] /\ p > n
      BY <1>3
  <2>2. p * d >= p
      BY <2>1
  <2> QED
      BY <2>1, <2>2
<1>9. PICK j \in Nat : Is(d, e, j)
  <2> HIDE DEF Is
  <2> QED
      BY <1>7, <1>8 DEF T
<1> QED
    BY <1>1, <1>9

(* What is too small is multiplied, as often as it takes.                  *)
LEMMA ScaledUp ==
    ASSUME NEW n \in Nat \ {0}, NEW d \in Nat \ {0}, NEW e \in Int, n <= d
    PROVE  \E j \in Nat : /\ InRange([n |-> power(Kilo)[j] * n, d |-> d])
                          /\ si_scale[At(n, d, e)] = At(power(Kilo)[j] * n, d, e - 3 * j)
<1>1. PICK P : P = power(Kilo)
    OBVIOUS
<1>2. PICK K \in Nat : K = Kilo /\ K > 1
    BY KiloPowers
<1>3. P[0] = 1 /\ \A m \in Nat : P[m] \in Nat /\ P[m] > m /\ P[m + 1] = K * P[m]
    BY <1>1, <1>2, KiloPowers
<1> DEFINE Is(a, ex, j) == /\ InRange([n |-> P[j] * a, d |-> d])
                           /\ si_scale[At(a, d, ex)] = At(P[j] * a, d, ex - 3 * j)
           T == {k \in Nat : \A a \in Nat \ {0}, ex \in Int :
                     a <= K * d /\ d <= P[k] * a => \E j \in Nat : Is(a, ex, j)}
<1>4. ASSUME NEW a \in Nat \ {0}, NEW ex \in Int, d <= a, a <= K * d
      PROVE  Is(a, ex, 0)
  <2>1. P[0] * a = a /\ ex - 3 * 0 = ex
      BY <1>3
  <2>2. InRange([n |-> a, d |-> d]) /\ si_scale[At(a, d, ex)] = At(a, d, ex)
      BY <1>2, <1>4, ScaledOnce
  <2> QED
      BY <2>1, <2>2
<1>5. 0 \in T
  <2>1. ASSUME NEW a \in Nat \ {0}, NEW ex \in Int, a <= K * d, d <= P[0] * a
        PROVE  Is(a, ex, 0)
    <3>1. d <= a
        BY <1>3, <2>1
    <3> HIDE DEF Is
    <3> QED
        BY <1>4, <2>1, <3>1
  <2> HIDE DEF Is
  <2> QED
      BY <2>1
<1>6. ASSUME NEW k \in Nat, k \in T
      PROVE  k + 1 \in T
  <2> SUFFICES ASSUME NEW a \in Nat \ {0}, NEW ex \in Int, a <= K * d, d <= P[k + 1] * a
               PROVE  \E j \in Nat : Is(a, ex, j)
      OBVIOUS
  <2>1. CASE d <= a
    <3> HIDE DEF Is
    <3> QED
        BY <1>4, <2>1
  <2>2. CASE ~ (d <= a)
    <3>1. PICK c \in Nat \ {0} : c = K * a
        BY <1>2
    <3>2. c <= K * d
        BY <1>2, <2>2, <3>1
    <3>3. P[k + 1] * a = P[k] * c
      <4>1. PICK p \in Nat : p = P[k] /\ P[k + 1] = K * p
          BY <1>3
      <4>2. (K * p) * a = p * (K * a)
          BY <1>2
      <4> QED
          BY <3>1, <4>1, <4>2
    <3>4. d <= P[k] * c
        BY <3>3
    <3>5. ex - 3 \in Int
        OBVIOUS
    <3>6. PICK j \in Nat : Is(c, ex - 3, j)
      <4> HIDE DEF Is
      <4> QED
          BY <1>6, <3>2, <3>4, <3>5
    <3>7. si_scale[At(a, d, ex)] = si_scale[At(c, d, ex - 3)]
        BY <1>2, <2>2, <3>1, ScaledOnce
    <3>8. P[j] * c = P[j + 1] * a
      <4>1. PICK p \in Nat : p = P[j] /\ P[j + 1] = K * p
          BY <1>3
      <4>2. (K * p) * a = p * (K * a)
          BY <1>2
      <4> QED
          BY <3>1, <4>1, <4>2
    <3>9. (ex - 3) - 3 * j = ex - 3 * (j + 1) /\ j + 1 \in Nat
        OBVIOUS
    <3>10. Is(a, ex, j + 1)
        BY <3>6, <3>7, <3>8, <3>9
    <3> HIDE DEF Is
    <3> QED
        BY <3>9, <3>10
  <2> QED
      BY <2>1, <2>2
<1> HIDE DEF T
<1>7. d \in T
    BY <1>5, <1>6, Induction
<1>8. d <= P[d] * n /\ n <= K * d
  <2>1. PICK p \in Nat : p = P[d] /\ p > d
      BY <1>3
  <2>2. p * n >= p
      BY <2>1
  <2>3. K * d >= d
      BY <1>2
  <2> QED
      BY <1>2, <2>1, <2>2, <2>3
<1>9. PICK j \in Nat : Is(n, e, j)
  <2> HIDE DEF Is
  <2> QED
      BY <1>7, <1>8 DEF T
<1> QED
    BY <1>1, <1>9

(* A quantity is between 1 and Kilo, or 0.                                 *)
Readable(x) == x.data.n = 0 \/ InRange(x.data)

(* When a quantity means a number of microseconds.                         *)
LEMMA SameMicroseconds ==
    ASSUME NEW n \in Nat, NEW d \in Nat, NEW m \in Nat, NEW c \in Nat, NEW j \in Nat
    PROVE  /\ n * power(Kilo)[j] * c = m * d => Same(At(n, d, 3 * j - 6), At(m, c, -6))
           /\ n * c = m * d * power(Kilo)[j] => Same(At(n, d, -6 - 3 * j), At(m, c, -6))
<1>1. PICK P : P = power(Kilo)
    OBVIOUS
<1>2. PICK p \in Nat : p = P[j]
    BY <1>1, KiloPowers
<1>3. P[0] = 1
    BY <1>1, KiloPowers
<1>4. ASSUME n * p * c = m * d
      PROVE  Same(At(n, d, 3 * j - 6), At(m, c, -6))
  <2>1. ~ (3 * j - 6 < -6) /\ ((3 * j - 6) + 6) \div 3 = j /\ ~ (-6 < -6) /\ (-6 + 6) \div 3 = 0
      OBVIOUS
  <2>2. PICK a, b : a = At(n, d, 3 * j - 6) /\ b = At(m, c, -6)
      OBVIOUS
  <2>3. /\ a.data.n = n /\ a.data.d = d /\ a.exponent = 3 * j - 6
        /\ b.data.n = m /\ b.data.d = c /\ b.exponent = -6
      BY <2>2 DEF At
  <2>4. Same(a, b) <=> n * P[j] * c * P[0] = m * P[0] * d * P[0]
      BY <1>1, <2>1, <2>3 DEF Same
  <2>5. n * p * c * 1 = m * 1 * d * 1
      BY <1>4
  <2> QED
      BY <1>2, <1>3, <2>2, <2>4, <2>5
<1>5. ASSUME n * c = m * d * p
      PROVE  Same(At(n, d, -6 - 3 * j), At(m, c, -6))
  <2>1. /\ IF -6 - 3 * j < -6 THEN j # 0 ELSE j = 0
        /\ ((-6 - 3 * j) + 6) \div 3 = -j /\ -(-j) = j /\ ~ (-6 < -6) /\ (-6 + 6) \div 3 = 0
      OBVIOUS
  <2>2. PICK a, b : a = At(n, d, -6 - 3 * j) /\ b = At(m, c, -6)
      OBVIOUS
  <2>3. /\ a.data.n = n /\ a.data.d = d /\ a.exponent = -6 - 3 * j
        /\ b.data.n = m /\ b.data.d = c /\ b.exponent = -6
      BY <2>2 DEF At
  <2>4. Same(a, b) <=> n * P[0] * c * P[0] = m * P[0] * d * P[j]
    <3>1. CASE j = 0
      <4>1. ~ (a.exponent < -6) /\ (a.exponent + 6) \div 3 = 0
          BY <2>1, <2>3, <3>1
      <4> QED
          BY <1>1, <2>1, <2>3, <3>1, <4>1 DEF Same
    <3>2. CASE j # 0
      <4>1. a.exponent < -6 /\ -((a.exponent + 6) \div 3) = j
          BY <2>1, <2>3, <3>2
      <4> QED
          BY <1>1, <2>1, <2>3, <4>1 DEF Same
    <3> QED
        BY <3>1, <3>2
  <2>5. n * 1 * c * 1 = m * 1 * d * p
      BY <1>5
  <2> QED
      BY <1>2, <1>3, <2>2, <2>4, <2>5
<1> QED
    BY <1>1, <1>2, <1>4, <1>5

(* A whole number of microseconds is shown.                                *)
LEMMA WholeShown ==
    ASSUME NEW n \in Nat
    PROVE  /\ Same(XUnit(Whole(n), -6), [data |-> Whole(n), exponent |-> -6])
           /\ Readable(XUnit(Whole(n), -6))
<1>1. XUnit(Whole(n), -6) = si_scale[At(n, 1, -6)] /\ [data |-> Whole(n), exponent |-> -6] = At(n, 1, -6)
    BY DEF XUnit, Whole, At
<1>2. PICK P : P = power(Kilo)
    OBVIOUS
<1>3. \E d \in Nat, j \in Nat :
         /\ si_scale[At(n, 1, -6)] = At(n, d, 3 * j - 6)
         /\ n * P[j] * 1 = n * d
         /\ n = 0 \/ InRange([n |-> n, d |-> d])
  <2>1. CASE n = 0
    <3>1. si_scale[At(n, 1, -6)] = At(n, 1, 3 * 0 - 6)
      <4>1. 1 \in Nat \ {0} /\ -6 \in Int /\ 3 * 0 - 6 = -6
          OBVIOUS
      <4> QED
          BY <2>1, <4>1, ScaledOnce
    <3>2. n * P[0] * 1 = n * 1
        BY <1>2, <2>1, KiloPowers
    <3> QED
        BY <2>1, <3>1, <3>2
  <2>2. CASE n # 0
    <3>1. PICK j \in Nat : /\ InRange([n |-> n, d |-> P[j] * 1])
                           /\ si_scale[At(n, 1, -6)] = At(n, P[j] * 1, -6 + 3 * j)
      <4>1. n \in Nat \ {0} /\ 1 \in Nat \ {0} /\ -6 \in Int /\ 1 <= n
          BY <2>2
      <4> QED
          BY <1>2, <4>1, ScaledDown
    <3>2. PICK p \in Nat : p = P[j]
        BY <1>2, KiloPowers
    <3>3. p * 1 = p /\ -6 + 3 * j = 3 * j - 6 /\ n * p * 1 = n * p
        OBVIOUS
    <3> QED
        BY <3>1, <3>2, <3>3
  <2> QED
      BY <2>1, <2>2
<1>4. PICK d \in Nat, j \in Nat :
         /\ si_scale[At(n, 1, -6)] = At(n, d, 3 * j - 6)
         /\ n * P[j] * 1 = n * d
         /\ n = 0 \/ InRange([n |-> n, d |-> d])
    BY <1>3
<1>5. Same(At(n, d, 3 * j - 6), At(n, 1, -6))
    BY <1>2, <1>4, SameMicroseconds
<1>6. Readable(At(n, d, 3 * j - 6))
    BY <1>4 DEF Readable, At
<1> QED
    BY <1>1, <1>4, <1>5, <1>6

(* The mean of m times, in seconds.                                        *)
LEMMA MeanShown ==
    ASSUME NEW s \in Nat, NEW m \in Nat \ {0}
    PROVE  LET mean == XUnit([n |-> s, d |-> Kilo * Kilo * m], 0) IN
           Same(mean, [data |-> [n |-> s, d |-> m], exponent |-> -6]) /\ Readable(mean)
<1>1. PICK P : P = power(Kilo)
    OBVIOUS
<1>2. PICK K \in Nat : K = Kilo /\ K > 1
    BY KiloPowers
<1>3. P[0] = 1 /\ \A e \in Nat : P[e] \in Nat /\ P[e + 1] = K * P[e]
    BY <1>1, <1>2, KiloPowers
<1>4. PICK D \in Nat \ {0} : D = K * K * m
  <2>1. K * K > 0
      BY <1>2
  <2>2. K * K * m > 0
      BY <2>1, <1>2
  <2> QED
      BY <2>2, <1>2
<1>5. PICK mean : mean = si_scale[At(s, D, 0)]
    OBVIOUS
<1>6. mean = XUnit([n |-> s, d |-> Kilo * Kilo * m], 0)
    BY <1>2, <1>4, <1>5 DEF XUnit, At
<1>7. P[2] = K * K /\ P[1] = K
  <2>1. P[0 + 1] = K * P[0] /\ P[1 + 1] = K * P[1]
      BY <1>3
  <2> QED
      BY <1>2, <1>3, <2>1
<1>8. \A i \in Nat : P[i + 2] = K * K * P[i]
  <2> TAKE i \in Nat
  <2>1. PICK p \in Nat, q \in Nat : p = P[i] /\ q = P[i + 1] /\ q = K * p /\ P[(i + 1) + 1] = K * q
    <3>1. P[i] \in Nat /\ P[i + 1] = K * P[i]
        BY <1>3
    <3>2. PICK k \in Nat : k = i + 1
        OBVIOUS
    <3>3. P[k] \in Nat /\ P[k + 1] = K * P[k]
        BY <1>3
    <3> QED
        BY <3>1, <3>2, <3>3
  <2>2. (i + 1) + 1 = i + 2 /\ K * (K * p) = K * K * p
      BY <1>2
  <2> QED
      BY <2>1, <2>2
<1> DEFINE Means(x) == Same(x, At(s, m, -6)) /\ Readable(x)
<1> SUFFICES Means(mean)
    BY <1>6 DEF At
<1> HIDE DEF Means
<1>9. CASE s = 0
  <2>1. mean = At(s, D, 3 * 2 - 6)
    <3>1. 0 \in Int /\ 3 * 2 - 6 = 0
        OBVIOUS
    <3> QED
      <4>1. si_scale[At(s, D, 0)] = At(s, D, 0)
          BY <1>9, <3>1, ScaledOnce
      <4> QED
          BY <1>5, <3>1, <4>1
  <2>2. s * P[2] * m = s * D
      BY <1>2, <1>4, <1>7, <1>9
  <2>3. Same(mean, At(s, m, -6))
      BY <1>1, <2>1, <2>2, SameMicroseconds
  <2>4. Readable(mean)
      BY <1>9, <2>1 DEF Readable, At
  <2> QED
      BY <2>3, <2>4 DEF Means
<1>10. CASE s # 0 /\ D <= s
  <2>1. PICK j \in Nat : InRange([n |-> s, d |-> P[j] * D]) /\ mean = At(s, P[j] * D, 0 + 3 * j)
      BY <1>1, <1>5, <1>10, ScaledDown
  <2>2. PICK p \in Nat : p = P[j] /\ P[j + 2] = K * K * p
      BY <1>3, <1>8
  <2>3. 0 + 3 * j = 3 * (j + 2) - 6 /\ j + 2 \in Nat /\ p * D \in Nat
      OBVIOUS
  <2>4. s * (K * K * p) * m = s * (p * D)
    <3>1. (K * K * p) * m = p * (K * K * m)
        BY <1>2
    <3>2. s * (K * K * p) * m = s * ((K * K * p) * m)
        BY <1>2
    <3> QED
        BY <1>4, <3>1, <3>2
  <2>5. s * P[j + 2] * m = s * (p * D)
      BY <2>2, <2>4
  <2>6. Same(At(s, p * D, 3 * (j + 2) - 6), At(s, m, -6))
      BY <1>1, <2>3, <2>5, SameMicroseconds
  <2>7. Readable(mean)
      BY <2>1 DEF Readable, At
  <2> QED
      BY <2>1, <2>2, <2>3, <2>6, <2>7 DEF Means
<1>11. CASE s # 0 /\ ~ (D <= s)
  <2>1. PICK j \in Nat : InRange([n |-> P[j] * s, d |-> D]) /\ mean = At(P[j] * s, D, 0 - 3 * j)
    <3>1. 0 \in Int /\ s <= D /\ s \in Nat \ {0}
        BY <1>11
    <3> QED
        BY <1>1, <1>5, <3>1, ScaledUp
  <2>2. Readable(mean)
      BY <2>1 DEF Readable, At
  <2>3. CASE j = 0
    <3>1. 0 - 3 * j = 3 * 2 - 6 /\ P[j] * s = s
        BY <1>3, <2>3
    <3>2. s * P[2] * m = s * D
      <4>1. s * (K * K) * m = s * (K * K * m)
          BY <1>2
      <4> QED
          BY <1>4, <1>7, <4>1
    <3> QED
        BY <1>1, <2>1, <2>2, <3>1, <3>2, SameMicroseconds DEF Means
  <2>4. CASE j = 1
    <3>1. 0 - 3 * j = 3 * 1 - 6 /\ P[j] * s = K * s /\ K * s \in Nat
        BY <1>2, <1>7, <2>4
    <3>2. (K * s) * P[1] * m = s * D
      <4>1. (K * s) * K * m = s * (K * K * m)
          BY <1>2
      <4> QED
          BY <1>4, <1>7, <4>1
    <3> QED
        BY <1>1, <2>1, <2>2, <3>1, <3>2, SameMicroseconds DEF Means
  <2>5. CASE j > 1
    <3>1. PICK i \in Nat : j = i + 2
      <4>1. j - 2 \in Nat /\ j = (j - 2) + 2
          BY <2>5
      <4> QED
          BY <4>1
    <3>2. PICK p \in Nat : p = P[i] /\ P[j] = K * K * p
        BY <1>3, <1>8, <3>1
    <3>3. 0 - 3 * j = -6 - 3 * i /\ (K * K * p) * s \in Nat
        BY <1>2, <3>1
    <3>4. ((K * K * p) * s) * m = s * D * p
      <4>1. ((K * K * p) * s) * m = s * (K * K * m) * p
          BY <1>2
      <4> QED
          BY <1>4, <4>1
    <3>5. Same(At((K * K * p) * s, D, -6 - 3 * i), At(s, m, -6))
        BY <1>1, <3>2, <3>3, <3>4, SameMicroseconds
    <3> QED
        BY <2>1, <2>2, <3>2, <3>3, <3>5 DEF Means
  <2> QED
      BY <2>3, <2>4, <2>5
<1> QED
    BY <1>9, <1>10, <1>11

(* The maximum of times that are all 0 is brought between the limits, too. *)
LEMMA TinyShown == Readable(XUnit(Tiny, -6))
<1>1. PICK P : P = power(Kilo)
    OBVIOUS
<1>2. PICK K \in Nat : K = Kilo /\ K > 1
    BY KiloPowers
<1>3. P[0] = 1 /\ \A e \in Nat : P[e] \in Nat /\ P[e] > e /\ P[e + 1] = K * P[e]
    BY <1>1, <1>2, KiloPowers
<1>4. PICK D \in Nat \ {0} : D = P[5]
    BY <1>3
<1>5. XUnit(Tiny, -6) = si_scale[At(1, D, -6)]
    BY <1>1, <1>4 DEF XUnit, Tiny, At
<1>6. PICK j \in Nat : InRange([n |-> P[j] * 1, d |-> D]) /\ si_scale[At(1, D, -6)] = At(P[j] * 1, D, -6 - 3 * j)
  <2>1. 1 \in Nat \ {0} /\ 1 <= D /\ -6 \in Int
      OBVIOUS
  <2> QED
      BY <1>1, <2>1, ScaledUp
<1>7. Readable(At(P[j] * 1, D, -6 - 3 * j))
    BY <1>6 DEF Readable, At
<1>8. D <= P[j]
    BY <1>3, <1>4, <1>6 DEF InRange, Leq, lower, Whole
<1>9. j >= 5
  <2>1. \A e \in Nat : P[e] < P[e + 1]
    <3> TAKE e \in Nat
    <3>1. PICK p \in Nat : p = P[e] /\ p > 0 /\ P[e + 1] = K * p
        BY <1>3
    <3>2. K * p >= 2 * p
        BY <1>2
    <3> QED
        BY <1>2, <3>1, <3>2
  <2>2. P[0] < P[1] /\ P[1] < P[2] /\ P[2] < P[3] /\ P[3] < P[4] /\ P[4] < P[5]
    <3>1. P[0] < P[0 + 1] /\ P[1] < P[1 + 1] /\ P[2] < P[2 + 1] /\ P[3] < P[3 + 1] /\ P[4] < P[4 + 1]
        BY <2>1
    <3> QED
        BY <3>1
  <2>3. PICK a \in Nat, b \in Nat, c \in Nat, d \in Nat, e \in Nat :
            a = P[0] /\ b = P[1] /\ c = P[2] /\ d = P[3] /\ e = P[4]
      BY <1>3
  <2>4. a < D /\ b < D /\ c < D /\ d < D /\ e < D
      BY <1>4, <2>2, <2>3
  <2>5. j # 0 /\ j # 1 /\ j # 2 /\ j # 3 /\ j # 4
      BY <1>8, <2>3, <2>4
  <2> QED
      BY <2>5
<1>10. At(P[j] * 1, D, -6 - 3 * j).exponent = -6 - 3 * j
    BY DEF At
<1>11. -6 - 3 * j <= -21
    BY <1>9
<1> QED
    BY <1>5, <1>6, <1>7, <1>10, <1>11

-----------------------------------------------------------------------------
(* The times that are noted.                                               *)

(* What is noted of the rounds of a test that took us: of one or two of    *)
(* them it is right, as the timer has the time of the first alone when the *)
(* second is taken.                                                        *)
TimesNoted(r, us) ==
    /\ Len(r.runtimes) = Len(us)
    /\ \A k \in 1..Len(us) : r.runtimes[k] >= us[k]
    /\ Len(us) <= 2 => \A k \in 1..Len(us) : r.runtimes[k] = us[k]
    /\ us = <<>> => r.timer.passed_us = 0
    /\ Len(us) = 1 => r.timer.passed_us = us[1]

(* What is noted goes on as it was.                                        *)
LEMMA NotesGrow ==
    ASSUME NEW old \in Result, NEW new \in Result, NEW times \in Seq(Nat), NEW us \in Nat,
           old.runtimes # <<>> => Last(old.runtimes) <= old.timer.passed_us,
           TimesNoted(old, times), RoundNoted(old, new, us)
    PROVE  TimesNoted(new, Append(times, us))
<1>1. PICK n, all : n = Len(times) /\ all = Append(times, us)
    OBVIOUS
<1>2. /\ n \in Nat /\ \A j \in 1..n : times[j] \in Nat
      /\ all \in Seq(Nat) /\ Len(all) = n + 1 /\ all # <<>>
      /\ all[n + 1] = us /\ \A j \in 1..n : all[j] = times[j]
      /\ n = 0 <=> times = <<>>
    BY <1>1
<1>3. /\ old.runtimes \in Seq(Nat) /\ new.runtimes \in Seq(Nat)
      /\ old.timer.passed_us \in Nat /\ new.timer.passed_us \in Nat
    BY DEF Result, Timer
<1>4. PICK old_us, new_us : old_us = old.timer.passed_us /\ new_us = new.timer.passed_us
    OBVIOUS
<1>5. Len(old.runtimes) = n /\ (n = 0 <=> old.runtimes = <<>>)
    BY <1>1, <1>3 DEF TimesNoted
<1>6. n # 0 => /\ Last(old.runtimes) = old.runtimes[n] /\ old.runtimes[n] \in Nat
               /\ old.runtimes[n] <= old_us
    BY <1>2, <1>3, <1>4, <1>5 DEF Last
<1>7. PICK last \in Nat : n # 0 => last = old.runtimes[n] /\ Last(old.runtimes) = last
    BY <1>6
<1>8. PICK note : note = IF n = 0 THEN new_us ELSE new_us - last
    OBVIOUS
<1>9. new_us = old_us + us /\ new.runtimes = Append(old.runtimes, note)
    BY <1>4, <1>5, <1>7, <1>8 DEF RoundNoted
<1>10. /\ Len(new.runtimes) = n + 1 /\ new.runtimes[n + 1] = note
       /\ \A k \in 1..n : new.runtimes[k] = old.runtimes[k]
  <2>1. PICK s \in Seq(Nat) : s = old.runtimes
      BY <1>3
  <2>2. Len(s) = n /\ n \in Nat /\ new.runtimes = Append(s, note)
      BY <1>2, <1>5, <1>9, <2>1
  <2>3. /\ Len(Append(s, note)) = n + 1 /\ Append(s, note)[n + 1] = note
        /\ \A k \in 1..n : Append(s, note)[k] = s[k]
    <3>1. IsSequence(s)
        BY <2>1, SequenceOf
    <3>2. PICK a : a = Append(s, note)
        OBVIOUS
    <3>3. /\ Len(a) = Len(s) + 1 /\ a[Len(s) + 1] = note
          /\ \A k \in 1..Len(s) : a[k] = s[k]
        BY <3>1, <3>2, AppendIsSequence
    <3> QED
        BY <2>2, <3>2, <3>3
  <2> QED
      BY <2>1, <2>2, <2>3
<1>11. /\ n = 0 => old_us = 0
       /\ n = 1 => old_us = times[1] /\ old.runtimes[1] = times[1] /\ times[1] \in Nat
    BY <1>1, <1>2, <1>4 DEF TimesNoted
<1>12. note >= us /\ (n <= 1 => note = us)
  <2>1. old_us \in Nat /\ us \in Nat
      BY <1>3, <1>4
  <2>2. n # 0 => last <= old_us
      BY <1>6, <1>7
  <2>3. n = 1 => last = old_us
      BY <1>7, <1>11
  <2> QED
      BY <1>2, <1>7, <1>8, <1>9, <1>11, <2>1, <2>2, <2>3
<1>13. \A k \in 1..n : old.runtimes[k] >= times[k] /\ (n <= 2 => old.runtimes[k] = times[k])
    BY <1>1 DEF TimesNoted
<1>14. \A k \in 1..n + 1 : /\ new.runtimes[k] >= all[k]
                           /\ n + 1 <= 2 => new.runtimes[k] = all[k]
  <2> TAKE k \in 1..n + 1
  <2>1. CASE k = n + 1
      BY <1>2, <1>10, <1>12, <2>1
  <2>2. CASE k # n + 1
    <3>1. k \in 1..n
        BY <1>2, <2>2
    <3>2. n + 1 <= 2 => n <= 2
        BY <1>2
    <3> QED
        BY <1>2, <1>10, <1>13, <3>1, <3>2
  <2> QED
      BY <2>1, <2>2
<1>15. Len(all) = 1 => new_us = all[1]
  <2>1. Len(all) = n + 1 /\ n \in Nat /\ all[n + 1] = us /\ us \in Nat
      BY <1>2
  <2>2. CASE n = 0
    <3>1. all[1] = us /\ new_us = us
        BY <1>9, <1>11, <2>1, <2>2
    <3> QED
        BY <3>1
  <2>3. CASE n # 0
    <3>1. Len(all) # 1
        BY <2>1, <2>3
    <3> QED
        BY <3>1
  <2> QED
      BY <2>2, <2>3
<1>16. TimesNoted(new, all)
    BY <1>2, <1>4, <1>10, <1>14, <1>15 DEF TimesNoted
<1> QED
    BY <1>1, <1>16

(* The times a line shows are those that are noted.                        *)
TimesRight(l, r, us) ==
    LET noted == r.runtimes
        total == SumFunction(noted)
        Is(x, t) == Same(x, [data |-> t, exponent |-> -6]) IN
    /\ Len(noted) = Len(us) /\ \A k \in 1..Len(us) : noted[k] >= us[k]
    /\ Len(us) <= 2 => noted = us
    /\ Is(l.total, Whole(total)) /\ Is(l.mean, [n |-> total, d |-> Len(us)])
    /\ Is(l.min, Whole(Min(ToSet(noted))))
    /\ total > 0 => Is(l.max, Whole(Max(ToSet(noted))))
    /\ \A x \in {l.total, l.mean, l.min, l.max} : Readable(x)

(* Once the times of a test are noted its line shows them.                 *)
LEMMA LineIsRight ==
    ASSUME NEW r \in Result, NEW us \in Seq(Nat), us # <<>>, TimesNoted(r, us)
    PROVE  TimesRight(Show(r), r, us)
<1> DEFINE noted == r.runtimes
           total == SumFunction(noted)
<1>1. PICK n \in Nat \ {0} : n = Len(us)
    OBVIOUS
<1>2. r.runtimes \in Seq(Nat)
    BY DEF Result
<1>3. /\ Len(noted) = n /\ \A k \in 1..n : noted[k] >= us[k]
      /\ n <= 2 => noted = us
  <2>1. /\ Len(noted) = n /\ \A k \in 1..n : noted[k] >= us[k]
        /\ n <= 2 => \A k \in 1..n : noted[k] = us[k]
      BY <1>1 DEF TimesNoted
  <2> QED
      BY <1>1, <1>2, <2>1
<1>4. DOMAIN noted = 1..n /\ \A k \in 1..n : noted[k] \in Nat
    BY <1>1, <1>2, <1>3
<1> HIDE DEF noted
<1>5. IsFiniteSet(1..n) /\ 1 \in 1..n
  <2>1. 1 \in Int /\ n \in Int
      OBVIOUS
  <2> QED
      BY <2>1, FS_Interval
<1>6. total = SumFunctionOnSet(noted, 1..n)
    BY <1>4 DEF SumFunction
<1> HIDE DEF total
<1>7. total \in Nat /\ \A k \in 1..n : noted[k] <= total
    BY <1>4, <1>5, <1>6, SumOfNaturals
<1>8. ToSet(noted) = {noted[k] : k \in 1..n}
    BY <1>4 DEF ToSet
<1> DEFINE T == ToSet(noted)
<1>9. T \subseteq 0..total /\ T # {} /\ T \subseteq Nat
    BY <1>4, <1>5, <1>7, <1>8
<1>10. Min(T) \in Nat /\ Max(T) \in Nat
  <2>1. 0 \in Int /\ total \in Int
      BY <1>7
  <2> HIDE DEF T
  <2>2. Min(T) \in T /\ Max(T) \in T
      BY <1>9, <2>1, MinAndMax
  <2> QED
      BY <1>9, <2>2
<1>11. T = {0} <=> total = 0
  <2>1. ASSUME T = {0}
        PROVE  total = 0
    <3>1. \A k \in 1..n : noted[k] = 0
        BY <1>8, <2>1
    <3> QED
        BY <1>5, <1>6, <3>1, SumOfZeros
  <2>2. ASSUME total = 0
        PROVE  T = {0}
    <3>1. T \subseteq {0}
        BY <1>9, <2>2
    <3> QED
        BY <1>9, <3>1
  <2> QED
      BY <2>1, <2>2
<1> HIDE DEF T
<1> DEFINE l == Show(r)
           max == IF total = 0 THEN Tiny ELSE Whole(Max(T))
<1>12. SumVal(r) = total /\ MinVal(r) = Whole(Min(T)) /\ MaxVal(r) = max /\ Len(r.runtimes) = n
  <2>1. SumFunction(r.runtimes) = total /\ ToSet(r.runtimes) = T
      BY DEF total, T, noted
  <2>2. Len(r.runtimes) = n
      BY <1>1 DEF TimesNoted
  <2> QED
      BY <1>11, <2>1, <2>2 DEF SumVal, MinVal, MaxVal
<1> HIDE DEF max
<1>13. /\ l.total = XUnit(Whole(total), -6) /\ l.min = XUnit(Whole(Min(T)), -6)
       /\ l.mean = XUnit([n |-> total, d |-> Kilo * Kilo * n], 0)
       /\ l.max = XUnit(max, -6)
    BY <1>12 DEF Show
<1> HIDE DEF l
<1> DEFINE Is(x, t) == Same(x, [data |-> t, exponent |-> -6])
<1>14. Is(l.total, Whole(total)) /\ Readable(l.total)
    BY <1>7, <1>13, WholeShown
<1>15. Is(l.min, Whole(Min(T))) /\ Readable(l.min)
    BY <1>10, <1>13, WholeShown
<1>16. Is(l.mean, [n |-> total, d |-> n]) /\ Readable(l.mean)
    BY <1>7, <1>13, MeanShown
<1>17. /\ total > 0 => Is(l.max, Whole(Max(T)))
       /\ Readable(l.max)
  <2>1. CASE total = 0
      BY <1>13, <2>1, TinyShown DEF max
  <2>2. CASE total # 0
    <3>1. max = Whole(Max(T))
        BY <2>2 DEF max
    <3> QED
        BY <1>10, <1>13, <2>2, <3>1, WholeShown
  <2> QED
      BY <2>1, <2>2
<1> HIDE DEF Is
<1>18. \A x \in {l.total, l.mean, l.min, l.max} : Readable(x)
    BY <1>14, <1>15, <1>16, <1>17
<1> QED
    BY <1>1, <1>3, <1>14, <1>15, <1>16, <1>17, <1>18 DEF TimesRight, total, noted, T, l, Is

(* The times of a test are noted as long as the program goes on, and so    *)
(* are those of a line when tear_down() of another test ends it.           *)
Timed ==
    \A t \in Test :
        /\ pc # "terminated" \/ shown[t] # <<>> => TimesNoted(res[t], took[t])
        /\ shown[t] # <<>> => took[t] # <<>>

(* Nothing is noted before a test has run.                                 *)
LEMMA InitTimed == Init => Timed
<1> SUFFICES ASSUME Init, NEW t \in Test
             PROVE  TimesNoted(res[t], took[t]) /\ shown[t] = <<>>
    BY DEF Timed
<1>1. /\ took[t] = <<>> /\ shown[t] = <<>>
      /\ res[t].runtimes = <<>> /\ res[t].timer.passed_us = 0
    BY DEF Init, TestResult, NewTimer
<1>2. PICK e : e = <<>>
    OBVIOUS
<1>3. Len(e) = 0 /\ 1..Len(e) = {}
    BY <1>2
<1> QED
    BY <1>1, <1>2, <1>3 DEF TimesNoted

(* A test that runs is not shown before it has ended.                      *)
LEMMA ChosenIsNotShown ==
    ASSUME Places, Progress, Started, InRound
    PROVE  shown[Chosen] = <<>>
<1>1. at.suite \in DOMAIN TestSuites /\ at.test \in DOMAIN TestSuites[at.suite]
    BY DEF InRound, InSuites
<1>2. ShownOnce(at.suite, at.test)
    BY <1>1 DEF Progress
<1>3. ~ Behind(at.suite, at.test)
    BY Counters DEF Behind, InRound
<1> QED
    BY <1>2, <1>3 DEF ShownOnce, Chosen

(* The times stay noted.                                                   *)
LEMMA TimedStep ==
    ASSUME Places, Data, TimesFit, Running, Progress, Timed, [Next]_vars
    PROVE  Timed'
<1>0. pc = "terminated" => pc' = pc
    BY DEF vars, Next, TestFramework, Loops, StartTest, Body, CHECK, CHECK_APPROX, CHECK_ITER,
           CHECK_EXC, PREPARE_WITH, Return, Throw, Macro, EndTest, show_result_overview
<1> SUFFICES ASSUME NEW t \in Test
             PROVE  /\ pc' # "terminated" \/ shown'[t] # <<>> => TimesNoted(res'[t], took'[t])
                    /\ shown'[t] # <<>> => took'[t] # <<>>
    BY DEF Timed
<1>1. /\ pc # "terminated" \/ shown[t] # <<>> => TimesNoted(res[t], took[t])
      /\ shown[t] # <<>> => took[t] # <<>>
    BY DEF Timed
<1> DEFINE Kept == /\ took'[t] = took[t] /\ shown'[t] = shown[t]
                   /\ res'[t].runtimes = res[t].runtimes
                   /\ res'[t].timer.passed_us = res[t].timer.passed_us
           Goal == /\ pc' # "terminated" \/ shown'[t] # <<>> => TimesNoted(res'[t], took'[t])
                   /\ shown'[t] # <<>> => took'[t] # <<>>
<1>2. Kept => Goal
  <2>1. ASSUME Kept, TimesNoted(res[t], took[t])
        PROVE  TimesNoted(res'[t], took'[t])
      BY <2>1 DEF TimesNoted
  <2> QED
      BY <1>0, <1>1, <2>1
<1>3. CASE UNCHANGED <<res, took, shown>>
    BY <1>2, <1>3
<1>4. CASE StartTest /\ InRound
  <2>1. Others /\ took' = took /\ shown' = shown
        /\ res'[Chosen].runtimes = res[Chosen].runtimes
        /\ res'[Chosen].timer.passed_us = res[Chosen].timer.passed_us
      BY <1>4, StartChanges
  <2>2. Kept
      BY <2>1 DEF Others
  <2> QED
      BY <1>2, <2>2
<1>5. CASE Body /\ InRound /\ active_test = Chosen
  <2>1. UNCHANGED <<took, shown>>
      BY <1>5, BodyCases
  <2>2. ASSUME NEW b \in BOOLEAN, NEW text \in BOOLEAN, Checked(b, text)
        PROVE  Kept
    <3>1. Others /\ res'[Chosen].timer = res[Chosen].timer
          /\ res'[Chosen].runtimes = res[Chosen].runtimes
        BY <1>5, <2>2, CheckedChanges
    <3> QED
        BY <2>1, <3>1 DEF Others
  <2>3. ASSUME NEW text \in BOOLEAN, Noted(text)
        PROVE  Kept
    <3>1. Others /\ res'[Chosen].timer = res[Chosen].timer
          /\ res'[Chosen].runtimes = res[Chosen].runtimes
        BY <1>5, <2>3, NotedChanges
    <3> QED
        BY <2>1, <3>1 DEF Others
  <2>4. Silent => Kept
      BY <2>1 DEF Silent
  <2> QED
      BY <1>2, <1>5, <2>2, <2>3, <2>4, BodyCases
<1>6. CASE EndTest /\ InRound /\ pc = "body"
  <2>1. /\ Others /\ RoundEnds /\ Chosen \in Test
        /\ \/ /\ pc' = "loop"
              /\ shown' = IF at.run = 1
                          THEN [shown EXCEPT ![Chosen] = Append(@, Show(res'[Chosen]))]
                          ELSE shown
           \/ pc' = "terminated" /\ shown' = shown
      BY <1>6, EndChanges, ChosenIsATest, Zenon
  <2>2. took \in [Test -> Seq(Nat)] /\ res \in [Test -> Result] /\ DOMAIN shown = Test
      BY DEF Data
  <2>3. PICK us \in Nat : /\ took' = [took EXCEPT ![Chosen] = Append(took[Chosen], us)]
                          /\ pc' # "terminated" => RoundNoted(res[Chosen], res'[Chosen], us)
      BY <2>1 DEF RoundEnds
  <2>4. CASE t = Chosen
    <3>1. shown[t] = <<>>
        BY <1>6, <2>4, ChosenIsNotShown DEF Started
    <3>2. took'[t] = Append(took[t], us) /\ took[t] \in Seq(Nat) /\ took'[t] # <<>>
      <4>1. PICK s \in Seq(Nat) : s = took[t]
          BY <2>2
      <4>2. took'[t] = Append(s, us)
          BY <2>2, <2>3, <2>4, <4>1
      <4>3. Append(s, us) # <<>>
          OBVIOUS
      <4> QED
          BY <4>1, <4>2, <4>3
    <3>3. CASE pc' = "terminated"
        BY <2>1, <3>1, <3>3
    <3>4. CASE pc' # "terminated"
      <4>1. res[t] \in Result /\ res'[t] \in Result
          BY <2>1, <2>2 DEF Others
      <4>2. TimesNoted(res[t], took[t]) /\ RoundNoted(res[t], res'[t], us)
          BY <1>1, <1>6, <2>3, <2>4, <3>4
      <4>3. res[t].runtimes # <<>> => Last(res[t].runtimes) <= res[t].timer.passed_us
          BY DEF TimesFit
      <4>4. TimesNoted(res'[t], took'[t])
          BY <3>2, <4>1, <4>2, <4>3, NotesGrow
      <4> QED
          BY <3>2, <4>4
    <3> QED
        BY <3>3, <3>4
  <2>5. CASE t # Chosen
    <3>1. Kept
        BY <2>1, <2>2, <2>3, <2>5 DEF Others
    <3> QED
        BY <1>2, <3>1
  <2> QED
      BY <2>4, <2>5
<1> QED
    BY <1>3, <1>4, <1>5, <1>6, StepKinds

(* The times of a line, however many rounds there are and whatever each    *)
(* took: one is noted for each round, none less than the round took and,   *)
(* of one or two rounds, just what they took; what is shown are their sum, *)
(* their mean, the least and the greatest, in units that can be read       *)
(* (TestSuite::execute_tests(), TestResult::show(), XUnit::si_scale()).    *)
THEOREM TimesShown == Spec => []ShownTimes
<1>1. Inv /\ Timed /\ [Next]_vars => Timed'
    BY TimedStep DEF Inv
<1>2. Inv /\ Timed => ShownTimes
  <2> SUFFICES ASSUME Inv, Timed, NEW t \in Test, NEW l \in ToSet(shown[t])
               PROVE  TimesRight(l, res[t], took[t])
      BY DEF ShownTimes, TimesRight, Readable, InRange
  <2>1. Data /\ Progress
      BY DEF Inv
  <2>2. shown[t] = <<>> \/ shown[t] = <<Show(res[t])>>
      BY <2>1, ShownLine
  <2>3. shown[t] # <<>> /\ l = Show(res[t])
    <3>1. ToSet(<<>>) = {} /\ \A v : ToSet(<<v>>) = {v}
        BY DEF ToSet
    <3> QED
        BY <2>2, <3>1
  <2>4. res[t] \in Result /\ took[t] \in Seq(Nat)
      BY <2>1 DEF Data
  <2>5. TimesNoted(res[t], took[t]) /\ took[t] # <<>>
      BY <2>3 DEF Timed
  <2> QED
      BY <2>3, <2>4, <2>5, LineIsRight
<1> QED
    BY <1>1, <1>2, InitTimed, Invariance, PTL DEF Spec
=============================================================================
