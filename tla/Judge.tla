-------------------------------- MODULE Judge -------------------------------
(***************************************************************************)
(* The core's judge(): compile, then the tests one after another, each     *)
(* executed and, if it ended well, checked.  One call of judge() per       *)
(* member of Judges; the ports answer anything they may answer.  A call is *)
(* suspended at every await; the stages name what it awaits, and "ed"      *)
(* stages are promise reactions that are ready to run.                     *)
(***************************************************************************)
EXTENDS Summary

CONSTANTS
    Judges,         \* the calls of judge()
    Languages,      \* the languages of the requests enumerated
    TestCounts,     \* the numbers of tests of a problem enumerated
    StopPolicies,   \* the values of stopOnFirstFailure enumerated
    Checkers,       \* the kinds of checkers enumerated
    ElapsedTimes,   \* the execution times enumerated
    Memories,       \* the memory sizes enumerated, Undefined among them
    Failures        \* the failing execution statuses enumerated

ExecutionFailures == TestStatuses \ {"accepted", "wrong_answer"}
CheckerStatuses == {"accepted", "wrong_answer", "internal_error"}

ASSUME TestCountsAssumption == TestCounts \subseteq Nat
ASSUME RequestsAssumption == StopPolicies \subseteq BOOLEAN /\ Checkers \subseteq {"exact", "custom"}
ASSUME FiguresAssumption ==
    ElapsedTimes \subseteq Nat /\ Memories \subseteq Nat \cup {Undefined} /\ Undefined \notin Nat
ASSUME FailuresAssumption == Failures \subseteq ExecutionFailures

VARIABLES
    request,    \* request[j]: the parts of the request judge() decides on
    stage,      \* stage[j]: where the call is
    last,       \* last[j]: the result or execution not yet pushed
    tests,      \* tests[j]: the results pushed
    outcome     \* outcome[j]: the JudgeResult, when it has one

judgeVars == <<request, stage, last, tests, outcome>>

Requests == [language : Languages, tests : TestCounts, stopOnFirstFailure : StopPolicies,
             checker : Checkers]

Stages == {"idle", "compiling", "compiled", "executing", "executed",
           "checking", "judged", "finished", "failed"}

NoOutcome == [phase |-> "none"]

Execution == [elapsed : ElapsedTimes, memory : Memories]

\* Mutant: tests are numbered from 0.
TestResultFromZero(j, status, e) ==
    [id |-> Len(tests[j]), status |-> status, elapsed |-> e.elapsed, memory |-> e.memory]

TestResult(j, status, e) ==
    [id |-> Len(tests[j]) + 1, status |-> status, elapsed |-> e.elapsed, memory |-> e.memory]

JudgeTypeOK ==
    /\ request \in [Judges -> Requests]
    /\ stage \in [Judges -> Stages]
    /\ \A j \in Judges :
         /\ Len(tests[j]) <= request[j].tests
         /\ \A i \in DOMAIN tests[j] : /\ tests[j][i].id = i
                                       /\ tests[j][i].status \in TestStatuses
         /\ outcome[j].phase \in {"none", "compile", "finished"}

JudgeInit ==
    /\ request \in [Judges -> Requests]
    /\ stage = [j \in Judges |-> "idle"]
    /\ last = [j \in Judges |-> Undefined]
    /\ tests = [j \in Judges |-> <<>>]
    /\ outcome = [j \in Judges |-> NoOutcome]

At(j, s) == stage[j] = s
Goto(j, s) == stage' = [stage EXCEPT ![j] = s]
End(j, o) == /\ Goto(j, "finished")
             /\ outcome' = [outcome EXCEPT ![j] = o]

-----------------------------------------------------------------------------
(* Compilation *)

Start(j) == /\ At(j, "idle")
            /\ Goto(j, "compiling")
            /\ UNCHANGED <<request, last, tests, outcome>>

CompileSucceeds(j) == /\ At(j, "compiling")
                      /\ Goto(j, "compiled")
                      /\ UNCHANGED <<request, last, tests, outcome>>

CompileFails(j) == /\ At(j, "compiling")
                   /\ End(j, [phase |-> "compile", ok |-> FALSE])
                   /\ UNCHANGED <<request, last, tests>>

\* A port's rejection passes through judge(), results and all.
Rejects(j, s) == /\ At(j, s)
                 /\ Goto(j, "failed")
                 /\ UNCHANGED <<request, last, tests, outcome>>

CompileRejects(j) == Rejects(j, "compiling")

-----------------------------------------------------------------------------
(* Tests *)

\* Mutant: the policy stops at the next test after a failure.
StopsLate(j, results) ==
    /\ request[j].stopOnFirstFailure
    /\ \E i \in 1 .. Len(results) - 1 : results[i].status # "accepted"

StopsAfter(j, results) ==
    /\ results # <<>>
    /\ request[j].stopOnFirstFailure
    /\ results[Len(results)].status # "accepted"

Finished(results) ==
    LET summary == Summarize(results)
    IN  [phase |-> "finished", ok |-> summary.status = "accepted", summary |-> summary]

\* Run the loop's head with these results: stop, or start the next execution.
LoopHead(j, results) ==
    IF StopsAfter(j, results) \/ Len(results) = request[j].tests
    THEN End(j, Finished(results))
    ELSE Goto(j, "executing") /\ UNCHANGED outcome

FirstTest(j) == /\ At(j, "compiled")
                /\ LoopHead(j, <<>>)
                /\ UNCHANGED <<request, last, tests>>

\* The result is pushed and the next execution started without an await.
NextTest(j) == /\ At(j, "judged")
               /\ tests' = [tests EXCEPT ![j] = Append(@, last[j])]
               /\ last' = [last EXCEPT ![j] = Undefined]
               /\ LoopHead(j, Append(tests[j], last[j]))
               /\ UNCHANGED request

\* resultFromExecutionFailure(): the checker is not asked.
ExecutionFails(j) ==
    /\ At(j, "executing")
    /\ \E s \in Failures, e \in Execution :
         last' = [last EXCEPT ![j] = TestResult(j, s, e)]
    /\ Goto(j, "judged")
    /\ UNCHANGED <<request, tests, outcome>>

ExecutionSucceeds(j) ==
    /\ At(j, "executing")
    /\ \E e \in Execution : last' = [last EXCEPT ![j] = e]
    /\ Goto(j, "executed")
    /\ UNCHANGED <<request, tests, outcome>>

ExecuteRejects(j) == Rejects(j, "executing")

Checked(j, status) == /\ last' = [last EXCEPT ![j] = TestResult(j, status, last[j])]
                      /\ Goto(j, "judged")
                      /\ UNCHANGED <<request, tests, outcome>>

\* runChecker(): the exact checker is run in place.  It throws only where a text to
\* compare is no string, which the types of judge() forbid and nothing checks.
ExactChecker(j) == /\ At(j, "executed")
                   /\ request[j].checker = "exact"
                   /\ \E s \in CheckerStatuses : Checked(j, s)

CustomCheckerStarts(j) == /\ At(j, "executed")
                          /\ request[j].checker = "custom"
                          /\ Goto(j, "checking")
                          /\ UNCHANGED <<request, last, tests, outcome>>

\* An exception, a rejection and an unknown checkerId become internal_error.
CustomCheckerEnds(j) == /\ At(j, "checking")
                        /\ \E s \in CheckerStatuses : Checked(j, s)

\* A checker that returns no outcome: reading outcome.status throws outside
\* runChecker()'s try block.
CustomCheckerReturnsNothing(j) == Rejects(j, "checking")

JudgeReacts(j) == \/ FirstTest(j) \/ NextTest(j)
                  \/ ExactChecker(j) \/ CustomCheckerStarts(j)

PortsAnswer(j) == \/ CompileSucceeds(j) \/ CompileFails(j) \/ CompileRejects(j)
                  \/ ExecutionFails(j) \/ ExecutionSucceeds(j) \/ ExecuteRejects(j)
                  \/ CustomCheckerEnds(j) \/ CustomCheckerReturnsNothing(j)

JudgeNext == \E j \in Judges : Start(j) \/ JudgeReacts(j) \/ PortsAnswer(j)

JudgeSpec == JudgeInit /\ [][JudgeNext]_judgeVars

-----------------------------------------------------------------------------
(* Properties *)

HasResult(j) == outcome[j].phase = "finished"

\* The policy: all tests are run, or with stopOnFirstFailure all up to and with
\* the first that is not accepted, and none after it.
RunsTheRightTests ==
    \A j \in Judges :
        /\ request[j].stopOnFirstFailure =>
             \A i \in 1 .. Len(tests[j]) - 1 : tests[j][i].status = "accepted"
        /\ HasResult(j) =>
             \/ Len(tests[j]) = request[j].tests
             \/ /\ request[j].stopOnFirstFailure
                /\ tests[j][Len(tests[j])].status # "accepted"

\* docs/foundation/07_EXECUTION_AND_ERROR_POLICY.md:147-154, 1 being the worst.
Severity(status) ==
    CASE status = "time_limit_exceeded" -> 1
      [] status = "memory_limit_exceeded" -> 2
      [] status = "output_limit_exceeded" -> 3
      [] status = "runtime_error" -> 4
      [] status = "internal_error" -> 5
      [] status = "wrong_answer" -> 6
      [] status = "accepted" -> 7

\* The summary's status is the most severe one, and a submission is ok exactly
\* if each of its tests was accepted.
SummaryStatusIsWorst ==
    \A j \in Judges : HasResult(j) =>
        LET seen == {tests[j][i].status : i \in DOMAIN tests[j]} \cup {"accepted"}
            status == outcome[j].summary.status
        IN  /\ status \in seen
            /\ \A s \in seen : Severity(status) <= Severity(s)
            /\ outcome[j].ok <=> \A i \in DOMAIN tests[j] : tests[j][i].status = "accepted"
            /\ outcome[j].ok <=> outcome[j].summary.passed = outcome[j].summary.count

\* The units of time the tests took, as pairs of a test and a number.
Units(results) == UNION {{i} \X (1 .. results[i].elapsed) : i \in DOMAIN results}

\* passed and failed say how many tests were accepted and how many were not, the
\* total is the time of all tests together; the slowest test is the first of those
\* that took longest, and it is missing only if no test took any time; the memory
\* is the largest that any test reported, be it the slowest or another.
SummaryFiguresAreRight ==
    \A j \in Judges : HasResult(j) =>
        LET sum == outcome[j].summary
            accepted == {i \in DOMAIN tests[j] : tests[j][i].status = "accepted"}
            times == {tests[j][i].elapsed : i \in DOMAIN tests[j]}
            sizes == {tests[j][i].memory : i \in DOMAIN tests[j]} \ {Undefined}
        IN  /\ sum.count = Cardinality(DOMAIN tests[j])
            /\ sum.passed = Cardinality(accepted)
            /\ sum.failed = Cardinality(DOMAIN tests[j] \ accepted)
            /\ sum.total = Cardinality(Units(tests[j]))
            /\ sum.maxElapsed = Max(times \cup {0})
            /\ IF times \subseteq {0}
               THEN sum.slowest = Undefined
               ELSE sum.slowest = Min({i \in DOMAIN tests[j] :
                                         tests[j][i].elapsed = Max(times)})
            /\ sum.memory = IF sizes = {} THEN Undefined ELSE Max(sizes)

\* docs/foundation/07_EXECUTION_AND_ERROR_POLICY.md:117: an error while a result
\* is converted is an internal_error, so no call fails once a test of it has been
\* executed and is being judged.
ConversionErrorsAreVerdicts ==
    \A j \in Judges : At(j, "failed") => last[j] = Undefined
=============================================================================
