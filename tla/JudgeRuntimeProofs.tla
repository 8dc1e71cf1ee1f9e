------------------------- MODULE JudgeRuntimeProofs -------------------------
(***************************************************************************)
(* Proofs about Judge and JudgeRuntime, for any number of calls and tests. *)
(* First what the core's judge keeps true at every await, whatever the     *)
(* checkers and the executor answer, and that its summaries are right.     *)
(* Then the runtime: the judges behind its ports are still module Judge's, *)
(* nobody is forgotten, nothing is started after the end, every test has   *)
(* its own execution, and the whole is a JudgeService as far as safety     *)
(* goes.                                                                   *)
(***************************************************************************)
EXTENDS JudgeRuntime, Loops, FiniteSetTheorems

Results == [id : Nat, status : TestStatuses, elapsed : ElapsedTimes, memory : Memories]

CompileFailure == [phase |-> "compile", ok |-> FALSE]
Outcomes == {NoOutcome, CompileFailure} \cup {Finished(r) : r \in Seq(Results)}

JudgeTyped ==
    /\ request \in [Judges -> Requests]
    /\ stage \in [Judges -> Stages]
    /\ last \in [Judges -> Execution \cup Results \cup {Undefined}]
    /\ tests \in [Judges -> Seq(Results)]
    /\ outcome \in [Judges -> Outcomes]

AtTest == {"executing", "executed", "checking", "judged"}

AllAccepted(results) == \A i \in DOMAIN results : results[i].status = "accepted"

\* What each stage promises to the steps that follow.
Progress(j) ==
    /\ stage[j] \in {"idle", "compiling", "compiled"} => tests[j] = <<>>
    /\ stage[j] \in AtTest => Len(tests[j]) < request[j].tests
    /\ stage[j] \in AtTest /\ request[j].stopOnFirstFailure => AllAccepted(tests[j])
    /\ stage[j] \in {"executed", "checking"} => last[j] \in Execution
    /\ stage[j] = "judged" => last[j] \in Results /\ last[j].id = Len(tests[j]) + 1
    /\ outcome[j].phase = "finished" => stage[j] = "finished"

\* What holds of the results pushed.
Numbered(j) ==
    /\ Len(tests[j]) <= request[j].tests
    /\ \A i \in DOMAIN tests[j] : tests[j][i].id = i

\* The two parts of RunsTheRightTests.
AcceptedSoFar(j) ==
    request[j].stopOnFirstFailure =>
        \A i \in 1 .. Len(tests[j]) - 1 : tests[j][i].status = "accepted"
Complete(j) ==
    outcome[j].phase = "finished" =>
        \/ Len(tests[j]) = request[j].tests
        \/ /\ request[j].stopOnFirstFailure
           /\ tests[j][Len(tests[j])].status # "accepted"

\* A result is about all the tests pushed.
Reported(j) == outcome[j].phase = "finished" => outcome[j] = Finished(tests[j])

JudgeKept(j) == Progress(j) /\ Numbered(j) /\ AcceptedSoFar(j) /\ Complete(j) /\ Reported(j)

\* The inductive invariant: the stage of a call says what is in last and tests.
JudgeInv == JudgeTyped /\ \A j \in Judges : JudgeKept(j)

-----------------------------------------------------------------------------
LEMMA StatusSet ==
    TestStatuses = {"time_limit_exceeded", "memory_limit_exceeded", "output_limit_exceeded",
                    "runtime_error", "internal_error", "wrong_answer", "accepted"}
<1>1. DOMAIN StatusPriority = 1 .. 7
  BY DEF StatusPriority
<1>2. Range(StatusPriority) = {StatusPriority[i] : i \in 1 .. 7}
  BY <1>1 DEF Range
<1> QED
  BY <1>2 DEF TestStatuses, StatusPriority

LEMMA RequestFields ==
    ASSUME NEW r \in Requests
    PROVE  r.tests \in Nat /\ r.stopOnFirstFailure \in BOOLEAN
  BY TestCountsAssumption, RequestsAssumption DEF Requests

\* A result made of an execution and a status is numbered after those pushed.
LEMMA MadeResult ==
    ASSUME NEW j \in Judges, tests[j] \in Seq(Results),
           NEW s \in TestStatuses, NEW e \in Execution
    PROVE  TestResult(j, s, e) \in Results /\ TestResult(j, s, e).id = Len(tests[j]) + 1
  BY DEF TestResult, Results, Execution

LEMMA OutcomePhases ==
    /\ NoOutcome.phase = "none"
    /\ CompileFailure.phase = "compile"
    /\ \A r : Finished(r).phase = "finished"
  BY DEF NoOutcome, CompileFailure, Finished

LEMMA InitKeeps == JudgeInit => JudgeInv
<1> SUFFICES ASSUME JudgeInit PROVE JudgeInv
  OBVIOUS
<1>1. JudgeTyped
  BY DEF JudgeInit, JudgeTyped, Stages, Outcomes
<1>2. ASSUME NEW j \in Judges PROVE JudgeKept(j)
  <2>1. request[j] \in Requests /\ request[j].tests \in Nat
    BY RequestFields DEF JudgeInit
  <2> QED
    BY <2>1, OutcomePhases DEF JudgeInit, JudgeKept, Progress, Numbered, AcceptedSoFar, Complete, Reported, AtTest, AllAccepted
<1> QED
  BY <1>1, <1>2 DEF JudgeInv
-----------------------------------------------------------------------------
(* The steps of one call *)

\* Nothing but the call j changes.
OnlyOf(j) == \A k \in Judges \ {j} : /\ stage'[k] = stage[k] /\ last'[k] = last[k]
                                     /\ tests'[k] = tests[k] /\ outcome'[k] = outcome[k]

LEMMA OthersKept ==
    ASSUME NEW j \in Judges, NEW k \in Judges \ {j}, OnlyOf(j), request' = request, JudgeKept(k)
    PROVE  JudgeKept(k)'
<1>1. /\ stage'[k] = stage[k] /\ last'[k] = last[k] /\ tests'[k] = tests[k]
      /\ outcome'[k] = outcome[k] /\ request'[k] = request[k]
  BY DEF OnlyOf
<1> QED
  BY <1>1 DEF JudgeKept, Progress, Numbered, AcceptedSoFar, Complete, Reported, AllAccepted

\* A step of j that keeps the types and what holds of j keeps the invariant.
LEMMA OneCallSuffices ==
    ASSUME NEW j \in Judges, JudgeInv, OnlyOf(j), request' = request,
           JudgeTyped', JudgeKept(j)'
    PROVE  JudgeInv'
<1>1. \A k \in Judges \ {j} : JudgeKept(k)'
  BY OthersKept DEF JudgeInv
<1> QED
  BY <1>1 DEF JudgeInv

\* A step that neither pushes a result nor ends with one.
LEMMA MoveKeeps ==
    ASSUME NEW j \in Judges, NEW to \in Stages \ {"finished"}, JudgeInv, Goto(j, to),
           UNCHANGED <<request, tests, outcome>>,
           stage[j] # "finished",
           last' \in [Judges -> Execution \cup Results \cup {Undefined}],
           \A k \in Judges \ {j} : last'[k] = last[k],
           to \in {"idle", "compiling", "compiled"} => stage[j] \in {"idle", "compiling", "compiled"},
           to \in AtTest => stage[j] \in AtTest,
           to \in {"executed", "checking"} => last'[j] \in Execution,
           to = "judged" => last'[j] \in Results /\ last'[j].id = Len(tests[j]) + 1
    PROVE  JudgeInv'
<1>1. JudgeTyped /\ JudgeKept(j)
  BY DEF JudgeInv
<1>2. stage'[j] = to /\ \A k \in Judges \ {j} : stage'[k] = stage[k]
  BY <1>1 DEF Goto, JudgeTyped
<1>3. JudgeTyped'
  BY <1>1 DEF Goto, JudgeTyped
<1>4. OnlyOf(j)
  BY <1>2 DEF OnlyOf
<1>5. JudgeKept(j)'
  BY <1>1, <1>2 DEF JudgeKept, Progress, Numbered, AcceptedSoFar, Complete, Reported, AllAccepted, AtTest
<1> QED
  BY <1>3, <1>4, <1>5, OneCallSuffices

\* The head of the loop, with the results that were pushed by now.
LEMMA LoopHeadKeeps ==
    ASSUME NEW j \in Judges, NEW results \in Seq(Results), JudgeInv, LoopHead(j, results),
           request' = request,
           tests' = [tests EXCEPT ![j] = results],
           last' \in [Judges -> Execution \cup Results \cup {Undefined}],
           \A k \in Judges \ {j} : last'[k] = last[k],
           stage[j] # "finished",
           Len(results) <= request[j].tests,
           \A i \in DOMAIN results : results[i].id = i,
           request[j].stopOnFirstFailure =>
             \A i \in 1 .. Len(results) - 1 : results[i].status = "accepted"
    PROVE  JudgeInv'
<1>1. JudgeTyped /\ JudgeKept(j)
  BY DEF JudgeInv
<1>2. request[j] \in Requests /\ request[j].tests \in Nat /\ request[j].stopOnFirstFailure \in BOOLEAN
  BY <1>1, RequestFields DEF JudgeTyped
<1>3. /\ tests'[j] = results /\ request'[j] = request[j]
      /\ \A k \in Judges \ {j} : tests'[k] = tests[k]
  BY <1>1 DEF JudgeTyped
<1>4. CASE StopsAfter(j, results) \/ Len(results) = request[j].tests
  <2>1. /\ stage' = [stage EXCEPT ![j] = "finished"]
        /\ outcome' = [outcome EXCEPT ![j] = Finished(results)]
    BY <1>4 DEF LoopHead, End, Goto
  <2>2. Finished(results) \in Outcomes
    BY DEF Outcomes
  <2>3. JudgeTyped'
    BY <1>1, <2>1, <2>2 DEF JudgeTyped, Stages
  <2>4. stage'[j] = "finished" /\ OnlyOf(j)
    BY <1>1, <1>3, <2>1 DEF OnlyOf, JudgeTyped
  <2>5. Numbered(j)' /\ AcceptedSoFar(j)' /\ Progress(j)'
    BY <1>3, <2>4 DEF Numbered, AcceptedSoFar, Progress, AtTest
  <2>6. Complete(j)'
    BY <1>2, <1>3, <1>4 DEF Complete, StopsAfter
  <2>7. Reported(j)'
    BY <1>1, <1>3, <2>1 DEF Reported, JudgeTyped
  <2> QED
    BY <2>3, <2>4, <2>5, <2>6, <2>7, OneCallSuffices DEF JudgeKept
<1>5. CASE ~(StopsAfter(j, results) \/ Len(results) = request[j].tests)
  <2>1. stage' = [stage EXCEPT ![j] = "executing"] /\ UNCHANGED outcome
    BY <1>5 DEF LoopHead, Goto
  <2>2. JudgeTyped'
    BY <1>1, <2>1 DEF JudgeTyped, Stages
  <2>3. stage'[j] = "executing" /\ OnlyOf(j)
    BY <1>1, <1>3, <2>1 DEF OnlyOf, JudgeTyped
  <2>4. request[j].stopOnFirstFailure => AllAccepted(results)
    <3> SUFFICES ASSUME request[j].stopOnFirstFailure, NEW i \in DOMAIN results
                 PROVE  results[i].status = "accepted"
      BY DEF AllAccepted
    <3>1. i \in 1 .. Len(results) /\ results # <<>>
      OBVIOUS
    <3>2. CASE i = Len(results)
      BY <1>5, <3>1, <3>2 DEF StopsAfter
    <3>3. CASE i \in 1 .. Len(results) - 1
      BY <3>3
    <3> QED
      BY <3>1, <3>2, <3>3
  <2>5. outcome'[j].phase # "finished"
    BY <1>1, <2>1 DEF JudgeKept, Progress
  <2>6. Progress(j)'
    BY <1>2, <1>3, <1>5, <2>3, <2>4, <2>5 DEF Progress, AtTest, AllAccepted
  <2>7. Numbered(j)' /\ AcceptedSoFar(j)' /\ Complete(j)' /\ Reported(j)'
    BY <1>3, <2>5 DEF Numbered, AcceptedSoFar, Complete, Reported
  <2> QED
    BY <2>2, <2>3, <2>6, <2>7, OneCallSuffices DEF JudgeKept
<1> QED
  BY <1>4, <1>5
-----------------------------------------------------------------------------
(* The actions of Judge *)

LEMMA KeptAt ==
    ASSUME NEW j \in Judges, JudgeInv
    PROVE  /\ JudgeTyped /\ Progress(j) /\ Numbered(j) /\ AcceptedSoFar(j)
           /\ request[j] \in Requests /\ stage[j] \in Stages /\ tests[j] \in Seq(Results)
           /\ last[j] \in Execution \cup Results \cup {Undefined}
  BY DEF JudgeInv, JudgeKept, JudgeTyped

\* A port's rejection ends the call without an outcome.
LEMMA RejectsKeeps ==
    ASSUME NEW j \in Judges, JudgeInv, NEW s \in {"compiling", "executing", "checking"}, Rejects(j, s)
    PROVE  JudgeInv'
<1>1. /\ UNCHANGED <<request, last, tests, outcome>> /\ stage[j] = s
      /\ Goto(j, "failed") /\ "failed" \in Stages \ {"finished"}
  BY DEF Rejects, At, Stages
<1>2. last' \in [Judges -> Execution \cup Results \cup {Undefined}]
  BY <1>1, KeptAt DEF JudgeTyped
<1> QED
  BY <1>1, <1>2, MoveKeeps DEF AtTest

LEMMA StartKeeps == ASSUME NEW j \in Judges, JudgeInv, Start(j) PROVE JudgeInv'
<1>1. /\ UNCHANGED <<request, last, tests, outcome>> /\ stage[j] = "idle"
      /\ Goto(j, "compiling") /\ "compiling" \in Stages \ {"finished"}
  BY DEF Start, At, Stages
<1>2. last' \in [Judges -> Execution \cup Results \cup {Undefined}]
  BY <1>1, KeptAt DEF JudgeTyped
<1> QED
  BY <1>1, <1>2, MoveKeeps DEF AtTest

LEMMA CompileSucceedsKeeps == ASSUME NEW j \in Judges, JudgeInv, CompileSucceeds(j) PROVE JudgeInv'
<1>1. /\ UNCHANGED <<request, last, tests, outcome>> /\ stage[j] = "compiling"
      /\ Goto(j, "compiled") /\ "compiled" \in Stages \ {"finished"}
  BY DEF CompileSucceeds, At, Stages
<1>2. last' \in [Judges -> Execution \cup Results \cup {Undefined}]
  BY <1>1, KeptAt DEF JudgeTyped
<1> QED
  BY <1>1, <1>2, MoveKeeps DEF AtTest

LEMMA CompileFailsKeeps == ASSUME NEW j \in Judges, JudgeInv, CompileFails(j) PROVE JudgeInv'
<1>1. JudgeTyped /\ Progress(j) /\ Numbered(j) /\ AcceptedSoFar(j)
  BY KeptAt
<1>2. /\ stage' = [stage EXCEPT ![j] = "finished"]
      /\ outcome' = [outcome EXCEPT ![j] = CompileFailure]
      /\ UNCHANGED <<request, last, tests>>
  BY DEF CompileFails, End, Goto, CompileFailure
<1>3. JudgeTyped'
  BY <1>1, <1>2 DEF JudgeTyped, Stages, Outcomes
<1>4. stage'[j] = "finished" /\ outcome'[j].phase = "compile" /\ OnlyOf(j)
  BY <1>1, <1>2, OutcomePhases DEF JudgeTyped, OnlyOf
<1>5. JudgeKept(j)'
  BY <1>1, <1>2, <1>4 DEF JudgeKept, Progress, Numbered, AcceptedSoFar, Complete, Reported, AtTest
<1> QED
  BY <1>2, <1>3, <1>4, <1>5, OneCallSuffices

LEMMA FirstTestKeeps == ASSUME NEW j \in Judges, JudgeInv, FirstTest(j) PROVE JudgeInv'
<1>1. /\ JudgeTyped /\ Numbered(j) /\ AcceptedSoFar(j) /\ tests[j] = <<>> /\ stage[j] = "compiled"
      /\ UNCHANGED <<request, last, tests>> /\ LoopHead(j, tests[j])
  BY KeptAt DEF FirstTest, At, Progress
<1>2. /\ tests[j] \in Seq(Results) /\ tests' = [tests EXCEPT ![j] = tests[j]]
      /\ last' \in [Judges -> Execution \cup Results \cup {Undefined}]
  BY <1>1 DEF JudgeTyped
<1> QED
  BY <1>1, <1>2, LoopHeadKeeps DEF Numbered, AcceptedSoFar

LEMMA NextTestKeeps == ASSUME NEW j \in Judges, JudgeInv, NextTest(j) PROVE JudgeInv'
<1> DEFINE results == Append(tests[j], last[j])
<1>1. /\ JudgeTyped /\ Numbered(j) /\ Progress(j) /\ stage[j] = "judged"
      /\ tests[j] \in Seq(Results) /\ request[j] \in Requests
  BY KeptAt DEF NextTest, At
<1>2. /\ last[j] \in Results /\ last[j].id = Len(tests[j]) + 1
      /\ Len(tests[j]) < request[j].tests /\ request[j].tests \in Nat
      /\ request[j].stopOnFirstFailure => AllAccepted(tests[j])
  BY <1>1, RequestFields DEF Progress, AtTest
<1>3. /\ results \in Seq(Results) /\ Len(results) = Len(tests[j]) + 1
      /\ \A i \in 1 .. Len(tests[j]) : results[i] = tests[j][i]
      /\ results[Len(tests[j]) + 1] = last[j]
      /\ DOMAIN results = 1 .. Len(tests[j]) + 1
      /\ DOMAIN tests[j] = 1 .. Len(tests[j])
  BY <1>1, <1>2
<1>4. /\ tests' = [tests EXCEPT ![j] = results] /\ request' = request
      /\ LoopHead(j, results)
      /\ last' = [last EXCEPT ![j] = Undefined]
  BY DEF NextTest
<1>5. /\ last' \in [Judges -> Execution \cup Results \cup {Undefined}]
      /\ \A k \in Judges \ {j} : last'[k] = last[k]
  BY <1>1, <1>4 DEF JudgeTyped
<1>6. Len(results) <= request[j].tests
  BY <1>1, <1>2, <1>3
<1>7. \A i \in DOMAIN results : results[i].id = i
  BY <1>1, <1>2, <1>3 DEF Numbered
<1>8. request[j].stopOnFirstFailure =>
        \A i \in 1 .. Len(results) - 1 : results[i].status = "accepted"
  BY <1>1, <1>2, <1>3 DEF AllAccepted
<1> HIDE DEF results
<1> QED
  BY <1>1, <1>3, <1>4, <1>5, <1>6, <1>7, <1>8, LoopHeadKeeps

\* An execution has ended, well or not.
LEMMA JudgedKeeps ==
    ASSUME NEW j \in Judges, JudgeInv, stage[j] \in AtTest, NEW s \in TestStatuses,
           NEW e \in Execution, last' = [last EXCEPT ![j] = TestResult(j, s, e)],
           Goto(j, "judged"), UNCHANGED <<request, tests, outcome>>
    PROVE  JudgeInv'
<1>1. JudgeTyped /\ tests[j] \in Seq(Results)
  BY KeptAt
<1>2. TestResult(j, s, e) \in Results /\ TestResult(j, s, e).id = Len(tests[j]) + 1
  BY <1>1, MadeResult
<1>3. /\ last' \in [Judges -> Execution \cup Results \cup {Undefined}]
      /\ last'[j] = TestResult(j, s, e)
      /\ \A k \in Judges \ {j} : last'[k] = last[k]
  BY <1>1, <1>2 DEF JudgeTyped
<1>4. "judged" \in Stages \ {"finished"} /\ stage[j] # "finished"
  BY DEF Stages, AtTest
<1> QED
  BY <1>2, <1>3, <1>4, MoveKeeps DEF AtTest

LEMMA ExecutionFailsKeeps == ASSUME NEW j \in Judges, JudgeInv, ExecutionFails(j) PROVE JudgeInv'
<1>1. PICK s \in Failures, e \in Execution : last' = [last EXCEPT ![j] = TestResult(j, s, e)]
  BY DEF ExecutionFails
<1>2. s \in TestStatuses
  BY FailuresAssumption DEF ExecutionFailures
<1> QED
  BY <1>1, <1>2, JudgedKeeps DEF ExecutionFails, At, AtTest

LEMMA ExecutionSucceedsKeeps == ASSUME NEW j \in Judges, JudgeInv, ExecutionSucceeds(j) PROVE JudgeInv'
<1>1. PICK e \in Execution : last' = [last EXCEPT ![j] = e]
  BY DEF ExecutionSucceeds
<1>2. /\ UNCHANGED <<request, tests, outcome>> /\ stage[j] = "executing"
      /\ Goto(j, "executed") /\ "executed" \in Stages \ {"finished"}
  BY DEF ExecutionSucceeds, At, Stages
<1>3. /\ last' \in [Judges -> Execution \cup Results \cup {Undefined}]
      /\ last'[j] = e
      /\ \A k \in Judges \ {j} : last'[k] = last[k]
  BY <1>1, KeptAt DEF JudgeTyped
<1> QED
  BY <1>2, <1>3, MoveKeeps DEF AtTest

LEMMA CheckedKeeps ==
    ASSUME NEW j \in Judges, JudgeInv, stage[j] \in {"executed", "checking"},
           NEW s \in CheckerStatuses, Checked(j, s)
    PROVE  JudgeInv'
<1>1. last[j] \in Execution /\ s \in TestStatuses
  BY KeptAt, StatusSet DEF Progress, CheckerStatuses
<1> QED
  BY <1>1, JudgedKeeps DEF Checked, AtTest

LEMMA CustomCheckerStartsKeeps ==
    ASSUME NEW j \in Judges, JudgeInv, CustomCheckerStarts(j) PROVE JudgeInv'
<1>1. /\ UNCHANGED <<request, last, tests, outcome>> /\ stage[j] = "executed"
      /\ Goto(j, "checking") /\ "checking" \in Stages \ {"finished"}
  BY DEF CustomCheckerStarts, At, Stages
<1>2. /\ last' \in [Judges -> Execution \cup Results \cup {Undefined}]
      /\ last'[j] \in Execution
  BY <1>1, KeptAt DEF JudgeTyped, Progress
<1> QED
  BY <1>1, <1>2, MoveKeeps DEF AtTest

\* Every step of every call keeps the invariant, and so does a step that is
\* none of theirs.
LEMMA JudgeStepKeeps == JudgeInv /\ [JudgeNext]_judgeVars => JudgeInv'
<1> SUFFICES ASSUME JudgeInv, [JudgeNext]_judgeVars PROVE JudgeInv'
  OBVIOUS
<1>1. CASE UNCHANGED judgeVars
  <2>1. JudgeTyped'
    BY <1>1 DEF judgeVars, JudgeInv, JudgeTyped
  <2>2. ASSUME NEW j \in Judges PROVE JudgeKept(j)'
    <3>1. JudgeKept(j)
      BY DEF JudgeInv
    <3> QED
      BY <1>1, <3>1 DEF judgeVars, JudgeKept, Progress, Numbered, AcceptedSoFar, Complete, Reported, AllAccepted
  <2> QED
    BY <2>1, <2>2 DEF JudgeInv
<1>2. ASSUME NEW j \in Judges, Start(j) PROVE JudgeInv'
  BY <1>2, StartKeeps
<1>3. ASSUME NEW j \in Judges, JudgeReacts(j) PROVE JudgeInv'
  <2>1. CASE FirstTest(j)
    BY <2>1, FirstTestKeeps
  <2>2. CASE NextTest(j)
    BY <2>2, NextTestKeeps
  <2>3. CASE ExactChecker(j)
    BY <2>3, CheckedKeeps DEF ExactChecker, At, CheckerStatuses
  <2>4. CASE CustomCheckerStarts(j)
    BY <2>4, CustomCheckerStartsKeeps
  <2> QED
    BY <1>3, <2>1, <2>2, <2>3, <2>4 DEF JudgeReacts
<1>4. ASSUME NEW j \in Judges, PortsAnswer(j) PROVE JudgeInv'
  <2>1. CASE CompileSucceeds(j)
    BY <2>1, CompileSucceedsKeeps
  <2>2. CASE CompileFails(j)
    BY <2>2, CompileFailsKeeps
  <2>3. CASE CompileRejects(j) \/ ExecuteRejects(j) \/ CustomCheckerReturnsNothing(j)
    BY <2>3, RejectsKeeps DEF CompileRejects, ExecuteRejects, CustomCheckerReturnsNothing
  <2>4. CASE ExecutionFails(j)
    BY <2>4, ExecutionFailsKeeps
  <2>5. CASE ExecutionSucceeds(j)
    BY <2>5, ExecutionSucceedsKeeps
  <2>6. CASE CustomCheckerEnds(j)
    BY <2>6, CheckedKeeps DEF CustomCheckerEnds, At
  <2> QED
    BY <1>4, <2>1, <2>2, <2>3, <2>4, <2>5, <2>6 DEF PortsAnswer
<1> QED
  BY <1>1, <1>2, <1>3, <1>4 DEF JudgeNext

-----------------------------------------------------------------------------
(* The summary of a list of results *)

LEMMA MaxIs ==
    ASSUME NEW S, S \subseteq Nat, NEW m \in S, \A k \in S : k <= m
    PROVE  Max(S) = m
<1>1. \A k \in S : m >= k
  OBVIOUS
<1>2. Max(S) \in S /\ \A k \in S : Max(S) >= k
  BY <1>1 DEF Max
<1> DEFINE k == Max(S)
<1>3. k \in Nat /\ m \in Nat /\ k >= m /\ m >= k
  BY <1>1, <1>2
<1> HIDE DEF k
<1>4. k = m
  BY <1>3
<1> QED
  BY <1>4 DEF k

LEMMA MinIs ==
    ASSUME NEW S, S \subseteq Nat, NEW m \in S, \A k \in S : m <= k
    PROVE  Min(S) = m
<1>1. Min(S) \in S /\ \A k \in S : Min(S) <= k
  BY DEF Min
<1> DEFINE k == Min(S)
<1>2. k \in Nat /\ m \in Nat /\ k <= m /\ m <= k
  BY <1>1
<1> HIDE DEF k
<1>3. k = m
  BY <1>2
<1> QED
  BY <1>3 DEF k

LEMMA MinOf ==
    ASSUME NEW S, S \subseteq Nat, S # {}
    PROVE  Min(S) \in S /\ \A k \in S : Min(S) <= k
<1>1. PICK m \in S : \A k \in S : m <= k
  BY LeastExists
<1> QED
  BY <1>1 DEF Min

\* STATUS_PRIORITY lists the statuses by severity.
LEMMA PriorityIsSeverity ==
    /\ DOMAIN StatusPriority = 1 .. 7
    /\ \A p \in 1 .. 7 : Severity(StatusPriority[p]) = p /\ StatusPriority[p] \in TestStatuses
    /\ \A s \in TestStatuses : Severity(s) \in 1 .. 7 /\ StatusPriority[Severity(s)] = s
<1>1. DOMAIN StatusPriority = 1 .. 7
  BY DEF StatusPriority
<1>2. ASSUME NEW p \in 1 .. 7
      PROVE  Severity(StatusPriority[p]) = p /\ StatusPriority[p] \in TestStatuses
  BY StatusSet DEF StatusPriority, Severity
<1>3. ASSUME NEW s \in TestStatuses PROVE Severity(s) \in 1 .. 7 /\ StatusPriority[Severity(s)] = s
  BY StatusSet DEF StatusPriority, Severity
<1> QED
  BY <1>1, <1>2, <1>3

\* statusFromTests() returns the most severe of the statuses.
LEMMA StatusIsWorst ==
    ASSUME NEW r \in Seq(Results)
    PROVE  LET seen == {r[i].status : i \in DOMAIN r} \cup {"accepted"}
           IN  /\ StatusFromTests(r) \in seen
               /\ \A s \in seen : Severity(StatusFromTests(r)) <= Severity(s)
<1> DEFINE seen == {r[i].status : i \in DOMAIN r} \cup {"accepted"}
           found == {p \in DOMAIN StatusPriority :
                       \E i \in DOMAIN r : r[i].status = StatusPriority[p]}
<1>1. \A i \in DOMAIN r : r[i].status \in TestStatuses
  <2>1. \A i \in DOMAIN r : r[i] \in Results
    OBVIOUS
  <2> QED
    BY <2>1 DEF Results
<1>2. found \subseteq 1 .. 7 /\ StatusFromTests(r) = IF found = {} THEN "accepted" ELSE StatusPriority[Min(found)]
  BY PriorityIsSeverity DEF StatusFromTests
<1>3. \A i \in DOMAIN r : Severity(r[i].status) \in found
  BY <1>1, PriorityIsSeverity
<1>4. Severity("accepted") = 7 /\ "accepted" \in TestStatuses
  BY StatusSet DEF Severity
<1>5. CASE found = {}
  <2>1. DOMAIN r = {} /\ StatusFromTests(r) = "accepted"
    BY <1>2, <1>3, <1>5
  <2> QED
    BY <1>4, <2>1
<1>6. CASE found # {}
  <2> DEFINE m == Min(found)
  <2>1. m \in found /\ m \in 1 .. 7 /\ \A p \in found : m <= p
    <3>1. found \subseteq Nat
      BY <1>2
    <3> HIDE DEF found
    <3> QED
      BY <1>2, <1>6, <3>1, MinOf
  <2>2. StatusFromTests(r) = StatusPriority[m] /\ Severity(StatusPriority[m]) = m
    BY <1>2, <1>6, <2>1, PriorityIsSeverity
  <2>3. StatusFromTests(r) \in seen
    <3> HIDE DEF m
    <3> QED
      BY <2>1, <2>2
  <2>4. ASSUME NEW s \in seen PROVE m <= Severity(s)
    <3> HIDE DEF m, found
    <3>1. CASE s = "accepted"
      BY <1>4, <2>1, <3>1
    <3>2. CASE s # "accepted"
      BY <1>3, <2>1, <2>4, <3>2
    <3> QED
      BY <3>1, <3>2
  <2> HIDE DEF m
  <2> QED
    BY <2>2, <2>3, <2>4
<1> QED
  BY <1>5, <1>6

LEMMA OkIfAllAccepted ==
    ASSUME NEW r \in Seq(Results)
    PROVE  StatusFromTests(r) = "accepted" <=> AllAccepted(r)
<1> DEFINE seen == {r[i].status : i \in DOMAIN r} \cup {"accepted"}
<1>1. /\ StatusFromTests(r) \in seen
      /\ \A s \in seen : Severity(StatusFromTests(r)) <= Severity(s)
  BY StatusIsWorst
<1>2. \A i \in DOMAIN r : r[i].status \in TestStatuses
  <2>1. \A i \in DOMAIN r : r[i] \in Results
    OBVIOUS
  <2> QED
    BY <2>1 DEF Results
<1>3. Severity("accepted") = 7 /\ StatusPriority[7] = "accepted"
  BY DEF Severity, StatusPriority
<1>4. ASSUME AllAccepted(r) PROVE StatusFromTests(r) = "accepted"
  BY <1>1, <1>4 DEF AllAccepted
<1>5. ASSUME StatusFromTests(r) = "accepted", NEW i \in DOMAIN r PROVE r[i].status = "accepted"
  <2>1. Severity(r[i].status) \in 1 .. 7 /\ StatusPriority[Severity(r[i].status)] = r[i].status
    BY <1>2, PriorityIsSeverity
  <2>2. 7 <= Severity(r[i].status)
    BY <1>1, <1>3, <1>5
  <2>3. Severity(r[i].status) = 7
    BY <2>1, <2>2
  <2> QED
    BY <1>3, <2>1, <2>3
<1> QED
  BY <1>4, <1>5 DEF AllAccepted

-----------------------------------------------------------------------------
(* The loop of summarizeTests() *)

Sizes == Nat \cup {Undefined}
Sums == [passed : Nat, failed : Nat, maxElapsed : Nat, slowest : Sizes, memory : Sizes, total : Nat]

Accepted(r, n) == {i \in 1 .. n : r[i].status = "accepted"}
UnitsUpTo(r, n) == UNION {{i} \X (1 .. r[i].elapsed) : i \in 1 .. n}

\* What the loop has counted in the first n results.
Counted(acc, r, n) ==
    /\ acc.passed = Cardinality(Accepted(r, n))
    /\ acc.failed = Cardinality((1 .. n) \ Accepted(r, n))
    /\ IsFiniteSet(UnitsUpTo(r, n)) /\ acc.total = Cardinality(UnitsUpTo(r, n))

\* What the loop has found in the first n results.
Found(acc, r, n) ==
    /\ \A i \in 1 .. n : r[i].elapsed <= acc.maxElapsed
    /\ IF acc.maxElapsed = 0 THEN acc.slowest = Undefined
       ELSE /\ acc.slowest \in 1 .. n
            /\ r[acc.slowest].elapsed = acc.maxElapsed
            /\ \A i \in 1 .. n : i < acc.slowest => r[i].elapsed < acc.maxElapsed
    /\ IF acc.memory = Undefined THEN \A i \in 1 .. n : r[i].memory = Undefined
       ELSE /\ \E i \in 1 .. n : r[i].memory = acc.memory
            /\ \A i \in 1 .. n : r[i].memory # Undefined => r[i].memory <= acc.memory

LEMMA ResultFigures ==
    ASSUME NEW t \in Results
    PROVE  t.id \in Nat /\ t.elapsed \in Nat /\ t.memory \in Sizes
  BY FiguresAssumption DEF Results, Sizes

LEMMA UpTo == ASSUME NEW n \in Nat PROVE IsFiniteSet(1 .. n) /\ Cardinality(1 .. n) = n
  BY FS_Interval

\* One round counts one more test, as accepted or not, and its time.
LEMMA RoundCounts ==
    ASSUME NEW r \in Seq(Results), NEW n \in 1 .. Len(r), NEW acc \in Sums, Counted(acc, r, n - 1)
    PROVE  Counted(Accumulate(acc, r[n]), r, n)
<1> DEFINE new == Accumulate(acc, r[n])
           A == Accepted(r, n - 1)
           B == (1 .. n - 1) \ A
           U == UnitsUpTo(r, n - 1)
           e == r[n].elapsed
           V == {n} \X (1 .. e)
<1>1. n \in Nat /\ n - 1 \in Nat /\ 1 .. n = (1 .. n - 1) \cup {n} /\ n \notin 1 .. n - 1
  OBVIOUS
<1>2. e \in Nat /\ acc.passed \in Nat /\ acc.failed \in Nat /\ acc.total \in Nat
  BY ResultFigures DEF Sums
<1>3. /\ new.passed = IF r[n].status = "accepted" THEN acc.passed + 1 ELSE acc.passed
      /\ new.failed = IF r[n].status = "accepted" THEN acc.failed ELSE acc.failed + 1
      /\ new.total = acc.total + e
  BY DEF Accumulate
<1>4. /\ acc.passed = Cardinality(A) /\ acc.failed = Cardinality(B)
      /\ IsFiniteSet(U) /\ acc.total = Cardinality(U)
  BY DEF Counted
<1>5. IsFiniteSet(A) /\ IsFiniteSet(B) /\ n \notin A /\ n \notin B
  <2>1. IsFiniteSet(1 .. n - 1)
    BY <1>1, UpTo
  <2>2. A \in SUBSET (1 .. n - 1) /\ B \in SUBSET (1 .. n - 1)
    BY DEF Accepted
  <2> HIDE DEF A, B
  <2> QED
    BY <1>1, <2>1, <2>2, FS_Subset
<1>6. /\ Cardinality(A \cup {n}) = Cardinality(A) + 1
      /\ Cardinality(B \cup {n}) = Cardinality(B) + 1
  <2> HIDE DEF A, B
  <2> QED
    BY <1>5, FS_AddElement
<1>7. /\ r[n].status = "accepted" => Accepted(r, n) = A \cup {n} /\ (1 .. n) \ Accepted(r, n) = B
      /\ r[n].status # "accepted" => Accepted(r, n) = A /\ (1 .. n) \ Accepted(r, n) = B \cup {n}
  BY <1>1 DEF Accepted
<1>8. IsFiniteSet(V) /\ Cardinality(V) = e
  <2>1. IsFiniteSet(1 .. e) /\ Cardinality(1 .. e) = e
    <3> HIDE DEF e
    <3> QED
      BY <1>2, UpTo
  <2>2. IsFiniteSet({n}) /\ Cardinality({n}) = 1
    BY FS_Singleton
  <2>3. IsFiniteSet(V) /\ Cardinality(V) = Cardinality({n}) * Cardinality(1 .. e)
    <3> HIDE DEF e
    <3> QED
      BY <2>1, <2>2, FS_Product
  <2> HIDE DEF V, e
  <2> QED
    BY <1>2, <2>1, <2>2, <2>3
<1>9. UnitsUpTo(r, n) = U \cup V
  BY <1>1 DEF UnitsUpTo
<1>10. U \cap V = {}
  <2> SUFFICES ASSUME NEW u \in U, u \in V PROVE FALSE
    OBVIOUS
  <2>1. u[1] = n
    OBVIOUS
  <2>2. PICK i \in 1 .. n - 1 : u \in {i} \X (1 .. r[i].elapsed)
    BY DEF UnitsUpTo
  <2>3. u[1] = i
    BY <2>2
  <2> QED
    BY <1>1, <2>1, <2>3
<1>11. IsFiniteSet(U \cup V) /\ Cardinality(U \cup V) = acc.total + e
  <2>1. /\ IsFiniteSet(U \cup V)
        /\ Cardinality(U \cup V) = Cardinality(U) + Cardinality(V) - Cardinality(U \cap V)
    <3> HIDE DEF U, V
    <3> QED
      BY <1>4, <1>8, FS_Union
  <2>2. Cardinality(U \cap V) = 0
    BY <1>10, FS_EmptySet
  <2> HIDE DEF U, V, e
  <2> QED
    BY <1>2, <1>4, <1>8, <2>1, <2>2
<1> HIDE DEF new, A, B, U, V, e
<1>12. new.passed = Cardinality(Accepted(r, n)) /\ new.failed = Cardinality((1 .. n) \ Accepted(r, n))
  BY <1>3, <1>4, <1>6, <1>7
<1> QED
  BY <1>3, <1>9, <1>11, <1>12 DEF Counted, new

\* One round of the loop.
LEMMA RoundFinds ==
    ASSUME NEW r \in Seq(Results), \A i \in DOMAIN r : r[i].id = i,
           NEW n \in 1 .. Len(r), NEW acc \in Sums, Found(acc, r, n - 1)
    PROVE  Found(Accumulate(acc, r[n]), r, n)
<1> DEFINE new == Accumulate(acc, r[n])
           t == r[n]
<1>1. /\ t \in Results /\ t.id = n /\ t.elapsed \in Nat /\ t.memory \in Sizes
      /\ \A i \in 1 .. n : r[i].elapsed \in Nat /\ r[i].memory \in Sizes
      /\ n \in Nat
  BY ResultFigures
<1>2. /\ acc.maxElapsed \in Nat /\ acc.slowest \in Sizes /\ acc.memory \in Sizes
      /\ Undefined \notin Nat
  BY FiguresAssumption DEF Sums
<1>3. /\ new.maxElapsed = IF t.elapsed > acc.maxElapsed THEN t.elapsed ELSE acc.maxElapsed
      /\ new.slowest = IF t.elapsed > acc.maxElapsed THEN t.id ELSE acc.slowest
      /\ new.memory = IF t.memory = Undefined THEN acc.memory
                      ELSE IF t.memory > (IF acc.memory = Undefined THEN 0 ELSE acc.memory)
                           THEN t.memory ELSE (IF acc.memory = Undefined THEN 0 ELSE acc.memory)
  BY DEF Accumulate, Slower
<1>4. \A i \in 1 .. n : i \in 1 .. n - 1 \/ i = n
  BY <1>1
<1> HIDE DEF new, t
<1>5. \A i \in 1 .. n : r[i].elapsed <= new.maxElapsed
  <2> TAKE i \in 1 .. n
  <2>1. acc.maxElapsed <= new.maxElapsed /\ t.elapsed <= new.maxElapsed /\ new.maxElapsed \in Nat
    BY <1>1, <1>2, <1>3
  <2>2. CASE i = n
    BY <2>1, <2>2 DEF t
  <2>3. CASE i \in 1 .. n - 1
    <3>1. r[i].elapsed <= acc.maxElapsed
      BY <2>3 DEF Found
    <3>2. r[i].elapsed \in Nat
      BY <1>1
    <3> QED
      BY <1>2, <2>1, <3>1, <3>2
  <2> QED
    BY <1>4, <2>2, <2>3
<1>6. IF new.maxElapsed = 0 THEN new.slowest = Undefined
      ELSE /\ new.slowest \in 1 .. n
           /\ r[new.slowest].elapsed = new.maxElapsed
           /\ \A i \in 1 .. n : i < new.slowest => r[i].elapsed < new.maxElapsed
  <2>1. CASE t.elapsed > acc.maxElapsed
    <3>1. new.maxElapsed = t.elapsed /\ new.slowest = n /\ t.elapsed > 0
      BY <1>1, <1>2, <1>3, <2>1
    <3>2. ASSUME NEW i \in 1 .. n, i < n PROVE r[i].elapsed < t.elapsed
      <4>1. i \in 1 .. n - 1
        BY <1>1, <3>2
      <4>2. r[i].elapsed <= acc.maxElapsed
        BY <4>1 DEF Found
      <4> QED
        BY <1>1, <1>2, <2>1, <4>2
    <3>3. n \in 1 .. n /\ r[n].elapsed = t.elapsed
      BY <1>1 DEF t
    <3> QED
      BY <1>1, <3>1, <3>2, <3>3
  <2>2. CASE ~(t.elapsed > acc.maxElapsed)
    BY <1>1, <1>2, <1>3, <1>4, <2>2 DEF Found, t
  <2> QED
    BY <2>1, <2>2
<1>7. IF new.memory = Undefined THEN \A i \in 1 .. n : r[i].memory = Undefined
      ELSE /\ \E i \in 1 .. n : r[i].memory = new.memory
           /\ \A i \in 1 .. n : r[i].memory # Undefined => r[i].memory <= new.memory
  <2>1. CASE t.memory = Undefined
    BY <1>1, <1>2, <1>3, <1>4, <2>1 DEF Found, t, Sizes
  <2>2. CASE t.memory # Undefined /\ acc.memory = Undefined
    BY <1>1, <1>2, <1>3, <1>4, <2>2 DEF Found, t, Sizes
  <2>3. CASE t.memory # Undefined /\ acc.memory # Undefined
    <3>1. t.memory \in Nat /\ acc.memory \in Nat
      BY <1>1, <1>2, <2>3 DEF Sizes
    <3>2. /\ new.memory = IF t.memory > acc.memory THEN t.memory ELSE acc.memory
          /\ new.memory \in Nat /\ t.memory <= new.memory /\ acc.memory <= new.memory
      BY <1>3, <2>3, <3>1
    <3>3. \A i \in 1 .. n - 1 : r[i].memory # Undefined => r[i].memory <= acc.memory
      BY <2>3 DEF Found
    <3>4. ASSUME NEW i \in 1 .. n, r[i].memory # Undefined PROVE r[i].memory <= new.memory
      <4>1. r[i].memory \in Nat
        BY <1>1, <3>4 DEF Sizes
      <4>2. CASE i = n
        BY <3>2, <4>2 DEF t
      <4>3. CASE i \in 1 .. n - 1
        BY <3>1, <3>2, <3>3, <3>4, <4>1, <4>3
      <4> QED
        BY <1>4, <4>2, <4>3
    <3>5. \E i \in 1 .. n : r[i].memory = new.memory
      <4>1. CASE t.memory > acc.memory
        BY <1>1, <3>2, <4>1 DEF t
      <4>2. CASE ~(t.memory > acc.memory)
        <5>1. PICK i \in 1 .. n - 1 : r[i].memory = acc.memory
          BY <2>3 DEF Found
        <5>2. i \in 1 .. n
          BY <1>1
        <5> QED
          BY <3>2, <4>2, <5>1, <5>2
      <4> QED
        BY <4>1, <4>2
    <3> QED
      BY <1>2, <3>2, <3>4, <3>5
  <2> QED
    BY <2>1, <2>2, <2>3
<1> QED
  BY <1>5, <1>6, <1>7 DEF Found, new

\* What the whole loop has found and counted.
LEMMA AccumulatedFinds ==
    ASSUME NEW r \in Seq(Results), \A i \in DOMAIN r : r[i].id = i
    PROVE  /\ Accumulated(r) \in Sums
           /\ Found(Accumulated(r), r, Len(r)) /\ Counted(Accumulated(r), r, Len(r))
<1> DEFINE L == Len(r)
           b == [passed |-> 0, failed |-> 0, maxElapsed |-> 0, slowest |-> Undefined,
                 memory |-> Undefined, total |-> 0]
           round == [n \in 1 .. L |-> [acc \in Sums |-> Accumulate(acc, r[n])]]
           IsRun(g) == g = [n \in 0 .. L |-> IF n = 0 THEN b ELSE Accumulate(g[n - 1], r[n])]
           c == CHOOSE g : IsRun(g)
<1>1. L \in Nat /\ \A n \in 1 .. L : r[n] \in Results
  OBVIOUS
<1>2. b \in Sums
  BY DEF Sums, Sizes
<1>3. round \in Rounds(L, Sums)
  <2>1. ASSUME NEW n \in 1 .. L, NEW acc \in Sums PROVE Accumulate(acc, r[n]) \in Sums
    <3>1. r[n].id \in Nat /\ r[n].elapsed \in Nat /\ r[n].memory \in Sizes
      BY <1>1, ResultFigures
    <3> QED
      BY <3>1 DEF Accumulate, Sums, Sizes
  <2> HIDE DEF L
  <2> QED
    BY <2>1 DEF Rounds
<1>4. \A n \in 1 .. L, acc \in Sums : round[n][acc] = Accumulate(acc, r[n])
  OBVIOUS
<1>5. PICK g : g \in Runs(L, Sums, b, round)
  <2> HIDE DEF L, b, round
  <2> QED
    BY <1>1, <1>2, <1>3, RunExists
<1>6. IsRun(g)
  <2> HIDE DEF b, round
  <2>1. g \in [0 .. L -> Sums] /\ g[0] = b /\ \A n \in 1 .. L : g[n] = round[n][g[n - 1]]
    BY <1>5 DEF Runs
  <2>2. ASSUME NEW n \in 1 .. L PROVE g[n] = Accumulate(g[n - 1], r[n])
    <3>1. n - 1 \in 0 .. L
      BY <1>1
    <3> QED
      BY <1>4, <2>1, <3>1
  <2> HIDE DEF L
  <2>3. \A n \in 0 .. L : g[n] = IF n = 0 THEN b ELSE Accumulate(g[n - 1], r[n])
    BY <1>1, <2>1, <2>2
  <2> QED
    BY <2>1, <2>3
<1>7. IsRun(c)
  <2> HIDE DEF IsRun
  <2> QED
    BY <1>6
<1>8. /\ Accumulated(r) = c[L]
      /\ c[0] = b /\ \A n \in 1 .. L : c[n] = Accumulate(c[n - 1], r[n])
  <2>1. Accumulated(r) = c[L]
    BY DEF Accumulated
  <2> HIDE DEF c, b
  <2> QED
    BY <1>1, <1>7, <2>1
<1> HIDE DEF c
<1>9. \A n \in 0 .. L : c[n] \in Sums
  <2>1. \A n \in 1 .. L : c[n - 1] \in Sums => c[n] = round[n][c[n - 1]]
    <3> HIDE DEF round
    <3> QED
      BY <1>4, <1>8
  <2> HIDE DEF L, b, round
  <2> QED
    BY <1>1, <1>2, <1>3, <1>8, <2>1, RunStays
<1>10. \A n \in 0 .. L : Found(c[n], r, n) /\ Counted(c[n], r, n)
  <2> DEFINE T == {n \in 0 .. L : Found(c[n], r, n) /\ Counted(c[n], r, n)}
  <2>1. 0 \in T
    <3>1. c[0].maxElapsed = 0 /\ c[0].slowest = Undefined /\ c[0].memory = Undefined
      BY <1>8
    <3>2. 1 .. 0 = {} /\ 0 \in 0 .. L
      BY <1>1
    <3>3. c[0].passed = 0 /\ c[0].failed = 0 /\ c[0].total = 0
      BY <1>8
    <3>4. Accepted(r, 0) = {} /\ (1 .. 0) \ Accepted(r, 0) = {} /\ UnitsUpTo(r, 0) = {}
      BY <3>2 DEF Accepted, UnitsUpTo
    <3>5. Found(c[0], r, 0)
      BY <3>1, <3>2 DEF Found
    <3>6. Counted(c[0], r, 0)
      BY <3>3, <3>4, FS_EmptySet DEF Counted
    <3> QED
      BY <3>2, <3>5, <3>6
  <2>2. ASSUME NEW n \in 1 .. L, n - 1 \in T PROVE n \in T
    <3>1. /\ n - 1 \in 0 .. L /\ c[n - 1] \in Sums
          /\ Found(c[n - 1], r, n - 1) /\ Counted(c[n - 1], r, n - 1)
      BY <1>1, <1>9, <2>2
    <3>2. Found(Accumulate(c[n - 1], r[n]), r, n)
      BY <3>1, RoundFinds
    <3>3. Counted(Accumulate(c[n - 1], r[n]), r, n)
      BY <3>1, RoundCounts
    <3> QED
      BY <1>8, <3>2, <3>3
  <2>3. \A n \in 0 .. L : n \in T
    <3> HIDE DEF L, T
    <3> QED
      BY <1>1, <2>1, <2>2, InductionTo
  <2> QED
    BY <2>3
<1> QED
  BY <1>1, <1>8, <1>9, <1>10

\* The counts and the total time of summarizeTests().
LEMMA CountsAreRight ==
    ASSUME NEW r \in Seq(Results), \A i \in DOMAIN r : r[i].id = i
    PROVE  LET sum == Summarize(r)
               accepted == {i \in DOMAIN r : r[i].status = "accepted"}
           IN  /\ sum.count = Cardinality(DOMAIN r)
               /\ sum.passed = Cardinality(accepted)
               /\ sum.failed = Cardinality(DOMAIN r \ accepted)
               /\ sum.total = Cardinality(Units(r))
               /\ sum.passed = sum.count <=> AllAccepted(r)
<1> DEFINE acc == Accumulated(r)
           n == Len(r)
           A == Accepted(r, n)
<1>1. /\ Summarize(r).passed = acc.passed /\ Summarize(r).failed = acc.failed
      /\ Summarize(r).total = acc.total /\ Summarize(r).count = n
  BY DEF Summarize
<1>2. Counted(acc, r, n) /\ n \in Nat /\ DOMAIN r = 1 .. n
  BY AccumulatedFinds
<1> HIDE DEF acc, n
<1>3. IsFiniteSet(1 .. n) /\ Cardinality(1 .. n) = n
  BY <1>2, UpTo
<1>4. A = {i \in DOMAIN r : r[i].status = "accepted"} /\ Units(r) = UnitsUpTo(r, n)
  BY <1>2 DEF Accepted, Units, UnitsUpTo
<1>5. acc.passed = Cardinality(A) /\ acc.failed = Cardinality((1 .. n) \ A)
      /\ acc.total = Cardinality(Units(r))
  BY <1>2, <1>4 DEF Counted
<1>6. A \in SUBSET (1 .. n) /\ (A = 1 .. n <=> AllAccepted(r))
  BY <1>2 DEF Accepted, AllAccepted
<1> HIDE DEF A
<1>7. Cardinality(A) = n <=> AllAccepted(r)
  BY <1>3, <1>6, FS_Subset
<1> QED
  BY <1>1, <1>2, <1>3, <1>4, <1>5, <1>7

\* summarizeTests() reports the figures of the results it is given.
LEMMA FiguresAreRight ==
    ASSUME NEW r \in Seq(Results), \A i \in DOMAIN r : r[i].id = i
    PROVE  LET sum == Summarize(r)
               times == {r[i].elapsed : i \in DOMAIN r}
               sizes == {r[i].memory : i \in DOMAIN r} \ {Undefined}
           IN  /\ sum.maxElapsed = Max(times \cup {0})
               /\ IF times \subseteq {0}
                  THEN sum.slowest = Undefined
                  ELSE sum.slowest = Min({i \in DOMAIN r : r[i].elapsed = Max(times)})
               /\ sum.memory = IF sizes = {} THEN Undefined ELSE Max(sizes)
<1> DEFINE acc == Accumulated(r)
           times == {r[i].elapsed : i \in DOMAIN r}
           sizes == {r[i].memory : i \in DOMAIN r} \ {Undefined}
           n == Len(r)
<1>1. /\ Summarize(r).maxElapsed = acc.maxElapsed /\ Summarize(r).slowest = acc.slowest
      /\ Summarize(r).memory = acc.memory
  BY DEF Summarize
<1>2. acc \in Sums /\ Found(acc, r, n) /\ n \in Nat /\ DOMAIN r = 1 .. n
  BY AccumulatedFinds
<1>3. \A i \in 1 .. n : r[i].elapsed \in Nat /\ r[i].memory \in Sizes
  BY ResultFigures
<1> HIDE DEF acc, n
<1>4. acc.maxElapsed \in Nat /\ acc.slowest \in Sizes /\ acc.memory \in Sizes
  BY <1>2 DEF Sums
<1>5. times \subseteq Nat /\ sizes \subseteq Nat
  BY <1>2, <1>3 DEF Sizes
<1>6. \A k \in times : k <= acc.maxElapsed
  BY <1>2 DEF Found
<1>7. acc.maxElapsed # 0 =>
        /\ acc.slowest \in 1 .. n /\ r[acc.slowest].elapsed = acc.maxElapsed
        /\ \A i \in 1 .. n : i < acc.slowest => r[i].elapsed < acc.maxElapsed
        /\ acc.maxElapsed \in times
  BY <1>2 DEF Found
<1>8. acc.maxElapsed = Max(times \cup {0})
  <2>1. times \cup {0} \subseteq Nat /\ acc.maxElapsed \in times \cup {0}
        /\ \A k \in times \cup {0} : k <= acc.maxElapsed
    BY <1>4, <1>5, <1>6, <1>7
  <2> HIDE DEF times
  <2> QED
    BY <2>1, MaxIs
<1>9. IF times \subseteq {0} THEN acc.slowest = Undefined
      ELSE acc.slowest = Min({i \in DOMAIN r : r[i].elapsed = Max(times)})
  <2>1. CASE times \subseteq {0}
    <3>1. acc.maxElapsed = 0
      BY <1>7, <2>1
    <3> QED
      BY <1>2, <2>1, <3>1 DEF Found
  <2>2. CASE ~(times \subseteq {0})
    <3>1. acc.maxElapsed # 0
      <4> HIDE DEF times
      <4>1. PICK k \in times : k # 0
        BY <2>2
      <4>2. k \in Nat /\ k <= acc.maxElapsed
        BY <1>5, <1>6
      <4> QED
        BY <1>4, <4>1, <4>2
    <3>2. Max(times) = acc.maxElapsed
      <4> HIDE DEF times
      <4> QED
        BY <1>5, <1>6, <1>7, <3>1, MaxIs
    <3> DEFINE S == {i \in DOMAIN r : r[i].elapsed = Max(times)}
    <3>3. S = {i \in 1 .. n : r[i].elapsed = acc.maxElapsed}
      BY <1>2, <3>2
    <3>4. S \subseteq Nat /\ acc.slowest \in S
      BY <1>2, <1>7, <3>1, <3>3
    <3>5. \A i \in S : acc.slowest <= i
      BY <1>2, <1>3, <1>4, <1>7, <3>1, <3>3
    <3>6. Min(S) = acc.slowest
      <4> HIDE DEF S
      <4> QED
        BY <3>4, <3>5, MinIs
    <3> QED
      BY <2>2, <3>6
  <2> QED
    BY <2>1, <2>2
<1>10. acc.memory = IF sizes = {} THEN Undefined ELSE Max(sizes)
  <2>1. CASE acc.memory = Undefined
    <3>1. sizes = {}
      BY <1>2, <2>1 DEF Found
    <3> QED
      BY <2>1, <3>1
  <2>2. CASE acc.memory # Undefined
    <3>1. acc.memory \in sizes /\ \A k \in sizes : k <= acc.memory
      BY <1>2, <2>2 DEF Found
    <3>2. Max(sizes) = acc.memory
      <4> HIDE DEF sizes
      <4> QED
        BY <1>5, <3>1, MaxIs
    <3> QED
      BY <3>1, <3>2
  <2> QED
    BY <2>1, <2>2
<1> HIDE DEF times, sizes
<1> QED
  BY <1>1, <1>8, <1>9, <1>10 DEF times, sizes

-----------------------------------------------------------------------------
\* What the invariant says of the results: both policies of stopOnFirstFailure.
LEMMA RightTestsFollow == JudgeInv => RunsTheRightTests
  BY DEF JudgeInv, JudgeKept, AcceptedSoFar, Complete, Reported, RunsTheRightTests, HasResult

LEMMA TypesFollow == JudgeInv => JudgeTypeOK
<1> SUFFICES ASSUME JudgeInv PROVE JudgeTypeOK
  OBVIOUS
<1>1. request \in [Judges -> Requests] /\ stage \in [Judges -> Stages]
  BY DEF JudgeInv, JudgeTyped
<1>2. ASSUME NEW j \in Judges
      PROVE  /\ Len(tests[j]) <= request[j].tests
             /\ \A i \in DOMAIN tests[j] : tests[j][i].id = i /\ tests[j][i].status \in TestStatuses
             /\ outcome[j].phase \in {"none", "compile", "finished"}
  <2>1. Numbered(j) /\ tests[j] \in Seq(Results) /\ outcome[j] \in Outcomes
    BY DEF JudgeInv, JudgeKept, JudgeTyped
  <2>2. outcome[j].phase \in {"none", "compile", "finished"}
    BY <2>1, OutcomePhases DEF Outcomes
  <2>3. \A i \in DOMAIN tests[j] : tests[j][i] \in Results
    BY <2>1
  <2> QED
    BY <2>1, <2>2, <2>3 DEF Numbered, Results
<1> QED
  BY <1>1, <1>2 DEF JudgeTypeOK

\* In every behaviour of the core's judge the variables keep their types: results
\* are numbered in the order of their tests and are never more than these.
THEOREM JudgeTypeCorrect == JudgeSpec => []JudgeTypeOK
<1>1. JudgeSpec => []JudgeInv
  BY InitKeeps, JudgeStepKeeps, PTL DEF JudgeSpec
<1> QED
  BY <1>1, TypesFollow, PTL

\* judge() runs every test of the problem, or with stopOnFirstFailure every test up
\* to and with the first failure and none after it, for any number of tests.
THEOREM RightTests == JudgeSpec => []RunsTheRightTests
<1>1. JudgeSpec => []JudgeInv
  BY InitKeeps, JudgeStepKeeps, PTL DEF JudgeSpec
<1> QED
  BY <1>1, RightTestsFollow, PTL

LEMMA SummariesFollow == JudgeInv => SummaryStatusIsWorst /\ SummaryFiguresAreRight
<1> SUFFICES ASSUME JudgeInv PROVE SummaryStatusIsWorst /\ SummaryFiguresAreRight
  OBVIOUS
<1>1. ASSUME NEW j \in Judges, HasResult(j)
      PROVE  /\ tests[j] \in Seq(Results) /\ \A i \in DOMAIN tests[j] : tests[j][i].id = i
             /\ outcome[j].summary = Summarize(tests[j])
             /\ outcome[j].ok = (Summarize(tests[j]).status = "accepted")
  <2>1. tests[j] \in Seq(Results) /\ \A i \in DOMAIN tests[j] : tests[j][i].id = i
    BY DEF JudgeInv, JudgeKept, JudgeTyped, Numbered
  <2>2. outcome[j] = Finished(tests[j])
    BY <1>1 DEF JudgeInv, JudgeKept, Reported, HasResult
  <2> QED
    BY <2>1, <2>2 DEF Finished
<1>2. SummaryStatusIsWorst
  <2> SUFFICES ASSUME NEW j \in Judges, HasResult(j)
               PROVE  LET seen == {tests[j][i].status : i \in DOMAIN tests[j]} \cup {"accepted"}
                          status == outcome[j].summary.status
                      IN  /\ status \in seen
                          /\ \A s \in seen : Severity(status) <= Severity(s)
                          /\ outcome[j].ok <=> \A i \in DOMAIN tests[j] : tests[j][i].status = "accepted"
                          /\ outcome[j].ok <=> outcome[j].summary.passed = outcome[j].summary.count
    BY DEF SummaryStatusIsWorst
  <2> DEFINE r == tests[j]
  <2>1. /\ r \in Seq(Results) /\ outcome[j].summary = Summarize(r)
        /\ outcome[j].ok <=> Summarize(r).status = "accepted"
    BY <1>1
  <2>2. Summarize(r).status = StatusFromTests(r)
    BY DEF Summarize
  <2>3. /\ StatusFromTests(r) \in {r[i].status : i \in DOMAIN r} \cup {"accepted"}
        /\ \A s \in {r[i].status : i \in DOMAIN r} \cup {"accepted"} :
             Severity(StatusFromTests(r)) <= Severity(s)
    <3> HIDE DEF r
    <3> QED
      BY <2>1, StatusIsWorst
  <2>4. /\ StatusFromTests(r) = "accepted" <=> AllAccepted(r)
        /\ Summarize(r).passed = Summarize(r).count <=> AllAccepted(r)
    <3> HIDE DEF r
    <3> QED
      BY <1>1, <2>1, OkIfAllAccepted, CountsAreRight DEF r
  <2> QED
    BY <2>1, <2>2, <2>3, <2>4 DEF AllAccepted
<1>3. SummaryFiguresAreRight
  <2> SUFFICES ASSUME NEW j \in Judges, HasResult(j)
               PROVE  LET sum == outcome[j].summary
                          accepted == {i \in DOMAIN tests[j] : tests[j][i].status = "accepted"}
                          times == {tests[j][i].elapsed : i \in DOMAIN tests[j]}
                          sizes == {tests[j][i].memory : i \in DOMAIN tests[j]} \ {Undefined}
                      IN  /\ sum.count = Cardinality(DOMAIN tests[j])
                          /\ sum.passed = Cardinality(accepted)
                          /\ sum.failed = Cardinality(DOMAIN tests[j] \ accepted)
                          /\ sum.total = Cardinality(Units(tests[j]))
                          /\ sum.maxElapsed = Max(times \cup {0})
                          /\ IF times \subseteq {0}
                             THEN sum.slowest = Undefined
                             ELSE sum.slowest = Min({i \in DOMAIN tests[j] :
                                                       tests[j][i].elapsed = Max(times)})
                          /\ sum.memory = IF sizes = {} THEN Undefined ELSE Max(sizes)
    BY DEF SummaryFiguresAreRight
  <2>1. /\ tests[j] \in Seq(Results) /\ \A i \in DOMAIN tests[j] : tests[j][i].id = i
        /\ outcome[j].summary = Summarize(tests[j])
    BY <1>1
  <2> QED
    BY <2>1, FiguresAreRight, CountsAreRight
<1> QED
  BY <1>2, <1>3

\* The status of a summary is the most severe of its tests' statuses, and a
\* submission is ok exactly if each of its tests was accepted, for any results.
THEOREM SummaryStatus == JudgeSpec => []SummaryStatusIsWorst
<1>1. JudgeSpec => []JudgeInv
  BY InitKeeps, JudgeStepKeeps, PTL DEF JudgeSpec
<1> QED
  BY <1>1, SummariesFollow, PTL

\* summarizeTests() counts the tests that were accepted and those that were not,
\* adds up their times, and names the first of the slowest, the longest time and
\* the largest memory of any test, for any number of tests and any figures.
THEOREM SummaryFigures == JudgeSpec => []SummaryFiguresAreRight
<1>1. JudgeSpec => []JudgeInv
  BY InitKeeps, JudgeStepKeeps, PTL DEF JudgeSpec
<1> QED
  BY <1>1, SummariesFollow, PTL

-----------------------------------------------------------------------------
(* The runtime *)

RuntimeTyped ==
    /\ boot \in {"none", "initializing", "ready", "failed"}
    /\ compilerWorker \in {"none", "running", "terminated"}
    /\ artifacts \in BOOLEAN /\ terminated \in BOOLEAN
    /\ compilerFatal \in BOOLEAN /\ executorDisposed \in BOOLEAN
    /\ promise \in [Judges -> {"none", "pending", "resolved", "rejected"}]
    /\ rejectedBy \in [Judges -> {"nobody", "terminate", "judge"}]
    /\ rejectors \subseteq Judges
    /\ compile \in [Judges -> Statuses]
    /\ execution \in [Executions -> Statuses]

-----------------------------------------------------------------------------
(* What a step of the runtime is to its parts *)

\* The steps that only move the core's judge belong to module Judge.
LEMMA JudgePart == [Next]_vars => [JudgeNext]_judgeVars
<1> SUFFICES ASSUME [Next]_vars PROVE [JudgeNext]_judgeVars
  OBVIOUS
<1>1. CASE UNCHANGED vars
  BY <1>1 DEF vars
<1>2. CASE Boot \/ CompilerCrashes \/ Terminate
  BY <1>2 DEF Boot, BootFailsEarly, BootStarts, BootSucceeds, BootFails, CompilerCrashes, Terminate
<1>3. ASSUME NEW j \in Judges, JudgeRefused(j) \/ CompilerAnswers(j) \/ JudgeEnded(j)
      PROVE  UNCHANGED judgeVars
  BY <1>3 DEF JudgeRefused, CompilerAnswers, JudgeEnded
<1>4. ASSUME NEW j \in Judges,
             JudgeStarts(j) \/ CompileReacts(j) \/ CoreReacts(j) \/ ExecutionReacts(j) \/ CheckerAnswers(j)
      PROVE  JudgeNext
  BY <1>4 DEF JudgeStarts, CompileReacts, CoreReacts, ExecutionReacts, CheckerAnswers, PortsAnswer, JudgeNext
<1>5. ASSUME NEW x \in Executions, ExecutorAnswers(x) PROVE UNCHANGED judgeVars
  BY <1>5 DEF ExecutorAnswers
<1> QED
  BY <1>1, <1>2, <1>3, <1>4, <1>5 DEF Next, Reacts

\* Whatever the ports and terminate() do, what goes on behind judge() is a
\* behaviour of the core's judge.
THEOREM RuntimeRunsCoreJudge == Spec => JudgeSpec
<1>1. RuntimeInit => JudgeInit
  BY DEF RuntimeInit
<1> QED
  BY <1>1, JudgePart, PTL DEF Spec, JudgeSpec

\* The invariant of the core's judge therefore holds inside the runtime.
THEOREM CoreInvariant == Spec => []JudgeInv
  BY RuntimeRunsCoreJudge, InitKeeps, JudgeStepKeeps, PTL DEF JudgeSpec
-----------------------------------------------------------------------------
(* Types *)

LEMMA PortTypes ==
    ASSUME RuntimeTyped
    PROVE  /\ Compiler!Fail => compile' \in [Judges -> Statuses] /\ compilerFatal' \in BOOLEAN
           /\ Executor!Close => execution' \in [Executions -> Statuses] /\ executorDisposed' \in BOOLEAN
           /\ \A j \in Judges :
                Compiler!Answer(j) \/ Compiler!Reject(j) \/ CallCompiler(j)
                  => compile' \in [Judges -> Statuses] /\ UNCHANGED compilerFatal
           /\ \A x \in Executions :
                Executor!Accept(x) \/ Executor!Refuse(x) \/ Executor!Answer(x)
                  => execution' \in [Executions -> Statuses] /\ UNCHANGED executorDisposed
  BY DEF RuntimeTyped, Statuses, Compiler!Fail, Compiler!Answer, Compiler!Reject, CallCompiler,
         Compiler!Accept, Compiler!Refuse, Compiler!Dismiss, Compiler!Becomes, Executor!Close,
         Executor!Accept, Executor!Refuse, Executor!Answer

LEMMA TypedStep == RuntimeTyped /\ [Next]_vars => RuntimeTyped'
<1> SUFFICES ASSUME RuntimeTyped, [Next]_vars PROVE RuntimeTyped'
  OBVIOUS
<1> USE DEF RuntimeTyped, pageState, callState, compilerState, executorState
<1>1. CASE UNCHANGED vars
  BY <1>1 DEF vars, runtimeVars
<1>2. CASE BootFailsEarly \/ BootStarts \/ BootSucceeds
  BY <1>2 DEF BootFailsEarly, BootStarts, BootSucceeds
<1>3. CASE BootFails
  BY <1>3, PortTypes DEF BootFails, DisposePorts
<1>4. CASE CompilerCrashes
  BY <1>4, PortTypes DEF CompilerCrashes
<1>5. CASE Terminate
  BY <1>5, PortTypes DEF Terminate, DisposePorts, RejectCallers
<1>6. ASSUME NEW j \in Judges, JudgeRefused(j) PROVE RuntimeTyped'
  BY <1>6 DEF JudgeRefused
<1>7. ASSUME NEW j \in Judges, JudgeStarts(j) PROVE RuntimeTyped'
  BY <1>7, PortTypes DEF JudgeStarts
<1>8. ASSUME NEW j \in Judges, CompilerAnswers(j) PROVE RuntimeTyped'
  BY <1>8, PortTypes DEF CompilerAnswers
<1>9. ASSUME NEW j \in Judges, CompileReacts(j) \/ ExecutionReacts(j) \/ CheckerAnswers(j)
      PROVE  RuntimeTyped'
  BY <1>9 DEF CompileReacts, ExecutionReacts, CheckerAnswers, runtimeVars
<1>10. ASSUME NEW j \in Judges, CoreReacts(j) PROVE RuntimeTyped'
  <2>1. execution' \in [Executions -> Statuses] /\ executorDisposed' \in BOOLEAN
    BY <1>10, PortTypes DEF CoreReacts
  <2> QED
    BY <1>10, <2>1 DEF CoreReacts
<1>11. ASSUME NEW j \in Judges, JudgeEnded(j) PROVE RuntimeTyped'
  BY <1>11 DEF JudgeEnded, Settle
<1>12. ASSUME NEW x \in Executions, ExecutorAnswers(x) PROVE RuntimeTyped'
  BY <1>12, PortTypes DEF ExecutorAnswers
<1> QED
  BY <1>1, <1>2, <1>3, <1>4, <1>5, <1>6, <1>7, <1>8, <1>9, <1>10, <1>11, <1>12
     DEF Next, Boot, Reacts

-----------------------------------------------------------------------------
(* Callers *)

\* A judge that was started has a caller, and callers come only to a runtime
\* that was handed out.
CallersKnown ==
    /\ \A j \in Judges : stage[j] # "idle" => promise[j] # "none"
    /\ boot # "ready" => \A j \in Judges : promise[j] = "none"
    /\ terminated => boot = "ready"

CallsKept == NoCallerForgotten /\ CallersKnown

\* A step of the core's judge starts no judge that was idle, but for Start(j).
LEMMA NoneStarted ==
    ASSUME JudgeInv, NEW j \in Judges, JudgeReacts(j) \/ PortsAnswer(j)
    PROVE  /\ stage[j] # "idle"
           /\ \A k \in Judges : stage[k] = "idle" => stage'[k] = "idle"
<1>1. stage \in [Judges -> Stages]
  BY DEF JudgeInv, JudgeTyped
<1>2. stage[j] # "idle" /\ \E s \in Stages : stage' = [stage EXCEPT ![j] = s]
  BY DEF JudgeReacts, PortsAnswer, FirstTest, NextTest, LoopHead, End, Goto, At, ExactChecker, Checked,
         CustomCheckerStarts, CompileSucceeds, CompileFails, CompileRejects, Rejects,
         ExecutionFails, ExecutionSucceeds, ExecuteRejects, CustomCheckerEnds,
         CustomCheckerReturnsNothing, Stages
<1> QED
  BY <1>1, <1>2

LEMMA CallsStep == JudgeInv /\ RuntimeTyped /\ CallsKept /\ [Next]_vars => CallsKept'
<1> SUFFICES ASSUME JudgeInv, RuntimeTyped, CallsKept, [Next]_vars PROVE CallsKept'
  OBVIOUS
<1> USE DEF CallsKept, NoCallerForgotten, CallersKnown, pageState, callState
<1>0. /\ promise \in [Judges -> {"none", "pending", "resolved", "rejected"}]
      /\ stage \in [Judges -> Stages]
  BY DEF RuntimeTyped, JudgeInv, JudgeTyped
<1>1. CASE UNCHANGED vars
  BY <1>1 DEF vars, runtimeVars, judgeVars
<1>2. CASE Boot \/ CompilerCrashes
  BY <1>2 DEF Boot, BootFailsEarly, BootStarts, BootSucceeds, BootFails, CompilerCrashes, judgeVars
<1>3. CASE Terminate
  BY <1>0, <1>3 DEF Terminate, RejectCallers, judgeVars
<1>4. ASSUME NEW j \in Judges, JudgeRefused(j) PROVE CallsKept'
  BY <1>0, <1>4 DEF JudgeRefused, judgeVars
<1>5. ASSUME NEW j \in Judges, JudgeStarts(j) PROVE CallsKept'
  BY <1>0, <1>5 DEF JudgeStarts, Start, Goto
<1>6. ASSUME NEW j \in Judges, CompilerAnswers(j) PROVE CallsKept'
  BY <1>6 DEF CompilerAnswers, judgeVars
<1>7. ASSUME NEW j \in Judges,
             CompileReacts(j) \/ CoreReacts(j) \/ ExecutionReacts(j) \/ CheckerAnswers(j)
      PROVE  CallsKept'
  <2>1. UNCHANGED <<pageState, callState>> /\ (JudgeReacts(j) \/ PortsAnswer(j))
    BY <1>7 DEF CompileReacts, CoreReacts, ExecutionReacts, CheckerAnswers, PortsAnswer, runtimeVars
  <2> QED
    BY <2>1, NoneStarted
<1>8. ASSUME NEW j \in Judges, JudgeEnded(j) PROVE CallsKept'
  <2>1. PICK state \in {"resolved", "rejected"} : Settle(j, state)
    BY <1>8 DEF JudgeEnded
  <2> QED
    BY <1>0, <1>8, <2>1 DEF JudgeEnded, Settle, judgeVars
<1>9. ASSUME NEW x \in Executions, ExecutorAnswers(x) PROVE CallsKept'
  BY <1>9 DEF ExecutorAnswers, judgeVars
<1> QED
  BY <1>1, <1>2, <1>3, <1>4, <1>5, <1>6, <1>7, <1>8, <1>9 DEF Next, Reacts
-----------------------------------------------------------------------------
(* Executions *)

Numbers == UNION {1 .. n : n \in TestCounts}

Next1(j) == Len(tests[j]) + 1

\* The execution of test i of the call j, by where the call is.
ExecutionKept(j, i) ==
    /\ i < Next1(j) => execution[<<j, i>>] = "resolved"
    /\ i > Next1(j) => execution[<<j, i>>] = "idle"
    /\ i = Next1(j) =>
         /\ stage[j] \in {"idle", "compiling", "compiled", "finished"} => execution[<<j, i>>] = "idle"
         /\ stage[j] \in {"executed", "checking", "judged"} => execution[<<j, i>>] = "resolved"
         /\ execution[<<j, i>>] = "pending" => stage[j] = "executing"
    /\ execution[<<j, i>>] # "idle" => compile[j] = "resolved"

TestsKept ==
    /\ \A j \in Judges, i \in Numbers : ExecutionKept(j, i)
    /\ \A j \in Judges : stage[j] \in {"compiled"} \cup AtTest => compile[j] = "resolved"

LEMMA NumbersAreNat == Numbers \subseteq Nat
  BY TestCountsAssumption DEF Numbers

LEMMA ExecutionsArePairs ==
    /\ \A j \in Judges, i \in Numbers : <<j, i>> \in Executions
    /\ \A x \in Executions : x[1] \in Judges /\ x[2] \in Numbers /\ x = <<x[1], x[2]>>
  BY DEF Executions, Numbers

\* What the rest needs to know of a state.
LEMMA StateFacts ==
    ASSUME JudgeInv, RuntimeTyped
    PROVE  /\ stage \in [Judges -> Stages] /\ compile \in [Judges -> Statuses]
           /\ execution \in [Executions -> Statuses]
           /\ \A j \in Judges : Next1(j) \in Nat /\ Len(tests[j]) \in Nat
           /\ \A j \in Judges : stage[j] \in {"idle", "compiling", "compiled"} => tests[j] = <<>>
  BY DEF JudgeInv, JudgeTyped, JudgeKept, Progress, RuntimeTyped, Next1

\* A call that is at a test is at one of its problem's.
LEMMA AtOneOfItsTests ==
    ASSUME JudgeInv, RuntimeTyped, NEW j \in Judges, stage[j] \in AtTest
    PROVE  Next1(j) \in Numbers
<1>1. Len(tests[j]) < request[j].tests /\ request[j] \in Requests
  BY DEF JudgeInv, JudgeTyped, JudgeKept, Progress
<1>2. request[j].tests \in TestCounts /\ request[j].tests \in Nat
  BY <1>1, TestCountsAssumption DEF Requests
<1>3. Next1(j) \in 1 .. request[j].tests
  BY <1>1, <1>2, StateFacts DEF Next1
<1> QED
  BY <1>2, <1>3 DEF Numbers

\* The judges do nothing and no execution changes, but for those that are pending,
\* and no compilation that has ended changes.
LEMMA PortsStepKeepsTests ==
    ASSUME JudgeInv, RuntimeTyped, TestsKept, UNCHANGED judgeVars,
           \A j \in Judges : compile[j] = "resolved" => compile'[j] = "resolved",
           \A x \in Executions : \/ execution'[x] = execution[x]
                                 \/ execution[x] = "pending" /\ execution'[x] \in {"resolved", "rejected"}
    PROVE  TestsKept'
<1>1. ASSUME NEW j \in Judges, NEW i \in Numbers PROVE ExecutionKept(j, i)'
  <2>1. ExecutionKept(j, i) /\ stage'[j] = stage[j] /\ Next1(j)' = Next1(j) /\ <<j, i>> \in Executions
    BY ExecutionsArePairs DEF TestsKept, judgeVars, Next1
  <2>2. \/ execution'[<<j, i>>] = execution[<<j, i>>]
        \/ execution[<<j, i>>] = "pending" /\ execution'[<<j, i>>] \in {"resolved", "rejected"}
    BY <2>1
  <2>3. i \in Nat /\ Next1(j) \in Nat
    BY StateFacts, NumbersAreNat
  <2> QED
    BY <2>1, <2>2, <2>3 DEF ExecutionKept
<1>2. \A j \in Judges : stage'[j] \in {"compiled"} \cup AtTest => compile'[j] = "resolved"
  BY DEF TestsKept, judgeVars
<1> QED
  BY <1>1, <1>2 DEF TestsKept

\* A judge goes on without pushing a result, its executions as they are.
LEMMA MovesKeepTests ==
    ASSUME JudgeInv, RuntimeTyped, TestsKept, UNCHANGED <<tests, execution, compile>>,
           NEW j \in Judges, NEW to \in Stages, stage' = [stage EXCEPT ![j] = to],
           to \in {"idle", "compiling", "compiled", "finished"} => stage[j] \in {"idle", "compiling", "compiled"},
           to \in {"executed", "checking", "judged"} => execution[<<j, Next1(j)>>] = "resolved",
           stage[j] = "executing" => execution[<<j, Next1(j)>>] # "pending",
           to \in {"compiled"} \cup AtTest => compile[j] = "resolved"
    PROVE  TestsKept'
<1>0. stage'[j] = to /\ \A k \in Judges \ {j} : stage'[k] = stage[k]
  BY StateFacts
<1>1. ASSUME NEW k \in Judges, NEW i \in Numbers PROVE ExecutionKept(k, i)'
  <2>1. ExecutionKept(k, i) /\ Next1(k)' = Next1(k)
    BY DEF TestsKept, Next1
  <2> QED
    BY <1>0, <2>1 DEF ExecutionKept
<1>2. \A k \in Judges : stage'[k] \in {"compiled"} \cup AtTest => compile'[k] = "resolved"
  BY <1>0 DEF TestsKept
<1> QED
  BY <1>1, <1>2 DEF TestsKept

\* The head of the loop: it ends, or calls execute() for the next test.
LEMMA LoopKeepsTests ==
    ASSUME JudgeInv, RuntimeTyped, TestsKept, NEW j \in Judges, NEW results,
           \/ results = tests[j] /\ stage[j] = "compiled"
           \/ Len(results) = Len(tests[j]) + 1 /\ stage[j] = "judged",
           LoopHead(j, results), tests' = [tests EXCEPT ![j] = results], UNCHANGED compile,
           IF stage'[j] = "executing"
           THEN \E x \in Executions : /\ x = <<j, Len(tests'[j]) + 1>>
                                      /\ Executor!Accept(x) \/ Executor!Refuse(x)
           ELSE UNCHANGED execution
    PROVE  TestsKept'
<1>0. /\ stage \in [Judges -> Stages] /\ execution \in [Executions -> Statuses]
      /\ tests \in [Judges -> Seq(Results)] /\ Len(tests[j]) \in Nat
  BY StateFacts DEF JudgeInv, JudgeTyped
<1>1. stage' = [stage EXCEPT ![j] = stage'[j]] /\ stage'[j] \in {"executing", "finished"}
  BY <1>0 DEF LoopHead, End, Goto
<1>2. /\ Next1(j)' = Len(results) + 1 /\ Len(results) \in Nat
      /\ \A k \in Judges \ {j} : Next1(k)' = Next1(k) /\ stage'[k] = stage[k]
  BY <1>0, <1>1 DEF Next1
<1>3. compile[j] = "resolved"
  BY DEF TestsKept, AtTest
<1>4. \/ UNCHANGED execution /\ stage'[j] # "executing"
      \/ /\ <<j, Next1(j)'>> \in Executions
         /\ \E to \in {"pending", "rejected"} :
              execution' = [execution EXCEPT ![<<j, Next1(j)'>>] = to]
         /\ stage'[j] = "executing"
  BY DEF Next1, Executor!Accept, Executor!Refuse
<1>5. ASSUME NEW k \in Judges, NEW i \in Numbers PROVE ExecutionKept(k, i)'
  <2>1. ExecutionKept(k, i) /\ <<k, i>> \in Executions /\ i \in Nat /\ Next1(k) \in Nat
    BY ExecutionsArePairs, NumbersAreNat, StateFacts DEF TestsKept
  <2>2. CASE k # j
    <3>1. execution'[<<k, i>>] = execution[<<k, i>>]
      BY <1>0, <1>4, <2>1, <2>2
    <3> QED
      BY <1>2, <2>1, <2>2, <3>1 DEF ExecutionKept
  <2>3. CASE k = j
    <3>1. i # Next1(j)' => execution'[<<j, i>>] = execution[<<j, i>>]
      BY <1>0, <1>4, <2>1, <2>3
    <3>2. i = Next1(j)' => /\ stage'[j] = "finished" => execution'[<<j, i>>] = execution[<<j, i>>]
                           /\ stage'[j] = "executing" => execution'[<<j, i>>] \in {"pending", "rejected"}
      BY <1>0, <1>1, <1>4, <2>1, <2>3
    <3>3. /\ i < Next1(j)' => execution[<<j, i>>] = "resolved"
          /\ i >= Next1(j)' => execution[<<j, i>>] = "idle"
      BY <1>0, <1>2, <2>1, <2>3 DEF ExecutionKept, Next1
    <3> QED
      BY <1>1, <1>2, <1>3, <2>1, <2>3, <3>1, <3>2, <3>3 DEF ExecutionKept
  <2> QED
    BY <2>2, <2>3
<1>6. \A k \in Judges : stage'[k] \in {"compiled"} \cup AtTest => compile'[k] = "resolved"
  BY <1>2, <1>3 DEF TestsKept
<1> QED
  BY <1>5, <1>6 DEF TestsKept
LEMMA TestsStep == JudgeInv /\ RuntimeTyped /\ TestsKept /\ [Next]_vars => TestsKept'
<1> SUFFICES ASSUME JudgeInv, RuntimeTyped, TestsKept, [Next]_vars PROVE TestsKept'
  OBVIOUS
<1> USE DEF pageState, callState, compilerState, executorState
<1>0. /\ stage \in [Judges -> Stages] /\ compile \in [Judges -> Statuses]
      /\ execution \in [Executions -> Statuses]
  BY StateFacts
<1>1. CASE UNCHANGED vars
  BY <1>1, PortsStepKeepsTests DEF vars, runtimeVars
<1>2. CASE BootFailsEarly \/ BootStarts \/ BootSucceeds
  BY <1>2, PortsStepKeepsTests DEF BootFailsEarly, BootStarts, BootSucceeds
<1>3. CASE BootFails \/ CompilerCrashes \/ Terminate
  <2>1. /\ UNCHANGED judgeVars /\ Compiler!Fail
        /\ UNCHANGED execution \/ Executor!Close
    BY <1>3 DEF BootFails, CompilerCrashes, Terminate, DisposePorts
  <2>2. \A j \in Judges : compile[j] = "resolved" => compile'[j] = "resolved"
    BY <2>1 DEF Compiler!Fail
  <2>3. \A x \in Executions : \/ execution'[x] = execution[x]
                              \/ execution[x] = "pending" /\ execution'[x] \in {"resolved", "rejected"}
    BY <2>1 DEF Executor!Close
  <2> QED
    BY <2>1, <2>2, <2>3, PortsStepKeepsTests
<1>4. ASSUME NEW j \in Judges, JudgeRefused(j) \/ JudgeEnded(j) PROVE TestsKept'
  BY <1>4, PortsStepKeepsTests DEF JudgeRefused, JudgeEnded
<1>5. ASSUME NEW j \in Judges, JudgeStarts(j) PROVE TestsKept'
  <2>1. /\ stage[j] = "idle" /\ stage' = [stage EXCEPT ![j] = "compiling"]
        /\ UNCHANGED <<tests, execution>>
    BY <1>5 DEF JudgeStarts, Start, At, Goto
  <2>2. compile[j] = "idle" /\ \A k \in Judges \ {j} : compile'[k] = compile[k]
    BY <1>0, <1>5 DEF JudgeStarts, CallCompiler, Compiler!Accept, Compiler!Refuse, Compiler!Dismiss,
                      Compiler!Becomes
  <2>3. ASSUME NEW k \in Judges, NEW i \in Numbers PROVE ExecutionKept(k, i)'
    <3>1. ExecutionKept(k, i) /\ Next1(k)' = Next1(k)
      BY <2>1 DEF TestsKept, Next1
    <3> QED
      BY <1>0, <2>1, <2>2, <3>1 DEF ExecutionKept
  <2> QED
    BY <1>0, <2>1, <2>2, <2>3 DEF TestsKept, AtTest
<1>6. ASSUME NEW j \in Judges, CompilerAnswers(j) PROVE TestsKept'
  <2>1. /\ UNCHANGED <<judgeVars, execution>>
        /\ \A k \in Judges : compile[k] = "resolved" => compile'[k] = "resolved"
    BY <1>0, <1>6 DEF CompilerAnswers, Compiler!Answer, Compiler!Reject, Compiler!Becomes
  <2> QED
    BY <2>1, PortsStepKeepsTests
<1>7. ASSUME NEW x \in Executions, ExecutorAnswers(x) PROVE TestsKept'
  <2>1. /\ UNCHANGED <<judgeVars, compile>>
        /\ \A y \in Executions : \/ execution'[y] = execution[y]
                                 \/ execution[y] = "pending" /\ execution'[y] = "resolved"
    BY <1>0, <1>7 DEF ExecutorAnswers, Executor!Answer
  <2> QED
    BY <2>1, PortsStepKeepsTests
<1>8. ASSUME NEW j \in Judges, CompileReacts(j) PROVE TestsKept'
  <2>1. /\ UNCHANGED <<tests, execution, compile>> /\ stage[j] = "compiling"
        /\ \E to \in {"compiled", "finished", "failed"} :
             /\ stage' = [stage EXCEPT ![j] = to]
             /\ to = "compiled" => compile[j] = "resolved"
    BY <1>8 DEF CompileReacts, CompileFails, CompileSucceeds, CompileRejects, Rejects, End, Goto, At,
                runtimeVars
  <2> QED
    BY <2>1, MovesKeepTests DEF Stages, AtTest
<1>9. ASSUME NEW j \in Judges, CoreReacts(j) PROVE TestsKept'
  <2>0. UNCHANGED compile
    BY <1>9 DEF CoreReacts
  <2>1. CASE FirstTest(j)
    <3>1. /\ stage[j] = "compiled" /\ tests[j] = <<>> /\ LoopHead(j, tests[j])
          /\ tests' = [tests EXCEPT ![j] = tests[j]]
      BY <2>1, StateFacts DEF FirstTest, At, JudgeInv, JudgeTyped
    <3> QED
      BY <1>9, <2>0, <3>1, LoopKeepsTests DEF CoreReacts
  <2>2. CASE NextTest(j)
    <3>1. /\ stage[j] = "judged" /\ LoopHead(j, Append(tests[j], last[j]))
          /\ tests' = [tests EXCEPT ![j] = Append(@, last[j])]
      BY <2>2 DEF NextTest, At
    <3>2. Len(Append(tests[j], last[j])) = Len(tests[j]) + 1
      BY <3>1 DEF JudgeInv, JudgeTyped, JudgeKept, Progress
    <3> QED
      BY <1>9, <2>0, <3>1, <3>2, LoopKeepsTests DEF CoreReacts
  <2>3. CASE ExactChecker(j) \/ CustomCheckerStarts(j)
    <3>1. /\ UNCHANGED tests /\ stage[j] = "executed"
          /\ \E to \in {"judged", "checking"} : stage' = [stage EXCEPT ![j] = to]
      BY <2>3 DEF ExactChecker, CustomCheckerStarts, Checked, Goto, At
    <3>2. stage'[j] # "executing"
      BY <1>0, <3>1
    <3>3. UNCHANGED execution /\ Next1(j) \in Nat
      BY <1>9, <3>2, StateFacts DEF CoreReacts
    <3>4. execution[<<j, Next1(j)>>] = "resolved" /\ compile[j] = "resolved"
      BY <3>1, AtOneOfItsTests DEF TestsKept, ExecutionKept, AtTest
    <3> QED
      BY <2>0, <3>1, <3>3, <3>4, MovesKeepTests DEF Stages
  <2> QED
    BY <1>9, <2>1, <2>2, <2>3 DEF CoreReacts, JudgeReacts
<1>10. ASSUME NEW j \in Judges, ExecutionReacts(j) PROVE TestsKept'
  <2>1. /\ UNCHANGED <<tests, execution, compile>> /\ stage[j] = "executing"
        /\ \/ /\ execution[<<j, Next1(j)>>] = "resolved"
              /\ \E to \in {"executed", "judged"} : stage' = [stage EXCEPT ![j] = to]
           \/ /\ execution[<<j, Next1(j)>>] = "rejected"
              /\ stage' = [stage EXCEPT ![j] = "failed"]
    BY <1>10 DEF ExecutionReacts, Executed, Awaited, ExecutionSucceeds, ExecutionFails, ExecuteRejects,
                 Rejects, Goto, At, runtimeVars, Next1
  <2>2. compile[j] = "resolved"
    BY <2>1 DEF TestsKept, AtTest
  <2> QED
    BY <2>1, <2>2, MovesKeepTests DEF Stages, AtTest
<1>11. ASSUME NEW j \in Judges, CheckerAnswers(j) PROVE TestsKept'
  <2>1. /\ UNCHANGED <<tests, execution, compile>> /\ stage[j] = "checking"
        /\ \E to \in {"judged", "failed"} : stage' = [stage EXCEPT ![j] = to]
    BY <1>11 DEF CheckerAnswers, CustomCheckerEnds, CustomCheckerReturnsNothing, Checked, Rejects,
                 Goto, At, runtimeVars
  <2>2. execution[<<j, Next1(j)>>] = "resolved" /\ compile[j] = "resolved"
    BY <2>1, AtOneOfItsTests DEF TestsKept, ExecutionKept, AtTest
  <2> QED
    BY <2>1, <2>2, MovesKeepTests DEF Stages
<1> QED
  BY <1>1, <1>2, <1>3, <1>4, <1>5, <1>6, <1>7, <1>8, <1>9, <1>10, <1>11 DEF Next, Boot, Reacts

-----------------------------------------------------------------------------
(* The end of the runtime *)

\* What is left of the workers when there is no page that could use them.
EndKept ==
    /\ boot = "none" => compilerWorker = "none"
    /\ boot = "failed" => compilerWorker # "running"
    /\ terminated => compilerWorker # "running" /\ executorDisposed
    /\ executorDisposed => \A x \in Executions : execution[x] # "pending"

LEMMA EndStep == RuntimeTyped /\ CallsKept /\ EndKept /\ [Next]_vars => EndKept'
<1> SUFFICES ASSUME RuntimeTyped, CallsKept, EndKept, [Next]_vars PROVE EndKept'
  OBVIOUS
<1> USE DEF EndKept, pageState, executorState
<1>0. terminated => boot = "ready"
  BY DEF CallsKept, CallersKnown
<1>1. CASE UNCHANGED vars
  BY <1>1 DEF vars, runtimeVars
<1>2. CASE BootFailsEarly \/ BootStarts \/ BootSucceeds
  BY <1>0, <1>2 DEF BootFailsEarly, BootStarts, BootSucceeds
<1>3. CASE BootFails \/ Terminate
  <2>1. /\ compilerWorker' = "terminated" /\ Executor!Close /\ boot' \in {"ready", "failed"}
    BY <1>3 DEF BootFails, Terminate, DisposePorts
  <2> QED
    BY <2>1 DEF Executor!Close
<1>4. CASE CompilerCrashes
  BY <1>4 DEF CompilerCrashes
<1>5. ASSUME NEW j \in Judges,
             \/ JudgeRefused(j) \/ JudgeStarts(j) \/ CompilerAnswers(j) \/ CompileReacts(j)
             \/ ExecutionReacts(j) \/ CheckerAnswers(j) \/ JudgeEnded(j)
      PROVE  EndKept'
  BY <1>5 DEF JudgeRefused, JudgeStarts, CompilerAnswers, CompileReacts, ExecutionReacts,
              CheckerAnswers, JudgeEnded, runtimeVars
<1>6. ASSUME NEW j \in Judges, CoreReacts(j) PROVE EndKept'
  BY <1>6 DEF CoreReacts, Executor!Accept, Executor!Refuse, RuntimeTyped
<1>7. ASSUME NEW x \in Executions, ExecutorAnswers(x) PROVE EndKept'
  BY <1>7 DEF ExecutorAnswers, Executor!Answer, RuntimeTyped
<1> QED
  BY <1>1, <1>2, <1>3, <1>4, <1>5, <1>6, <1>7 DEF Next, Boot, Reacts

-----------------------------------------------------------------------------
(* The inductive invariant, and the properties it implies *)

RuntimeInv == JudgeInv /\ RuntimeTyped /\ CallsKept /\ TestsKept /\ EndKept

LEMMA RuntimeInitKeeps == RuntimeInit => RuntimeInv
<1> SUFFICES ASSUME RuntimeInit PROVE RuntimeInv
  OBVIOUS
<1>1. JudgeInv
  BY InitKeeps DEF RuntimeInit
<1>2. RuntimeTyped /\ EndKept
  BY DEF RuntimeInit, RuntimeTyped, EndKept, Compiler!Init, Executor!Init, Statuses
<1>3. CallsKept
  BY DEF RuntimeInit, JudgeInit, CallsKept, NoCallerForgotten, CallersKnown
<1>4. TestsKept
  <2>1. ASSUME NEW j \in Judges, NEW i \in Numbers PROVE ExecutionKept(j, i)
    <3>1. stage[j] = "idle" /\ execution[<<j, i>>] = "idle" /\ Next1(j) = 1
      BY ExecutionsArePairs DEF RuntimeInit, JudgeInit, Executor!Init, Next1
    <3>2. i \in Nat /\ i >= 1
      BY TestCountsAssumption DEF Numbers
    <3> QED
      BY <3>1, <3>2 DEF ExecutionKept
  <2>2. \A j \in Judges : stage[j] \notin {"compiled"} \cup AtTest
    BY DEF RuntimeInit, JudgeInit, AtTest
  <2> QED
    BY <2>1, <2>2 DEF TestsKept
<1> QED
  BY <1>1, <1>2, <1>3, <1>4 DEF RuntimeInv

LEMMA RuntimeStepKeeps == RuntimeInv /\ [Next]_vars => RuntimeInv'
  BY JudgePart, JudgeStepKeeps, TypedStep, CallsStep, TestsStep, EndStep DEF RuntimeInv

\* The runtime's inductive invariant: the judges, their calls, their executions and
\* the end of the runtime together.
THEOREM RuntimeInvariant == Spec => []RuntimeInv
  BY RuntimeInitKeeps, RuntimeStepKeeps, PTL DEF Spec

LEMMA EndFollows == RuntimeInv => NoWorkerAfterEnd
<1> SUFFICES ASSUME RuntimeInv, terminated \/ boot = "failed" PROVE
               compilerWorker # "running" /\ \A x \in Executions : execution[x] # "pending"
  BY DEF NoWorkerAfterEnd
<1>1. CASE terminated
  BY <1>1 DEF RuntimeInv, EndKept
<1>2. CASE boot = "failed"
  <2>1. \A j \in Judges : stage[j] = "idle"
    BY <1>2 DEF RuntimeInv, CallsKept, CallersKnown
  <2>2. ASSUME NEW x \in Executions PROVE execution[x] # "pending"
    <3>1. /\ x[1] \in Judges /\ x[2] \in Numbers /\ x = <<x[1], x[2]>>
          /\ x[2] \in Nat /\ Next1(x[1]) \in Nat
      BY ExecutionsArePairs, NumbersAreNat, StateFacts DEF RuntimeInv
    <3>2. ExecutionKept(x[1], x[2])
      BY <3>1 DEF RuntimeInv, TestsKept
    <3> QED
      BY <2>1, <3>1, <3>2 DEF ExecutionKept
  <2> QED
    BY <1>2, <2>2 DEF RuntimeInv, EndKept
<1> QED
  BY <1>1, <1>2

LEMMA ExecutionsFollow == RuntimeInv => OneExecutionPerTest
<1> SUFFICES ASSUME RuntimeInv, NEW x \in Executions
             PROVE  /\ x[2] < Next1(x[1]) => execution[x] = "resolved"
                    /\ x[2] > Next1(x[1]) => execution[x] = "idle"
                    /\ execution[x] = "pending" => At(x[1], "executing")
                    /\ execution[x] # "idle" => compile[x[1]] = "resolved"
  BY DEF OneExecutionPerTest, Next1
<1>1. /\ x[1] \in Judges /\ x[2] \in Numbers /\ x = <<x[1], x[2]>>
      /\ x[2] \in Nat /\ Next1(x[1]) \in Nat
  BY ExecutionsArePairs, NumbersAreNat, StateFacts DEF RuntimeInv
<1>2. ExecutionKept(x[1], x[2])
  BY <1>1 DEF RuntimeInv, TestsKept
<1> QED
  BY <1>1, <1>2 DEF ExecutionKept, At

\* Every variable of the runtime, its ports and its judges keeps its type.
THEOREM TypeCorrect == Spec => []RuntimeTypeOK
<1>1. RuntimeInv => RuntimeTypeOK
  BY TypesFollow DEF RuntimeInv, RuntimeTyped, RuntimeTypeOK
<1> QED
  BY <1>1, RuntimeInvariant, PTL

\* terminate() leaves no caller of judge() waiting, however many there are, and the
\* rejectors are exactly those of the promises that are pending.
THEOREM CallersRemembered == Spec => []NoCallerForgotten
<1>1. RuntimeInv => NoCallerForgotten
  BY DEF RuntimeInv, CallsKept
<1> QED
  BY <1>1, RuntimeInvariant, PTL

\* No worker outlives terminate() or a failed bootstrap, and none is started later
\* by a judge that still runs in the background.
THEOREM NothingAfterEnd == Spec => []NoWorkerAfterEnd
  BY EndFollows, RuntimeInvariant, PTL

\* judge() runs each test in an execution of its own, in order, and only after its
\* compilation.
THEOREM OwnExecutions == Spec => []OneExecutionPerTest
  BY ExecutionsFollow, RuntimeInvariant, PTL

\* In the runtime too, judge() runs the tests its policy asks for.
THEOREM RuntimeRightTests == Spec => []RunsTheRightTests
<1>1. RuntimeInv => RunsTheRightTests
  BY RightTestsFollow DEF RuntimeInv
<1> QED
  BY <1>1, RuntimeInvariant, PTL
-----------------------------------------------------------------------------
(* The runtime as a JudgeService *)

\* How the core's judge of a call ended: what the refinement maps judged to.
Judged == [j \in Judges |-> CASE At(j, "finished") -> "resolved"
                              [] At(j, "failed") -> "rejected"
                              [] OTHER -> "none"]

\* A step of a started judge decides its call, or nothing.
LEMMA JudgeDecides ==
    ASSUME RuntimeInv, NEW j \in Judges, JudgeReacts(j) \/ PortsAnswer(j),
           UNCHANGED <<promise, rejectedBy, terminated>>
    PROVE  Service!Decide(j) \/ UNCHANGED Service!svars
<1>1. stage \in [Judges -> Stages] /\ promise[j] # "none"
  BY NoneStarted DEF RuntimeInv, JudgeInv, JudgeTyped, CallsKept, CallersKnown
<1>2. /\ stage[j] \notin {"idle", "finished", "failed"}
      /\ \E s \in Stages : stage' = [stage EXCEPT ![j] = s]
  BY DEF JudgeReacts, PortsAnswer, FirstTest, NextTest, LoopHead, End, Goto, At, ExactChecker, Checked,
         CustomCheckerStarts, CompileSucceeds, CompileFails, CompileRejects, Rejects,
         ExecutionFails, ExecutionSucceeds, ExecuteRejects, CustomCheckerEnds,
         CustomCheckerReturnsNothing, Stages
<1>3. PICK s \in Stages : stage' = [stage EXCEPT ![j] = s]
  BY <1>2
<1>4. stage'[j] = s /\ \A k \in Judges \ {j} : stage'[k] = stage[k]
  BY <1>1, <1>3
<1>5. Judged[j] = "none"
  BY <1>2 DEF Judged, At
<1>6. CASE s \in {"finished", "failed"}
  <2> DEFINE end == IF s = "finished" THEN "resolved" ELSE "rejected"
  <2>1. Judged' = [Judged EXCEPT ![j] = end]
    BY <1>4, <1>6 DEF Judged, At
  <2>2. end \in {"resolved", "rejected"}
    OBVIOUS
  <2> QED
    BY <1>1, <1>5, <2>1, <2>2 DEF Service!Decide, Judged
<1>7. CASE s \notin {"finished", "failed"}
  <2>1. Judged' = Judged
    BY <1>2, <1>4, <1>7 DEF Judged, At
  <2> QED
    BY <2>1 DEF Service!svars, Judged
<1> QED
  BY <1>6, <1>7

LEMMA ServiceStep == RuntimeInv /\ [Next]_vars => [Service!Next]_(Service!svars)
<1> SUFFICES ASSUME RuntimeInv, [Next]_vars PROVE [Service!Next]_(Service!svars)
  OBVIOUS
<1> USE DEF pageState, callState
<1>0. /\ promise \in [Judges -> {"none", "pending", "resolved", "rejected"}]
      /\ rejectedBy \in [Judges -> {"nobody", "terminate", "judge"}]
      /\ stage \in [Judges -> Stages]
      /\ rejectors = {j \in Judges : promise[j] = "pending"}
      /\ terminated => rejectors = {}
  BY DEF RuntimeInv, RuntimeTyped, JudgeInv, JudgeTyped, CallsKept, NoCallerForgotten
<1>1. ASSUME UNCHANGED <<stage, promise, rejectedBy, terminated>> PROVE UNCHANGED Service!svars
  BY <1>1 DEF Service!svars, At
<1>2. CASE UNCHANGED vars
  BY <1>1, <1>2 DEF vars, runtimeVars, judgeVars
<1>3. CASE Boot \/ CompilerCrashes
  BY <1>1, <1>3 DEF Boot, BootFailsEarly, BootStarts, BootSucceeds, BootFails, CompilerCrashes, judgeVars
<1>4. CASE Terminate
  <2>1. /\ promise' = [j \in Judges |-> IF promise[j] = "pending" THEN "rejected" ELSE promise[j]]
        /\ rejectedBy' = [j \in Judges |-> IF promise[j] = "pending" THEN "terminate" ELSE rejectedBy[j]]
        /\ ~terminated /\ terminated' /\ UNCHANGED stage
    BY <1>0, <1>4 DEF Terminate, RejectCallers, judgeVars
  <2>2. Service!Terminate
    BY <2>1 DEF Service!Terminate, At
  <2> QED
    BY <2>2 DEF Service!Next
<1>5. ASSUME NEW j \in Judges, JudgeRefused(j) PROVE Service!Refuse(j)
  BY <1>5 DEF JudgeRefused, Service!Refuse, judgeVars, At
<1>6. ASSUME NEW j \in Judges, JudgeStarts(j) PROVE Service!Accept(j)
  <2>1. stage[j] = "idle" /\ stage'[j] = "compiling" /\ \A k \in Judges \ {j} : stage'[k] = stage[k]
    BY <1>0, <1>6 DEF JudgeStarts, Start, At, Goto
  <2>2. Judged' = Judged
    BY <2>1 DEF Judged, At
  <2> QED
    BY <1>6, <2>2 DEF JudgeStarts, Service!Accept, Judged
<1>7. ASSUME NEW j \in Judges, JudgeEnded(j) PROVE Service!Answer(j)
  <2>1. promise[j] = "pending" /\ ~terminated /\ UNCHANGED <<stage, terminated>>
    BY <1>0, <1>7 DEF JudgeEnded, judgeVars
  <2>2. PICK state \in {"resolved", "rejected"} :
          /\ Judged[j] = state
          /\ Settle(j, state)
    BY <1>7 DEF JudgeEnded, Judged, At
  <2>3. /\ promise' = [promise EXCEPT ![j] = Judged[j]]
        /\ rejectedBy' = [rejectedBy EXCEPT ![j] = IF Judged[j] = "rejected" THEN "judge" ELSE @]
    BY <1>0, <2>1, <2>2 DEF Settle
  <2>4. Judged' = Judged /\ Judged[j] # "none"
    BY <2>1, <2>2 DEF Judged, At
  <2> QED
    BY <2>1, <2>3, <2>4 DEF Service!Answer, Judged
<1>8. ASSUME NEW j \in Judges, CompilerAnswers(j) PROVE UNCHANGED Service!svars
  BY <1>1, <1>8 DEF CompilerAnswers, judgeVars
<1>9. ASSUME NEW j \in Judges,
             CompileReacts(j) \/ CoreReacts(j) \/ ExecutionReacts(j) \/ CheckerAnswers(j)
      PROVE  Service!Decide(j) \/ UNCHANGED Service!svars
  <2>1. UNCHANGED <<promise, rejectedBy, terminated>> /\ (JudgeReacts(j) \/ PortsAnswer(j))
    BY <1>9 DEF CompileReacts, CoreReacts, ExecutionReacts, CheckerAnswers, PortsAnswer, runtimeVars
  <2> QED
    BY <2>1, JudgeDecides
<1>10. ASSUME NEW x \in Executions, ExecutorAnswers(x) PROVE UNCHANGED Service!svars
  BY <1>1, <1>10 DEF ExecutorAnswers, judgeVars
<1> QED
  BY <1>2, <1>3, <1>4, <1>5, <1>6, <1>7, <1>8, <1>9, <1>10 DEF Next, Reacts, Service!Next

\* As far as safety goes, and for any number of calls, the runtime is a JudgeService:
\* a caller gets what its own judge decided, or terminate()'s error if that was first.
THEOREM ServiceSafety == Spec => Service!Safe
<1>1. RuntimeInit => Service!Init
  BY DEF RuntimeInit, JudgeInit, Service!Init, At
<1> QED
  BY <1>1, RuntimeInvariant, ServiceStep, PTL DEF Spec, Service!Safe
=============================================================================
