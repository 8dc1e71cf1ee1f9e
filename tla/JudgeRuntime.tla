---------------------------- MODULE JudgeRuntime ----------------------------
(***************************************************************************)
(* createJudgeRuntime() and BrowserJudgeRuntime: the bootstrap, the calls  *)
(* of judge() raced against terminate(), and health().  Each call's core   *)
(* judge (module Judge) goes on after terminate() rejected the caller's    *)
(* promise, until a port refuses it.  The two ports are the services that  *)
(* CompilerPort and ExecutorPort implement: a port answers a call in a     *)
(* step of its own, and the judge reacts to the settled promise later.     *)
(***************************************************************************)
EXTENDS Judge

VARIABLES
    boot,           \* the promise of createJudgeRuntime()
    artifacts,      \* artifactsState: both flags, which change together
    compilerWorker, \* the compiler worker
    terminated,     \* terminated and terminationError
    promise,        \* promise[j]: what runtime.judge() returned
    rejectedBy,     \* rejectedBy[j]: who rejected it
    rejectors,      \* activeRejectors
    compile,        \* compile[j]: the life of the call's compile()
    compilerFatal,  \* fatalError of the compiler port, as a condition
    execution,      \* execution[<<j, i>>]: the life of execute() for its test i
    executorDisposed

pageState == <<boot, artifacts, compilerWorker, terminated>>
callState == <<promise, rejectedBy, rejectors>>
compilerState == <<compile, compilerFatal>>
executorState == <<execution, executorDisposed>>
runtimeVars == <<pageState, callState, compilerState, executorState>>
vars == <<judgeVars, runtimeVars>>

Executions == Judges \X UNION {1 .. n : n \in TestCounts}

Compiler == INSTANCE CompileService
              WITH Requests <- Judges, status <- compile, failed <- compilerFatal
Executor == INSTANCE ExecutionService
              WITH Requests <- Executions, status <- execution, closed <- executorDisposed

Statuses == {"idle", "pending", "resolved", "rejected"}

RuntimeTypeOK ==
    /\ JudgeTypeOK
    /\ boot \in {"none", "initializing", "ready", "failed"}
    /\ compilerWorker \in {"none", "running", "terminated"}
    /\ {artifacts, terminated, compilerFatal, executorDisposed} \subseteq BOOLEAN
    /\ promise \in [Judges -> {"none", "pending", "resolved", "rejected"}]
    /\ rejectedBy \in [Judges -> {"nobody", "terminate", "judge"}]
    /\ rejectors \subseteq Judges
    /\ compile \in [Judges -> Statuses]
    /\ execution \in [Executions -> Statuses]

RuntimeInit ==
    /\ JudgeInit
    /\ boot = "none"
    /\ artifacts = FALSE
    /\ compilerWorker = "none"
    /\ terminated = FALSE
    /\ promise = [j \in Judges |-> "none"]
    /\ rejectedBy = [j \in Judges |-> "nobody"]
    /\ rejectors = {}
    /\ Compiler!Init
    /\ Executor!Init

-----------------------------------------------------------------------------
(* createJudgeRuntime() *)

BootFailsEarly ==
    /\ boot = "none"
    /\ boot' = "failed"
    /\ UNCHANGED <<judgeVars, artifacts, compilerWorker, terminated, callState,
                   compilerState, executorState>>

BootStarts ==
    /\ boot = "none"
    /\ boot' = "initializing"
    /\ compilerWorker' = "running"
    /\ UNCHANGED <<judgeVars, artifacts, terminated, callState, compilerState, executorState>>

BootSucceeds ==
    /\ boot = "initializing"
    /\ ~compilerFatal
    /\ boot' = "ready"
    /\ artifacts' = TRUE
    /\ UNCHANGED <<judgeVars, compilerWorker, terminated, callState, compilerState,
                   executorState>>

\* Mutant: the executor port is forgotten.
DisposeCompilerOnly ==
    /\ Compiler!Fail
    /\ compilerWorker' = "terminated"
    /\ UNCHANGED executorState

\* onTerminate, and the catch block: both ports, then the worker.
DisposePorts ==
    /\ Compiler!Fail
    /\ Executor!Close
    /\ compilerWorker' = "terminated"

\* init() was rejected: all that was made is disposed of.
BootFails ==
    /\ boot = "initializing"
    /\ boot' = "failed"
    /\ DisposePorts
    /\ UNCHANGED <<judgeVars, artifacts, terminated, callState>>

\* An error or messageerror event of the compiler worker; artifactsState stays.
CompilerCrashes ==
    /\ compilerWorker = "running"
    /\ ~compilerFatal
    /\ Compiler!Fail
    /\ UNCHANGED <<judgeVars, pageState, callState, executorState>>

-----------------------------------------------------------------------------
(* BrowserJudgeRuntime *)

\* judge() of a terminated runtime.
JudgeRefused(j) ==
    /\ boot = "ready"
    /\ terminated
    /\ promise[j] = "none"
    /\ promise' = [promise EXCEPT ![j] = "rejected"]
    /\ rejectedBy' = [rejectedBy EXCEPT ![j] = "terminate"]
    /\ UNCHANGED <<judgeVars, pageState, rejectors, compilerState, executorState>>

\* The call of compile() that the core judge starts with.
CallCompiler(j) == IF request[j].language = "cpp"
                   THEN Compiler!Accept(j) \/ Compiler!Refuse(j)
                   ELSE Compiler!Dismiss(j)

\* The core judge starts first, then its promise is registered.
JudgeStarts(j) ==
    /\ boot = "ready"
    /\ ~terminated
    /\ promise[j] = "none"
    /\ Start(j)
    /\ CallCompiler(j)
    /\ promise' = [promise EXCEPT ![j] = "pending"]
    /\ rejectors' = rejectors \cup {j}
    /\ UNCHANGED <<pageState, rejectedBy, executorState>>

\* Mutant: the rejectors are not called.
TerminateForgetsCallers ==
    /\ rejectors' = {}
    /\ UNCHANGED <<promise, rejectedBy>>

\* Every registered promise is rejected before the ports are disposed of.
RejectCallers ==
    /\ promise' = [j \in Judges |->
                     IF j \in rejectors /\ promise[j] = "pending" THEN "rejected" ELSE promise[j]]
    /\ rejectedBy' = [j \in Judges |->
                        IF j \in rejectors /\ promise[j] = "pending" THEN "terminate"
                        ELSE rejectedBy[j]]
    /\ rejectors' = {}

\* A second terminate() does nothing.
Terminate ==
    /\ boot = "ready"
    /\ ~terminated
    /\ terminated' = TRUE
    /\ RejectCallers
    /\ DisposePorts
    /\ UNCHANGED <<judgeVars, boot, artifacts>>

\* Mutant: the rejector of a finished call stays registered.
SettleKeepsRejector(j, state) ==
    /\ promise' = [promise EXCEPT ![j] = IF @ = "pending" THEN state ELSE @]
    /\ rejectedBy' = [rejectedBy EXCEPT ![j] =
                        IF promise[j] = "pending" /\ state = "rejected" THEN "judge" ELSE @]
    /\ UNCHANGED rejectors

\* Mutant: only the fulfilment of the operation is handled.
SettleValuesOnly(j, state) ==
    /\ promise' = [promise EXCEPT ![j] = IF @ = "pending" /\ state = "resolved" THEN state ELSE @]
    /\ rejectors' = rejectors \ {j}
    /\ UNCHANGED rejectedBy

\* The two reactions of runUntilTerminated(): for a promise that terminate()
\* rejected before, resolve() and reject() do nothing.
Settle(j, state) ==
    /\ promise' = [promise EXCEPT ![j] = IF @ = "pending" THEN state ELSE @]
    /\ rejectedBy' = [rejectedBy EXCEPT ![j] =
                        IF promise[j] = "pending" /\ state = "rejected" THEN "judge" ELSE @]
    /\ rejectors' = rejectors \ {j}

JudgeEnded(j) ==
    /\ j \in rejectors \/ promise[j] = "pending"
    /\ \/ At(j, "finished") /\ Settle(j, "resolved")
       \/ At(j, "failed") /\ Settle(j, "rejected")
    /\ UNCHANGED <<judgeVars, pageState, compilerState, executorState>>

-----------------------------------------------------------------------------
(* The core judge over the two ports *)

\* The compiler is single and slow: it answers, or rejects for what went wrong.
CompilerAnswers(j) ==
    /\ Compiler!Answer(j) \/ Compiler!Reject(j)
    /\ UNCHANGED <<judgeVars, pageState, callState, executorState>>

\* Another language is a compile failure in any case.
CompileReacts(j) ==
    /\ \/ /\ compile[j] = "resolved"
          /\ \/ CompileFails(j)
             \/ request[j].language = "cpp" /\ CompileSucceeds(j)
       \/ compile[j] = "rejected" /\ CompileRejects(j)
    /\ UNCHANGED runtimeVars

\* Reaching "executing" is the call of execute() for the test after those pushed;
\* a port that lives may still refuse it (no worker can be made or posted to).
CoreReacts(j) ==
    /\ JudgeReacts(j)
    /\ IF stage'[j] = "executing"
       THEN \E x \in Executions : /\ x = <<j, Len(tests'[j]) + 1>>
                                  /\ Executor!Accept(x) \/ Executor!Refuse(x)
       ELSE UNCHANGED executorState
    /\ UNCHANGED <<pageState, callState, compilerState>>

ExecutorAnswers(x) ==
    /\ Executor!Answer(x)
    /\ UNCHANGED <<judgeVars, pageState, callState, compilerState>>

Awaited(j) == execution[<<j, Len(tests[j]) + 1>>]

\* Mutant: the await of execute() is missing.
NotAwaited(j) == Awaited(j) \in {"pending", "resolved"}

Executed(j) == Awaited(j) = "resolved"

ExecutionReacts(j) ==
    /\ At(j, "executing")
    /\ \/ Executed(j) /\ (ExecutionSucceeds(j) \/ ExecutionFails(j))
       \/ Awaited(j) = "rejected" /\ ExecuteRejects(j)
    /\ UNCHANGED runtimeVars

\* Custom checkers run on the page; nothing stops them.
CheckerAnswers(j) ==
    /\ CustomCheckerEnds(j) \/ CustomCheckerReturnsNothing(j)
    /\ UNCHANGED runtimeVars

Boot == BootFailsEarly \/ BootStarts \/ BootSucceeds \/ BootFails

\* The promise reactions of a call: at most one is ready at a time.
Reacts(j) == CompileReacts(j) \/ CoreReacts(j) \/ ExecutionReacts(j) \/ JudgeEnded(j)

Next == \/ Boot \/ CompilerCrashes \/ Terminate
        \/ \E j \in Judges : \/ JudgeRefused(j) \/ JudgeStarts(j) \/ Reacts(j)
                            \/ CompilerAnswers(j) \/ CheckerAnswers(j)
        \/ \E x \in Executions : ExecutorAnswers(x)

\* Reactions run, and the ports answer: the executor by its timer, the compiler
\* as long as clang comes to an end.  Checkers are the caller's: they may hang.
Fairness == /\ \A j \in Judges : WF_vars(Reacts(j)) /\ WF_vars(CompilerAnswers(j))
            /\ \A x \in Executions : WF_vars(ExecutorAnswers(x))

Spec == RuntimeInit /\ [][Next]_vars
FairSpec == Spec /\ Fairness

-----------------------------------------------------------------------------
(* Properties *)

\* terminate() leaves no caller waiting, not even one whose checker hangs, and a
\* rejector is registered exactly as long as its promise is pending.
NoCallerForgotten ==
    /\ rejectors = {j \in Judges : promise[j] = "pending"}
    /\ terminated => rejectors = {}

\* After terminate() or a failed bootstrap no execution and no compiler is left,
\* and the judges that still run in the background, whatever they await, never
\* start one again.
NoWorkerAfterEnd ==
    terminated \/ boot = "failed" =>
        compilerWorker # "running" /\ \A x \in Executions : execution[x] # "pending"

\* Every result has an execution of its own that was answered, in the order of the
\* tests, and an execution in progress is the one its judge waits for: no test is
\* run twice, ahead of its turn, or for a judge that has ended.
OneExecutionPerTest ==
    \A x \in Executions :
        LET j == x[1]
            next == Len(tests[j]) + 1
        IN  /\ x[2] < next => execution[x] = "resolved"
            /\ x[2] > next => execution[x] = "idle"
            /\ execution[x] = "pending" => At(j, "executing")
            /\ execution[x] # "idle" => compile[j] = "resolved"

\* A call is settled unless its own checker hangs, and then terminate() does it.
EveryCallSettles ==
    \A j \in Judges :
        promise[j] = "pending" ~> \/ promise[j] \in {"resolved", "rejected"}
                                  \/ At(j, "checking")

\* docs/foundation/02_REQUIREMENTS.md:95: health() tells whether the compiler is
\* ready, so a live runtime that says so does not refuse every compilation.
HealthIsTrue ==
    boot = "ready" /\ ~terminated /\ artifacts => ~compilerFatal

-----------------------------------------------------------------------------
(* Refinement *)

Service == INSTANCE JudgeService
             WITH Calls <- Judges,
                  judged <- [j \in Judges |-> CASE At(j, "finished") -> "resolved"
                                                [] At(j, "failed") -> "rejected"
                                                [] OTHER -> "none"]

\* The runtime is a judge service: a caller gets what its own judge decided, unless
\* terminate() came first; then it gets terminate()'s error and nothing else.
ImplementsService == Service!Spec
=============================================================================
