--------------------------- MODULE CompilerSystem ---------------------------
(***************************************************************************)
(* The compiler port and its worker together: the channels of              *)
(* BrowserCompilerPort.ts are those of runtimeWorker.ts.  The worker may   *)
(* report an error once; terminate() and a failed bootstrap dispose of the *)
(* port and stop the worker in one step.                                   *)
(***************************************************************************)
EXTENDS CompilerPort, FiniteSets

CONSTANTS Sysroot, Bundle, None

ASSUME SysrootAssumption == None \notin {Sysroot, Bundle}

\* CompilerPort's bound is large enough for this worker: a response for every request
\* and an error event.
ASSUME RoomAssumption == IsFiniteSet(Calls) /\ MaxInbox >= Cardinality(Calls) + 2

VARIABLES
    sysroot, module, compiler, url, handler, uses,  \* the worker's, see CompilerWorker
    alive       \* the worker was not terminated and has not failed

Worker == INSTANCE CompilerWorker
            WITH InitIds <- {InitId}, CompileIds <- Calls,
                 SysrootOf <- [i \in {InitId} |-> Sysroot],
                 UrlOf <- [i \in {InitId} |-> Bundle],
                 inbox <- toWorker, outbox <- toPage

workerSide == <<sysroot, module, compiler, url, handler, uses>>
svars == <<vars, workerSide, alive>>

SystemInit == Init /\ Worker!WorkerInit /\ alive = TRUE

-----------------------------------------------------------------------------
\* Everything the page does but to dispose of the port.
PageStep == /\ \/ InitCall \/ SendInit \/ FetchEnds \/ DispatchEvent
               \/ \E c \in Calls : Compile(c) \/ Resume(c)
            /\ UNCHANGED <<workerSide, alive>>

\* Mutant: the pending table is emptied, its promises are left alone.
TerminateForgetsPending(e) == /\ fatal' = e
                              /\ pending' = {}
                              /\ alive' = FALSE
                              /\ UNCHANGED <<init, initError, call, error, shape, toWorker,
                                             toPage, workerSide>>

\* onTerminate of createJudgeRuntime(), and its catch block.
Terminate(e) == /\ Dispose(e)
                /\ alive' = FALSE
                /\ UNCHANGED workerSide

WorkerStep == /\ alive
              /\ Worker!WorkerNext
              /\ UNCHANGED <<pageVars, alive>>

\* An uncaught error, or a message the page cannot read; an error may leave the
\* worker running.
WorkerFails == /\ alive
               /\ \A i \in DOMAIN toPage : toPage[i].type \in ResponseTypes
               /\ Len(toPage) < MaxInbox
               /\ \E t \in {"error", "messageerror"} :
                    toPage' = Append(toPage, [type |-> t, id |-> InitId])
               /\ alive' \in BOOLEAN
               /\ UNCHANGED <<pageVars, toWorker, workerSide>>

SystemNext == PageStep \/ WorkerStep \/ WorkerFails \/ \E e \in Reasons : Terminate(e)

\* The page's fairness, and that of a worker that lives.
SystemFairness ==
    /\ WF_svars(FetchEnds /\ UNCHANGED <<workerSide, alive>>)
    /\ WF_svars(SendInit /\ UNCHANGED <<workerSide, alive>>)
    /\ WF_svars(DispatchEvent /\ UNCHANGED <<workerSide, alive>>)
    /\ \A c \in Calls : WF_svars(Resume(c) /\ UNCHANGED <<workerSide, alive>>)
    /\ WF_svars(alive /\ Worker!Receives /\ UNCHANGED <<pageVars, alive>>)
    /\ WF_svars(alive /\ Worker!ModuleEnds /\ UNCHANGED <<pageVars, alive>>)
    /\ \A id \in Ids : WF_svars(alive /\ Worker!Resumes(id) /\ UNCHANGED <<pageVars, alive>>)

SystemSpec == SystemInit /\ [][SystemNext]_svars
FairSystem == SystemSpec /\ SystemFairness

-----------------------------------------------------------------------------
(* Properties *)

\* Every response finds its pending entry of its own kind, unless the port has
\* failed meanwhile: none is dropped, none is mistaken for another.
ResponsesAreAwaited ==
    \A i \in DOMAIN toPage : toPage[i].type \in ResponseTypes /\ fatal = NoError =>
        /\ toPage[i].id \in pending
        /\ toPage[i].type # "internal-error" => KindMatches(toPage[i].type, toPage[i].id)

\* The init promise is resolved only once all later compilations will use the one
\* sysroot: no request finds the worker without sysroot or module ("send init
\* first" is unreachable behind this port), and none is compiled with another
\* archive.
InitMeansOneSysroot ==
    /\ init = "resolved" => sysroot = Sysroot /\ module = "loaded"
    /\ \A i \in DOMAIN toWorker :
         toWorker[i].id # InitId => sysroot = Sysroot /\ module = "loaded"
    /\ \A c \in Calls : handler[c] = "compile" => uses[c] = Sysroot

\* Every compile() of a well-formed request is settled: by its answer, by the
\* failure of init, or by the crash or termination of the worker.
EveryCompileSettles ==
    \A c \in Calls : call[c] # "idle" /\ shape[c] # "malformed"
                       ~> call[c] \in {"resolved", "rejected"}

\* The worker is one of the workers CompilerPort was checked with.
ImplementsPort == Spec
=============================================================================
