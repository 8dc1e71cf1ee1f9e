---------------------------- MODULE ExecutorPort ----------------------------
(***************************************************************************)
(* BrowserExecutorPort: every execute() call gets a dedicated worker and a *)
(* timer; the first of reply, worker error, timer and dispose() decides    *)
(* the call.  Each action is one task of the page's event loop (JavaScript *)
(* runs it to completion), one step of a worker, or the passing of time.   *)
(* Event-loop tasks may be late: an event already queued by a worker can   *)
(* be dispatched after its worker was terminated, and a due timer may wait *)
(* behind other tasks.                                                     *)
(***************************************************************************)
EXTENDS Naturals, Sequences

CONSTANTS
    Requests,   \* the execute() calls; each has its own random request id
    Reasons,    \* the errors dispose() is called with
    NoError,    \* no error
    SetupError, \* what createWorker() or postMessage() throws
    TimeLimit,  \* limits.timeLimitMs, in ticks
    ForeignResults, \* what another factory's worker replies as its result
    MaxEvents   \* bound on the events one worker queues

ASSUME TimeLimitAssumption == TimeLimit \in Nat
ASSUME MaxEventsAssumption == MaxEvents \in Nat
ASSUME ErrorsAssumption == /\ NoError \notin Reasons
                           /\ SetupError \notin Reasons
                           /\ NoError # SetupError

VARIABLES
    call,       \* call[r]: the promise execute() returned
    result,     \* result[r]: the ExecutionResult it resolved with
    error,      \* error[r]: the error it was rejected with
    settled,    \* settled[r]: the closure variable of finish()
    active,     \* keys of activeExecutions
    disposed,   \* disposedError
    worker,     \* worker[r]: the worker of r as the page sees it
    timer,      \* timer[r]: the timeout of r
    events,     \* events[r]: events queued for the page by r's worker
    job,        \* job[r]: what r's worker does with the posted request
    age,        \* age[r]: ticks since r's worker and timer were started
    ran         \* ran[r]: ticks r's program has been running

portVars   == <<call, result, error, settled, active, disposed, worker, timer>>
workerVars == <<events, job>>
timeVars   == <<age, ran>>
vars == <<portVars, workerVars, timeVars>>

-----------------------------------------------------------------------------
(* Data *)

\* Time is only compared with the limit, so ages saturate one tick past it.
Horizon == TimeLimit + 1
Later(t) == IF t < Horizon THEN t + 1 ELSE t

NoResult == [status |-> "none", elapsed |-> 0]
InternalError == [status |-> "internal_error", elapsed |-> 0]
TimeLimitExceeded == [status |-> "time_limit_exceeded", elapsed |-> TimeLimit]

\* "failure": the runtime, memory and output limit verdicts of the worker.
WorkerStatuses == {"success", "failure", "internal_error"}
Results == [status : WorkerStatuses \cup {"none", "time_limit_exceeded"},
            elapsed : 0 .. Horizon]

\* What a worker can make the page see.  The project's worker only replies,
\* but the factory is a parameter: the port answers for any other worker too.
EventKinds == {"reply", "malformed", "mismatched", "messageerror", "error"}
Events == [kind : EventKinds, result : Results]

ASSUME ForeignResultsAssumption == ForeignResults \subseteq Results

TypeOK ==
    /\ call \in [Requests -> {"idle", "pending", "resolved", "rejected"}]
    /\ result \in [Requests -> Results]
    /\ error \in [Requests -> Reasons \cup {NoError, SetupError}]
    /\ settled \in [Requests -> BOOLEAN]
    /\ active \subseteq Requests
    /\ disposed \in Reasons \cup {NoError}
    /\ worker \in [Requests -> {"none", "running", "terminated"}]
    /\ timer \in [Requests -> {"none", "armed", "cleared", "fired"}]
    /\ events \in [Requests -> Seq(Events)]
    /\ job \in [Requests -> {"none", "queued", "running", "replied", "ignored", "foreign"}]
    /\ age \in [Requests -> 0 .. Horizon]
    /\ ran \in [Requests -> 0 .. Horizon]

Init ==
    /\ call = [r \in Requests |-> "idle"]
    /\ result = [r \in Requests |-> NoResult]
    /\ error = [r \in Requests |-> NoError]
    /\ settled = [r \in Requests |-> FALSE]
    /\ active = {}
    /\ disposed = NoError
    /\ worker = [r \in Requests |-> "none"]
    /\ timer = [r \in Requests |-> "none"]
    /\ events = [r \in Requests |-> <<>>]
    /\ job = [r \in Requests |-> "none"]
    /\ age = [r \in Requests |-> 0]
    /\ ran = [r \in Requests |-> 0]

-----------------------------------------------------------------------------
(* The page: BrowserExecutorPort *)

\* Mutant: execute() does not look at disposedError.
AliveForEver == TRUE

Alive == disposed = NoError

\* Mutant: the error is passed to resolve() instead of reject().
ResolveWithError(r, e) ==
    /\ call' = [call EXCEPT ![r] = "resolved"]
    /\ result' = [result EXCEPT ![r] = e]
    /\ UNCHANGED error

Reject(r, e) ==
    /\ call' = [call EXCEPT ![r] = "rejected"]
    /\ error' = [error EXCEPT ![r] = e]
    /\ UNCHANGED result

\* execute() rejects without an execution: the port is disposed, no worker can
\* be created (or the binary copied), or the request cannot be posted.
ExecuteDisposed(r) ==
    /\ call[r] = "idle"
    /\ ~Alive
    /\ Reject(r, disposed)
    /\ UNCHANGED <<settled, active, disposed, worker, timer, workerVars, timeVars>>

ExecuteNoWorker(r) ==
    /\ call[r] = "idle"
    /\ Alive
    /\ Reject(r, SetupError)
    /\ UNCHANGED <<settled, active, disposed, worker, timer, workerVars, timeVars>>

\* Mutant: the catch block of postMessage() leaves the map entry behind.
ExecuteNotPostedKeepsEntry(r) ==
    /\ call[r] = "idle"
    /\ Alive
    /\ worker' = [worker EXCEPT ![r] = "terminated"]
    /\ timer' = [timer EXCEPT ![r] = "cleared"]
    /\ active' = active \cup {r}
    /\ Reject(r, SetupError)
    /\ UNCHANGED <<settled, disposed, workerVars, timeVars>>

\* The worker, the timer and the map entry exist when postMessage() throws:
\* the catch block takes all three back.
ExecuteNotPosted(r) ==
    /\ call[r] = "idle"
    /\ Alive
    /\ worker' = [worker EXCEPT ![r] = "terminated"]
    /\ timer' = [timer EXCEPT ![r] = "cleared"]
    /\ active' = (active \cup {r}) \ {r}
    /\ Reject(r, SetupError)
    /\ UNCHANGED <<settled, disposed, workerVars, timeVars>>

ExecutePosted(r) ==
    /\ call[r] = "idle"
    /\ Alive
    /\ call' = [call EXCEPT ![r] = "pending"]
    /\ worker' = [worker EXCEPT ![r] = "running"]
    /\ timer' = [timer EXCEPT ![r] = "armed"]
    /\ active' = active \cup {r}
    /\ job' = [job EXCEPT ![r] = "queued"]
    /\ UNCHANGED <<result, error, settled, disposed, events, timeVars>>

\* resolve() does nothing to a promise that dispose() rejected before.
Resolve(r, res) ==
    /\ call' = [call EXCEPT ![r] = IF @ = "pending" THEN "resolved" ELSE @]
    /\ result' = [result EXCEPT ![r] = IF call[r] = "pending" THEN res ELSE @]
    /\ UNCHANGED error

\* Mutant: the timeout is not cleared.
LeaveTimeout(t) == t

ClearTimeout(t) == IF t = "armed" THEN "cleared" ELSE t

\* finish(result); t is the state of the timer when it is called.
Finish(r, res, t) ==
    \/ /\ settled[r]
       /\ timer' = [timer EXCEPT ![r] = t]
       /\ UNCHANGED <<call, result, error, settled, active, worker>>
    \/ /\ ~settled[r]
       /\ settled' = [settled EXCEPT ![r] = TRUE]
       /\ timer' = [timer EXCEPT ![r] = ClearTimeout(t)]
       /\ active' = active \ {r}
       /\ worker' = [worker EXCEPT ![r] = "terminated"]
       /\ Resolve(r, res)

\* Mutant: whatever a worker sends is taken for a result.
BelieveAnything(e) == e.result

\* The message, messageerror and error listeners: a well-formed reply with the
\* call's own id is believed, whatever it has in the place of a result.
Believed(e) == IF e.kind = "reply" THEN e.result ELSE InternalError

DispatchEvent(r) ==
    /\ events[r] # <<>>
    /\ events' = [events EXCEPT ![r] = Tail(@)]
    /\ Finish(r, Believed(Head(events[r])), timer[r])
    /\ UNCHANGED <<disposed, job, timeVars>>

\* Mutant: the time limit is measured from the program's start.
TimerDueOnRun(r) == timer[r] = "armed" /\ ran[r] >= TimeLimit

TimerDue(r) == timer[r] = "armed" /\ age[r] >= TimeLimit

TimerFires(r) ==
    /\ TimerDue(r)
    /\ Finish(r, TimeLimitExceeded, "fired")
    /\ UNCHANGED <<disposed, workerVars, timeVars>>

\* Mutant: every dispose() overwrites disposedError.
LastReason(e) == e

FirstReason(e) == IF disposed = NoError THEN e ELSE disposed

\* dispose(reason): the first reason is kept, every active call is rejected
\* with this one; settled stays as it is.
Dispose(e) ==
    /\ disposed' = FirstReason(e)
    /\ timer' = [r \in Requests |->
                   IF r \in active THEN ClearTimeout(timer[r]) ELSE timer[r]]
    /\ worker' = [r \in Requests |-> IF r \in active THEN "terminated" ELSE worker[r]]
    /\ call' = [r \in Requests |->
                  IF r \in active /\ call[r] = "pending" THEN "rejected" ELSE call[r]]
    /\ error' = [r \in Requests |->
                   IF r \in active /\ call[r] = "pending" THEN e ELSE error[r]]
    /\ active' = {}
    /\ UNCHANGED <<result, settled, workerVars, timeVars>>

-----------------------------------------------------------------------------
(* The worker of one call: executionWorker.ts *)

Queue(r, k, res) == /\ Len(events[r]) < MaxEvents
                    /\ events' = [events EXCEPT ![r] =
                                    Append(@, [kind |-> k, result |-> res])]

WorkerStarts(r) ==
    /\ worker[r] = "running"
    /\ job[r] = "queued"
    /\ job' = [job EXCEPT ![r] = "running"]
    /\ UNCHANGED <<portVars, events, timeVars>>

\* A request that is not well-formed gets no answer at all.
WorkerIgnores(r) ==
    /\ worker[r] = "running"
    /\ job[r] = "queued"
    /\ job' = [job EXCEPT ![r] = "ignored"]
    /\ UNCHANGED <<portVars, events, timeVars>>

\* The verdict of executeWasm() with the program's own time, or the catch.
WorkerReplies(r) ==
    /\ worker[r] = "running"
    /\ job[r] = "running"
    /\ job' = [job EXCEPT ![r] = "replied"]
    /\ \/ \E s \in {"success", "failure"} :
            Queue(r, "reply", [status |-> s, elapsed |-> ran[r]])
       \/ Queue(r, "reply", InternalError)
    /\ UNCHANGED <<portVars, timeVars>>

\* An error event (the script does not load, an uncaught error), a message
\* that cannot be read, or, from another factory's worker, a stray message.
WorkerMisbehaves(r) ==
    /\ worker[r] = "running"
    /\ \E k \in EventKinds \ {"reply"} : Queue(r, k, NoResult)
    /\ UNCHANGED <<portVars, job, timeVars>>

\* Another factory's worker replies in form, with a result of its own.
WorkerReplacesResult(r) ==
    /\ worker[r] = "running"
    /\ job[r] \in {"queued", "foreign"}
    /\ job' = [job EXCEPT ![r] = "foreign"]
    /\ \E res \in ForeignResults : Queue(r, "reply", res)
    /\ UNCHANGED <<portVars, timeVars>>

-----------------------------------------------------------------------------
(* Time *)

\* One tick for every running worker; pages and workers may use any of it.
Tick ==
    /\ \E r \in Requests : worker[r] = "running" /\ age[r] < Horizon
    /\ age' = [r \in Requests |-> IF worker[r] = "running" THEN Later(age[r]) ELSE age[r]]
    /\ ran' = [r \in Requests |-> IF worker[r] = "running" /\ job[r] = "running"
                                  THEN Later(ran[r]) ELSE ran[r]]
    /\ UNCHANGED <<portVars, workerVars>>

-----------------------------------------------------------------------------
Execute(r) == \/ ExecuteDisposed(r)
              \/ ExecuteNoWorker(r)
              \/ ExecuteNotPosted(r)
              \/ ExecutePosted(r)

Worker(r) == \/ WorkerStarts(r)
             \/ WorkerIgnores(r)
             \/ WorkerReplies(r)
             \/ WorkerMisbehaves(r)
             \/ WorkerReplacesResult(r)

Next == \/ \E r \in Requests : Execute(r) \/ DispatchEvent(r) \/ TimerFires(r) \/ Worker(r)
        \/ \E e \in Reasons : Dispose(e)
        \/ Tick

\* Time passes and due timers are run by the browser.  Nothing is assumed of
\* the workers: a program may loop for ever, a worker may never answer.
Fairness == WF_vars(Tick) /\ \A r \in Requests : WF_vars(TimerFires(r))

Spec == Init /\ [][Next]_vars
FairSpec == Spec /\ Fairness

-----------------------------------------------------------------------------
(* Properties *)

\* A call in progress holds a map entry, a running worker and an armed timer,
\* and nobody else holds any: whichever of reply, crash, timeout, failed post
\* and dispose() ends a call gives back all three.
ResourcesMatchCalls ==
    \A r \in Requests :
        /\ call[r] = "pending" <=> r \in active
        /\ call[r] = "pending" <=> worker[r] = "running"
        /\ call[r] = "pending" <=> timer[r] = "armed"

\* Once disposed the port holds nothing, and every call that disposal rejected,
\* before or after the map was emptied, got the same error: the first reason.
DisposalIsFinal ==
    /\ disposed # NoError => active = {}
    /\ \A r \in Requests : error[r] \in Reasons => error[r] = disposed

\* A settled call is inert: events its worker had queued, a second dispose()
\* and other calls change neither its outcome nor its worker, timer or entry.
SettledIsInert ==
    [][\A r \in Requests :
         call[r] \in {"resolved", "rejected"} =>
           /\ call'[r] = call[r] /\ result'[r] = result[r] /\ error'[r] = error[r]
           /\ worker'[r] = worker[r] /\ timer'[r] = timer[r]
           /\ r \notin active']_vars

\* A resolved call has a verdict of its own making: a time limit verdict only
\* when the limit was used up, anything else only from its worker's events.  With
\* a foreign worker it is what that worker replied, unless the limit was used up.
VerdictIsEarned ==
    \A r \in Requests : call[r] = "resolved" =>
        /\ timer[r] = "fired" => /\ result[r].status = "time_limit_exceeded"
                                /\ age[r] >= TimeLimit
        /\ job[r] # "foreign" =>
             /\ result[r].status # "none"
             /\ result[r].status = "time_limit_exceeded" => timer[r] = "fired"
             /\ result[r].status \in {"success", "failure"} => job[r] = "replied"
        /\ job[r] = "foreign" /\ timer[r] # "fired" =>
             result[r] \in ForeignResults \cup {InternalError}

\* Every call is answered, even if its worker hangs or drops the request.
EveryCallSettles ==
    \A r \in Requests : call[r] = "pending" ~> call[r] \in {"resolved", "rejected"}

\* The port implements the service it promises.
Service == INSTANCE ExecutionService
             WITH status <- call, closed <- (disposed # NoError)
ImplementsService == Service!Spec

\* docs/foundation/07_EXECUTION_AND_ERROR_POLICY.md:60: an execution that took
\* longer than timeLimitMs is judged time_limit_exceeded, never a success.
TimeLimitEnforced ==
    \A r \in Requests :
        result[r].status = "success" => result[r].elapsed <= TimeLimit
=============================================================================
