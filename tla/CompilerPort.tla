---------------------------- MODULE CompilerPort ----------------------------
(***************************************************************************)
(* BrowserCompilerPort: init() and compile() share one worker, one init    *)
(* promise and one table of pending requests; the first fatal error ends   *)
(* the port for good.                                                      *)
(*                                                                         *)
(* The page runs one task at a time and, after it, every promise reaction  *)
(* that became ready (microtasks) before the next task.  Worker events and *)
(* the end of a fetch are tasks: they wait for Quiet.  Calls into the port *)
(* may come from a task or from a microtask, so between any two steps.     *)
(* The worker is any worker: it may answer anything, at any time.          *)
(***************************************************************************)
EXTENDS Naturals, Sequences

CONSTANTS
    Calls,      \* the compile() calls; each has its own random request id
    InitId,     \* the request id of the one init request
    Reasons,    \* the errors dispose() is called with
    CrashError, \* the error made for an error or messageerror event
    NoError,    \* no error
    OtherError, \* a failed fetch, an error reply, a post that throws
    MaxInbox    \* bound on the events queued for the page

ASSUME InitIdAssumption == InitId \notin Calls
ASSUME ErrorsAssumption == /\ NoError \notin Reasons \cup {CrashError, OtherError}
                           /\ OtherError \notin Reasons \cup {CrashError}
ASSUME MaxInboxAssumption == MaxInbox \in Nat

VARIABLES
    fatal,      \* fatalError
    init,       \* the life of initPromise
    initError,  \* what initPromise was rejected with
    pending,    \* keys of the pending table; only InitId has kind 'init'
    call,       \* call[c]: the promise compile() returned
    error,      \* error[c]: what it was rejected with
    shape,      \* shape[c]: what kind of argument the caller passed
    toWorker,   \* requests posted to the worker, not yet received
    toPage      \* events of the worker, not yet dispatched

pageVars == <<fatal, init, initError, pending, call, error, shape>>
vars == <<pageVars, toWorker, toPage>>

Ids == Calls \cup {InitId}
Fatals == Reasons \cup {CrashError}

\* Typed callers pass "valid" requests; a JavaScript caller may pass flags the
\* worker's protocol refuses, or flags that cannot be cloned at all.
Shapes == {"valid", "malformed", "uncloneable"}

\* A posted request, as far as the worker's protocol tells requests apart.
Request(id) == [id |-> id, valid |-> id = InitId \/ shape[id] = "valid"]
Requests == [id : Ids, valid : BOOLEAN]

ResponseTypes == {"init-result", "compile-result", "internal-error"}
Responses == [type : ResponseTypes, id : Ids]
WorkerEvents == Responses \cup [type : {"error", "messageerror"}, id : {InitId}]

TypeOK ==
    /\ fatal \in Fatals \cup {NoError}
    /\ init \in {"none", "fetching", "fetched", "sent", "resolved", "rejected"}
    /\ initError \in Fatals \cup {NoError, OtherError}
    /\ pending \subseteq Ids
    /\ call \in [Calls -> {"idle", "waiting", "sent", "resolved", "rejected"}]
    /\ error \in [Calls -> Fatals \cup {NoError, OtherError}]
    /\ shape \in [Calls -> Shapes]
    /\ toWorker \in Seq(Requests)
    /\ toPage \in Seq(WorkerEvents)

PortInit ==
    /\ fatal = NoError
    /\ init = "none"
    /\ initError = NoError
    /\ pending = {}
    /\ call = [c \in Calls |-> "idle"]
    /\ error = [c \in Calls |-> NoError]
    /\ shape \in [Calls -> Shapes]
    /\ toWorker = <<>>

Init == PortInit /\ toPage = <<>>

\* No promise reaction of the port is ready to run.
Quiet == /\ init # "fetched"
         /\ init \in {"resolved", "rejected"} => \A c \in Calls : call[c] # "waiting"

\* Mutant: state and error change places.
SettleSwapped(c, state, e) == /\ call' = [call EXCEPT ![c] = e]
                              /\ error' = [error EXCEPT ![c] = state]

Settle(c, state, e) == /\ call' = [call EXCEPT ![c] = state]
                       /\ error' = [error EXCEPT ![c] = e]

SettleInit(state, e) == init' = state /\ initError' = e

-----------------------------------------------------------------------------
(* Calls into the port *)

\* ensureInit(), once fatalError is known to be null: the promise is made once,
\* and kept even when it was rejected.
EnsureInit == SettleInit(IF init = "none" THEN "fetching" ELSE init, initError)

\* init() of the bootstrap.
InitCall ==
    /\ fatal = NoError
    /\ EnsureInit
    /\ UNCHANGED <<fatal, pending, call, error, shape, toWorker, toPage>>

CompileOtherLanguage(c) ==
    /\ call[c] = "idle"
    /\ Settle(c, "resolved", NoError)
    /\ UNCHANGED <<fatal, init, initError, pending, shape, toWorker, toPage>>

CompileRefused(c) ==
    /\ call[c] = "idle"
    /\ fatal # NoError
    /\ Settle(c, "rejected", fatal)
    /\ UNCHANGED <<fatal, init, initError, pending, shape, toWorker, toPage>>

CompileWaits(c) ==
    /\ call[c] = "idle"
    /\ fatal = NoError
    /\ EnsureInit
    /\ call' = [call EXCEPT ![c] = "waiting"]
    /\ UNCHANGED <<fatal, pending, error, shape, toWorker, toPage>>

\* Mutant: the pending table is rejected but not emptied.
FailAllKeepsTable(e) ==
    /\ fatal' = IF fatal = NoError THEN e ELSE fatal
    /\ call' = [c \in Calls |-> IF c \in pending /\ call[c] = "sent" THEN "rejected" ELSE call[c]]
    /\ error' = [c \in Calls |-> IF c \in pending /\ call[c] = "sent" THEN e ELSE error[c]]
    /\ IF init = "sent" THEN SettleInit("rejected", e) ELSE UNCHANGED <<init, initError>>
    /\ UNCHANGED pending

\* failAllPending(error): the first error is kept, all entries are rejected.
FailAllPending(e) ==
    /\ fatal' = IF fatal = NoError THEN e ELSE fatal
    /\ call' = [c \in Calls |-> IF c \in pending /\ call[c] = "sent" THEN "rejected" ELSE call[c]]
    /\ error' = [c \in Calls |-> IF c \in pending /\ call[c] = "sent" THEN e ELSE error[c]]
    /\ IF InitId \in pending THEN SettleInit("rejected", e) ELSE UNCHANGED <<init, initError>>
    /\ pending' = {}

Dispose(e) == FailAllPending(e) /\ UNCHANGED <<shape, toWorker, toPage>>

-----------------------------------------------------------------------------
(* Promise reactions (microtasks) *)

\* Mutant: fatalError is looked at before an await only.
UnaffectedByFatal == FALSE

\* The second look at fatalError, after the await.
FatalMeanwhile == fatal # NoError

\* sendInit() after fetchBinary().
SendInit ==
    /\ init = "fetched"
    /\ \/ /\ FatalMeanwhile
          /\ SettleInit("rejected", fatal)
          /\ UNCHANGED <<pending, toWorker>>
       \/ /\ ~FatalMeanwhile
          /\ SettleInit("sent", NoError)
          /\ pending' = pending \cup {InitId}
          /\ toWorker' = Append(toWorker, Request(InitId))
    /\ UNCHANGED <<fatal, call, error, shape, toPage>>

\* Mutant: compile() does not wait for the init promise.
InitDoneOrSent == init \in {"sent", "resolved"}

InitDone == init = "resolved"

\* compile() after ensureInit().
ResumeSends(c) ==
    /\ call[c] = "waiting"
    /\ InitDone
    /\ ~FatalMeanwhile
    /\ shape[c] # "uncloneable"
    /\ pending' = pending \cup {c}
    /\ toWorker' = Append(toWorker, Request(c))
    /\ call' = [call EXCEPT ![c] = "sent"]
    /\ UNCHANGED <<fatal, init, initError, error, shape, toPage>>

\* postMessage() throws after the entry was made: the entry stays.
ResumeCannotPost(c) ==
    /\ call[c] = "waiting"
    /\ InitDone
    /\ ~FatalMeanwhile
    /\ shape[c] = "uncloneable"
    /\ pending' = pending \cup {c}
    /\ Settle(c, "rejected", OtherError)
    /\ UNCHANGED <<fatal, init, initError, shape, toWorker, toPage>>

ResumeRejects(c) ==
    /\ call[c] = "waiting"
    /\ \/ InitDone /\ FatalMeanwhile /\ Settle(c, "rejected", fatal)
       \/ init = "rejected" /\ Settle(c, "rejected", initError)
    /\ UNCHANGED <<fatal, init, initError, pending, shape, toWorker, toPage>>

Resume(c) == ResumeSends(c) \/ ResumeCannotPost(c) \/ ResumeRejects(c)

-----------------------------------------------------------------------------
(* Tasks *)

FetchEnds ==
    /\ Quiet
    /\ init = "fetching"
    /\ SettleInit("fetched", NoError) \/ SettleInit("rejected", OtherError)
    /\ UNCHANGED <<fatal, pending, call, error, shape, toWorker, toPage>>

\* Mutant: a result of the wrong kind settles the request all the same.
AnyKindMatches(type, id) == type \in {"init-result", "compile-result"}

\* A result settles a request of its own kind; for another kind it is an error.
KindMatches(type, id) == \/ type = "init-result" /\ id = InitId
                         \/ type = "compile-result" /\ id # InitId

Answered(type, id) == IF KindMatches(type, id) THEN "resolved" ELSE "rejected"
AnswerError(type, id) == IF KindMatches(type, id) THEN NoError ELSE OtherError

\* The message listener: an unknown id is dropped, a known one is used up.
\* The entry of a call that could not be posted answers to nobody.
OnResponse(m) ==
    \/ /\ m.id \notin pending
       /\ UNCHANGED <<pending, init, initError, call, error>>
    \/ /\ m.id \in pending
       /\ pending' = pending \ {m.id}
       /\ IF m.id = InitId
          THEN /\ SettleInit(Answered(m.type, m.id), AnswerError(m.type, m.id))
               /\ UNCHANGED <<call, error>>
          ELSE /\ IF call[m.id] = "sent"
                  THEN Settle(m.id, Answered(m.type, m.id), AnswerError(m.type, m.id))
                  ELSE UNCHANGED <<call, error>>
               /\ UNCHANGED <<init, initError>>

DispatchEvent ==
    /\ Quiet
    /\ toPage # <<>>
    /\ toPage' = Tail(toPage)
    /\ \/ Head(toPage).type \in ResponseTypes /\ OnResponse(Head(toPage)) /\ UNCHANGED fatal
       \/ Head(toPage).type \in {"error", "messageerror"} /\ FailAllPending(CrashError)
    /\ UNCHANGED <<shape, toWorker>>

-----------------------------------------------------------------------------
(* Any worker *)

WorkerReceives == /\ toWorker # <<>>
                  /\ toWorker' = Tail(toWorker)
                  /\ UNCHANGED <<pageVars, toPage>>

WorkerPosts == /\ Len(toPage) < MaxInbox
               /\ \E m \in WorkerEvents : toPage' = Append(toPage, m)
               /\ UNCHANGED <<pageVars, toWorker>>

-----------------------------------------------------------------------------
Compile(c) == CompileOtherLanguage(c) \/ CompileRefused(c) \/ CompileWaits(c)

Page == \/ InitCall \/ SendInit \/ FetchEnds \/ DispatchEvent
        \/ \E c \in Calls : Compile(c) \/ Resume(c)
        \/ \E e \in Reasons : Dispose(e)

Next == Page \/ WorkerReceives \/ WorkerPosts

\* Ready reactions run and the browser ends every fetch, with data or an error.
\* Nothing is assumed of the worker.
Fairness == WF_vars(FetchEnds) /\ WF_vars(SendInit) /\ \A c \in Calls : WF_vars(Resume(c))

Spec == Init /\ [][Next]_vars
FairSpec == Spec /\ Fairness

-----------------------------------------------------------------------------
(* Properties *)

\* The pending table holds exactly the requests whose promise it must settle
\* (and the entries of calls that could not be posted): none is orphaned.
TableMatchesPromises ==
    /\ init = "sent" <=> InitId \in pending
    /\ \A c \in Calls : /\ call[c] = "sent" => c \in pending
                        /\ c \in pending => \/ call[c] = "sent"
                                            \/ call[c] = "rejected" /\ shape[c] = "uncloneable"

\* After a crash or dispose() no promise is left to the worker, and every call
\* that failed for it, then or later, reports the same first error.
FatalIsFinal ==
    /\ fatal # NoError => pending = {}
    /\ \A c \in Calls : error[c] \in Fatals => error[c] = fatal

\* No compile request reaches the worker before it has answered init, and the
\* init request is never behind another request.
InitComesFirst ==
    /\ (\E c \in Calls : call[c] = "sent") => init = "resolved"
    /\ \A i \in DOMAIN toWorker : toWorker[i].id = InitId => i = 1

\* compile() succeeds only by a compile result, and init() by an init result,
\* whatever the worker answers under a wrong type or id.
ResolvedByOwnKind ==
    [][/\ \A c \in Calls : call[c] = "sent" /\ call'[c] = "resolved" =>
            Head(toPage) = [type |-> "compile-result", id |-> c]
       /\ init # "resolved" /\ init' = "resolved" =>
            Head(toPage) = [type |-> "init-result", id |-> InitId]]_vars

\* Once the port has failed nothing more is posted to the worker.
NothingPostedAfterFatal ==
    [][fatal # NoError => Len(toWorker') <= Len(toWorker)]_vars

-----------------------------------------------------------------------------
(* Refinement *)

\* Callers cannot tell a call that waits for init from one sent to the worker.
Status == [c \in Calls |-> IF call[c] \in {"waiting", "sent"} THEN "pending" ELSE call[c]]

Service == INSTANCE CompileService
             WITH Requests <- Calls, status <- Status, failed <- fatal # NoError

\* The port is a compile service: no answer after its failure, not even to a call
\* that was waiting for init or already sent, and every call settles then,
\* whatever the worker does.
ImplementsService == Service!Spec
=============================================================================
