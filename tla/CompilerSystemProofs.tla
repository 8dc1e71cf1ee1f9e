------------------------- MODULE CompilerSystemProofs -------------------------
(***************************************************************************)
(* Proofs about CompilerPort and CompilerSystem, for any number of         *)
(* compile() calls.  The first part is about the port and any worker, the  *)
(* second one about the port and its own worker, with a crash, an error    *)
(* event or a termination at any point.                                    *)
(***************************************************************************)
EXTENDS CompilerSystem, TLAPS, FiniteSetTheorems

Errors == Fatals \cup {NoError, OtherError}
InitStates == {"none", "fetching", "fetched", "sent", "resolved", "rejected"}
CallStates == {"idle", "waiting", "sent", "resolved", "rejected"}

-----------------------------------------------------------------------------
(* Types *)

\* An event that waits for the page has a type and the id of some request.
LEMMA EventTypes ==
    ASSUME NEW m \in WorkerEvents
    PROVE  m.id \in Ids /\ m.type \in ResponseTypes \cup {"error", "messageerror"}
  BY DEF WorkerEvents, Responses, Ids

\* failAllPending() keeps the types of what it assigns.
LEMMA FailAllType ==
    ASSUME TypeOK, NEW e \in Fatals, FailAllPending(e)
    PROVE  /\ fatal' \in Fatals \cup {NoError}
           /\ init' \in InitStates
           /\ initError' \in Errors
           /\ pending' \subseteq Ids
           /\ call' \in [Calls -> CallStates]
           /\ error' \in [Calls -> Errors]
  BY DEF TypeOK, FailAllPending, SettleInit, Errors, InitStates, CallStates

\* The message listener keeps the types of what it assigns.
LEMMA OnResponseType ==
    ASSUME TypeOK, NEW m \in WorkerEvents, OnResponse(m)
    PROVE  /\ init' \in InitStates
           /\ initError' \in Errors
           /\ pending' \subseteq Ids
           /\ call' \in [Calls -> CallStates]
           /\ error' \in [Calls -> Errors]
  BY EventTypes DEF TypeOK, OnResponse, Settle, SettleInit, Answered, AnswerError,
                    Errors, InitStates, CallStates, Ids

\* A new port has well-typed variables.
THEOREM InitType == Init => TypeOK
  BY DEF Init, PortInit, TypeOK, Ids

\* Every call, reaction, task and step of any worker keeps the types.
THEOREM NextType == TypeOK /\ [Next]_vars => TypeOK'
<1> SUFFICES ASSUME TypeOK, [Next]_vars PROVE TypeOK'
  OBVIOUS
<1> USE DEF Errors, InitStates, CallStates
<1>1. CASE InitCall
  BY <1>1 DEF TypeOK, InitCall, EnsureInit, SettleInit
<1>2. CASE SendInit
  <2>1. Request(InitId) \in Requests
    BY DEF Request, Requests, Ids
  <2>2. fatal \in Errors /\ NoError \in Errors /\ InitId \in Ids
    BY DEF TypeOK, Ids
  <2>3. CASE FatalMeanwhile /\ SettleInit("rejected", fatal) /\ UNCHANGED <<pending, toWorker>>
    BY <1>2, <2>2, <2>3 DEF TypeOK, SendInit, SettleInit
  <2>4. CASE /\ SettleInit("sent", NoError)
             /\ pending' = pending \cup {InitId}
             /\ toWorker' = Append(toWorker, Request(InitId))
    <3>1. toWorker' \in Seq(Requests)
      BY <2>1, <2>4 DEF TypeOK
    <3>2. QED BY <1>2, <2>2, <2>4, <3>1 DEF TypeOK, SendInit, SettleInit
  <2>5. QED BY <1>2, <2>3, <2>4 DEF SendInit
<1>3. CASE FetchEnds
  BY <1>3 DEF TypeOK, FetchEnds, SettleInit
<1>4. CASE DispatchEvent
  <2>1. Head(toPage) \in WorkerEvents /\ Tail(toPage) \in Seq(WorkerEvents)
    BY <1>4 DEF TypeOK, DispatchEvent
  <2>2. CASE OnResponse(Head(toPage)) /\ UNCHANGED fatal
    BY <1>4, <2>1, <2>2, OnResponseType DEF TypeOK, DispatchEvent
  <2>3. CASE FailAllPending(CrashError)
    <3>1. CrashError \in Fatals
      BY DEF Fatals
    <3>2. QED BY <1>4, <2>1, <2>3, <3>1, FailAllType DEF TypeOK, DispatchEvent
  <2>4. QED BY <1>4, <2>2, <2>3 DEF DispatchEvent
<1>5. ASSUME NEW c \in Calls, Compile(c) PROVE TypeOK'
  <2>1. CASE CompileOtherLanguage(c)
    BY <2>1 DEF TypeOK, CompileOtherLanguage, Settle
  <2>2. CASE CompileRefused(c)
    BY <2>2 DEF TypeOK, CompileRefused, Settle
  <2>3. CASE CompileWaits(c)
    BY <2>3 DEF TypeOK, CompileWaits, EnsureInit, SettleInit
  <2>4. QED BY <1>5, <2>1, <2>2, <2>3 DEF Compile
<1>6. ASSUME NEW c \in Calls, Resume(c) PROVE TypeOK'
  <2>1. CASE ResumeSends(c)
    <3>1. Request(c) \in Requests
      BY DEF Request, Requests, Ids
    <3>2. toWorker' \in Seq(Requests)
      BY <2>1, <3>1 DEF TypeOK, ResumeSends
    <3>3. QED BY <2>1, <3>2 DEF TypeOK, ResumeSends, Ids
  <2>2. CASE ResumeCannotPost(c)
    BY <2>2 DEF TypeOK, ResumeCannotPost, Settle, Ids
  <2>3. CASE ResumeRejects(c)
    BY <2>3 DEF TypeOK, ResumeRejects, Settle
  <2>4. QED BY <1>6, <2>1, <2>2, <2>3 DEF Resume
<1>7. ASSUME NEW e \in Reasons, Dispose(e) PROVE TypeOK'
  <2>1. e \in Fatals
    BY DEF Fatals
  <2>2. QED BY <1>7, <2>1, FailAllType DEF Dispose, TypeOK
<1>8. CASE WorkerReceives
  BY <1>8 DEF TypeOK, WorkerReceives, pageVars
<1>9. CASE WorkerPosts
  BY <1>9 DEF TypeOK, WorkerPosts, pageVars
<1>10. CASE UNCHANGED vars
  BY <1>10 DEF TypeOK, vars, pageVars
<1>11. QED
  BY <1>1, <1>2, <1>3, <1>4, <1>5, <1>6, <1>7, <1>8, <1>9, <1>10 DEF Next, Page

\* Every variable of the compiler port keeps its type.
THEOREM TypeCorrect == Spec => []TypeOK
  BY InitType, NextType, PTL DEF Spec

-----------------------------------------------------------------------------
(* Safety *)

\* The init promise was rejected with the port's own first error, like the calls.
InitErrorIsFinal == initError \in Fatals => initError = fatal

\* Nothing was posted before the init request.
NothingSentEarly == init \in {"none", "fetching", "fetched"} => toWorker = <<>>

PortInv == /\ TypeOK /\ TableMatchesPromises /\ FatalIsFinal
           /\ InitErrorIsFinal /\ InitComesFirst /\ NothingSentEarly

\* Errors of the port's failure, other errors and no error are told apart.
LEMMA Distinct == /\ NoError \notin Fatals /\ OtherError \notin Fatals
                  /\ CrashError \in Fatals /\ Reasons \subseteq Fatals
                  /\ \A c \in Calls : c # InitId
  BY ErrorsAssumption, InitIdAssumption DEF Fatals

\* A new port owes nothing and has posted nothing.
LEMMA InitPort == Init => PortInv
<1> SUFFICES ASSUME Init PROVE PortInv
  OBVIOUS
<1>1. TypeOK
  BY InitType
<1>2. QED
  BY <1>1, Distinct DEF Init, PortInit, PortInv, TableMatchesPromises, FatalIsFinal,
       InitErrorIsFinal, InitComesFirst, NothingSentEarly

\* failAllPending() settles all it removes, with the error that becomes or is the
\* port's: it finds nothing to settle when the port has failed before.
LEMMA FailAllPort ==
    ASSUME PortInv, NEW e \in Fatals, FailAllPending(e), UNCHANGED <<shape, toWorker>>
    PROVE  /\ TableMatchesPromises' /\ FatalIsFinal' /\ InitErrorIsFinal'
           /\ InitComesFirst' /\ NothingSentEarly'
<1> USE DEF PortInv
<1>1. fatal # NoError => pending = {}
  BY DEF FatalIsFinal
<1>2. InitId \in pending <=> init = "sent"
  BY DEF TableMatchesPromises
<1>3. TableMatchesPromises'
  BY <1>2 DEF TableMatchesPromises, FailAllPending, SettleInit, TypeOK
<1>4. FatalIsFinal'
  BY <1>1, Distinct DEF FatalIsFinal, FailAllPending, TypeOK
<1>5. InitErrorIsFinal'
  BY <1>1, Distinct DEF InitErrorIsFinal, FailAllPending, SettleInit, TypeOK
<1>6. InitComesFirst'
  BY <1>2 DEF InitComesFirst, TableMatchesPromises, FailAllPending, SettleInit, TypeOK
<1>7. NothingSentEarly'
  BY <1>2 DEF NothingSentEarly, FailAllPending, SettleInit, TypeOK
<1>8. QED BY <1>3, <1>4, <1>5, <1>6, <1>7

\* A response settles the promise of the entry it removes, and no other.
LEMMA OnResponsePort ==
    ASSUME PortInv, NEW m \in WorkerEvents, OnResponse(m),
           UNCHANGED <<fatal, shape, toWorker>>
    PROVE  /\ TableMatchesPromises' /\ FatalIsFinal' /\ InitErrorIsFinal'
           /\ InitComesFirst' /\ NothingSentEarly'
<1> USE DEF PortInv
<1>1. CASE UNCHANGED <<pending, init, initError, call, error>>
  BY <1>1 DEF TableMatchesPromises, FatalIsFinal, InitErrorIsFinal, InitComesFirst,
              NothingSentEarly
<1>2. CASE /\ m.id = InitId /\ m.id \in pending /\ pending' = pending \ {m.id}
           /\ SettleInit(Answered(m.type, m.id), AnswerError(m.type, m.id))
           /\ UNCHANGED <<call, error>>
  <2>1. init = "sent" /\ init' \in {"resolved", "rejected"} /\ initError' \notin Fatals
    BY <1>2, Distinct DEF TableMatchesPromises, SettleInit, Answered, AnswerError
  <2>2. QED BY <1>2, <2>1, Distinct DEF TableMatchesPromises, FatalIsFinal, InitErrorIsFinal,
                                        InitComesFirst, NothingSentEarly
<1>3. CASE /\ m.id # InitId /\ m.id \in pending /\ pending' = pending \ {m.id}
           /\ call[m.id] = "sent"
           /\ Settle(m.id, Answered(m.type, m.id), AnswerError(m.type, m.id))
           /\ UNCHANGED <<init, initError>>
  <2>1. m.id \in Calls /\ Answered(m.type, m.id) \in {"resolved", "rejected"}
                       /\ AnswerError(m.type, m.id) \notin Fatals
    BY <1>3, Distinct DEF TypeOK, Ids, Answered, AnswerError
  <2>2. QED BY <1>3, <2>1, Distinct DEF TypeOK, Settle, TableMatchesPromises, FatalIsFinal,
                                        InitErrorIsFinal, InitComesFirst, NothingSentEarly
<1>4. CASE /\ m.id # InitId /\ m.id \in pending /\ pending' = pending \ {m.id}
           /\ call[m.id] # "sent"
           /\ UNCHANGED <<init, initError, call, error>>
  BY <1>4, Distinct DEF TypeOK, Ids, TableMatchesPromises, FatalIsFinal, InitErrorIsFinal,
                        InitComesFirst, NothingSentEarly
<1>5. QED BY <1>1, <1>2, <1>3, <1>4 DEF OnResponse

\* Every step keeps the invariant.
LEMMA NextPort == PortInv /\ [Next]_vars => PortInv'
<1> SUFFICES ASSUME PortInv, [Next]_vars PROVE PortInv'
  OBVIOUS
<1> USE DEF PortInv
<1> DEFINE Rest == /\ TableMatchesPromises /\ FatalIsFinal /\ InitErrorIsFinal
                   /\ InitComesFirst /\ NothingSentEarly
<1>0. TypeOK'
  BY NextType
<1>1. CASE InitCall
  <2>1. Rest'
    BY <1>1, Distinct DEF TypeOK, InitCall, EnsureInit, SettleInit, TableMatchesPromises,
         FatalIsFinal, InitErrorIsFinal, InitComesFirst, NothingSentEarly
  <2>2. QED BY <1>0, <2>1
<1>2. CASE SendInit
  <2>1. toWorker = <<>> /\ InitId \notin pending
    BY <1>2 DEF SendInit, NothingSentEarly, TableMatchesPromises
  <2>2. \A c \in Calls : call[c] # "sent"
    BY <1>2 DEF SendInit, InitComesFirst
  <2>3. CASE FatalMeanwhile /\ SettleInit("rejected", fatal) /\ UNCHANGED <<pending, toWorker>>
    BY <1>0, <1>2, <2>1, <2>2, <2>3, Distinct DEF SendInit, SettleInit, TableMatchesPromises,
         FatalIsFinal, InitErrorIsFinal, InitComesFirst, NothingSentEarly
  <2>4. CASE /\ ~FatalMeanwhile
             /\ SettleInit("sent", NoError)
             /\ pending' = pending \cup {InitId}
             /\ toWorker' = Append(toWorker, Request(InitId))
    <3>1. DOMAIN toWorker' = {1}
      BY <2>1, <2>4
    <3>2. TableMatchesPromises' /\ FatalIsFinal' /\ InitErrorIsFinal' /\ NothingSentEarly'
      BY <1>2, <2>2, <2>4, Distinct DEF SendInit, SettleInit, FatalMeanwhile,
           TableMatchesPromises, FatalIsFinal, InitErrorIsFinal, NothingSentEarly
    <3>3. InitComesFirst'
      BY <1>2, <2>2, <3>1 DEF SendInit, InitComesFirst
    <3>4. QED BY <1>0, <3>2, <3>3
  <2>5. QED BY <1>2, <2>3, <2>4 DEF SendInit
<1>3. CASE FetchEnds
  <2>1. Rest'
    BY <1>3, Distinct DEF TypeOK, FetchEnds, SettleInit, TableMatchesPromises,
         FatalIsFinal, InitErrorIsFinal, InitComesFirst, NothingSentEarly
  <2>2. QED BY <1>0, <2>1
<1>4. CASE DispatchEvent
  <2>1. Head(toPage) \in WorkerEvents /\ UNCHANGED <<shape, toWorker>>
    BY <1>4 DEF TypeOK, DispatchEvent
  <2>2. CASE OnResponse(Head(toPage)) /\ UNCHANGED fatal
    BY <1>0, <2>1, <2>2, OnResponsePort
  <2>3. CASE FailAllPending(CrashError)
    BY <1>0, <2>1, <2>3, FailAllPort, Distinct
  <2>4. QED BY <1>4, <2>2, <2>3 DEF DispatchEvent
<1>5. ASSUME NEW c \in Calls, Compile(c) PROVE PortInv'
  <2>1. CASE CompileOtherLanguage(c)
    BY <1>0, <2>1, Distinct DEF TypeOK, CompileOtherLanguage, Settle, TableMatchesPromises,
         FatalIsFinal, InitErrorIsFinal, InitComesFirst, NothingSentEarly
  <2>2. CASE CompileRefused(c)
    BY <1>0, <2>2, Distinct DEF TypeOK, CompileRefused, Settle, TableMatchesPromises,
         FatalIsFinal, InitErrorIsFinal, InitComesFirst, NothingSentEarly
  <2>3. CASE CompileWaits(c)
    BY <1>0, <2>3, Distinct DEF TypeOK, CompileWaits, EnsureInit, SettleInit,
         TableMatchesPromises, FatalIsFinal, InitErrorIsFinal, InitComesFirst, NothingSentEarly
  <2>4. QED BY <1>5, <2>1, <2>2, <2>3 DEF Compile
<1>6. ASSUME NEW c \in Calls, Resume(c) PROVE PortInv'
  <2>1. CASE ResumeSends(c)
    <3>1. \A i \in DOMAIN toWorker' : toWorker'[i].id = InitId => i = 1
      <4>1. Request(c).id # InitId
        BY Distinct DEF Request
      <4>2. TAKE i \in DOMAIN toWorker'
      <4>3. CASE i \in DOMAIN toWorker
        BY <2>1, <4>3 DEF ResumeSends, TypeOK, InitComesFirst
      <4>4. CASE i = Len(toWorker) + 1
        BY <2>1, <4>1, <4>4 DEF ResumeSends, TypeOK
      <4>5. QED BY <2>1, <4>3, <4>4 DEF ResumeSends, TypeOK
    <3>2. InitComesFirst' /\ NothingSentEarly'
      BY <2>1, <3>1 DEF ResumeSends, InitDone, InitComesFirst, NothingSentEarly
    <3>3. TableMatchesPromises' /\ FatalIsFinal' /\ InitErrorIsFinal'
      BY <2>1, Distinct DEF TypeOK, ResumeSends, InitDone, FatalMeanwhile,
           TableMatchesPromises, FatalIsFinal, InitErrorIsFinal
    <3>4. QED BY <1>0, <3>2, <3>3
  <2>2. CASE ResumeCannotPost(c)
    BY <1>0, <2>2, Distinct DEF TypeOK, ResumeCannotPost, InitDone, FatalMeanwhile, Settle,
         TableMatchesPromises, FatalIsFinal, InitErrorIsFinal, InitComesFirst, NothingSentEarly
  <2>3. CASE ResumeRejects(c)
    BY <1>0, <2>3, Distinct DEF TypeOK, ResumeRejects, FatalMeanwhile, Settle,
         TableMatchesPromises, FatalIsFinal, InitErrorIsFinal, InitComesFirst, NothingSentEarly
  <2>4. QED BY <1>6, <2>1, <2>2, <2>3 DEF Resume
<1>7. ASSUME NEW e \in Reasons, Dispose(e) PROVE PortInv'
  BY <1>0, <1>7, FailAllPort, Distinct DEF Dispose
<1>8. CASE WorkerReceives
  <2>1. UNCHANGED <<fatal, init, initError, pending, call, error, shape>>
    BY <1>8 DEF WorkerReceives, pageVars
  <2>2. \A i \in DOMAIN toWorker' : i + 1 \in DOMAIN toWorker /\ i \in Nat \ {0}
                                     /\ toWorker'[i] = toWorker[i + 1]
    BY <1>8 DEF WorkerReceives, TypeOK
  <2>3. \A i \in DOMAIN toWorker' : toWorker'[i].id = InitId => i = 1
    BY <2>2 DEF InitComesFirst
  <2>4. NothingSentEarly'
    BY <1>8, <2>1 DEF WorkerReceives, NothingSentEarly
  <2>5. QED BY <1>0, <2>1, <2>3, <2>4 DEF TableMatchesPromises, FatalIsFinal,
                                         InitErrorIsFinal, InitComesFirst
<1>9. CASE WorkerPosts \/ UNCHANGED vars
  BY <1>0, <1>9 DEF WorkerPosts, vars, pageVars, TableMatchesPromises, FatalIsFinal,
                    InitErrorIsFinal, InitComesFirst, NothingSentEarly
<1>10. QED
  BY <1>1, <1>2, <1>3, <1>4, <1>5, <1>6, <1>7, <1>8, <1>9 DEF Next, Page

\* The invariant holds throughout.
LEMMA PortAlways == Spec => []PortInv
  BY InitPort, NextPort, PTL DEF Spec

\* No promise is orphaned, by a crash, a failed post, or an answer of any kind.
THEOREM NoOrphans == Spec => []TableMatchesPromises
  BY PortAlways, PTL DEF PortInv

\* After the first failure nothing is left to the worker, and all who suffer from
\* it, at whichever await they were suspended, are told the same error.
THEOREM FailureFinal == Spec => []FatalIsFinal
  BY PortAlways, PTL DEF PortInv

\* The init request is the first the worker gets, and answered before the second.
THEOREM InitFirst == Spec => []InitComesFirst
  BY PortAlways, PTL DEF PortInv

-----------------------------------------------------------------------------
(* Steps *)

PostsNothingAfterFatal == fatal # NoError => Len(toWorker') <= Len(toWorker)

\* A step of a failed port posts nothing.
LEMMA StepPostsNothing == TypeOK /\ [Next]_vars => [PostsNothingAfterFatal]_vars
<1> SUFFICES ASSUME TypeOK, Next, fatal # NoError PROVE Len(toWorker') <= Len(toWorker)
  BY DEF PostsNothingAfterFatal
<1>1. Len(toWorker) \in Nat
  BY DEF TypeOK
<1>2. CASE UNCHANGED toWorker
  BY <1>1, <1>2
<1>3. CASE WorkerReceives
  BY <1>1, <1>3 DEF WorkerReceives, TypeOK
<1>4. UNCHANGED toWorker \/ WorkerReceives
  <2>1. CASE InitCall \/ SendInit \/ FetchEnds \/ DispatchEvent
    BY <2>1 DEF InitCall, SendInit, FatalMeanwhile, FetchEnds, DispatchEvent
  <2>2. ASSUME NEW c \in Calls, Compile(c) \/ Resume(c) PROVE UNCHANGED toWorker
    BY <2>2 DEF Compile, CompileOtherLanguage, CompileRefused, CompileWaits,
                Resume, ResumeSends, ResumeCannotPost, ResumeRejects, FatalMeanwhile
  <2>3. ASSUME NEW e \in Reasons, Dispose(e) PROVE UNCHANGED toWorker
    BY <2>3 DEF Dispose
  <2>4. CASE WorkerPosts
    BY <2>4 DEF WorkerPosts
  <2>5. QED BY <2>1, <2>2, <2>3, <2>4 DEF Next, Page
<1>5. QED BY <1>2, <1>3, <1>4

\* A failed port posts nothing more, whatever was suspended when it failed.
THEOREM FailureSilent == Spec => NothingPostedAfterFatal
<1>1. Spec => [][PostsNothingAfterFatal]_vars
  BY TypeCorrect, StepPostsNothing, PTL DEF Spec
<1>2. QED BY <1>1 DEF NothingPostedAfterFatal, PostsNothingAfterFatal

OwnKind ==
    /\ \A c \in Calls : call[c] = "sent" /\ call'[c] = "resolved" =>
         Head(toPage) = [type |-> "compile-result", id |-> c]
    /\ init # "resolved" /\ init' = "resolved" =>
         Head(toPage) = [type |-> "init-result", id |-> InitId]

\* The message listener resolves a promise only by a response of its kind and id.
LEMMA OnResponseKind ==
    ASSUME TypeOK, Head(toPage) \in WorkerEvents, OnResponse(Head(toPage)),
           Head(toPage).type \in ResponseTypes
    PROVE  OwnKind
<1> DEFINE m == Head(toPage)
<1>1. m = [type |-> m.type, id |-> m.id] /\ m.id \in Ids
  BY DEF WorkerEvents, Responses, Ids
<1>2. ASSUME NEW c \in Calls, call[c] = "sent", call'[c] = "resolved"
      PROVE  m = [type |-> "compile-result", id |-> c]
  <2>1. m.id = c /\ Answered(m.type, m.id) = "resolved"
    BY <1>2, Distinct DEF OnResponse, Settle, TypeOK
  <2>2. m.type = "compile-result"
    BY <2>1, Distinct DEF Answered, KindMatches
  <2>3. QED BY <1>1, <2>1, <2>2
<1>3. ASSUME init # "resolved", init' = "resolved"
      PROVE  m = [type |-> "init-result", id |-> InitId]
  <2>1. m.id = InitId /\ Answered(m.type, m.id) = "resolved"
    BY <1>3 DEF OnResponse, SettleInit
  <2>2. m.type = "init-result"
    BY <2>1 DEF Answered, KindMatches
  <2>3. QED BY <1>1, <2>1, <2>2
<1>4. QED BY <1>2, <1>3 DEF OwnKind

\* No other step resolves a promise that waits for the worker.
LEMMA StepOwnKind == TypeOK /\ [Next]_vars => [OwnKind]_vars
<1> SUFFICES ASSUME TypeOK, Next PROVE OwnKind
  OBVIOUS
<1>1. CASE InitCall \/ SendInit \/ FetchEnds
  BY <1>1 DEF OwnKind, InitCall, EnsureInit, SendInit, FetchEnds, SettleInit
<1>2. CASE DispatchEvent
  <2>1. Head(toPage) \in WorkerEvents
    BY <1>2 DEF TypeOK, DispatchEvent
  <2>2. CASE Head(toPage).type \in ResponseTypes /\ OnResponse(Head(toPage))
    BY <2>1, <2>2, OnResponseKind
  <2>3. CASE FailAllPending(CrashError)
    BY <2>3 DEF OwnKind, FailAllPending, SettleInit, TypeOK
  <2>4. QED BY <1>2, <2>2, <2>3 DEF DispatchEvent
<1>3. ASSUME NEW c \in Calls, Compile(c) PROVE OwnKind
  BY <1>3 DEF OwnKind, Compile, CompileOtherLanguage, CompileRefused, CompileWaits,
              EnsureInit, Settle, SettleInit, TypeOK
<1>4. ASSUME NEW c \in Calls, Resume(c) PROVE OwnKind
  BY <1>4 DEF OwnKind, Resume, ResumeSends, ResumeCannotPost, ResumeRejects, Settle, TypeOK
<1>5. ASSUME NEW e \in Reasons, Dispose(e) PROVE OwnKind
  BY <1>5 DEF OwnKind, Dispose, FailAllPending, SettleInit, TypeOK
<1>6. CASE WorkerReceives \/ WorkerPosts
  BY <1>6 DEF OwnKind, WorkerReceives, WorkerPosts, pageVars
<1>7. QED BY <1>1, <1>2, <1>3, <1>4, <1>5, <1>6 DEF Next, Page

\* Whatever a worker answers, compile() succeeds only by its own compile result.
THEOREM OwnKindOnly == Spec => ResolvedByOwnKind
<1>1. Spec => [][OwnKind]_vars
  BY TypeCorrect, StepOwnKind, PTL DEF Spec
<1>2. QED BY <1>1 DEF ResolvedByOwnKind, OwnKind

-----------------------------------------------------------------------------
(* Refinement *)

\* A change of one promise is a change of the call's status.
LEMMA SettleStatus ==
    ASSUME TypeOK, NEW c \in Calls, NEW state \in {"resolved", "rejected"}, NEW e,
           Settle(c, state, e)
    PROVE  Status' = [Status EXCEPT ![c] = state]
  BY DEF TypeOK, Settle, Status

\* failAllPending() is the service's failure: it reaches the calls in the table.
LEMMA FailAllIsFail ==
    ASSUME PortInv, NEW e \in Fatals, FailAllPending(e)
    PROVE  Service!Fail
<1> DEFINE Reached == {c \in Calls : c \in pending /\ call[c] = "sent"}
<1>1. (fatal # NoError)' = TRUE
  BY Distinct DEF FailAllPending
<1>2. Reached \in SUBSET {c \in Calls : Status[c] = "pending"}
  BY DEF Status
<1>3. Status' = [c \in Calls |-> IF c \in Reached THEN "rejected" ELSE Status[c]]
  BY DEF FailAllPending, Status
<1>4. QED BY <1>1, <1>2, <1>3 DEF Service!Fail

\* A response answers or rejects the call it is for; the port has not failed then,
\* for a failed one has an empty table.
LEMMA OnResponseServes ==
    ASSUME PortInv, NEW m \in WorkerEvents, OnResponse(m), UNCHANGED fatal
    PROVE  [Service!Next]_(Service!svars)
<1> USE DEF PortInv
<1>1. CASE UNCHANGED call
  BY <1>1 DEF Service!svars, Status
<1>2. CASE /\ m.id # InitId /\ m.id \in pending /\ call[m.id] = "sent"
           /\ Settle(m.id, Answered(m.type, m.id), AnswerError(m.type, m.id))
  <2>1. m.id \in Calls /\ Answered(m.type, m.id) \in {"resolved", "rejected"}
    BY <1>2 DEF TypeOK, Ids, Answered
  <2>2. Status[m.id] = "pending" /\ Status' = [Status EXCEPT ![m.id] = Answered(m.type, m.id)]
    BY <1>2, <2>1, SettleStatus DEF Status
  <2>3. fatal = NoError
    BY <1>2 DEF FatalIsFinal
  <2>4. Service!Answer(m.id) \/ Service!Reject(m.id)
    BY <2>1, <2>2, <2>3 DEF Service!Answer, Service!Reject, Service!Becomes
  <2>5. QED BY <2>1, <2>4 DEF Service!Next
<1>3. QED BY <1>1, <1>2 DEF OnResponse

\* Every step of the port is a step of the service, or changes nothing it shows.
LEMMA ServiceStep == PortInv /\ [Next]_vars => [Service!Next]_(Service!svars)
<1> SUFFICES ASSUME PortInv, [Next]_vars PROVE [Service!Next]_(Service!svars)
  OBVIOUS
<1>0. TypeOK
  BY DEF PortInv
<1>1. CASE UNCHANGED <<call, fatal>>
  BY <1>1 DEF Service!svars, Status
<1>2. ASSUME NEW c \in Calls, Compile(c)
      PROVE  Service!Dismiss(c) \/ Service!Refuse(c) \/ Service!Accept(c)
  <2> USE DEF Service!Becomes
  <2>1. CASE CompileOtherLanguage(c)
    BY <1>0, <2>1, SettleStatus DEF CompileOtherLanguage, Service!Dismiss, Status
  <2>2. CASE CompileRefused(c)
    BY <1>0, <2>2, SettleStatus DEF CompileRefused, Service!Refuse, Status
  <2>3. CASE CompileWaits(c)
    <3>1. Status[c] = "idle" /\ Status' = [Status EXCEPT ![c] = "pending"]
      BY <1>0, <2>3 DEF CompileWaits, Status, TypeOK
    <3>2. QED BY <2>3, <3>1 DEF CompileWaits, Service!Accept
  <2>4. QED BY <1>2, <2>1, <2>2, <2>3 DEF Compile
<1>3. ASSUME NEW c \in Calls, Resume(c)
      PROVE  Service!Reject(c) \/ UNCHANGED <<Status, fatal>>
  <2>1. CASE ResumeSends(c)
    BY <1>0, <2>1 DEF ResumeSends, Status, TypeOK
  <2>2. CASE ResumeCannotPost(c) \/ ResumeRejects(c)
    <3>1. /\ call[c] = "waiting" /\ UNCHANGED fatal
          /\ \E e : Settle(c, "rejected", e)
      BY <2>2 DEF ResumeCannotPost, ResumeRejects
    <3>2. Status[c] = "pending" /\ Status' = [Status EXCEPT ![c] = "rejected"]
      BY <1>0, <3>1, SettleStatus DEF Status
    <3>3. QED BY <3>1, <3>2 DEF Service!Reject, Service!Becomes
  <2>3. QED BY <1>3, <2>1, <2>2 DEF Resume
<1>4. CASE DispatchEvent
  <2>1. Head(toPage) \in WorkerEvents
    BY <1>0, <1>4 DEF TypeOK, DispatchEvent
  <2>2. CASE OnResponse(Head(toPage)) /\ UNCHANGED fatal
    BY <2>1, <2>2, OnResponseServes
  <2>3. CASE FailAllPending(CrashError)
    BY <2>3, FailAllIsFail, Distinct DEF Service!Next
  <2>4. QED BY <1>4, <2>2, <2>3 DEF DispatchEvent
<1>5. ASSUME NEW e \in Reasons, Dispose(e) PROVE Service!Fail
  BY <1>5, FailAllIsFail, Distinct DEF Dispose
<1>6. CASE InitCall \/ SendInit \/ FetchEnds \/ WorkerReceives \/ WorkerPosts \/ UNCHANGED vars
  BY <1>1, <1>6 DEF InitCall, SendInit, FetchEnds, WorkerReceives, WorkerPosts, vars, pageVars
<1>7. QED
  BY <1>2, <1>3, <1>4, <1>5, <1>6 DEF Next, Page, Service!Next, Service!svars

\* BrowserCompilerPort implements the safety part of CompileService.
THEOREM ServiceSafety == Spec => Service!Safe
<1>1. Init => Service!Init
  BY Distinct DEF Init, PortInit, Service!Init, Status
<1>2. QED BY <1>1, PortAlways, ServiceStep, PTL DEF Spec, Service!Safe

-----------------------------------------------------------------------------
(* The port and its own worker *)

\* A handler that has begun and not ended.
Active == {"sysroot", "module", "compile"}

\* What the proofs need of the types of the worker's side.
WorkerTyped ==
    /\ sysroot \in {Sysroot, None}
    /\ compiler \in {Sysroot, None}
    /\ handler \in [Ids -> Active \cup {"none", "dropped", "done"}]
    /\ uses \in [Ids -> {Sysroot, None}]

IsResponse(i) == toPage[i].type \in ResponseTypes

\* A request is at one place at a time: on its way, in its handler, or answered.
OnePlace ==
    /\ \A i \in DOMAIN toWorker : handler[toWorker[i].id] = "none"
    /\ \A i, j \in DOMAIN toWorker : toWorker[i].id = toWorker[j].id => i = j
    /\ \A i \in DOMAIN toPage : IsResponse(i) => handler[toPage[i].id] = "done"
    /\ \A i, j \in DOMAIN toPage :
         IsResponse(i) /\ IsResponse(j) /\ toPage[i].id = toPage[j].id => i = j

\* Handlers and responses are of the kind of their request.
OwnKinds ==
    /\ handler[InitId] # "compile"
    /\ \A c \in Calls : handler[c] # "sysroot"
    /\ \A i \in DOMAIN toPage :
         /\ toPage[i].type = "init-result" => toPage[i].id = InitId
         /\ toPage[i].type = "compile-result" => toPage[i].id # InitId

\* A request that was not posted is nowhere yet.
UnpostedIsNowhere ==
    /\ \A c \in Calls : call[c] \in {"idle", "waiting"} =>
         handler[c] = "none" /\ \A i \in DOMAIN toWorker : toWorker[i].id # c
    /\ init \in {"none", "fetching", "fetched"} => handler[InitId] = "none"

\* Until the port fails, whatever is under way is in its table.
UnderWayIsPending ==
    fatal = NoError =>
      /\ \A i \in DOMAIN toWorker : toWorker[i].id \in pending
      /\ \A id \in Ids : handler[id] \in Active => id \in pending
      /\ \A i \in DOMAIN toPage : IsResponse(i) => toPage[i].id \in pending

Ready == sysroot = Sysroot /\ module = "loaded"

\* The init promise, its result and the compile requests come in this order.
ReadyInOrder ==
    /\ \A i \in DOMAIN toWorker : toWorker[i].id # InitId => init = "resolved"
    /\ \A c \in Calls : handler[c] # "none" => init = "resolved"
    /\ init = "resolved" => Ready
    /\ \A i \in DOMAIN toPage : toPage[i].type = "init-result" => Ready
    /\ handler[InitId] = "module" => sysroot = Sysroot
    /\ \A c \in Calls : handler[c] = "compile" => uses[c] = Sysroot

\* The inductive invariant.
SystemInv == /\ PortInv /\ WorkerTyped /\ OnePlace /\ OwnKinds
             /\ UnpostedIsNowhere /\ UnderWayIsPending /\ ReadyInOrder

-----------------------------------------------------------------------------
LEMMA InitSystem == SystemInit => SystemInv
<1> SUFFICES ASSUME SystemInit PROVE SystemInv
  OBVIOUS
<1>1. PortInv
  BY InitPort DEF SystemInit
<1>2. WorkerTyped /\ (\A id \in Ids : handler[id] = "none") /\ InitId \in Ids /\ Calls \subseteq Ids
  BY DEF SystemInit, Worker!WorkerInit, Worker!WIds, WorkerTyped, Active, Ids
<1>3. toWorker = <<>> /\ toPage = <<>> /\ init = "none"
  BY DEF SystemInit, Init, PortInit
<1> QED
  BY <1>1, <1>2, <1>3 DEF SystemInv, OnePlace, OwnKinds, UnpostedIsNowhere, UnderWayIsPending,
                          ReadyInOrder, Active

-----------------------------------------------------------------------------
(* The worker *)

\* What a step of one handler does to the channels: it begins with the first request
\* or goes on from an await, and it goes to its next await or ends, with one response
\* of its own kind or none.
Begins(id) == /\ toWorker # <<>> /\ toWorker' = Tail(toWorker) /\ id = Head(toWorker).id
GoesOn(id) == id \in Ids /\ handler[id] \in Active /\ UNCHANGED toWorker
Suspends(id, h) == /\ h \in Active \cup {"dropped"} /\ UNCHANGED toPage
                   /\ id = InitId => h # "compile"
                   /\ id # InitId => h # "sysroot"
Ends(id, h) == /\ h = "done"
               /\ \E t \in ResponseTypes :
                    /\ toPage' = Append(toPage, [type |-> t, id |-> id])
                    /\ t = "init-result" => id = InitId
                    /\ t = "compile-result" => id # InitId

Moves(id, h) == /\ handler' = [handler EXCEPT ![id] = h]
                /\ Begins(id) \/ GoesOn(id)
                /\ Suspends(id, h) \/ Ends(id, h)
                /\ UNCHANGED pageVars

\* The rest of a queue.
LEMMA TailFacts ==
    ASSUME NEW S, NEW q \in Seq(S), q # <<>>
    PROVE  /\ Head(q) \in S /\ Head(q) = q[1] /\ 1 \in DOMAIN q /\ Tail(q) \in Seq(S)
           /\ \A i \in DOMAIN Tail(q) : i + 1 \in DOMAIN q /\ i + 1 # 1 /\ Tail(q)[i] = q[i + 1]
           /\ \A i, j \in DOMAIN Tail(q) : i + 1 = j + 1 => i = j
  OBVIOUS

\* A queue with one element more.
LEMMA AppendFacts ==
    ASSUME NEW S, NEW q \in Seq(S), NEW e \in S
    PROVE  /\ Append(q, e) \in Seq(S)
           /\ \A i \in DOMAIN Append(q, e) : \/ i \in DOMAIN q /\ Append(q, e)[i] = q[i]
                                             \/ i = Len(q) + 1 /\ Append(q, e)[i] = e
  OBVIOUS

\* What a handler's step leaves in the two channels.
LEMMA MoveFacts ==
    ASSUME SystemInv, NEW id, NEW h, Moves(id, h)
    PROVE  /\ id \in Ids
           /\ handler[id] # "done"
           /\ h \in Active \cup {"dropped", "done"}
           /\ toWorker' \in Seq(Requests) /\ toPage' \in Seq(WorkerEvents)
           /\ handler' \in [Ids -> Active \cup {"none", "dropped", "done"}]
           /\ \A k \in Ids : handler'[k] = IF k = id THEN h ELSE handler[k]
           /\ \A i \in DOMAIN toWorker' :
                toWorker'[i].id # id /\ toWorker'[i].id \in Ids
                /\ \E j \in DOMAIN toWorker : toWorker'[i] = toWorker[j]
           /\ \A i, j \in DOMAIN toWorker' : toWorker'[i].id = toWorker'[j].id => i = j
           /\ \A i \in DOMAIN toPage' :
                \/ i \in DOMAIN toPage /\ toPage'[i] = toPage[i]
                \/ /\ i = Len(toPage) + 1 /\ h = "done" /\ toPage'[i].id = id
                   /\ toPage'[i].type = "init-result" => id = InitId
                   /\ toPage'[i].type = "compile-result" => id # InitId
<1>0. /\ toWorker \in Seq(Requests) /\ toPage \in Seq(WorkerEvents)
      /\ handler \in [Ids -> Active \cup {"none", "dropped", "done"}]
  BY DEF SystemInv, PortInv, TypeOK, WorkerTyped
<1>1. \A i \in DOMAIN toWorker : toWorker[i].id \in Ids
  <2>1. \A i \in DOMAIN toWorker : toWorker[i] \in Requests
    BY <1>0
  <2> QED
    BY <2>1 DEF Requests
<1>2. /\ id \in Ids /\ handler[id] # "done" /\ toWorker' \in Seq(Requests)
      /\ \A i \in DOMAIN toWorker' :
           toWorker'[i].id # id /\ \E j \in DOMAIN toWorker : toWorker'[i] = toWorker[j]
      /\ \A i, j \in DOMAIN toWorker' : toWorker'[i].id = toWorker'[j].id => i = j
  <2>1. CASE Begins(id)
    <3>1. /\ id = toWorker[1].id /\ 1 \in DOMAIN toWorker /\ toWorker' \in Seq(Requests)
          /\ \A i \in DOMAIN toWorker' : i + 1 \in DOMAIN toWorker /\ i + 1 # 1
                                         /\ toWorker'[i] = toWorker[i + 1]
          /\ \A i, j \in DOMAIN toWorker' : i + 1 = j + 1 => i = j
      BY <1>0, <2>1, TailFacts DEF Begins
    <3> QED
      BY <1>1, <3>1 DEF SystemInv, OnePlace
  <2>2. CASE GoesOn(id)
    BY <1>0, <2>2 DEF GoesOn, SystemInv, OnePlace, Active
  <2> QED
    BY <2>1, <2>2 DEF Moves
<1>3. h \in Active \cup {"dropped", "done"}
  BY DEF Moves, Suspends, Ends
<1>4. /\ toPage' \in Seq(WorkerEvents)
      /\ \A i \in DOMAIN toPage' :
           \/ i \in DOMAIN toPage /\ toPage'[i] = toPage[i]
           \/ /\ i = Len(toPage) + 1 /\ h = "done" /\ toPage'[i].id = id
              /\ toPage'[i].type = "init-result" => id = InitId
              /\ toPage'[i].type = "compile-result" => id # InitId
  <2>1. CASE Suspends(id, h)
    BY <1>0, <2>1 DEF Suspends
  <2>2. CASE Ends(id, h)
    <3>1. PICK t \in ResponseTypes :
                 /\ toPage' = Append(toPage, [type |-> t, id |-> id])
                 /\ t = "init-result" => id = InitId
                 /\ t = "compile-result" => id # InitId
      BY <2>2 DEF Ends
    <3>2. [type |-> t, id |-> id] \in WorkerEvents
      BY <1>2 DEF WorkerEvents, Responses
    <3> QED
      BY <1>0, <2>2, <3>1, <3>2, AppendFacts DEF Ends
  <2> QED
    BY <2>1, <2>2 DEF Moves
<1> QED
  BY <1>0, <1>1, <1>2, <1>3, <1>4 DEF Moves

\* A step of a handler keeps what the page and the worker know of each other.
LEMMA MoveKeeps ==
    ASSUME SystemInv, NEW id, NEW h, Moves(id, h)
    PROVE  OnePlace' /\ OwnKinds' /\ UnpostedIsNowhere' /\ UnderWayIsPending'
<1>0. InitId \in Ids /\ Calls \subseteq Ids /\ InitId \notin Calls
  BY InitIdAssumption DEF Ids
<1>1. UNCHANGED pageVars /\ UNCHANGED <<fatal, init, pending, call>>
  BY DEF Moves, pageVars
<1>2. \A i \in DOMAIN toPage : IsResponse(i) => toPage[i].id # id /\ toPage[i].id \in Ids
  <2>1. \A i \in DOMAIN toPage : toPage[i] \in WorkerEvents
    BY DEF SystemInv, PortInv, TypeOK
  <2>2. \A i \in DOMAIN toPage : toPage[i].id \in Ids
    BY <2>1, EventTypes
  <2> QED
    BY <2>2, MoveFacts DEF SystemInv, OnePlace
<1>3. OnePlace'
  <2>1. \A i \in DOMAIN toWorker' : handler'[toWorker'[i].id] = "none"
    BY MoveFacts DEF SystemInv, OnePlace
  <2>2. \A i \in DOMAIN toPage' : IsResponse(i)' => handler'[toPage'[i].id] = "done"
    BY <1>2, MoveFacts DEF SystemInv, OnePlace, IsResponse
  <2>3. \A i, j \in DOMAIN toPage' :
          IsResponse(i)' /\ IsResponse(j)' /\ toPage'[i].id = toPage'[j].id => i = j
    BY <1>2, MoveFacts DEF SystemInv, OnePlace, IsResponse
  <2> QED
    BY <2>1, <2>2, <2>3, MoveFacts DEF OnePlace
<1>4. OwnKinds'
  <2>1. /\ id = InitId => h # "compile"
        /\ id # InitId => h # "sysroot"
    BY DEF Moves, Suspends, Ends
  <2> QED
    BY <1>0, <2>1, MoveFacts DEF SystemInv, OwnKinds
<1>5. Begins(id) \/ id \in pending \/ fatal # NoError
  BY DEF Moves, GoesOn, SystemInv, UnderWayIsPending
<1>6. UnpostedIsNowhere'
  <2>1. \A c \in Calls : call[c] \in {"idle", "waiting"} => c # id
    BY <1>0, TailFacts DEF Moves, Begins, GoesOn, Active, SystemInv, UnpostedIsNowhere, PortInv, TypeOK
  <2>2. init \in {"none", "fetching", "fetched"} => id # InitId
    BY DEF Moves, Begins, GoesOn, Active, SystemInv, UnpostedIsNowhere, PortInv, NothingSentEarly
  <2> QED
    BY <1>0, <1>1, <2>1, <2>2, MoveFacts DEF SystemInv, UnpostedIsNowhere
<1>7. UnderWayIsPending'
  <2> SUFFICES ASSUME fatal = NoError PROVE UnderWayIsPending'
    BY <1>1 DEF UnderWayIsPending
  <2>1. id \in pending
    BY <1>5, TailFacts DEF Begins, SystemInv, UnderWayIsPending, PortInv, TypeOK
  <2>2. \A i \in DOMAIN toWorker' : toWorker'[i].id \in pending
    BY MoveFacts DEF SystemInv, UnderWayIsPending
  <2>3. \A k \in Ids : handler'[k] \in Active => k \in pending
    BY <2>1, MoveFacts DEF SystemInv, UnderWayIsPending
  <2>4. \A i \in DOMAIN toPage' : IsResponse(i)' => toPage'[i].id \in pending
    BY <2>1, MoveFacts DEF SystemInv, UnderWayIsPending, IsResponse
  <2> QED
    BY <1>1, <2>2, <2>3, <2>4 DEF UnderWayIsPending
<1> QED
  BY <1>3, <1>4, <1>6, <1>7

\* The port's own invariant says nothing of the worker's events but their type.
LEMMA PortPart ==
    ASSUME PortInv, UNCHANGED pageVars, toPage' \in Seq(WorkerEvents),
           toWorker' \in Seq(Requests),
           UNCHANGED toWorker \/ (toWorker # <<>> /\ toWorker' = Tail(toWorker))
    PROVE  PortInv'
<1>1. TypeOK'
  BY DEF PortInv, TypeOK, pageVars
<1>2. \A i \in DOMAIN toWorker' : toWorker'[i].id = InitId => i = 1
  <2>1. CASE UNCHANGED toWorker
    BY <2>1 DEF PortInv, InitComesFirst
  <2>2. CASE toWorker # <<>> /\ toWorker' = Tail(toWorker)
    <3>1. \A i \in DOMAIN toWorker' : i + 1 \in DOMAIN toWorker /\ i + 1 # 1
                                       /\ toWorker'[i] = toWorker[i + 1]
      BY <2>2, TailFacts DEF PortInv, TypeOK
    <3> QED
      BY <3>1 DEF PortInv, InitComesFirst
  <2> QED
    BY <2>1, <2>2
<1>3. NothingSentEarly'
  BY DEF PortInv, NothingSentEarly, pageVars
<1> QED
  BY <1>1, <1>2, <1>3 DEF PortInv, TableMatchesPromises, FatalIsFinal, InitErrorIsFinal,
                          InitComesFirst, pageVars

\* A step of a handler keeps the order, if it keeps what is ready and answers, awaits
\* and compiles with what is there.
LEMMA MoveReady ==
    ASSUME SystemInv, NEW id, NEW h, Moves(id, h),
           Ready => Ready',
           sysroot = Sysroot => sysroot' = Sysroot,
           \A i \in DOMAIN toPage' : toPage'[i].type = "init-result" => i \in DOMAIN toPage \/ Ready',
           id = InitId /\ h = "module" => sysroot' = Sysroot,
           \A c \in Calls : c # id => uses'[c] = uses[c],
           h = "compile" => uses'[id] = Sysroot
    PROVE  ReadyInOrder'
<1>0. InitId \in Ids /\ Calls \subseteq Ids /\ InitId \notin Calls /\ init' = init
  BY InitIdAssumption DEF Ids, Moves, pageVars
<1>1. \A i \in DOMAIN toWorker' : toWorker'[i].id # InitId => init' = "resolved"
  BY <1>0, MoveFacts DEF SystemInv, ReadyInOrder
<1>2. id # InitId => init = "resolved"
  BY TailFacts DEF Moves, Begins, GoesOn, Active, Ids, SystemInv, ReadyInOrder, PortInv, TypeOK
<1>3. \A c \in Calls : handler'[c] # "none" => init' = "resolved"
  BY <1>0, <1>2, MoveFacts DEF SystemInv, ReadyInOrder
<1>4. \A i \in DOMAIN toPage' : toPage'[i].type = "init-result" => Ready'
  <2>1. \A i \in DOMAIN toPage : i \in DOMAIN toPage' => toPage'[i] = toPage[i]
    <3>1. \A i \in DOMAIN toPage : i # Len(toPage) + 1
      BY DEF SystemInv, PortInv, TypeOK
    <3> QED
      BY <3>1, MoveFacts
  <2> QED
    BY <2>1 DEF SystemInv, ReadyInOrder
<1>5. handler'[InitId] = "module" => sysroot' = Sysroot
  BY <1>0, MoveFacts DEF SystemInv, ReadyInOrder
<1>6. \A c \in Calls : handler'[c] = "compile" => uses'[c] = Sysroot
  BY <1>0, MoveFacts DEF SystemInv, ReadyInOrder
<1>7. init' = "resolved" => Ready'
  BY <1>0 DEF SystemInv, ReadyInOrder
<1> QED
  BY <1>1, <1>3, <1>4, <1>5, <1>6, <1>7 DEF ReadyInOrder

\* The parts of the invariant together, for a step of a handler.
LEMMA MoveAll ==
    ASSUME SystemInv, NEW id, NEW h, Moves(id, h), ReadyInOrder',
           sysroot' \in {Sysroot, None}, compiler' \in {Sysroot, None},
           uses' \in [Ids -> {Sysroot, None}]
    PROVE  SystemInv'
<1>1. UNCHANGED toWorker \/ (toWorker # <<>> /\ toWorker' = Tail(toWorker))
  BY DEF Moves, Begins, GoesOn
<1>2. PortInv'
  BY <1>1, MoveFacts, PortPart DEF SystemInv, Moves
<1>3. WorkerTyped'
  BY MoveFacts DEF WorkerTyped
<1> QED
  BY <1>2, <1>3, MoveKeeps DEF SystemInv

\* An error reply ends a handler and tells the page nothing else.
LEMMA ErrorReply ==
    ASSUME SystemInv, NEW id, UNCHANGED <<sysroot, module, compiler, uses, pageVars>>,
           Begins(id) \/ GoesOn(id), Worker!Reply(id, "internal-error")
    PROVE  SystemInv'
<1>1. "internal-error" \in ResponseTypes
  BY DEF ResponseTypes
<1>2. Moves(id, "done") /\ toPage' = Append(toPage, [type |-> "internal-error", id |-> id])
  BY <1>1 DEF Moves, Ends, Worker!Reply, Worker!Enter
<1>3. /\ toPage \in Seq(WorkerEvents)
      /\ \A i \in DOMAIN toPage' : toPage'[i].type = "init-result" => i \in DOMAIN toPage
  <2>1. toPage \in Seq(WorkerEvents)
    BY DEF SystemInv, PortInv, TypeOK
  <2>2. toPage'[Len(toPage) + 1].type = "internal-error"
    BY <1>2, <2>1
  <2> QED
    BY <1>2, <2>1, <2>2
<1>4. ReadyInOrder'
  BY <1>2, <1>3, MoveReady DEF Ready
<1> QED
  BY <1>2, <1>4, MoveAll DEF SystemInv, WorkerTyped

\* A handler that goes to its next await.
LEMMA Suspended ==
    ASSUME SystemInv, NEW id, NEW h, Moves(id, h), UNCHANGED toPage,
           Ready => Ready',
           sysroot' \in {Sysroot, None}, sysroot = Sysroot => sysroot' = Sysroot,
           compiler' \in {Sysroot, None},
           id = InitId /\ h = "module" => sysroot' = Sysroot,
           \/ UNCHANGED uses /\ h # "compile"
           \/ uses' = [uses EXCEPT ![id] = Sysroot]
    PROVE  SystemInv'
<1>1. id \in Ids /\ uses \in [Ids -> {Sysroot, None}] /\ Calls \subseteq Ids
  BY MoveFacts DEF SystemInv, WorkerTyped, Ids
<1>2. ReadyInOrder'
  BY <1>1, MoveReady
<1> QED
  BY <1>1, <1>2, MoveAll

\* Every step of runtimeWorker.ts keeps the invariant.
LEMMA WorkerKeeps == SystemInv /\ WorkerStep => SystemInv'
<1> SUFFICES ASSUME SystemInv, Worker!WorkerNext, UNCHANGED pageVars PROVE SystemInv'
  BY DEF WorkerStep
<1>0. /\ sysroot \in {Sysroot, None} /\ compiler \in {Sysroot, None}
      /\ InitId \in Ids /\ Calls \subseteq Ids /\ InitId \notin Calls
      /\ toWorker \in Seq(Requests) /\ toPage \in Seq(WorkerEvents)
      /\ Worker!WIds = Ids
  BY InitIdAssumption DEF SystemInv, WorkerTyped, Ids, PortInv, TypeOK, Worker!WIds
<1> DEFINE first == Head(toWorker).id
<1>1. CASE Worker!ReceiveRefused
  <2>1. Moves(first, "dropped") /\ UNCHANGED <<sysroot, module, compiler, uses, toPage>>
    BY <1>1 DEF Worker!ReceiveRefused, Worker!Enter, Worker!globals, Moves, Begins, Suspends
  <2> QED
    BY <1>0, <2>1, Suspended DEF Ready
<1>2. CASE Worker!ReceiveInit
  <2>1. /\ Begins(first) /\ first = InitId /\ UNCHANGED <<sysroot, module, compiler, uses>>
        /\ \/ Worker!Reply(first, "internal-error")
           \/ Worker!Enter(first, "sysroot") /\ UNCHANGED toPage
    BY <1>2 DEF Worker!ReceiveInit, Begins
  <2>2. CASE Worker!Reply(first, "internal-error")
    BY <2>1, <2>2, ErrorReply
  <2>3. CASE Worker!Enter(first, "sysroot") /\ UNCHANGED toPage
    <3>1. Moves(first, "sysroot")
      BY <2>1, <2>3 DEF Moves, Suspends, Active, Worker!Enter
    <3> QED
      BY <1>0, <2>1, <2>3, <3>1, Suspended DEF Ready
  <2> QED
    BY <2>1, <2>2, <2>3
<1>3. CASE Worker!ReceiveCompile
  <2>1. /\ Begins(first) /\ first \in Calls /\ UNCHANGED <<sysroot, compiler>>
        /\ \/ /\ compiler # None /\ Worker!Enter(first, "compile")
              /\ uses' = [uses EXCEPT ![first] = compiler] /\ UNCHANGED <<module, toPage>>
           \/ /\ Worker!LoadCompilerModule /\ Worker!Enter(first, "module")
              /\ UNCHANGED <<uses, toPage>>
           \/ Worker!Reply(first, "internal-error") /\ UNCHANGED <<module, uses>>
    BY <1>3 DEF Worker!ReceiveCompile, Begins
  <2>2. CASE /\ compiler # None /\ Worker!Enter(first, "compile")
             /\ uses' = [uses EXCEPT ![first] = compiler] /\ UNCHANGED <<module, toPage>>
    <3>1. Moves(first, "compile") /\ uses' = [uses EXCEPT ![first] = Sysroot]
      BY <1>0, <2>1, <2>2 DEF Moves, Suspends, Active, Worker!Enter
    <3> QED
      BY <1>0, <2>1, <2>2, <3>1, Suspended DEF Ready
  <2>3. CASE Worker!LoadCompilerModule /\ Worker!Enter(first, "module") /\ UNCHANGED <<uses, toPage>>
    <3>1. Moves(first, "module") /\ (Ready => Ready')
      BY <1>0, <2>1, <2>3 DEF Moves, Suspends, Active, Worker!Enter, Worker!LoadCompilerModule, Ready
    <3> QED
      BY <1>0, <2>1, <2>3, <3>1, Suspended
  <2>4. CASE Worker!Reply(first, "internal-error") /\ UNCHANGED <<module, uses>>
    BY <2>1, <2>4, ErrorReply
  <2> QED
    BY <2>1, <2>2, <2>3, <2>4
<1>4. CASE Worker!ModuleEnds
  <2>1. /\ module = "loading"
        /\ UNCHANGED <<sysroot, compiler, handler, uses, toWorker, toPage>>
    BY <1>4 DEF Worker!ModuleEnds
  <2>2. ~Ready
    BY <2>1 DEF Ready
  <2>3. PortInv'
    BY <1>0, <2>1, PortPart DEF SystemInv
  <2>4. WorkerTyped' /\ OnePlace' /\ OwnKinds'
    BY <2>1 DEF SystemInv, WorkerTyped, OnePlace, OwnKinds, IsResponse
  <2>5. UnpostedIsNowhere' /\ UnderWayIsPending' /\ ReadyInOrder'
    BY <2>1, <2>2 DEF SystemInv, UnpostedIsNowhere, UnderWayIsPending, ReadyInOrder, IsResponse, pageVars
  <2> QED
    BY <2>3, <2>4, <2>5 DEF SystemInv
<1>5. ASSUME NEW id \in Ids, Worker!SysrootEnds(id) PROVE SystemInv'
  <2>1. /\ handler[id] = "sysroot" /\ GoesOn(id) /\ UNCHANGED <<compiler, uses>>
        /\ \/ /\ sysroot' = [i \in {InitId} |-> Sysroot][id]
              /\ Worker!LoadCompilerModule /\ Worker!Enter(id, "module") /\ UNCHANGED toPage
           \/ Worker!Reply(id, "internal-error") /\ UNCHANGED <<sysroot, module>>
    BY <1>5 DEF Worker!SysrootEnds, GoesOn, Active
  <2>2. id = InitId
    BY <2>1 DEF SystemInv, OwnKinds, Ids
  <2>3. CASE /\ sysroot' = [i \in {InitId} |-> Sysroot][id]
             /\ Worker!LoadCompilerModule /\ Worker!Enter(id, "module") /\ UNCHANGED toPage
    <3>1. sysroot' = Sysroot /\ Moves(id, "module")
      BY <2>1, <2>2, <2>3 DEF Moves, Suspends, Active, Worker!Enter
    <3>2. Ready => Ready'
      BY <2>3, <3>1 DEF Ready, Worker!LoadCompilerModule
    <3> QED
      BY <1>0, <2>1, <2>3, <3>1, <3>2, Suspended
  <2>4. CASE Worker!Reply(id, "internal-error") /\ UNCHANGED <<sysroot, module>>
    BY <2>1, <2>4, ErrorReply
  <2> QED
    BY <2>1, <2>3, <2>4
<1>6. ASSUME NEW id \in Ids, Worker!ModuleFailed(id) PROVE SystemInv'
  <2>1. /\ GoesOn(id) /\ Worker!Reply(id, "internal-error")
        /\ UNCHANGED <<sysroot, module, compiler, uses>>
    BY <1>6 DEF Worker!ModuleFailed, Worker!globals, GoesOn, Active
  <2> QED
    BY <2>1, ErrorReply
<1>7. ASSUME NEW id \in Ids, Worker!InitAnswered(id) PROVE SystemInv'
  <2>1. /\ id = InitId /\ handler[id] = "module" /\ module = "loaded" /\ GoesOn(id)
        /\ Worker!Reply(id, "init-result") /\ UNCHANGED <<sysroot, module, compiler, uses>>
    BY <1>7 DEF Worker!InitAnswered, Worker!ModuleLoaded, Worker!globals, GoesOn, Active
  <2>2. Ready /\ Ready'
    BY <2>1 DEF SystemInv, ReadyInOrder, Ready
  <2>3. Moves(id, "done")
    <3>1. "init-result" \in ResponseTypes
      BY DEF ResponseTypes
    <3> QED
      BY <2>1, <3>1 DEF Moves, Ends, Worker!Reply, Worker!Enter
  <2>4. ReadyInOrder'
    BY <1>0, <2>1, <2>2, <2>3, MoveReady
  <2> QED
    BY <1>0, <2>1, <2>3, <2>4, MoveAll DEF SystemInv, WorkerTyped
<1>8. ASSUME NEW id \in Ids, Worker!CompilerMade(id) PROVE SystemInv'
  <2>1. /\ id \in Calls /\ handler[id] = "module" /\ GoesOn(id) /\ compiler' = sysroot
        /\ uses' = [uses EXCEPT ![id] = sysroot] /\ Worker!Enter(id, "compile")
        /\ UNCHANGED <<sysroot, module, toPage>>
    BY <1>8 DEF Worker!CompilerMade, GoesOn, Active
  <2>2. sysroot = Sysroot
    BY <2>1 DEF SystemInv, ReadyInOrder, Ready
  <2>3. Moves(id, "compile")
    BY <1>0, <2>1 DEF Moves, Suspends, Active, Worker!Enter
  <2> QED
    BY <1>0, <2>1, <2>2, <2>3, Suspended DEF Ready
<1>9. ASSUME NEW id \in Ids, Worker!CompileEnds(id) PROVE SystemInv'
  <2>1. /\ handler[id] = "compile" /\ GoesOn(id) /\ UNCHANGED <<sysroot, module, compiler, uses>>
        /\ Worker!Reply(id, "compile-result") \/ Worker!Reply(id, "internal-error")
    BY <1>9 DEF Worker!CompileEnds, Worker!CompileThrows, Worker!globals, GoesOn, Active
  <2>2. CASE Worker!Reply(id, "compile-result")
    <3>1. id # InitId
      BY <2>1 DEF SystemInv, OwnKinds
    <3>2. "compile-result" \in ResponseTypes /\ "compile-result" # "init-result"
      BY DEF ResponseTypes
    <3>3. Moves(id, "done") /\ toPage' = Append(toPage, [type |-> "compile-result", id |-> id])
      BY <2>1, <2>2, <3>1, <3>2 DEF Moves, Ends, Worker!Reply, Worker!Enter
    <3>4. \A i \in DOMAIN toPage' : toPage'[i].type = "init-result" => i \in DOMAIN toPage
      <4>1. toPage'[Len(toPage) + 1].type = "compile-result"
        BY <1>0, <3>3
      <4> QED
        BY <1>0, <3>3, <4>1
    <3>5. ReadyInOrder'
      BY <2>1, <3>3, <3>4, MoveReady DEF Ready
    <3> QED
      BY <1>0, <2>1, <3>3, <3>5, MoveAll DEF SystemInv, WorkerTyped
  <2>3. CASE Worker!Reply(id, "internal-error")
    BY <2>1, <2>3, ErrorReply
  <2> QED
    BY <2>1, <2>2, <2>3
<1> QED
  BY <1>0, <1>1, <1>2, <1>3, <1>4, <1>5, <1>6, <1>7, <1>8, <1>9
     DEF Worker!WorkerNext, Worker!Receives, Worker!Resumes

-----------------------------------------------------------------------------
(* The page *)

\* What a step of the page may do to its promises without regard to the channels:
\* no call goes back to be posted, the table only grows until the port fails, and
\* the init promise is resolved for good.
Onward == /\ \A c \in Calls : call'[c] \in {"idle", "waiting"} => call[c] \in {"idle", "waiting"}
          /\ init' \in {"none", "fetching", "fetched"} => init \in {"none", "fetching", "fetched"}
          /\ fatal' = NoError => fatal = NoError
          /\ init = "resolved" => init' = "resolved"

\* A step of the page that leaves the channels alone.
LEMMA PageKeeps ==
    ASSUME SystemInv, PortInv', UNCHANGED <<workerSide, toWorker, toPage>>, Onward,
           fatal' = NoError => pending \subseteq pending',
           init' = "resolved" => init = "resolved"
    PROVE  SystemInv'
<1>1. WorkerTyped' /\ OnePlace' /\ OwnKinds'
  BY DEF SystemInv, WorkerTyped, OnePlace, OwnKinds, IsResponse, workerSide
<1>2. UnpostedIsNowhere' /\ UnderWayIsPending' /\ ReadyInOrder'
  BY DEF SystemInv, Onward, UnpostedIsNowhere, UnderWayIsPending, ReadyInOrder, Ready, IsResponse,
         workerSide
<1> QED
  BY <1>1, <1>2 DEF SystemInv

\* A step of the page that posts a new request.
LEMMA PagePosts ==
    ASSUME SystemInv, PortInv', UNCHANGED <<workerSide, toPage>>, Onward,
           pending \subseteq pending', init' = "resolved" => init = "resolved",
           NEW id \in Ids, toWorker' = Append(toWorker, Request(id)), id \in pending',
           handler[id] = "none", \A i \in DOMAIN toWorker : toWorker[i].id # id,
           id # InitId => init = "resolved" /\ call'[id] = "sent"
    PROVE  SystemInv'
<1>1. /\ toWorker \in Seq(Requests) /\ Request(id) \in Requests /\ Request(id).id = id
      /\ InitId \notin Calls
  BY InitIdAssumption DEF SystemInv, PortInv, TypeOK, Request, Requests
<1>2. \A i \in DOMAIN toWorker' : \/ i \in DOMAIN toWorker /\ toWorker'[i] = toWorker[i]
                                  \/ i = Len(toWorker) + 1 /\ toWorker'[i].id = id
  BY <1>1, AppendFacts
<1>3. WorkerTyped' /\ OwnKinds'
  BY DEF SystemInv, WorkerTyped, OwnKinds, workerSide
<1>4. OnePlace'
  <2>1. /\ \A i \in DOMAIN toWorker' : handler'[toWorker'[i].id] = "none"
        /\ \A i, j \in DOMAIN toWorker' : toWorker'[i].id = toWorker'[j].id => i = j
    BY <1>2 DEF SystemInv, OnePlace, workerSide
  <2> QED
    BY <2>1 DEF SystemInv, OnePlace, IsResponse, workerSide
<1>5. UnpostedIsNowhere'
  <2>1. \A c \in Calls : call'[c] \in {"idle", "waiting"} => c # id
    BY <1>1
  <2> QED
    BY <1>2, <2>1 DEF SystemInv, Onward, UnpostedIsNowhere, workerSide
<1>6. UnderWayIsPending'
  <2> SUFFICES ASSUME fatal' = NoError PROVE UnderWayIsPending'
    BY DEF UnderWayIsPending
  <2>1. \A i \in DOMAIN toWorker' : toWorker'[i].id \in pending'
    BY <1>2 DEF SystemInv, Onward, UnderWayIsPending
  <2> QED
    BY <2>1 DEF SystemInv, Onward, UnderWayIsPending, IsResponse, workerSide
<1>7. ReadyInOrder'
  <2>1. \A i \in DOMAIN toWorker' : toWorker'[i].id # InitId => init' = "resolved"
    BY <1>2 DEF SystemInv, Onward, ReadyInOrder
  <2> QED
    BY <2>1 DEF SystemInv, Onward, ReadyInOrder, Ready, workerSide
<1> QED
  BY <1>3, <1>4, <1>5, <1>6, <1>7 DEF SystemInv

\* failAllPending() goes onward: it is the port's failure.
LEMMA FailAllOnward ==
    ASSUME PortInv, NEW e \in Fatals, FailAllPending(e)
    PROVE  Onward /\ fatal' # NoError /\ (init' = "resolved" => init = "resolved")
<1>1. InitId \in pending => init = "sent"
  BY DEF PortInv, TableMatchesPromises
<1> QED
  BY <1>1, Distinct DEF Onward, FailAllPending, SettleInit, PortInv, TypeOK

\* A response settles the promise of its entry, and the init promise is resolved
\* by an init result only.
LEMMA OnResponseOnward ==
    ASSUME PortInv, NEW m \in WorkerEvents, m.type \in ResponseTypes, OnResponse(m), UNCHANGED fatal
    PROVE  /\ Onward /\ pending \ {m.id} \subseteq pending'
           /\ init' = "resolved" => init = "resolved" \/ m.type = "init-result"
<1>1. m.id = InitId /\ m.id \in pending => init = "sent"
  BY DEF PortInv, TableMatchesPromises
<1>2. m.id \in Ids
  BY EventTypes
<1>3. Answered(m.type, m.id) \in {"resolved", "rejected"}
  BY DEF Answered
<1>4. Onward
  BY <1>1, <1>2, <1>3 DEF Onward, OnResponse, Settle, SettleInit, PortInv, TypeOK
<1>5. init' = "resolved" => init = "resolved" \/ m.type = "init-result"
  BY DEF OnResponse, SettleInit, Answered, KindMatches
<1> QED
  BY <1>4, <1>5 DEF OnResponse

\* The message, messageerror and error listeners.
LEMMA DispatchKeeps ==
    ASSUME SystemInv, PortInv', DispatchEvent, UNCHANGED workerSide
    PROVE  SystemInv'
<1> DEFINE m == Head(toPage)
<1>1. /\ m \in WorkerEvents /\ m = toPage[1] /\ 1 \in DOMAIN toPage
      /\ UNCHANGED toWorker /\ toPage' = Tail(toPage)
      /\ \A i \in DOMAIN toPage' : i + 1 \in DOMAIN toPage /\ i + 1 # 1 /\ toPage'[i] = toPage[i + 1]
      /\ \A i, j \in DOMAIN toPage' : i + 1 = j + 1 => i = j
  BY TailFacts DEF DispatchEvent, SystemInv, PortInv, TypeOK
<1>2. WorkerTyped' /\ OwnKinds'
  BY <1>1 DEF SystemInv, WorkerTyped, OwnKinds, workerSide
<1>3. OnePlace'
  BY <1>1 DEF SystemInv, OnePlace, IsResponse, workerSide
<1>4. /\ Onward
      /\ fatal' = NoError => m.type \in ResponseTypes /\ pending \ {m.id} \subseteq pending'
      /\ init' = "resolved" => init = "resolved" \/ m.type = "init-result"
  <2>1. CASE m.type \in ResponseTypes /\ OnResponse(m) /\ UNCHANGED fatal
    BY <1>1, <2>1, OnResponseOnward DEF SystemInv
  <2>2. CASE FailAllPending(CrashError)
    BY <2>2, FailAllOnward, Distinct DEF SystemInv
  <2> QED
    BY <2>1, <2>2 DEF DispatchEvent
<1>5. UnpostedIsNowhere'
  BY <1>1, <1>4 DEF SystemInv, Onward, UnpostedIsNowhere, workerSide
<1>6. UnderWayIsPending'
  <2> SUFFICES ASSUME fatal' = NoError PROVE UnderWayIsPending'
    BY DEF UnderWayIsPending
  <2>1. fatal = NoError /\ pending \ {m.id} \subseteq pending' /\ IsResponse(1)
    BY <1>1, <1>4 DEF Onward, IsResponse
  <2>2. \A i \in DOMAIN toWorker : toWorker[i].id # m.id
    BY <1>1, <2>1 DEF SystemInv, OnePlace
  <2>3. \A k \in Ids : handler[k] \in Active => k # m.id
    BY <1>1, <2>1 DEF SystemInv, OnePlace, Active
  <2>4. \A i \in DOMAIN toPage' : IsResponse(i)' => toPage'[i].id # m.id
    BY <1>1, <2>1 DEF SystemInv, OnePlace, IsResponse
  <2> QED
    BY <1>1, <2>1, <2>2, <2>3, <2>4 DEF SystemInv, UnderWayIsPending, IsResponse, workerSide
<1>7. ReadyInOrder'
  <2>1. init' = "resolved" => Ready
    BY <1>1, <1>4 DEF SystemInv, ReadyInOrder
  <2> QED
    BY <1>1, <1>4, <2>1 DEF SystemInv, Onward, ReadyInOrder, Ready, workerSide
<1> QED
  BY <1>2, <1>3, <1>5, <1>6, <1>7 DEF SystemInv

\* An error event of the worker is no response.
LEMMA FailureKeeps == SystemInv /\ WorkerFails => SystemInv'
<1> SUFFICES ASSUME SystemInv, WorkerFails PROVE SystemInv'
  OBVIOUS
<1>1. PICK t \in {"error", "messageerror"} : toPage' = Append(toPage, [type |-> t, id |-> InitId])
  BY DEF WorkerFails
<1>2. /\ UNCHANGED <<pageVars, toWorker, workerSide>> /\ toPage \in Seq(WorkerEvents)
      /\ toWorker \in Seq(Requests) /\ [type |-> t, id |-> InitId] \in WorkerEvents
  BY DEF WorkerFails, WorkerEvents, SystemInv, PortInv, TypeOK
<1>3. /\ toPage' \in Seq(WorkerEvents)
      /\ \A i \in DOMAIN toPage' :
           \/ i \in DOMAIN toPage /\ toPage'[i] = toPage[i]
           \/ toPage'[i].type \notin ResponseTypes
  BY <1>1, <1>2, AppendFacts DEF ResponseTypes
<1>4. PortInv'
  BY <1>2, <1>3, PortPart DEF SystemInv
<1>5. WorkerTyped' /\ OnePlace' /\ OwnKinds'
  BY <1>2, <1>3 DEF SystemInv, WorkerTyped, OnePlace, OwnKinds, IsResponse, ResponseTypes, workerSide
<1>6. UnpostedIsNowhere' /\ UnderWayIsPending' /\ ReadyInOrder'
  BY <1>2, <1>3 DEF SystemInv, UnpostedIsNowhere, UnderWayIsPending, ReadyInOrder, Ready, IsResponse,
                    ResponseTypes, workerSide, pageVars
<1> QED
  BY <1>4, <1>5, <1>6 DEF SystemInv

\* Every step of the page, of the worker and of termination keeps the invariant.
LEMMA StepSystem == SystemInv /\ [SystemNext]_svars => SystemInv'
<1> SUFFICES ASSUME SystemInv, [SystemNext]_svars PROVE SystemInv'
  OBVIOUS
<1>0. PortInv /\ TypeOK /\ InitId \in Ids /\ Calls \subseteq Ids /\ InitId \notin Calls
  BY InitIdAssumption DEF SystemInv, PortInv, Ids
<1>1. CASE PageStep
  <2>1. Next /\ UNCHANGED workerSide
    BY <1>1 DEF PageStep, Next, Page
  <2>2. PortInv'
    BY <1>0, <2>1, NextPort
  <2>3. CASE InitCall \/ FetchEnds
    <3>1. UNCHANGED <<toWorker, toPage, pending, fatal>> /\ Onward /\ (init' = "resolved" => init = "resolved")
      BY <2>3 DEF InitCall, EnsureInit, FetchEnds, SettleInit, Onward
    <3> QED
      BY <2>1, <2>2, <3>1, PageKeeps
  <2>4. CASE SendInit
    <3>1. CASE FatalMeanwhile /\ SettleInit("rejected", fatal) /\ UNCHANGED <<pending, toWorker>>
      <4>1. UNCHANGED toPage /\ Onward /\ init' # "resolved"
        BY <2>4, <3>1 DEF SendInit, SettleInit, Onward
      <4> QED
        BY <2>1, <2>2, <3>1, <4>1, PageKeeps
    <3>2. CASE /\ SettleInit("sent", NoError) /\ pending' = pending \cup {InitId}
               /\ toWorker' = Append(toWorker, Request(InitId))
      <4>1. UNCHANGED toPage /\ Onward /\ init' # "resolved"
        BY <2>4, <3>2 DEF SendInit, SettleInit, Onward
      <4>2. handler[InitId] = "none" /\ toWorker = <<>>
        BY <2>4 DEF SendInit, SystemInv, UnpostedIsNowhere, PortInv, NothingSentEarly
      <4> QED
        BY <1>0, <2>1, <2>2, <3>2, <4>1, <4>2, PagePosts
    <3> QED
      BY <2>4, <3>1, <3>2 DEF SendInit
  <2>5. CASE DispatchEvent
    BY <2>1, <2>2, <2>5, DispatchKeeps
  <2>6. ASSUME NEW c \in Calls, Compile(c) PROVE SystemInv'
    <3>1. /\ UNCHANGED <<toWorker, toPage, pending, fatal>> /\ Onward
          /\ init' = "resolved" => init = "resolved"
      BY <1>0, <2>6 DEF Compile, CompileOtherLanguage, CompileRefused, CompileWaits, EnsureInit, Settle,
                        SettleInit, Onward, TypeOK
    <3> QED
      BY <2>1, <2>2, <3>1, PageKeeps
  <2>7. ASSUME NEW c \in Calls, ResumeSends(c) PROVE SystemInv'
    <3>1. /\ UNCHANGED <<toPage, init>> /\ Onward /\ pending' = pending \cup {c} /\ init = "resolved"
          /\ toWorker' = Append(toWorker, Request(c)) /\ call'[c] = "sent" /\ call[c] = "waiting"
      BY <1>0, <2>7 DEF ResumeSends, InitDone, Onward, TypeOK
    <3>2. handler[c] = "none" /\ \A i \in DOMAIN toWorker : toWorker[i].id # c
      BY <3>1 DEF SystemInv, UnpostedIsNowhere
    <3> QED
      BY <1>0, <2>1, <2>2, <3>1, <3>2, PagePosts
  <2>8. ASSUME NEW c \in Calls, ResumeCannotPost(c) \/ ResumeRejects(c) PROVE SystemInv'
    <3>1. /\ UNCHANGED <<toWorker, toPage, init, fatal>> /\ Onward /\ pending \subseteq pending'
      BY <1>0, <2>8 DEF ResumeCannotPost, ResumeRejects, Settle, Onward, TypeOK
    <3> QED
      BY <2>1, <2>2, <3>1, PageKeeps
  <2> QED
    BY <1>1, <2>3, <2>4, <2>5, <2>6, <2>7, <2>8 DEF PageStep, Resume
<1>2. CASE WorkerStep
  BY <1>2, WorkerKeeps
<1>3. CASE WorkerFails
  BY <1>3, FailureKeeps
<1>4. ASSUME NEW e \in Reasons, Terminate(e) PROVE SystemInv'
  <2>1. Dispose(e) /\ FailAllPending(e) /\ e \in Fatals /\ UNCHANGED <<workerSide, toWorker, toPage>>
    BY <1>4, Distinct DEF Terminate, Dispose
  <2>2. Next
    BY <2>1 DEF Next, Page
  <2>3. PortInv'
    BY <1>0, <2>2, NextPort
  <2> QED
    BY <1>0, <2>1, <2>3, FailAllOnward, PageKeeps
<1>5. CASE UNCHANGED svars
  <2>1. UNCHANGED <<vars, workerSide>>
    BY <1>5 DEF svars
  <2>2. PortInv'
    BY <1>0, <2>1, NextPort
  <2>3. UNCHANGED <<toWorker, toPage, pending, init, fatal>> /\ Onward
    BY <2>1 DEF vars, pageVars, Onward
  <2> QED
    BY <2>1, <2>2, <2>3, PageKeeps
<1> QED
  BY <1>1, <1>2, <1>3, <1>4, <1>5 DEF SystemNext

-----------------------------------------------------------------------------
\* The inductive invariant of port and worker together, termination included.
THEOREM SystemInvariant == SystemSpec => []SystemInv
  BY InitSystem, StepSystem, PTL DEF SystemSpec

\* In the composition too every variable of the port keeps its type.
THEOREM SystemTypeCorrect == SystemSpec => []TypeOK
<1>1. SystemInv => TypeOK
  BY DEF SystemInv, PortInv
<1> QED
  BY <1>1, SystemInvariant, PTL

\* Until the port fails, every response of runtimeWorker.ts finds the entry of its
\* request in the pending table, and is of that entry's kind: none is dropped, and
\* none is counted as "Unexpected compiler response".
THEOREM ResponsesFindTheirEntry == SystemSpec => []ResponsesAreAwaited
<1>1. SystemInv => ResponsesAreAwaited
  <2> SUFFICES ASSUME SystemInv, NEW i \in DOMAIN toPage, toPage[i].type \in ResponseTypes, fatal = NoError
               PROVE  /\ toPage[i].id \in pending
                      /\ toPage[i].type # "internal-error" => KindMatches(toPage[i].type, toPage[i].id)
    BY DEF ResponsesAreAwaited
  <2>1. toPage[i].id \in pending
    BY DEF SystemInv, UnderWayIsPending, IsResponse
  <2>2. toPage[i].type # "internal-error" => KindMatches(toPage[i].type, toPage[i].id)
    BY DEF SystemInv, OwnKinds, ResponseTypes, KindMatches
  <2> QED
    BY <2>1, <2>2
<1> QED
  BY <1>1, SystemInvariant, PTL

\* No compile request meets a worker without sysroot or compiler module, and all
\* compilations use the archive of the one init, whatever failed or was terminated.
THEOREM OneSysroot == SystemSpec => []InitMeansOneSysroot
<1>1. SystemInv => InitMeansOneSysroot
  BY DEF SystemInv, ReadyInOrder, Ready, InitMeansOneSysroot
<1> QED
  BY <1>1, SystemInvariant, PTL

\* The real worker's page is still a compile service as far as safety goes: the
\* composition of the two ends is as good as the port against any worker.
THEOREM SystemServes == SystemSpec => Service!Safe
<1>1. SystemInit => Service!Init
  BY Distinct DEF SystemInit, Init, PortInit, Service!Init, Status
<1>2. SystemInv /\ [SystemNext]_svars => [Service!Next]_(Service!svars)
  <2> SUFFICES ASSUME SystemInv, [SystemNext]_svars PROVE [Service!Next]_(Service!svars)
    OBVIOUS
  <2>1. CASE [Next]_vars
    BY <2>1, ServiceStep DEF SystemInv
  <2>2. CASE UNCHANGED pageVars
    BY <2>2 DEF pageVars, Service!svars, Status
  <2>3. [Next]_vars \/ UNCHANGED pageVars
    BY DEF SystemNext, PageStep, WorkerStep, WorkerFails, Terminate, Next, Page, svars
  <2> QED
    BY <2>1, <2>2, <2>3
<1> QED
  BY <1>1, <1>2, SystemInvariant, PTL DEF SystemSpec, Service!Safe

-----------------------------------------------------------------------------
(* The composition refines the port with any worker: to the page this      *)
(* worker takes a request or posts an event, never both in one step, and   *)
(* never more events than CompilerPort allows.                             *)

\* Of the events that wait for the page at most one is an error event.
OneError == \A i, j \in DOMAIN toPage : ~IsResponse(i) /\ ~IsResponse(j) => i = j

RefinementInv == SystemInv /\ OneError /\ url \in {None, Bundle}

LEMMA InitRefinement == SystemInit => RefinementInv
<1>1. SystemInit => url = None /\ toPage = <<>>
  BY DEF SystemInit, Init, Worker!WorkerInit
<1> QED
  BY <1>1, InitSystem DEF RefinementInv, OneError

\* The bundle URL is only ever set to the one of the init request.
LEMMA UrlKept == url \in {None, Bundle} /\ SystemInv /\ [SystemNext]_svars => url' \in {None, Bundle}
<1> SUFFICES ASSUME url \in {None, Bundle}, SystemInv, [SystemNext]_svars PROVE url' \in {None, Bundle}
  OBVIOUS
<1>1. CASE Worker!WorkerNext
  <2>1. CASE Worker!ReceiveInit
    BY <2>1 DEF Worker!ReceiveInit
  <2>2. CASE Worker!ReceiveRefused \/ Worker!ReceiveCompile \/ Worker!ModuleEnds
    BY <2>2 DEF Worker!ReceiveRefused, Worker!ReceiveCompile, Worker!ModuleEnds, Worker!globals
  <2>3. CASE \E id \in Worker!WIds : Worker!Resumes(id)
    BY <2>3 DEF Worker!Resumes, Worker!SysrootEnds, Worker!ModuleFailed, Worker!InitAnswered,
                Worker!CompilerMade, Worker!CompileEnds, Worker!globals
  <2> QED
    BY <1>1, <2>1, <2>2, <2>3 DEF Worker!WorkerNext, Worker!Receives
<1>2. CASE UNCHANGED workerSide
  BY <1>2 DEF workerSide
<1> QED
  BY <1>1, <1>2 DEF SystemNext, PageStep, WorkerStep, WorkerFails, Terminate, svars

\* What a step of this worker shows the page: it does nothing to the channels, takes the
\* first request, or posts a response to a request it is handling.
Takes == toWorker # <<>> /\ toWorker' = Tail(toWorker) /\ UNCHANGED toPage
Answers == \E id \in Ids, t \in ResponseTypes :
             /\ handler[id] \in Active
             /\ toPage' = Append(toPage, [type |-> t, id |-> id])
             /\ UNCHANGED toWorker

LEMMA WorkerShows == RefinementInv /\ Worker!WorkerNext
                       => Takes \/ Answers \/ UNCHANGED <<toWorker, toPage>>
<1> SUFFICES ASSUME RefinementInv, Worker!WorkerNext
             PROVE  Takes \/ Answers \/ UNCHANGED <<toWorker, toPage>>
  OBVIOUS
<1>1. CASE Worker!ReceiveRefused
  BY <1>1 DEF Worker!ReceiveRefused, Takes
<1>2. CASE Worker!ReceiveInit
  BY <1>2 DEF Worker!ReceiveInit, Worker!UrlAgrees, RefinementInv, Takes
<1>3. CASE Worker!ReceiveCompile
  <2>1. 1 \in DOMAIN toWorker /\ Head(toWorker) = toWorker[1]
    BY <1>3, TailFacts DEF Worker!ReceiveCompile, RefinementInv, SystemInv, PortInv, TypeOK
  <2>2. Head(toWorker).id # InitId
    BY <1>3, InitIdAssumption DEF Worker!ReceiveCompile
  <2>3. sysroot # None
    BY <2>1, <2>2, SysrootAssumption DEF RefinementInv, SystemInv, ReadyInOrder, Ready
  <2> QED
    BY <1>3, <2>3 DEF Worker!ReceiveCompile, Takes
<1>4. CASE Worker!ModuleEnds
  BY <1>4 DEF Worker!ModuleEnds
<1>5. ASSUME NEW id \in Ids, Worker!Resumes(id)
      PROVE  Answers \/ UNCHANGED <<toWorker, toPage>>
  BY <1>5 DEF Worker!Resumes, Worker!SysrootEnds, Worker!ModuleFailed, Worker!InitAnswered,
              Worker!CompilerMade, Worker!CompileEnds, Worker!CompileThrows, Worker!Reply,
              ResponseTypes, Active, Answers
<1> QED
  BY <1>1, <1>2, <1>3, <1>4, <1>5 DEF Worker!WorkerNext, Worker!Receives, Worker!WIds, Ids

\* A response that is due finds room: every event that waits is the answer to another
\* request, or the one error event.
LEMMA RoomForAnswer ==
    ASSUME RefinementInv, NEW id \in Ids, handler[id] \in Active
    PROVE  Len(toPage) < MaxInbox
<1> DEFINE L == Len(toPage)
           subject == [i \in 1 .. L |-> IF IsResponse(i) THEN toPage[i].id ELSE id]
<1>1. toPage \in Seq(WorkerEvents) /\ L \in Nat /\ DOMAIN toPage = 1 .. L
  BY DEF RefinementInv, SystemInv, PortInv, TypeOK
<1>2. \A i \in 1 .. L : toPage[i].id \in Ids
  BY <1>1, EventTypes
<1>3. \A i \in 1 .. L : IsResponse(i) => toPage[i].id # id
  BY <1>1 DEF RefinementInv, SystemInv, OnePlace, Active
<1>4. subject \in Injection(1 .. L, Ids)
  <2>1. subject \in [1 .. L -> Ids]
    BY <1>2
  <2>2. \A i, j \in 1 .. L : subject[i] = subject[j] => i = j
    BY <1>1, <1>3 DEF RefinementInv, OneError, SystemInv, OnePlace
  <2> QED
    BY <2>1, <2>2 DEF Injection, IsInjective
<1>5. IsFiniteSet(Ids) /\ Cardinality(Ids) <= Cardinality(Calls) + 1 /\ Cardinality(Calls) \in Nat
  <2>1. IsFiniteSet(Calls) /\ Cardinality(Calls) \in Nat
    BY RoomAssumption, FS_CardinalityType
  <2>2. IsFiniteSet(Ids) /\ Cardinality(Ids) = Cardinality(Calls) + 1
    BY <2>1, FS_AddElement, InitIdAssumption DEF Ids
  <2> QED
    BY <2>1, <2>2
<1>6. Cardinality(1 .. L) = L
  BY <1>1, FS_Interval
<1>7. L <= Cardinality(Ids) /\ Cardinality(Ids) \in Nat
  BY <1>4, <1>5, <1>6, FS_Injection, FS_CardinalityType
<1> QED
  BY <1>1, <1>5, <1>7, RoomAssumption, MaxInboxAssumption

LEMMA OneErrorKept == RefinementInv /\ [SystemNext]_svars => OneError'
<1> SUFFICES ASSUME RefinementInv, [SystemNext]_svars PROVE OneError'
  OBVIOUS
<1>0. toPage \in Seq(WorkerEvents)
  BY DEF RefinementInv, SystemInv, PortInv, TypeOK
<1>1. CASE UNCHANGED toPage
  BY <1>1 DEF RefinementInv, OneError, IsResponse
<1>2. CASE toPage # <<>> /\ toPage' = Tail(toPage)
  BY <1>0, <1>2, TailFacts DEF RefinementInv, OneError, IsResponse
<1>3. CASE Answers
  <2>1. PICK id \in Ids, t \in ResponseTypes : toPage' = Append(toPage, [type |-> t, id |-> id])
    BY <1>3 DEF Answers
  <2>2. [type |-> t, id |-> id] \in WorkerEvents
    BY DEF WorkerEvents, Responses
  <2> QED
    BY <1>0, <2>1, <2>2, AppendFacts DEF RefinementInv, OneError, IsResponse
<1>4. CASE WorkerFails
  <2>1. PICK t \in {"error", "messageerror"} : toPage' = Append(toPage, [type |-> t, id |-> InitId])
    BY <1>4 DEF WorkerFails
  <2>2. [type |-> t, id |-> InitId] \in WorkerEvents
    BY DEF WorkerEvents
  <2>3. \A i \in DOMAIN toPage' : IsResponse(i)' \/ i = Len(toPage) + 1
    BY <1>0, <1>4, <2>1, <2>2, AppendFacts DEF WorkerFails, IsResponse
  <2> QED
    BY <2>3 DEF OneError
<1>5. UNCHANGED toPage \/ (toPage # <<>> /\ toPage' = Tail(toPage)) \/ Answers \/ WorkerFails
  <2>1. CASE PageStep
    BY <2>1 DEF PageStep, InitCall, SendInit, FetchEnds, DispatchEvent, Compile, CompileOtherLanguage,
                CompileRefused, CompileWaits, Resume, ResumeSends, ResumeCannotPost, ResumeRejects
  <2>2. CASE WorkerStep
    BY <2>2, WorkerShows DEF WorkerStep, Takes
  <2>3. CASE UNCHANGED svars \/ \E e \in Reasons : Terminate(e)
    BY <2>3 DEF Terminate, Dispose, svars, vars
  <2> QED
    BY <2>1, <2>2, <2>3 DEF SystemNext
<1> QED
  BY <1>1, <1>2, <1>3, <1>4, <1>5

\* Every step of port and worker is one of the port with any worker.
LEMMA StepRefines == RefinementInv /\ [SystemNext]_svars => [Next]_vars
<1> SUFFICES ASSUME RefinementInv, [SystemNext]_svars PROVE [Next]_vars
  OBVIOUS
<1>1. CASE PageStep
  BY <1>1 DEF PageStep, Next, Page
<1>2. CASE WorkerStep
  <2>1. UNCHANGED pageVars /\ (Takes \/ Answers \/ UNCHANGED <<toWorker, toPage>>)
    BY <1>2, WorkerShows DEF WorkerStep
  <2>2. CASE Takes
    BY <2>1, <2>2 DEF Takes, WorkerReceives, Next
  <2>3. CASE Answers
    <3>1. PICK id \in Ids, t \in ResponseTypes :
                 /\ handler[id] \in Active /\ toPage' = Append(toPage, [type |-> t, id |-> id])
                 /\ UNCHANGED toWorker
      BY <2>3 DEF Answers
    <3>2. [type |-> t, id |-> id] \in WorkerEvents /\ Len(toPage) < MaxInbox
      BY <3>1, RoomForAnswer DEF WorkerEvents, Responses
    <3> QED
      BY <2>1, <3>1, <3>2 DEF WorkerPosts, Next
  <2> QED
    BY <2>1, <2>2, <2>3 DEF vars
<1>3. CASE WorkerFails
  <2>1. PICK t \in {"error", "messageerror"} : toPage' = Append(toPage, [type |-> t, id |-> InitId])
    BY <1>3 DEF WorkerFails
  <2>2. [type |-> t, id |-> InitId] \in WorkerEvents
    BY DEF WorkerEvents
  <2> QED
    BY <1>3, <2>1, <2>2 DEF WorkerFails, WorkerPosts, Next
<1>4. CASE UNCHANGED svars \/ \E e \in Reasons : Terminate(e)
  BY <1>4 DEF Terminate, svars, Next, Page
<1> QED
  BY <1>1, <1>2, <1>3, <1>4 DEF SystemNext

\* runtimeWorker.ts is one of the workers BrowserCompilerPort was proved correct with: what
\* holds of the port against any worker holds of the two together.
THEOREM PortRefined == SystemSpec => ImplementsPort
<1>1. SystemInit => Init
  BY DEF SystemInit
<1>2. RefinementInv /\ [SystemNext]_svars => RefinementInv'
  BY StepSystem, OneErrorKept, UrlKept DEF RefinementInv
<1> QED
  BY <1>1, <1>2, InitRefinement, StepRefines, PTL DEF SystemSpec, ImplementsPort, Spec

\* So, with runtimeWorker.ts behind it, the port keeps what it promises against any
\* worker: the table matches the promises, the first failure is everyone's and final,
\* nothing is posted after it, and a promise is resolved by its own kind of response.
THEOREM PortKept ==
    SystemSpec => /\ [](TableMatchesPromises /\ FatalIsFinal)
                  /\ NothingPostedAfterFatal /\ ResolvedByOwnKind
<1>1. SystemSpec => Spec
  BY PortRefined DEF ImplementsPort
<1> QED
  BY <1>1, NoOrphans, FailureFinal, FailureSilent, OwnKindOnly, PTL
=============================================================================
