------------------------- MODULE ExecutorPortProofs -------------------------
(***************************************************************************)
(* Theorems about BrowserExecutorPort for any number of calls, any time    *)
(* limit and any bound on queued events.                                   *)
(***************************************************************************)
EXTENDS ExecutorPort, TLAPS

(* Types *)

\* One tick more stays within the horizon ages are counted to.
LEMMA LaterType == \A t \in 0 .. Horizon : Later(t) \in 0 .. Horizon
  BY TimeLimitAssumption DEF Later, Horizon

\* The constant results, and those a worker may send, are results.
LEMMA ResultTypes ==
    /\ NoResult \in Results
    /\ InternalError \in Results
    /\ TimeLimitExceeded \in Results
  BY TimeLimitAssumption
     DEF NoResult, InternalError, TimeLimitExceeded, Results, WorkerStatuses, Horizon

\* Whatever the listeners make of an event is a result.
LEMMA BelievedType == \A e \in Events : Believed(e) \in Results
  BY ResultTypes DEF Believed, Events

\* The errors execute() rejects with are of error's type.
LEMMA ErrorTypes == /\ NoError \in Reasons \cup {NoError, SetupError}
                    /\ SetupError \in Reasons \cup {NoError, SetupError}
                    /\ disposed \in Reasons \cup {NoError}
                         => disposed \in Reasons \cup {NoError, SetupError}
  OBVIOUS

\* finish() keeps the types of the variables it assigns.
LEMMA FinishType ==
    ASSUME TypeOK, NEW r \in Requests, NEW res \in Results,
           NEW t \in {"none", "armed", "cleared", "fired"},
           Finish(r, res, t)
    PROVE  /\ call' \in [Requests -> {"idle", "pending", "resolved", "rejected"}]
           /\ result' \in [Requests -> Results]
           /\ error' \in [Requests -> Reasons \cup {NoError, SetupError}]
           /\ settled' \in [Requests -> BOOLEAN]
           /\ active' \subseteq Requests
           /\ worker' \in [Requests -> {"none", "running", "terminated"}]
           /\ timer' \in [Requests -> {"none", "armed", "cleared", "fired"}]
  <1>1. CASE settled[r]
    BY <1>1 DEF TypeOK, Finish
  <1>2. CASE ~settled[r]
    <2>1. settled' = [settled EXCEPT ![r] = TRUE] /\ active' = active \ {r}
            /\ worker' = [worker EXCEPT ![r] = "terminated"]
            /\ timer' = [timer EXCEPT ![r] = ClearTimeout(t)]
            /\ Resolve(r, res)
      BY <1>2 DEF Finish
    <2>2. ClearTimeout(t) \in {"none", "armed", "cleared", "fired"}
      BY DEF ClearTimeout
    <2>3. timer' \in [Requests -> {"none", "armed", "cleared", "fired"}]
      BY <2>1, <2>2 DEF TypeOK
    <2>4. /\ call' \in [Requests -> {"idle", "pending", "resolved", "rejected"}]
          /\ result' \in [Requests -> Results]
          /\ error' = error
      BY <2>1 DEF TypeOK, Resolve
    <2>5. QED BY <2>1, <2>3, <2>4 DEF TypeOK
  <1>3. QED BY <1>1, <1>2

\* A new port has well-typed variables.
THEOREM InitType == Init => TypeOK
  BY TimeLimitAssumption, ResultTypes DEF Init, TypeOK, Horizon

\* Every task of the page and step of a worker keeps the types.
THEOREM NextType == TypeOK /\ [Next]_vars => TypeOK'
  <1> SUFFICES ASSUME TypeOK, [Next]_vars PROVE TypeOK'
    OBVIOUS
  <1> USE DEF portVars, workerVars, timeVars
  <1>1. ASSUME NEW r \in Requests, ExecuteDisposed(r) PROVE TypeOK'
    BY <1>1, ErrorTypes DEF TypeOK, ExecuteDisposed, Reject
  <1>2. ASSUME NEW r \in Requests, ExecuteNoWorker(r) PROVE TypeOK'
    BY <1>2, ErrorTypes DEF TypeOK, ExecuteNoWorker, Reject
  <1>3. ASSUME NEW r \in Requests, ExecuteNotPosted(r) PROVE TypeOK'
    BY <1>3, ErrorTypes DEF TypeOK, ExecuteNotPosted, Reject
  <1>4. ASSUME NEW r \in Requests, ExecutePosted(r) PROVE TypeOK'
    BY <1>4 DEF TypeOK, ExecutePosted
  <1>5. ASSUME NEW r \in Requests, DispatchEvent(r) PROVE TypeOK'
    <2>1. events[r] \in Seq(Events) /\ events[r] # <<>>
      BY <1>5 DEF TypeOK, DispatchEvent
    <2>2. Head(events[r]) \in Events /\ Tail(events[r]) \in Seq(Events)
      BY <2>1
    <2>3. Believed(Head(events[r])) \in Results
      BY <2>2, BelievedType
    <2>4. events' \in [Requests -> Seq(Events)]
      BY <1>5, <2>2 DEF TypeOK, DispatchEvent
    <2>5. timer[r] \in {"none", "armed", "cleared", "fired"}
      BY DEF TypeOK
    <2>6. QED BY <1>5, <2>3, <2>4, <2>5, FinishType DEF TypeOK, DispatchEvent
  <1>6. ASSUME NEW r \in Requests, TimerFires(r) PROVE TypeOK'
    BY <1>6, FinishType, ResultTypes DEF TypeOK, TimerFires
  <1>7. ASSUME NEW r \in Requests, WorkerStarts(r) PROVE TypeOK'
    BY <1>7 DEF TypeOK, WorkerStarts
  <1>8. ASSUME NEW r \in Requests, WorkerIgnores(r) PROVE TypeOK'
    BY <1>8 DEF TypeOK, WorkerIgnores
  <1>9. ASSUME NEW r \in Requests, NEW k \in EventKinds, NEW res \in Results,
               Queue(r, k, res)
        PROVE  events' \in [Requests -> Seq(Events)]
    <2>1. [kind |-> k, result |-> res] \in Events
      BY <1>9 DEF Events
    <2>2. Append(events[r], [kind |-> k, result |-> res]) \in Seq(Events)
      BY <2>1 DEF TypeOK
    <2>3. QED BY <1>9, <2>2 DEF TypeOK, Queue
  <1>10. ASSUME NEW r \in Requests, WorkerReplies(r) PROVE TypeOK'
    <2>1. \A s \in {"success", "failure"} : [status |-> s, elapsed |-> ran[r]] \in Results
      BY DEF Results, WorkerStatuses, TypeOK
    <2>2. "reply" \in EventKinds
      BY DEF EventKinds
    <2>3. events' \in [Requests -> Seq(Events)]
      BY <1>9, <1>10, <2>1, <2>2, ResultTypes DEF WorkerReplies
    <2>4. QED BY <1>10, <2>3 DEF TypeOK, WorkerReplies
  <1>11. ASSUME NEW r \in Requests, WorkerMisbehaves(r) PROVE TypeOK'
    <2>1. events' \in [Requests -> Seq(Events)]
      BY <1>9, <1>11, ResultTypes DEF WorkerMisbehaves
    <2>2. QED BY <1>11, <2>1 DEF TypeOK, WorkerMisbehaves
  <1>12. ASSUME NEW r \in Requests, WorkerReplacesResult(r) PROVE TypeOK'
    <2>1. "reply" \in EventKinds
      BY DEF EventKinds
    <2>2. events' \in [Requests -> Seq(Events)]
      BY <1>9, <1>12, <2>1, ForeignResultsAssumption DEF WorkerReplacesResult
    <2>3. QED BY <1>12, <2>2 DEF TypeOK, WorkerReplacesResult
  <1>13. ASSUME NEW e \in Reasons, Dispose(e) PROVE TypeOK'
    BY <1>13 DEF TypeOK, Dispose, FirstReason, ClearTimeout
  <1>14. CASE Tick
    BY <1>14, LaterType DEF TypeOK, Tick
  <1>15. CASE UNCHANGED vars
    BY <1>15 DEF TypeOK, vars
  <1>16. QED
    BY <1>1, <1>2, <1>3, <1>4, <1>5, <1>6, <1>7, <1>8, <1>10, <1>11, <1>12, <1>13,
       <1>14, <1>15 DEF Next, Execute, Worker

\* Every variable keeps its type.
THEOREM TypeCorrect == Spec => []TypeOK
  BY InitType, NextType, PTL DEF Spec
-----------------------------------------------------------------------------
(* Resources and disposal *)

\* finish() runs at most once for a pending call: settled is TRUE only after
\* the call ended, and events come only from a worker that was created.
SettledMeansEnded ==
    \A r \in Requests :
        /\ settled[r] => call[r] \in {"resolved", "rejected"}
        /\ call[r] = "idle" => events[r] = <<>> /\ job[r] = "none"
        /\ worker[r] = "none" => events[r] = <<>>

PortInv == TypeOK /\ ResourcesMatchCalls /\ DisposalIsFinal /\ SettledMeansEnded

\* A new port holds nothing and owes nothing.
LEMMA InitPort == Init => PortInv
  BY InitType, ErrorsAssumption
     DEF PortInv, Init, ResourcesMatchCalls, DisposalIsFinal, SettledMeansEnded

\* What finish() does to a call that has begun: it ends, with its resources.
LEMMA FinishStep ==
    ASSUME PortInv, NEW r \in Requests, NEW res \in Results,
           NEW t \in {"none", "armed", "cleared", "fired"},
           call[r] # "idle", worker[r] # "none",
           t = timer[r] \/ (timer[r] = "armed" /\ t = "fired"),
           Finish(r, res, t)
    PROVE  /\ \A q \in Requests \ {r} :
                /\ call'[q] = call[q] /\ worker'[q] = worker[q] /\ timer'[q] = timer[q]
                /\ settled'[q] = settled[q] /\ error'[q] = error[q]
                /\ q \in active' <=> q \in active
           /\ call'[r] \in {"resolved", "rejected"}
           /\ r \notin active' /\ worker'[r] \notin {"none", "running"} /\ timer'[r] # "armed"
           /\ error'[r] = error[r]
           /\ active' \subseteq active
  <1>1. CASE settled[r]
    <2>1. /\ call'[r] \in {"resolved", "rejected"} /\ call[r] # "pending"
          /\ r \notin active /\ worker[r] \notin {"none", "running"} /\ timer[r] # "armed"
      BY <1>1 DEF PortInv, SettledMeansEnded, ResourcesMatchCalls, Finish
    <2>2. QED BY <1>1, <2>1 DEF PortInv, TypeOK, Finish
  <1>2. CASE ~settled[r]
    <2>1. call[r] \in {"pending", "resolved", "rejected"}
      BY DEF PortInv, TypeOK
    <2>2. /\ settled' = [settled EXCEPT ![r] = TRUE] /\ active' = active \ {r}
          /\ worker' = [worker EXCEPT ![r] = "terminated"]
          /\ timer' = [timer EXCEPT ![r] = ClearTimeout(t)]
          /\ Resolve(r, res)
      BY <1>2 DEF Finish
    <2>3. ClearTimeout(t) # "armed"
      BY DEF ClearTimeout
    <2>4. /\ call'[r] \in {"resolved", "rejected"}
          /\ \A q \in Requests \ {r} : call'[q] = call[q]
          /\ error' = error
      BY <2>1, <2>2 DEF PortInv, TypeOK, Resolve
    <2>5. QED BY <2>2, <2>3, <2>4 DEF PortInv, TypeOK
  <1>3. QED BY <1>1, <1>2

\* A step of finish() keeps the invariant's parts that speak of the port.
LEMMA FinishPort ==
    ASSUME PortInv, TypeOK', NEW r \in Requests, NEW res \in Results,
           NEW t \in {"none", "armed", "cleared", "fired"},
           call[r] # "idle", worker[r] # "none",
           t = timer[r] \/ (timer[r] = "armed" /\ t = "fired"),
           Finish(r, res, t),
           disposed' = disposed, job' = job,
           \A q \in Requests \ {r} : events'[q] = events[q]
    PROVE  PortInv'
  <1>1. ResourcesMatchCalls'
    BY FinishStep DEF PortInv, ResourcesMatchCalls
  <1>2. DisposalIsFinal'
    <2>1. disposed' # NoError => active' = {}
      BY FinishStep DEF PortInv, DisposalIsFinal
    <2>2. \A q \in Requests : error'[q] = error[q]
      BY FinishStep
    <2>3. QED BY <2>1, <2>2 DEF PortInv, DisposalIsFinal
  <1>3. SettledMeansEnded'
    BY FinishStep DEF PortInv, SettledMeansEnded
  <1>4. QED BY <1>1, <1>2, <1>3 DEF PortInv

\* A call rejected before it held anything disturbs nothing.
LEMMA RejectPort ==
    ASSUME PortInv, TypeOK', NEW r \in Requests, NEW e,
           call[r] = "idle", Reject(r, e),
           e \in Reasons => e = disposed,
           UNCHANGED <<settled, active, disposed, worker, timer, workerVars, timeVars>>
    PROVE  PortInv'
  <1>1. /\ \A q \in Requests \ {r} : call'[q] = call[q] /\ error'[q] = error[q]
        /\ call'[r] = "rejected" /\ error'[r] = e
    BY DEF PortInv, TypeOK, Reject
  <1>2. UNCHANGED <<settled, active, disposed, worker, timer, events, job>>
    BY DEF workerVars
  <1>3. ResourcesMatchCalls'
    BY <1>1, <1>2 DEF PortInv, ResourcesMatchCalls
  <1>4. DisposalIsFinal'
    BY <1>1, <1>2 DEF PortInv, DisposalIsFinal
  <1>5. SettledMeansEnded'
    BY <1>1, <1>2 DEF PortInv, SettledMeansEnded
  <1>6. QED BY <1>3, <1>4, <1>5 DEF PortInv

\* Every step keeps the port invariant: entries, workers, timers and calls
\* stay together, and the disposal reason stays the one of all its victims.
THEOREM NextPort == PortInv /\ [Next]_vars => PortInv'
  <1> SUFFICES ASSUME PortInv, [Next]_vars PROVE PortInv'
    OBVIOUS
  <1> USE DEF portVars, workerVars, timeVars
  <1>0. TypeOK /\ TypeOK'
    BY NextType DEF PortInv
  <1>1. ASSUME NEW r \in Requests, ExecuteDisposed(r) PROVE PortInv'
    <2>1. disposed # NoError => Reject(r, disposed)
      BY <1>1 DEF ExecuteDisposed
    <2>2. QED BY <1>0, <1>1, <2>1, RejectPort DEF ExecuteDisposed, Alive
  <1>2. ASSUME NEW r \in Requests, ExecuteNoWorker(r) PROVE PortInv'
    BY <1>0, <1>2, ErrorsAssumption, RejectPort DEF ExecuteNoWorker
  <1>3. ASSUME NEW r \in Requests, ExecuteNotPosted(r) PROVE PortInv'
    BY <1>0, <1>3, ErrorsAssumption
       DEF TypeOK, PortInv, ExecuteNotPosted, Alive, Reject, ResourcesMatchCalls,
           DisposalIsFinal, SettledMeansEnded
  <1>4. ASSUME NEW r \in Requests, ExecutePosted(r) PROVE PortInv'
    BY <1>0, <1>4
       DEF TypeOK, PortInv, ExecutePosted, Alive, ResourcesMatchCalls,
           DisposalIsFinal, SettledMeansEnded
  <1>5. ASSUME NEW r \in Requests, DispatchEvent(r) PROVE PortInv'
    <2>1. events[r] \in Seq(Events) /\ events[r] # <<>>
      BY <1>0, <1>5 DEF TypeOK, DispatchEvent
    <2>2. Believed(Head(events[r])) \in Results
      BY <2>1, BelievedType
    <2>3. call[r] # "idle" /\ worker[r] # "none"
      BY <2>1 DEF PortInv, SettledMeansEnded
    <2>4. \A q \in Requests \ {r} : events'[q] = events[q]
      BY <1>0, <1>5 DEF TypeOK, DispatchEvent
    <2>5. timer[r] \in {"none", "armed", "cleared", "fired"}
      BY <1>0 DEF TypeOK
    <2>6. QED BY <1>0, <1>5, <2>2, <2>3, <2>4, <2>5, FinishPort DEF DispatchEvent
  <1>6. ASSUME NEW r \in Requests, TimerFires(r) PROVE PortInv'
    <2>1. timer[r] = "armed" /\ call[r] # "idle" /\ worker[r] # "none"
      BY <1>6 DEF TimerFires, TimerDue, PortInv, ResourcesMatchCalls
    <2>2. QED BY <1>0, <1>6, <2>1, FinishPort, ResultTypes DEF TimerFires
  <1>7. ASSUME NEW r \in Requests, Worker(r) PROVE PortInv'
    <2>1. /\ worker[r] = "running"
          /\ UNCHANGED portVars
          /\ \A q \in Requests \ {r} : events'[q] = events[q] /\ job'[q] = job[q]
      <3>1. CASE WorkerStarts(r) \/ WorkerIgnores(r)
        BY <1>0, <3>1 DEF TypeOK, WorkerStarts, WorkerIgnores
      <3>2. CASE WorkerReplies(r)
        <4>1. \A q \in Requests \ {r} : events'[q] = events[q]
          BY <1>0, <3>2 DEF TypeOK, WorkerReplies, Queue
        <4>2. QED BY <1>0, <3>2, <4>1 DEF TypeOK, WorkerReplies
      <3>3. CASE WorkerMisbehaves(r)
        BY <1>0, <3>3 DEF TypeOK, WorkerMisbehaves, Queue
      <3>4. CASE WorkerReplacesResult(r)
        <4>1. \A q \in Requests \ {r} : events'[q] = events[q]
          BY <1>0, <3>4 DEF TypeOK, WorkerReplacesResult, Queue
        <4>2. QED BY <1>0, <3>4, <4>1 DEF TypeOK, WorkerReplacesResult
      <3>5. QED BY <1>7, <3>1, <3>2, <3>3, <3>4 DEF Worker
    <2>2. call[r] # "idle"
      BY <2>1 DEF PortInv, ResourcesMatchCalls
    <2>3. QED
      BY <1>0, <2>1, <2>2
         DEF PortInv, ResourcesMatchCalls, DisposalIsFinal, SettledMeansEnded
  <1>8. ASSUME NEW e \in Reasons, Dispose(e) PROVE PortInv'
    <2>1. ResourcesMatchCalls'
      BY <1>0, <1>8
         DEF TypeOK, PortInv, Dispose, ClearTimeout, ResourcesMatchCalls
    <2>2. DisposalIsFinal'
      BY <1>0, <1>8, ErrorsAssumption
         DEF TypeOK, PortInv, Dispose, FirstReason, DisposalIsFinal
    <2>3. SettledMeansEnded'
      BY <1>0, <1>8
         DEF TypeOK, PortInv, Dispose, SettledMeansEnded, ResourcesMatchCalls
    <2>4. QED BY <1>0, <2>1, <2>2, <2>3 DEF PortInv
  <1>9. CASE Tick \/ UNCHANGED vars
    BY <1>0, <1>9 DEF PortInv, Tick, vars, ResourcesMatchCalls, DisposalIsFinal,
                      SettledMeansEnded
  <1>10. QED
    BY <1>1, <1>2, <1>3, <1>4, <1>5, <1>6, <1>7, <1>8, <1>9 DEF Next, Execute

\* However calls, replies, crashes, timeouts, failed posts and dispose() mix,
\* worker, timer and map entry exist exactly while their call is pending.
THEOREM NoLeak == Spec => []ResourcesMatchCalls
  <1>1. PortInv => ResourcesMatchCalls
    BY DEF PortInv
  <1>2. QED BY <1>1, InitPort, NextPort, PTL DEF Spec

\* After dispose() nothing is left and every victim got the first reason.
THEOREM DisposalFinal == Spec => []DisposalIsFinal
  <1>1. PortInv => DisposalIsFinal
    BY DEF PortInv
  <1>2. QED BY <1>1, InitPort, NextPort, PTL DEF Spec
-----------------------------------------------------------------------------
(* Verdicts *)

\* A queued reply carries a verdict of a worker that has replied, or what a foreign
\* worker has in its place.
EarnedResult(res, j) == \/ j = "replied" /\ res.status \in WorkerStatuses
                        \/ j = "foreign" /\ res \in ForeignResults

Earned(e, j) == e.kind = "reply" => EarnedResult(e.result, j)

RepliesEarned == \A r \in Requests : \A i \in 1 .. Len(events[r]) : Earned(events[r][i], job[r])

FiredResolves == \A r \in Requests : timer[r] = "fired" => call[r] = "resolved"

VerdictInv == PortInv /\ VerdictIsEarned /\ RepliesEarned /\ FiredResolves

\* No verdict was given yet.
LEMMA InitVerdict == Init => VerdictInv
  BY InitPort DEF VerdictInv, Init, VerdictIsEarned, RepliesEarned, FiredResolves

\* Appending an earned event, or taking the first away, leaves them all earned.
LEMMA QueueEarned ==
    ASSUME TypeOK, RepliesEarned, NEW r \in Requests, NEW k \in EventKinds,
           NEW res \in Results, Queue(r, k, res),
           Earned([kind |-> k, result |-> res], job'[r]),
           \A q \in Requests : job[q] \in {"replied", "foreign"} => job'[q] = job[q]
    PROVE  RepliesEarned'
  <1> DEFINE e == [kind |-> k, result |-> res]
  <1>1. events[r] \in Seq(Events) /\ events'[r] = Append(events[r], e)
        /\ \A q \in Requests \ {r} : events'[q] = events[q]
    BY DEF TypeOK, Queue
  <1>2. \A i \in 1 .. Len(events'[r]) : Earned(events'[r][i], job'[r])
    <2>1. e \in Events
      BY DEF Events
    <2>2. ASSUME NEW i \in 1 .. Len(events'[r])
          PROVE  events'[r][i] = e \/ (i \in 1 .. Len(events[r]) /\ events'[r][i] = events[r][i])
      BY <1>1, <2>1
    <2>3. Earned(e, job'[r])
      OBVIOUS
    <2>4. \A i \in 1 .. Len(events[r]) : Earned(events[r][i], job'[r])
      BY DEF RepliesEarned, Earned, EarnedResult
    <2>5. QED BY <2>2, <2>3, <2>4
  <1>3. \A q \in Requests \ {r} : \A i \in 1 .. Len(events'[q]) : Earned(events'[q][i], job'[q])
    BY <1>1 DEF RepliesEarned, Earned, EarnedResult
  <1>4. QED BY <1>2, <1>3 DEF RepliesEarned

\* What the listeners believe of the next event is earned.
LEMMA BelievedEarned ==
    ASSUME TypeOK, RepliesEarned, NEW r \in Requests, events[r] # <<>>
    PROVE  /\ Believed(Head(events[r])) \in Results
           /\ \/ Believed(Head(events[r])) = InternalError
              \/ EarnedResult(Believed(Head(events[r])), job[r])
  <1>1. events[r] \in Seq(Events) /\ Len(events[r]) \in Nat /\ Len(events[r]) >= 1
    BY DEF TypeOK
  <1>2. Head(events[r]) = events[r][1] /\ Head(events[r]) \in Events
    BY <1>1
  <1>3. Earned(Head(events[r]), job[r])
    BY <1>1, <1>2 DEF RepliesEarned
  <1>4. QED BY <1>2, <1>3, BelievedType DEF Believed, Earned

\* finish() gives a pending call the verdict it is called with, and no other.
LEMMA FinishVerdict ==
    ASSUME PortInv, NEW r \in Requests, NEW res \in Results,
           NEW t \in {"none", "armed", "cleared", "fired"},
           Finish(r, res, t)
    PROVE  /\ \A q \in Requests \ {r} :
                call'[q] = call[q] /\ result'[q] = result[q] /\ timer'[q] = timer[q]
           /\ call[r] = "pending" => call'[r] = "resolved" /\ result'[r] = res
           /\ call[r] # "pending" => call'[r] = call[r] /\ result'[r] = result[r]
           /\ timer'[r] \in {t, ClearTimeout(t)}
  <1>1. CASE settled[r]
    BY <1>1 DEF PortInv, TypeOK, Finish, SettledMeansEnded
  <1>2. CASE ~settled[r]
    <2>1. timer' = [timer EXCEPT ![r] = ClearTimeout(t)] /\ Resolve(r, res)
      BY <1>2 DEF Finish
    <2>2. QED BY <2>1 DEF PortInv, TypeOK, Resolve
  <1>3. QED BY <1>1, <1>2

\* Every step keeps the verdict invariant: nothing but a reply of the call's
\* own worker or its own due timer gives a call a verdict of the program.
THEOREM NextVerdict == VerdictInv /\ [Next]_vars => VerdictInv'
  <1> SUFFICES ASSUME VerdictInv, [Next]_vars PROVE VerdictInv'
    OBVIOUS
  <1> USE DEF portVars, workerVars, timeVars
  <1>0. TypeOK /\ TypeOK' /\ PortInv /\ PortInv'
    BY NextPort DEF PortInv, VerdictInv
  <1>1. ASSUME NEW r \in Requests, Execute(r) PROVE VerdictInv'
    <2>1. /\ call[r] = "idle" /\ timer[r] # "fired"
          /\ \A q \in Requests \ {r} : call'[q] = call[q] /\ timer'[q] = timer[q]
                                       /\ job'[q] = job[q]
          /\ call'[r] \in {"pending", "rejected"} /\ timer'[r] # "fired"
          /\ UNCHANGED <<result, events, age>>
      <3>1. call[r] = "idle" /\ timer[r] # "fired"
        BY <1>1 DEF Execute, ExecuteDisposed, ExecuteNoWorker, ExecuteNotPosted,
                    ExecutePosted, VerdictInv, FiredResolves
      <3>2. CASE ExecuteDisposed(r) \/ ExecuteNoWorker(r) \/ ExecuteNotPosted(r)
        BY <1>0, <3>1, <3>2 DEF TypeOK, ExecuteDisposed, ExecuteNoWorker,
                                ExecuteNotPosted, Reject
      <3>3. CASE ExecutePosted(r)
        BY <1>0, <3>1, <3>3 DEF TypeOK, ExecutePosted
      <3>4. QED BY <1>1, <3>2, <3>3 DEF Execute
    <2>2. events[r] = <<>>
      BY <1>0, <2>1 DEF PortInv, SettledMeansEnded
    <2>3. RepliesEarned'
      BY <2>1, <2>2 DEF VerdictInv, RepliesEarned, Earned
    <2>4. VerdictIsEarned' /\ FiredResolves'
      BY <2>1 DEF VerdictInv, VerdictIsEarned, FiredResolves
    <2>5. QED BY <1>0, <2>3, <2>4 DEF VerdictInv
  <1>2. ASSUME NEW r \in Requests, DispatchEvent(r) PROVE VerdictInv'
    <2> DEFINE res == Believed(Head(events[r]))
    <2>1. /\ events[r] # <<>> /\ Finish(r, res, timer[r])
          /\ events' = [events EXCEPT ![r] = Tail(events[r])]
          /\ UNCHANGED <<job, age>>
      BY <1>2 DEF DispatchEvent
    <2>2. /\ res \in Results
          /\ res = InternalError \/ EarnedResult(res, job[r])
      BY <1>0, <2>1, BelievedEarned DEF VerdictInv
    <2>3. timer[r] \in {"none", "armed", "cleared", "fired"}
      BY <1>0 DEF TypeOK
    <2> HIDE DEF res
    <2>4. /\ \A q \in Requests \ {r} :
                call'[q] = call[q] /\ result'[q] = result[q] /\ timer'[q] = timer[q]
          /\ call[r] = "pending" => call'[r] = "resolved" /\ result'[r] = res
          /\ call[r] # "pending" => call'[r] = call[r] /\ result'[r] = result[r]
          /\ timer'[r] \in {timer[r], ClearTimeout(timer[r])}
      BY <1>0, <2>1, <2>2, <2>3, FinishVerdict
    <2>5. timer'[r] = "fired" <=> timer[r] = "fired"
      BY <2>4 DEF ClearTimeout
    <2>6. RepliesEarned'
      <3>1. events[r] \in Seq(Events)
        BY <1>0 DEF TypeOK
      <3>2. \A i \in 1 .. Len(Tail(events[r])) :
               i + 1 \in 1 .. Len(events[r]) /\ Tail(events[r])[i] = events[r][i + 1]
        BY <2>1, <3>1
      <3>3. \A i \in 1 .. Len(events'[r]) : Earned(events[r][i + 1], job[r])
                                            /\ events'[r][i] = events[r][i + 1]
        BY <1>0, <2>1, <3>2 DEF TypeOK, VerdictInv, RepliesEarned
      <3>4. QED BY <1>0, <2>1, <3>3 DEF TypeOK, VerdictInv, RepliesEarned, Earned
    <2>7. call[r] = "pending" => timer[r] # "fired"
      BY DEF VerdictInv, FiredResolves
    <2>8. VerdictIsEarned'
      <3>1. ASSUME NEW q \in Requests, q # r \/ call[r] # "pending", call'[q] = "resolved"
            PROVE  /\ call[q] = "resolved" /\ result'[q] = result[q] /\ job'[q] = job[q]
                   /\ age'[q] = age[q] /\ (timer'[q] = "fired" <=> timer[q] = "fired")
        BY <2>1, <2>4, <2>5, <3>1
      <3>2. ASSUME call[r] = "pending"
            PROVE  /\ timer'[r] # "fired" /\ result'[r] = res /\ job'[r] = job[r]
                   /\ job[r] # "foreign" =>
                        /\ res.status \notin {"none", "time_limit_exceeded"}
                        /\ res.status \in {"success", "failure"} => job[r] = "replied"
                   /\ job[r] = "foreign" => res \in ForeignResults \cup {InternalError}
        BY <2>1, <2>2, <2>4, <2>5, <2>7, <3>2 DEF EarnedResult, InternalError, WorkerStatuses
      <3>3. QED BY <3>1, <3>2 DEF VerdictInv, VerdictIsEarned
    <2>9. FiredResolves'
      BY <2>4, <2>5, <2>7 DEF VerdictInv, FiredResolves
    <2>10. QED BY <1>0, <2>6, <2>8, <2>9 DEF VerdictInv
  <1>3. ASSUME NEW r \in Requests, TimerFires(r) PROVE VerdictInv'
    <2>1. /\ timer[r] = "armed" /\ age[r] >= TimeLimit
          /\ Finish(r, TimeLimitExceeded, "fired") /\ UNCHANGED <<events, job, age>>
      BY <1>3 DEF TimerFires, TimerDue
    <2>2. call[r] = "pending"
      BY <1>0, <2>1 DEF PortInv, ResourcesMatchCalls
    <2>3. /\ \A q \in Requests \ {r} :
                call'[q] = call[q] /\ result'[q] = result[q] /\ timer'[q] = timer[q]
          /\ call'[r] = "resolved" /\ result'[r] = TimeLimitExceeded
          /\ timer'[r] = "fired"
      BY <1>0, <2>1, <2>2, FinishVerdict, ResultTypes DEF ClearTimeout
    <2>4. VerdictIsEarned' /\ FiredResolves'
      BY <2>1, <2>3 DEF VerdictInv, VerdictIsEarned, FiredResolves, TimeLimitExceeded
    <2>5. RepliesEarned'
      BY <2>1 DEF VerdictInv, RepliesEarned, Earned
    <2>6. QED BY <1>0, <2>4, <2>5 DEF VerdictInv
  <1>4. ASSUME NEW r \in Requests, Worker(r) PROVE VerdictInv'
    <2>1. UNCHANGED portVars /\ UNCHANGED timeVars
      BY <1>4 DEF Worker, WorkerStarts, WorkerIgnores, WorkerReplies, WorkerMisbehaves,
                   WorkerReplacesResult
    <2>2. call[r] = "pending"
      BY <1>0, <1>4 DEF Worker, WorkerStarts, WorkerIgnores, WorkerReplies,
                        WorkerMisbehaves, WorkerReplacesResult, PortInv,
                        ResourcesMatchCalls
    <2>3. /\ \A q \in Requests : job[q] \in {"replied", "foreign"} => job'[q] = job[q]
          /\ \A q \in Requests \ {r} : job'[q] = job[q]
      <3>1. CASE WorkerStarts(r) \/ WorkerIgnores(r)
        BY <1>0, <3>1 DEF TypeOK, WorkerStarts, WorkerIgnores
      <3>2. CASE WorkerReplies(r)
        BY <1>0, <3>2 DEF TypeOK, WorkerReplies
      <3>3. CASE WorkerMisbehaves(r)
        BY <3>3 DEF WorkerMisbehaves
      <3>4. CASE WorkerReplacesResult(r)
        BY <1>0, <3>4 DEF TypeOK, WorkerReplacesResult
      <3>5. QED BY <1>4, <3>1, <3>2, <3>3, <3>4 DEF Worker
    <2>4. RepliesEarned'
      <3>1. CASE WorkerStarts(r) \/ WorkerIgnores(r)
        BY <2>3, <3>1 DEF WorkerStarts, WorkerIgnores, VerdictInv, RepliesEarned, Earned,
                              EarnedResult
      <3>2. CASE WorkerReplies(r)
        <4>1. job'[r] = "replied"
          BY <1>0, <3>2 DEF TypeOK, WorkerReplies
        <4>2. \A s \in {"success", "failure"} :
                 [status |-> s, elapsed |-> ran[r]] \in Results
          BY <1>0 DEF Results, WorkerStatuses, TypeOK
        <4>3. PICK res \in Results : Queue(r, "reply", res) /\ res.status \in WorkerStatuses
          BY <3>2, <4>2, ResultTypes DEF WorkerReplies, InternalError, WorkerStatuses
        <4>4. Earned([kind |-> "reply", result |-> res], job'[r])
          BY <4>1, <4>3 DEF Earned, EarnedResult
        <4>5. "reply" \in EventKinds
          BY DEF EventKinds
        <4>6. QED BY <1>0, <2>3, <4>3, <4>4, <4>5, QueueEarned DEF VerdictInv
      <3>3. CASE WorkerMisbehaves(r)
        <4>1. PICK k \in EventKinds \ {"reply"} : Queue(r, k, NoResult)
          BY <3>3 DEF WorkerMisbehaves
        <4>2. Earned([kind |-> k, result |-> NoResult], job'[r])
          BY <4>1 DEF Earned
        <4>3. QED BY <1>0, <2>3, <4>1, <4>2, QueueEarned, ResultTypes DEF VerdictInv
      <3>4. CASE WorkerReplacesResult(r)
        <4>1. job'[r] = "foreign" /\ "reply" \in EventKinds
          BY <1>0, <3>4 DEF TypeOK, WorkerReplacesResult, EventKinds
        <4>2. PICK res \in ForeignResults : Queue(r, "reply", res)
          BY <3>4 DEF WorkerReplacesResult
        <4>3. Earned([kind |-> "reply", result |-> res], job'[r])
          BY <4>1, <4>2 DEF Earned, EarnedResult
        <4>4. res \in Results
          BY ForeignResultsAssumption
        <4>5. QED BY <1>0, <2>3, <4>1, <4>2, <4>3, <4>4, QueueEarned DEF VerdictInv
      <3>5. QED BY <1>4, <3>1, <3>2, <3>3, <3>4 DEF Worker
    <2>5. VerdictIsEarned' /\ FiredResolves'
      BY <2>1, <2>2, <2>3 DEF VerdictInv, VerdictIsEarned, FiredResolves
    <2>6. QED BY <1>0, <2>4, <2>5 DEF VerdictInv
  <1>5. ASSUME NEW e \in Reasons, Dispose(e) PROVE VerdictInv'
    <2>1. \A q \in Requests :
            /\ call[q] = "resolved" <=> call'[q] = "resolved"
            /\ timer[q] = "fired" <=> timer'[q] = "fired"
      BY <1>0, <1>5 DEF TypeOK, Dispose, ClearTimeout
    <2>2. UNCHANGED <<result, events, job, age>>
      BY <1>5 DEF Dispose
    <2>3. VerdictIsEarned' /\ FiredResolves'
      BY <2>1, <2>2 DEF VerdictInv, VerdictIsEarned, FiredResolves
    <2>4. RepliesEarned'
      BY <2>2 DEF VerdictInv, RepliesEarned, Earned
    <2>5. QED BY <1>0, <2>3, <2>4 DEF VerdictInv
  <1>6. CASE Tick
    <2>1. UNCHANGED <<call, result, timer, events, job>>
      BY <1>6 DEF Tick
    <2>2. \A q \in Requests : age[q] >= TimeLimit => age'[q] >= TimeLimit
      BY <1>0, <1>6, TimeLimitAssumption DEF TypeOK, Tick, Later, Horizon
    <2>3. VerdictIsEarned' /\ FiredResolves'
      BY <2>1, <2>2 DEF VerdictInv, VerdictIsEarned, FiredResolves
    <2>4. RepliesEarned'
      BY <2>1 DEF VerdictInv, RepliesEarned, Earned
    <2>5. QED BY <1>0, <2>3, <2>4 DEF VerdictInv
  <1>7. CASE UNCHANGED vars
    BY <1>0, <1>7 DEF vars, VerdictInv, VerdictIsEarned, FiredResolves, RepliesEarned, Earned
  <1>8. QED BY <1>1, <1>2, <1>3, <1>4, <1>5, <1>6, <1>7 DEF Next

\* No program is failed for time it did not have, and no verdict of a program
\* is one its own worker did not send.
THEOREM VerdictsEarned == Spec => []VerdictIsEarned
  <1>1. VerdictInv => VerdictIsEarned
    BY DEF VerdictInv
  <1>2. QED BY <1>1, InitVerdict, NextVerdict, PTL DEF Spec
-----------------------------------------------------------------------------
(* Steps *)

InertStep ==
    \A r \in Requests :
         call[r] \in {"resolved", "rejected"} =>
           /\ call'[r] = call[r] /\ result'[r] = result[r] /\ error'[r] = error[r]
           /\ worker'[r] = worker[r] /\ timer'[r] = timer[r]
           /\ r \notin active'

\* A second finish(), or one after dispose(), has nothing left to change.
LEMMA FinishInert ==
    ASSUME PortInv, NEW r \in Requests, NEW res \in Results,
           NEW t \in {"none", "armed", "cleared", "fired"},
           call[r] # "idle", worker[r] # "none",
           t = timer[r] \/ (timer[r] = "armed" /\ t = "fired"),
           Finish(r, res, t)
    PROVE  InertStep
  <1>1. \A q \in Requests \ {r} :
           call[q] \in {"resolved", "rejected"} => q \notin active'
    BY FinishStep DEF PortInv, ResourcesMatchCalls
  <1>2. \A q \in Requests \ {r} :
           /\ call'[q] = call[q] /\ result'[q] = result[q] /\ timer'[q] = timer[q]
           /\ error'[q] = error[q] /\ worker'[q] = worker[q]
    BY FinishStep, FinishVerdict
  <1>3. ASSUME call[r] \in {"resolved", "rejected"}
        PROVE  /\ call'[r] = call[r] /\ result'[r] = result[r] /\ error'[r] = error[r]
               /\ worker'[r] = worker[r] /\ timer'[r] = timer[r] /\ r \notin active'
    <2>1. timer[r] # "armed" /\ worker[r] = "terminated"
      BY <1>3 DEF PortInv, ResourcesMatchCalls, TypeOK
    <2>2. timer'[r] = timer[r]
      BY <2>1, FinishVerdict DEF ClearTimeout
    <2>3. worker'[r] = "terminated"
      BY <2>1 DEF PortInv, TypeOK, Finish
    <2>4. call'[r] = call[r] /\ result'[r] = result[r]
      BY <1>3, FinishVerdict
    <2>5. QED BY <2>1, <2>2, <2>3, <2>4, FinishStep
  <1>4. QED BY <1>1, <1>2, <1>3 DEF InertStep

\* No step, of whichever actor, changes what a settled call has become.
LEMMA StepInert == PortInv /\ [Next]_vars => [InertStep]_vars
  <1> SUFFICES ASSUME PortInv, Next PROVE InertStep
    OBVIOUS
  <1> USE DEF portVars, workerVars, timeVars
  <1>0. TypeOK
    BY DEF PortInv
  <1>1. ASSUME NEW r \in Requests, Execute(r) PROVE InertStep
    <2>1. /\ call[r] = "idle"
          /\ \A q \in Requests \ {r} :
               /\ call'[q] = call[q] /\ result'[q] = result[q] /\ error'[q] = error[q]
               /\ worker'[q] = worker[q] /\ timer'[q] = timer[q]
               /\ q \in active' <=> q \in active
      <3>1. CASE ExecuteDisposed(r) \/ ExecuteNoWorker(r)
        BY <1>0, <3>1 DEF TypeOK, ExecuteDisposed, ExecuteNoWorker, Reject
      <3>2. CASE ExecuteNotPosted(r)
        BY <1>0, <3>2 DEF TypeOK, ExecuteNotPosted, Reject
      <3>3. CASE ExecutePosted(r)
        BY <1>0, <3>3 DEF TypeOK, ExecutePosted
      <3>4. QED BY <1>1, <3>1, <3>2, <3>3 DEF Execute
    <2>2. QED BY <2>1 DEF InertStep, PortInv, ResourcesMatchCalls
  <1>2. ASSUME NEW r \in Requests, DispatchEvent(r) PROVE InertStep
    <2>1. events[r] \in Seq(Events) /\ events[r] # <<>>
      BY <1>0, <1>2 DEF TypeOK, DispatchEvent
    <2>2. Believed(Head(events[r])) \in Results
      BY <2>1, BelievedType
    <2>3. call[r] # "idle" /\ worker[r] # "none"
      BY <2>1 DEF PortInv, SettledMeansEnded
    <2>4. timer[r] \in {"none", "armed", "cleared", "fired"}
      BY <1>0 DEF TypeOK
    <2>5. QED BY <1>2, <2>2, <2>3, <2>4, FinishInert DEF DispatchEvent
  <1>3. ASSUME NEW r \in Requests, TimerFires(r) PROVE InertStep
    <2>1. timer[r] = "armed" /\ call[r] # "idle" /\ worker[r] # "none"
      BY <1>3 DEF TimerFires, TimerDue, PortInv, ResourcesMatchCalls
    <2>2. QED BY <1>3, <2>1, FinishInert, ResultTypes DEF TimerFires
  <1>4. ASSUME NEW r \in Requests, Worker(r) PROVE InertStep
    BY <1>4 DEF Worker, WorkerStarts, WorkerIgnores, WorkerReplies, WorkerMisbehaves,
                WorkerReplacesResult, InertStep, PortInv, ResourcesMatchCalls
  <1>5. ASSUME NEW e \in Reasons, Dispose(e) PROVE InertStep
    BY <1>0, <1>5 DEF TypeOK, Dispose, InertStep, PortInv, ResourcesMatchCalls
  <1>6. CASE Tick
    BY <1>6 DEF Tick, InertStep, PortInv, ResourcesMatchCalls
  <1>7. QED BY <1>1, <1>2, <1>3, <1>4, <1>5, <1>6 DEF Next

\* A settled call keeps its outcome and holds nothing, whatever comes late.
THEOREM SettledInert == Spec => SettledIsInert
  <1>1. PortInv /\ [Next]_vars => [\A r \in Requests :
         call[r] \in {"resolved", "rejected"} =>
           /\ call'[r] = call[r] /\ result'[r] = result[r] /\ error'[r] = error[r]
           /\ worker'[r] = worker[r] /\ timer'[r] = timer[r]
           /\ r \notin active']_vars
    BY StepInert DEF InertStep
  <1>2. QED BY <1>1, InitPort, NextPort, PTL DEF Spec, SettledIsInert

-----------------------------------------------------------------------------
(* Refinement *)

\* Every step of the port is a step of the service, or hidden from its callers.
LEMMA ServiceStep == PortInv /\ [Next]_vars => [Service!Next]_(Service!svars)
  <1> SUFFICES ASSUME PortInv, [Next]_vars PROVE [Service!Next]_(Service!svars)
    OBVIOUS
  <1> USE DEF portVars, workerVars, timeVars
  <1>0. TypeOK
    BY DEF PortInv
  <1>1. ASSUME NEW r \in Requests, Execute(r)
        PROVE  Service!Accept(r) \/ Service!Refuse(r)
    <2>1. CASE ExecuteDisposed(r) \/ ExecuteNoWorker(r) \/ ExecuteNotPosted(r)
      BY <2>1 DEF ExecuteDisposed, ExecuteNoWorker, ExecuteNotPosted, Reject,
                  Service!Refuse
    <2>2. CASE ExecutePosted(r)
      BY <2>2 DEF ExecutePosted, Alive, Service!Accept
    <2>3. QED BY <1>1, <2>1, <2>2 DEF Execute
  <1>2. ASSUME NEW r \in Requests, NEW res \in Results,
               NEW t \in {"none", "armed", "cleared", "fired"},
               Finish(r, res, t), disposed' = disposed
        PROVE  Service!Answer(r) \/ UNCHANGED call
    <2>1. CASE settled[r]
      BY <1>2, <2>1 DEF Finish
    <2>2. CASE ~settled[r]
      <3>1. Resolve(r, res)
        BY <1>2, <2>2 DEF Finish
      <3>2. CASE call[r] = "pending"
        BY <1>0, <1>2, <3>1, <3>2 DEF TypeOK, Resolve, Service!Answer
      <3>3. CASE call[r] # "pending"
        BY <1>0, <3>1, <3>3 DEF TypeOK, Resolve
      <3>4. QED BY <3>2, <3>3
    <2>3. QED BY <2>1, <2>2
  <1>3. ASSUME NEW r \in Requests, DispatchEvent(r)
        PROVE  Service!Answer(r) \/ UNCHANGED <<call, disposed>>
    <2>1. events[r] \in Seq(Events) /\ events[r] # <<>>
      BY <1>0, <1>3 DEF TypeOK, DispatchEvent
    <2>2. Believed(Head(events[r])) \in Results
      BY <2>1, BelievedType
    <2>3. timer[r] \in {"none", "armed", "cleared", "fired"}
      BY <1>0 DEF TypeOK
    <2>4. QED BY <1>2, <1>3, <2>2, <2>3 DEF DispatchEvent
  <1>4. ASSUME NEW r \in Requests, TimerFires(r)
        PROVE  Service!Answer(r) \/ UNCHANGED <<call, disposed>>
    BY <1>2, <1>4, ResultTypes DEF TimerFires
  <1>5. ASSUME NEW e \in Reasons, Dispose(e) PROVE Service!Close
    <2>1. disposed' # NoError
      BY <1>5, ErrorsAssumption DEF Dispose, FirstReason
    <2>2. call' = [r \in Requests |-> IF call[r] = "pending" THEN "rejected" ELSE call[r]]
      BY <1>5 DEF Dispose, PortInv, ResourcesMatchCalls
    <2>3. QED BY <2>1, <2>2 DEF Service!Close
  <1>6. ASSUME (\E r \in Requests : Worker(r)) \/ Tick \/ UNCHANGED vars
        PROVE  UNCHANGED <<call, disposed>>
    BY <1>6 DEF Worker, WorkerStarts, WorkerIgnores, WorkerReplies, WorkerMisbehaves,
                WorkerReplacesResult, Tick, vars
  <1>7. QED
    BY <1>1, <1>3, <1>4, <1>5, <1>6 DEF Next, Service!Next, Service!svars

\* BrowserExecutorPort implements the safety part of ExecutionService.
THEOREM ServiceSafety == Spec => Service!Safe
  <1>1. Init => Service!Init
    BY DEF Init, Service!Init
  <1>2. QED BY <1>1, InitPort, NextPort, ServiceStep, PTL DEF Spec, Service!Safe
=============================================================================
