-------------------------- MODULE ExecutionService --------------------------
(***************************************************************************)
(* What BrowserExecutorPort promises to its callers, with the workers,     *)
(* timers and queued events hidden: every call is answered exactly once,   *)
(* within the time limit's reach or not at all by the service's closing.   *)
(***************************************************************************)
CONSTANTS Requests      \* the calls made during the port's life

VARIABLES
    status,     \* status[r]: where the call r is in its life
    closed      \* TRUE once the service was closed

svars == <<status, closed>>

Statuses == {"idle", "pending", "resolved", "rejected"}

Init == /\ status = [r \in Requests |-> "idle"]
        /\ closed = FALSE

\* A new call is served, or rejected at once (the only choice once closed).
Accept(r) == /\ status[r] = "idle"
             /\ ~closed
             /\ status' = [status EXCEPT ![r] = "pending"]
             /\ UNCHANGED closed

Refuse(r) == /\ status[r] = "idle"
             /\ status' = [status EXCEPT ![r] = "rejected"]
             /\ UNCHANGED closed

Answer(r) == /\ status[r] = "pending"
             /\ status' = [status EXCEPT ![r] = "resolved"]
             /\ UNCHANGED closed

\* Closing rejects every call in progress in the same step.
Close == /\ closed' = TRUE
         /\ status' = [r \in Requests |->
                         IF status[r] = "pending" THEN "rejected" ELSE status[r]]

Next == \/ \E r \in Requests : Accept(r) \/ Refuse(r) \/ Answer(r)
        \/ Close

Safe == Init /\ [][Next]_svars

\* A call in progress is answered sooner or later, whatever its program does.
Spec == Safe /\ \A r \in Requests : WF_svars(Answer(r))
=============================================================================
