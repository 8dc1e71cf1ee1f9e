--------------------------- MODULE CompileService ---------------------------
(***************************************************************************)
(* What BrowserCompilerPort promises to its callers, with the init, the    *)
(* worker and the table of requests hidden: a call is settled once, and a  *)
(* service that failed settles all there is and all that comes, for good.  *)
(***************************************************************************)
CONSTANTS Requests      \* the calls made during the port's life

VARIABLES
    status,     \* status[r]: where the call r is in its life
    failed      \* TRUE once the service has crashed or was closed

svars == <<status, failed>>

Init == /\ status = [r \in Requests |-> "idle"]
        /\ failed = FALSE

Becomes(r, from, to) == /\ status[r] = from
                        /\ status' = [status EXCEPT ![r] = to]
                        /\ UNCHANGED failed

Accept(r) == ~failed /\ Becomes(r, "idle", "pending")

\* A service that failed accepts nothing.
Refuse(r) == failed /\ Becomes(r, "idle", "rejected")

\* A request for another language is answered without being accepted.
Dismiss(r) == Becomes(r, "idle", "resolved")

\* Nothing is compiled by a service that failed, ...
Answer(r) == ~failed /\ Becomes(r, "pending", "resolved")

\* ... but a call that waits may be rejected at any time.
Reject(r) == Becomes(r, "pending", "rejected")

\* The failure rejects those it can reach at once, the others soon after it.
Fail == /\ failed' = TRUE
        /\ \E reached \in SUBSET {r \in Requests : status[r] = "pending"} :
             status' = [r \in Requests |-> IF r \in reached THEN "rejected" ELSE status[r]]

Next == \/ \E r \in Requests : \/ Accept(r) \/ Refuse(r) \/ Dismiss(r)
                               \/ Answer(r) \/ Reject(r)
        \/ Fail

Safe == Init /\ [][Next]_svars

\* After the failure no call stays pending.
Spec == Safe /\ \A r \in Requests : WF_svars(failed /\ Reject(r))
=============================================================================
