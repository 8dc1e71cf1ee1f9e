---------------------------- MODULE JudgeService ----------------------------
(***************************************************************************)
(* What a JudgeRuntime promises to the callers of judge(), with bootstrap, *)
(* ports, workers and tests hidden: a call gets the result of its judge or *)
(* the error of its judge, once there is one; terminate() comes before all *)
(* that has not been settled by then and leaves nobody waiting.            *)
(***************************************************************************)
CONSTANTS Calls     \* the calls of judge()

VARIABLES
    promise,    \* promise[c]: none, pending, resolved or rejected
    rejectedBy, \* rejectedBy[c]: whose error it was rejected with
    judged,     \* judged[c]: how the core's judge ended: none, resolved, rejected
    terminated  \* TRUE once terminate() was called

svars == <<promise, rejectedBy, judged, terminated>>

Init == /\ promise = [c \in Calls |-> "none"]
        /\ rejectedBy = [c \in Calls |-> "nobody"]
        /\ judged = [c \in Calls |-> "none"]
        /\ terminated = FALSE

Accept(c) == /\ ~terminated
             /\ promise[c] = "none"
             /\ promise' = [promise EXCEPT ![c] = "pending"]
             /\ UNCHANGED <<rejectedBy, judged, terminated>>

Refuse(c) == /\ terminated
             /\ promise[c] = "none"
             /\ promise' = [promise EXCEPT ![c] = "rejected"]
             /\ rejectedBy' = [rejectedBy EXCEPT ![c] = "terminate"]
             /\ UNCHANGED <<judged, terminated>>

\* The core's judge of an accepted call ends, maybe long after terminate().
Decide(c) == /\ promise[c] # "none"
             /\ judged[c] = "none"
             /\ \E end \in {"resolved", "rejected"} : judged' = [judged EXCEPT ![c] = end]
             /\ UNCHANGED <<promise, rejectedBy, terminated>>

Answer(c) == /\ ~terminated
             /\ promise[c] = "pending"
             /\ judged[c] # "none"
             /\ promise' = [promise EXCEPT ![c] = judged[c]]
             /\ rejectedBy' = [rejectedBy EXCEPT ![c] = IF judged[c] = "rejected" THEN "judge" ELSE @]
             /\ UNCHANGED <<judged, terminated>>

Terminate ==
    LET waiting == {c \in Calls : promise[c] = "pending"}
    IN  /\ ~terminated
        /\ terminated' = TRUE
        /\ promise' = [c \in Calls |-> IF c \in waiting THEN "rejected" ELSE promise[c]]
        /\ rejectedBy' = [c \in Calls |-> IF c \in waiting THEN "terminate" ELSE rejectedBy[c]]
        /\ UNCHANGED judged

Next == (\E c \in Calls : Accept(c) \/ Refuse(c) \/ Decide(c) \/ Answer(c)) \/ Terminate

Safe == Init /\ [][Next]_svars

\* A caller learns what its judge has decided.
Spec == Safe /\ \A c \in Calls : WF_svars(Answer(c))
=============================================================================
