-------------------------- MODULE CompilerWorkerProofs -------------------------
(***************************************************************************)
(* Proofs about CompilerWorker: what its interleaved handlers may rely on, *)
(* for any number of requests, archives and bundle URLs.                   *)
(***************************************************************************)
EXTENDS CompilerWorker, TLAPS

Types == {"init-result", "compile-result", "internal-error"}
Requests == [id : WIds, valid : BOOLEAN]
Responses == [type : Types, id : WIds]

\* A handler that was suspended finds what it was suspended with: the first URL is
\* the only one, and a sysroot, once there, is there for good.
SuspendedAreSafe ==
    /\ \A id \in InitIds : handler[id] \in {"sysroot", "module"} => url = UrlOf[id]
    /\ \A id \in WIds : handler[id] = "sysroot" => id \in InitIds
    /\ \A id \in WIds : handler[id] = "module" => sysroot # None
    /\ compiler # None => module = "loaded"

\* The two parts of InitResultMeansReady.
AnswersAreReady ==
    \A i \in DOMAIN outbox : outbox[i].type = "init-result" =>
        sysroot # None /\ module = "loaded" /\ url = UrlOf[outbox[i].id]
CompilesAreReady ==
    \A id \in CompileIds : handler[id] = "compile" => uses[id] # None /\ module = "loaded"

\* Only init requests are answered with an init result.
InitsOnly == \A i \in DOMAIN outbox : outbox[i].type = "init-result" => outbox[i].id \in InitIds

\* The inductive invariant.
WorkerInv == TypeOK /\ SuspendedAreSafe /\ AnswersAreReady /\ CompilesAreReady /\ InitsOnly

-----------------------------------------------------------------------------
LEMMA ConstantFacts ==
    /\ \A i \in InitIds : /\ SysrootOf[i] \in Sysroots /\ SysrootOf[i] # None
                          /\ UrlOf[i] \in Urls /\ UrlOf[i] # None
                          /\ i \in WIds
    /\ \A c \in CompileIds : c \in WIds /\ c \notin InitIds
  BY RequestsAssumption DEF Sysroots, Urls, WIds

LEMMA InitWorker == Init => WorkerInv
  BY DEF Init, WorkerInit, WorkerInv, TypeOK, WorkerTypeOK, HandlerStates, WIds, SuspendedAreSafe,
         AnswersAreReady, CompilesAreReady, InitsOnly

\* The first request of the inbox.
LEMMA HeadFacts ==
    ASSUME TypeOK, inbox # <<>>
    PROVE  /\ Head(inbox) \in Requests /\ Head(inbox).id \in WIds
           /\ Tail(inbox) \in Seq(Requests)
<1>1. inbox \in Seq(Requests)
  BY DEF TypeOK, Requests
<1>2. Head(inbox) \in Requests /\ Tail(inbox) \in Seq(Requests)
  BY <1>1
<1> QED
  BY <1>2 DEF Requests

\* What a reply leaves in the outbox.
LEMMA ReplyFacts ==
    ASSUME TypeOK, NEW id \in WIds, NEW type \in Types, Reply(id, type)
    PROVE  /\ outbox' \in Seq(Responses)
           /\ handler' \in [WIds -> HandlerStates]
           /\ handler'[id] = "done"
           /\ \A k \in WIds \ {id} : handler'[k] = handler[k]
           /\ \A i \in DOMAIN outbox' :
                \/ i \in DOMAIN outbox /\ outbox'[i] = outbox[i]
                \/ outbox'[i] = [type |-> type, id |-> id]
<1>1. outbox \in Seq(Responses) /\ [type |-> type, id |-> id] \in Responses
  BY DEF TypeOK, Responses, Types
<1>2. outbox' = Append(outbox, [type |-> type, id |-> id]) /\ handler' = [handler EXCEPT ![id] = "done"]
  BY DEF Reply, Enter
<1> QED
  BY <1>1, <1>2 DEF TypeOK, WorkerTypeOK, HandlerStates

\* A handler ends with an error and changes nothing else but the inbox.
LEMMA ErrorKeeps ==
    ASSUME WorkerInv, NEW id \in WIds, Reply(id, "internal-error"), UNCHANGED <<globals, uses>>,
           inbox' \in Seq(Requests)
    PROVE  WorkerInv'
<1>1. TypeOK /\ "internal-error" \in Types
  BY DEF WorkerInv, Types
<1>2. TypeOK'
  BY <1>1, ReplyFacts DEF TypeOK, WorkerTypeOK, globals, Requests, Responses, Types
<1>3. SuspendedAreSafe' /\ CompilesAreReady'
  BY <1>1, ReplyFacts DEF WorkerInv, SuspendedAreSafe, CompilesAreReady, globals, WIds
<1>4. AnswersAreReady' /\ InitsOnly'
  BY <1>1, ReplyFacts DEF WorkerInv, AnswersAreReady, InitsOnly, globals
<1> QED
  BY <1>2, <1>3, <1>4 DEF WorkerInv

LEMMA StepWorker == WorkerInv /\ [Next]_wvars => WorkerInv'
<1> SUFFICES ASSUME WorkerInv, [Next]_wvars PROVE WorkerInv'
  OBVIOUS
<1>0. /\ TypeOK /\ WorkerTypeOK /\ inbox \in Seq(Requests) /\ outbox \in Seq(Responses)
      /\ handler \in [WIds -> HandlerStates] /\ uses \in [WIds -> Sysroots \cup {None}]
  BY DEF WorkerInv, TypeOK, WorkerTypeOK, Requests, Responses, Types
<1> USE DEF globals
<1>1. CASE UNCHANGED wvars
  BY <1>1 DEF wvars, workerVars, WorkerInv, TypeOK, WorkerTypeOK, SuspendedAreSafe, AnswersAreReady,
              CompilesAreReady, InitsOnly
<1>2. CASE ReceiveRefused
  <2> DEFINE id == Head(inbox).id
  <2>1. /\ id \in WIds /\ inbox' \in Seq(Requests) /\ handler' = [handler EXCEPT ![id] = "dropped"]
        /\ UNCHANGED <<globals, uses, outbox>>
    BY <1>0, <1>2, HeadFacts DEF ReceiveRefused, Enter
  <2> HIDE DEF id
  <2>2. TypeOK'
    BY <1>0, <2>1 DEF TypeOK, WorkerTypeOK, HandlerStates, Requests, Responses, Types
  <2> QED
    BY <1>0, <2>1, <2>2 DEF WorkerInv, SuspendedAreSafe, AnswersAreReady, CompilesAreReady, InitsOnly, WIds
<1>3. CASE ReceiveInit
  <2> DEFINE id == Head(inbox).id
  <2>1. /\ id \in InitIds /\ id \in WIds /\ inbox' \in Seq(Requests)
        /\ UNCHANGED <<sysroot, module, compiler, uses>>
    BY <1>0, <1>3, HeadFacts DEF ReceiveInit
  <2>2. CASE Reply(id, "internal-error") /\ UNCHANGED url
    BY <2>1, <2>2, ErrorKeeps
  <2>3. CASE UrlAgrees(id) /\ url' = UrlOf[id] /\ Enter(id, "sysroot") /\ UNCHANGED outbox
    <3> HIDE DEF id
    <3>1. handler' = [handler EXCEPT ![id] = "sysroot"] /\ (url # None => url' = url) /\ url' \in Urls
      BY <2>1, <2>3, ConstantFacts DEF UrlAgrees, Enter
    <3>2. TypeOK'
      BY <1>0, <2>1, <2>3, <3>1 DEF TypeOK, WorkerTypeOK, HandlerStates, Requests, Responses, Types
    <3>3. SuspendedAreSafe'
      BY <1>0, <2>1, <2>3, <3>1, ConstantFacts DEF WorkerInv, SuspendedAreSafe, WIds
    <3>4. AnswersAreReady' /\ InitsOnly'
      BY <2>1, <2>3, <3>1, ConstantFacts DEF WorkerInv, AnswersAreReady, InitsOnly
    <3>5. CompilesAreReady'
      BY <1>0, <2>1, <3>1 DEF WorkerInv, CompilesAreReady, WIds
    <3> QED
      BY <3>2, <3>3, <3>4, <3>5 DEF WorkerInv
  <2> QED
    BY <1>3, <2>2, <2>3 DEF ReceiveInit
<1>4. CASE ReceiveCompile
  <2> DEFINE id == Head(inbox).id
  <2>1. /\ id \in CompileIds /\ id \in WIds /\ id \notin InitIds /\ inbox' \in Seq(Requests)
        /\ UNCHANGED <<sysroot, compiler, url>>
    BY <1>0, <1>4, HeadFacts, ConstantFacts DEF ReceiveCompile
  <2>2. CASE /\ compiler # None /\ Enter(id, "compile") /\ uses' = [uses EXCEPT ![id] = compiler]
             /\ UNCHANGED <<module, outbox>>
    <3> HIDE DEF id
    <3>1. TypeOK'
      BY <1>0, <2>1, <2>2 DEF TypeOK, WorkerTypeOK, HandlerStates, Requests, Responses, Types, Enter
    <3>2. SuspendedAreSafe' /\ CompilesAreReady'
      BY <1>0, <2>1, <2>2 DEF WorkerInv, SuspendedAreSafe, CompilesAreReady, WIds, Enter
    <3> QED
      BY <2>1, <2>2, <3>1, <3>2 DEF WorkerInv, AnswersAreReady, InitsOnly
  <2>3. CASE /\ compiler = None /\ sysroot # None /\ LoadCompilerModule /\ Enter(id, "module")
             /\ UNCHANGED <<uses, outbox>>
    <3> HIDE DEF id
    <3>1. TypeOK'
      BY <1>0, <2>1, <2>3 DEF TypeOK, WorkerTypeOK, HandlerStates, Requests, Responses, Types, Enter,
                              LoadCompilerModule
    <3>2. SuspendedAreSafe' /\ CompilesAreReady'
      BY <1>0, <2>1, <2>3 DEF WorkerInv, SuspendedAreSafe, CompilesAreReady, WIds, Enter, LoadCompilerModule
    <3> QED
      BY <2>1, <2>3, <3>1, <3>2 DEF WorkerInv, AnswersAreReady, InitsOnly, LoadCompilerModule
  <2>4. CASE Reply(id, "internal-error") /\ UNCHANGED <<module, uses>>
    BY <2>1, <2>4, ErrorKeeps
  <2> QED
    BY <1>4, <2>2, <2>3, <2>4 DEF ReceiveCompile
<1>5. CASE ModuleEnds
  <2>1. /\ module = "loading" /\ module' \in {"loaded", "failed"}
        /\ UNCHANGED <<sysroot, compiler, url, handler, uses, inbox, outbox>>
    BY <1>5 DEF ModuleEnds, LoadVendoredYowaspClang
  <2> QED
    BY <1>0, <2>1 DEF WorkerInv, TypeOK, WorkerTypeOK, SuspendedAreSafe, AnswersAreReady,
                      CompilesAreReady, InitsOnly
<1>6. ASSUME NEW id \in WIds, SysrootEnds(id) PROVE WorkerInv'
  <2>1. CASE Reply(id, "internal-error") /\ UNCHANGED <<sysroot, module>>
    BY <1>0, <1>6, <2>1, ErrorKeeps DEF SysrootEnds
  <2>2. CASE sysroot' = SysrootOf[id] /\ LoadCompilerModule /\ Enter(id, "module") /\ UNCHANGED outbox
    <3>1. /\ handler[id] = "sysroot" /\ UNCHANGED <<compiler, url, uses, inbox>>
          /\ handler' = [handler EXCEPT ![id] = "module"]
      BY <1>6, <2>2 DEF SysrootEnds, Enter
    <3>2. /\ id \in InitIds /\ sysroot' # None /\ sysroot' \in Sysroots /\ url = UrlOf[id]
          /\ module = "loaded" => module' = "loaded"
          /\ module' \in {"none", "loading", "loaded", "failed"}
      BY <1>0, <2>2, <3>1, ConstantFacts DEF WorkerInv, SuspendedAreSafe, WorkerTypeOK, LoadCompilerModule
    <3>3. TypeOK'
      BY <1>0, <2>2, <3>1, <3>2 DEF TypeOK, WorkerTypeOK, HandlerStates, Requests, Responses, Types
    <3>4. SuspendedAreSafe' /\ CompilesAreReady'
      BY <1>0, <3>1, <3>2, ConstantFacts DEF WorkerInv, SuspendedAreSafe, CompilesAreReady
    <3>5. AnswersAreReady' /\ InitsOnly'
      BY <2>2, <3>1, <3>2 DEF WorkerInv, AnswersAreReady, InitsOnly
    <3> QED
      BY <3>3, <3>4, <3>5 DEF WorkerInv
  <2> QED
    BY <1>6, <2>1, <2>2 DEF SysrootEnds
<1>7. ASSUME NEW id \in WIds, ModuleFailed(id) PROVE WorkerInv'
  BY <1>0, <1>7, ErrorKeeps DEF ModuleFailed
<1>8. ASSUME NEW id \in WIds, InitAnswered(id) PROVE WorkerInv'
  <2>1. /\ id \in InitIds /\ handler[id] = "module" /\ module = "loaded" /\ Reply(id, "init-result")
        /\ UNCHANGED <<globals, uses, inbox>> /\ "init-result" \in Types
    BY <1>8 DEF InitAnswered, ModuleLoaded, Types
  <2>2. sysroot # None /\ url = UrlOf[id]
    BY <2>1 DEF WorkerInv, SuspendedAreSafe
  <2>3. TypeOK'
    BY <1>0, <2>1, ReplyFacts DEF TypeOK, WorkerTypeOK, Requests, Responses, Types
  <2>4. SuspendedAreSafe' /\ CompilesAreReady'
    BY <1>0, <2>1, ReplyFacts DEF WorkerInv, SuspendedAreSafe, CompilesAreReady, WIds
  <2>5. AnswersAreReady' /\ InitsOnly'
    BY <1>0, <2>1, <2>2, ReplyFacts DEF WorkerInv, AnswersAreReady, InitsOnly
  <2> QED
    BY <2>3, <2>4, <2>5 DEF WorkerInv
<1>9. ASSUME NEW id \in WIds, CompilerMade(id) PROVE WorkerInv'
  <2>1. /\ id \in CompileIds /\ handler[id] = "module" /\ module = "loaded" /\ compiler' = sysroot
        /\ uses' = [uses EXCEPT ![id] = sysroot] /\ handler' = [handler EXCEPT ![id] = "compile"]
        /\ UNCHANGED <<sysroot, module, url, inbox, outbox>>
    BY <1>9 DEF CompilerMade, ModuleLoaded, Enter
  <2>2. sysroot # None /\ id \notin InitIds
    BY <2>1, ConstantFacts DEF WorkerInv, SuspendedAreSafe
  <2>3. TypeOK'
    BY <1>0, <2>1 DEF TypeOK, WorkerTypeOK, HandlerStates, Requests, Responses, Types
  <2>4. SuspendedAreSafe' /\ CompilesAreReady'
    BY <1>0, <2>1, <2>2, ConstantFacts DEF WorkerInv, SuspendedAreSafe, CompilesAreReady
  <2> QED
    BY <2>1, <2>3, <2>4 DEF WorkerInv, AnswersAreReady, InitsOnly
<1>10. ASSUME NEW id \in WIds, CompileEnds(id) PROVE WorkerInv'
  <2>1. CASE Reply(id, "compile-result")
    <3>1. "compile-result" \in Types /\ UNCHANGED <<globals, uses, inbox>>
      BY <1>10 DEF CompileEnds, Types
    <3>2. TypeOK'
      BY <1>0, <2>1, <3>1, ReplyFacts DEF TypeOK, WorkerTypeOK, Requests, Responses, Types
    <3>3. SuspendedAreSafe' /\ CompilesAreReady'
      BY <1>0, <2>1, <3>1, ReplyFacts DEF WorkerInv, SuspendedAreSafe, CompilesAreReady, WIds
    <3>4. \A i \in DOMAIN outbox' : outbox'[i].type = "init-result" =>
              i \in DOMAIN outbox /\ outbox'[i] = outbox[i]
      <4>1. \A i \in DOMAIN outbox' :
              \/ i \in DOMAIN outbox /\ outbox'[i] = outbox[i]
              \/ outbox'[i] = [type |-> "compile-result", id |-> id]
        BY <1>0, <2>1, <3>1, ReplyFacts
      <4>2. [type |-> "compile-result", id |-> id].type # "init-result"
        OBVIOUS
      <4> QED
        BY <4>1, <4>2
    <3>5. AnswersAreReady' /\ InitsOnly'
      BY <3>1, <3>4 DEF WorkerInv, AnswersAreReady, InitsOnly
    <3> QED
      BY <3>2, <3>3, <3>5 DEF WorkerInv
  <2>2. CASE CompileThrows(id)
    BY <1>0, <1>10, <2>2, ErrorKeeps DEF CompileEnds, CompileThrows
  <2> QED
    BY <1>10, <2>1, <2>2 DEF CompileEnds
<1>11. ASSUME NEW id \in WIds, PagePosts(id) PROVE WorkerInv'
  <2>1. inbox' \in Seq(Requests) /\ UNCHANGED <<workerVars, outbox>>
    <3>1. PICK valid \in BOOLEAN : inbox' = Append(inbox, [id |-> id, valid |-> valid])
      BY <1>11 DEF PagePosts
    <3>2. [id |-> id, valid |-> valid] \in Requests
      BY DEF Requests
    <3> QED
      BY <1>0, <1>11, <3>1, <3>2 DEF PagePosts
  <2> QED
    BY <1>0, <2>1 DEF WorkerInv, TypeOK, WorkerTypeOK, SuspendedAreSafe, AnswersAreReady,
                      CompilesAreReady, InitsOnly, workerVars, Requests, Responses, Types
<1> QED
  BY <1>1, <1>2, <1>3, <1>4, <1>5, <1>6, <1>7, <1>8, <1>9, <1>10, <1>11
     DEF Next, WorkerNext, Receives, Resumes

-----------------------------------------------------------------------------
\* The inductive invariant holds: whatever the interleaving of the handlers.
THEOREM WorkerInvariant == Spec => []WorkerInv
  BY InitWorker, StepWorker, PTL DEF Spec

\* The worker's globals, its handlers and its queues keep their types.
THEOREM TypeCorrect == Spec => []TypeOK
<1>1. WorkerInv => TypeOK
  BY DEF WorkerInv
<1> QED
  BY <1>1, WorkerInvariant, PTL

\* runtimeWorker.ts answers an init request only with its own bundle loaded and a
\* sysroot stored, and compiles only with both, for any number of requests.
THEOREM ReadyMeansReady == Spec => []InitResultMeansReady
<1>1. WorkerInv => InitResultMeansReady
  BY DEF WorkerInv, AnswersAreReady, CompilesAreReady, InitResultMeansReady
<1> QED
  BY <1>1, WorkerInvariant, PTL
=============================================================================
