--------------------------- MODULE CompilerWorker ---------------------------
(***************************************************************************)
(* runtimeWorker.ts: the compiler worker.  Its onmessage handler is async, *)
(* so handlers of several requests interleave at every await; they share   *)
(* the sysroot, the compiler module's promise, the compiler made from them *)
(* and the URL of the bundle.                                              *)
(***************************************************************************)
EXTENDS Naturals, Sequences

CONSTANTS
    InitIds,    \* ids of init requests
    CompileIds, \* ids of compile requests
    SysrootOf,  \* SysrootOf[i]: the archive init request i carries
    UrlOf,      \* UrlOf[i]: the bundle URL it carries
    None        \* not there yet

WIds == InitIds \cup CompileIds
Sysroots == {SysrootOf[i] : i \in InitIds}
Urls == {UrlOf[i] : i \in InitIds}

\* No request carries the empty URL, which the code takes for none: a page resolves
\* its URL against a base (resolveBootstrapOptions.ts), and the result is never empty.
ASSUME RequestsAssumption == /\ InitIds \cap CompileIds = {}
                             /\ None \notin Sysroots \cup Urls

VARIABLES
    sysroot,    \* storedSysrootEntries, as the archive it came from
    module,     \* the life of yowaspCompilerModulePromise
    compiler,   \* compilerWithFlags, as the sysroot it was made with
    url,        \* yowaspClangBundleUrl
    handler,    \* handler[id]: where the handler of request id is
    uses,       \* uses[id]: the sysroot compile request id is compiled with
    inbox,      \* requests not yet received
    outbox      \* responses posted, not yet dispatched

globals == <<sysroot, module, compiler, url>>
workerVars == <<globals, handler, uses>>
wvars == <<workerVars, inbox, outbox>>

HandlerStates == {"none", "dropped", "sysroot", "module", "compile", "done"}

WorkerTypeOK ==
    /\ sysroot \in Sysroots \cup {None}
    /\ module \in {"none", "loading", "loaded", "failed"}
    /\ compiler \in Sysroots \cup {None}
    /\ url \in Urls \cup {None}
    /\ handler \in [WIds -> HandlerStates]
    /\ uses \in [WIds -> Sysroots \cup {None}]

WorkerInit ==
    /\ sysroot = None
    /\ module = "none"
    /\ compiler = None
    /\ url = None
    /\ handler = [id \in WIds |-> "none"]
    /\ uses = [id \in WIds |-> None]

-----------------------------------------------------------------------------
Enter(id, state) == handler' = [handler EXCEPT ![id] = state]

\* The response that ends a handler; every exception becomes internal-error.
Reply(id, type) == /\ Enter(id, "done")
                   /\ outbox' = Append(outbox, [type |-> type, id |-> id])

\* loadCompilerModule(): one promise, made once and kept even when it failed.
LoadCompilerModule == module' = IF module = "none" THEN "loading" ELSE module

\* Mutant: any bundle URL is as good as another.
AnyUrl(id) == TRUE

UrlAgrees(id) == url \in {None, UrlOf[id]}

\* A message that isWorkerRequest() refuses is dropped without an answer.
ReceiveRefused ==
    /\ inbox # <<>>
    /\ ~Head(inbox).valid
    /\ inbox' = Tail(inbox)
    /\ Enter(Head(inbox).id, "dropped")
    /\ UNCHANGED <<globals, uses, outbox>>

\* The URL is kept although loading has not succeeded yet.
ReceiveInit ==
    /\ inbox # <<>>
    /\ Head(inbox).valid
    /\ inbox' = Tail(inbox)
    /\ LET id == Head(inbox).id IN
         /\ id \in InitIds
         /\ \/ ~UrlAgrees(id) /\ Reply(id, "internal-error") /\ UNCHANGED url
            \/ UrlAgrees(id) /\ url' = UrlOf[id] /\ Enter(id, "sysroot") /\ UNCHANGED outbox
    /\ UNCHANGED <<sysroot, module, compiler, uses>>

\* await loadSysrootEntriesFromArchive()
SysrootEnds(id) ==
    /\ handler[id] = "sysroot"
    /\ \/ /\ sysroot' = SysrootOf[id]
          /\ LoadCompilerModule
          /\ Enter(id, "module")
          /\ UNCHANGED outbox
       \/ /\ Reply(id, "internal-error")
          /\ UNCHANGED <<sysroot, module>>
    /\ UNCHANGED <<compiler, url, uses, inbox>>

\* loadVendoredYowaspClangFromBundleUrl(): what was imported has to be a module
\* with the two commands; an import that rejects is as good as one without them.
LoadVendoredYowaspClang(imported) == IF imported = "commands" THEN "loaded" ELSE "failed"

\* The end of yowaspCompilerModulePromise.
ModuleEnds == /\ module = "loading"
              /\ \E imported \in {"commands", "something else", "nothing"} :
                   module' = LoadVendoredYowaspClang(imported)
              /\ UNCHANGED <<sysroot, compiler, url, handler, uses, inbox, outbox>>

\* Mutant: a handler goes on when the module was asked for.
ModuleAsked == module \in {"loading", "loaded"}

ModuleLoaded == module = "loaded"

ModuleFailed(id) ==
    /\ handler[id] = "module"
    /\ module = "failed"
    /\ Reply(id, "internal-error")
    /\ UNCHANGED <<globals, uses, inbox>>

InitAnswered(id) ==
    /\ id \in InitIds
    /\ handler[id] = "module"
    /\ ModuleLoaded
    /\ Reply(id, "init-result")
    /\ UNCHANGED <<globals, uses, inbox>>

\* With a compiler made already the compilation starts at once; without one the
\* handler awaits the module, and a second handler may do so meanwhile.
ReceiveCompile ==
    /\ inbox # <<>>
    /\ Head(inbox).valid
    /\ inbox' = Tail(inbox)
    /\ LET id == Head(inbox).id IN
         /\ id \in CompileIds
         /\ \/ /\ compiler # None
               /\ Enter(id, "compile")
               /\ uses' = [uses EXCEPT ![id] = compiler]
               /\ UNCHANGED <<module, outbox>>
            \/ /\ compiler = None
               /\ sysroot # None
               /\ LoadCompilerModule
               /\ Enter(id, "module")
               /\ UNCHANGED <<uses, outbox>>
            \/ /\ compiler = None
               /\ sysroot = None
               /\ Reply(id, "internal-error")
               /\ UNCHANGED <<module, uses>>
    /\ UNCHANGED <<sysroot, compiler, url>>

\* The handler that awaited the module makes the compiler from the sysroot of
\* this moment and replaces the one another handler may have made meanwhile.
CompilerMade(id) ==
    /\ id \in CompileIds
    /\ handler[id] = "module"
    /\ ModuleLoaded
    /\ compiler' = sysroot
    /\ uses' = [uses EXCEPT ![id] = sysroot]
    /\ Enter(id, "compile")
    /\ UNCHANGED <<sysroot, module, url, inbox, outbox>>

\* Mutant: a compilation that throws is not answered.
ThrowIsSilent(id) == Enter(id, "done") /\ UNCHANGED outbox

\* Mutant: the error is posted as it was caught.
ThrowPostsError(id) == /\ Enter(id, "done")
                       /\ outbox' = Append(outbox, [id |-> id])

CompileThrows(id) == Reply(id, "internal-error")

\* Mutant: the reply to a compile request has the type of the other one.
CompileEndsAsInit(id) ==
    /\ handler[id] = "compile"
    /\ Reply(id, "init-result") \/ CompileThrows(id)
    /\ UNCHANGED <<globals, uses, inbox>>

CompileEnds(id) ==
    /\ handler[id] = "compile"
    /\ Reply(id, "compile-result") \/ CompileThrows(id)
    /\ UNCHANGED <<globals, uses, inbox>>

Resumes(id) == \/ SysrootEnds(id) \/ ModuleFailed(id) \/ InitAnswered(id)
               \/ CompilerMade(id) \/ CompileEnds(id)

Receives == ReceiveRefused \/ ReceiveInit \/ ReceiveCompile

WorkerNext == Receives \/ ModuleEnds \/ \E id \in WIds : Resumes(id)

-----------------------------------------------------------------------------
(* A page that posts every request once, in any order, well-formed or not. *)

PagePosts(id) ==
    /\ handler[id] = "none"
    /\ \A i \in DOMAIN inbox : inbox[i].id # id
    /\ \E valid \in BOOLEAN : inbox' = Append(inbox, [id |-> id, valid |-> valid])
    /\ UNCHANGED <<workerVars, outbox>>

Next == WorkerNext \/ \E id \in WIds : PagePosts(id)

Init == WorkerInit /\ inbox = <<>> /\ outbox = <<>>

\* Decompression, import and clang all come to an end in a worker that lives.
Fairness == /\ WF_wvars(Receives)
            /\ WF_wvars(ModuleEnds)
            /\ \A id \in WIds : WF_wvars(Resumes(id))

Spec == Init /\ [][Next]_wvars /\ Fairness

-----------------------------------------------------------------------------
(* Properties *)

TypeOK == /\ WorkerTypeOK
          /\ inbox \in Seq([id : WIds, valid : BOOLEAN])
          /\ outbox \in Seq([type : {"init-result", "compile-result", "internal-error"},
                             id : WIds])

\* An init result is a promise kept: the bundle of that very request is loaded
\* and a sysroot is there, whatever other requests did at the same time; and no
\* compilation starts without the two.
InitResultMeansReady ==
    /\ \A i \in DOMAIN outbox : outbox[i].type = "init-result" =>
         sysroot # None /\ module = "loaded" /\ url = UrlOf[outbox[i].id]
    /\ \A id \in CompileIds : handler[id] = "compile" => uses[id] # None /\ module = "loaded"

\* A request whose handler started is answered in the end, even if another
\* request's handler failed or replaced the globals while it was suspended.
EveryRequestAnswered ==
    \A id \in WIds :
        handler[id] \in {"sysroot", "module", "compile"} ~>
          \E i \in DOMAIN outbox : outbox[i].id = id
=============================================================================
