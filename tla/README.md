# A verification of the in-browser Wasm judge runtime

TLA+ models of `packages/core` and `packages/runtime-browser`, checked with TLC
on small instances, and proofs about them checked with TLAPS. Paths below are
relative to `src/packages/`; `PROJECT.json` maps every definition to its lines.

## The system

A page creates a runtime with `createJudgeRuntime()` and calls `judge()` on it.
A submission is compiled once in a long-lived *compiler worker*, and the program
is then run once per test, each time in an *execution worker* of its own.

| part | state it keeps | operations | talks to |
|---|---|---|---|
| executor port (`adapters/executor/BrowserExecutorPort.ts`) | map of active executions, disposal error; per call a `settled` flag, a timer and a worker | `execute`, `dispose`, listeners for message, messageerror, error, the timer | one execution worker per call, by messages |
| execution worker (`worker/executionWorker.ts`) | none | one message handler | WASI executor, by call |
| WASI executor (`internal/wasiExecutor.ts`, `internal/wasi/`) | memory, exit code, stdin offset, collected output | compile, instantiate, run, the WASI imports, final verdict | the guest program, by calls both ways |
| compiler port (`adapters/compiler/BrowserCompilerPort.ts`) | pending table, init promise, fatal error | `init`, `compile`, `dispose`, listeners | the compiler worker by messages, `fetch` |
| compiler worker (`worker/runtimeWorker.ts`) | sysroot, module promise, compiler, bundle URL | async handler of init and compile requests | archive reader and driver, by call |
| archive reader and layout (`internal/toolchain/`) | none | parse the sysroot's tar file, find the toolchain in it, name the files of the commands | |
| compiler driver (`internal/yowasp/`) | per compiler: the entries; per call: a file tree | `compileCpp`: build the tree, run clang, run the linker | YoWASP's two commands |
| core judge (`core/src/application/`) | per call: results so far | `judge`, the checkers, the summary | the three ports, by promises |
| runtime (`index.ts`, `runtime/BrowserJudgeRuntime.ts`) | terminated, registered rejectors, readiness flags | bootstrap, `judge`, `health`, `terminate` | everything above |

Hard behaviour: JavaScript runs one task at a time, so there are no data races,
but everything interleaves at awaits and between events. An execution has four
independent ends (answer, crash, timer, disposal). Workers may hang, crash, drop
requests, and have messages under way when they are terminated. The compiler
port shares one promise and one table among all calls; the compiler worker's
handlers interleave over four globals, and compilations of one compiler over its
entries. An archive may be cut or damaged and still be read. A core judge outlives its
caller's promise. `PROJECT.json` lists these hazards at their lines, each with the
properties that would notice it going wrong.

## Modules

`ExecutorPort` is the port of the first two rows with its workers, timers and
their clock. One action is one task of the page (which runs to completion), one
step of a worker, or one tick. `Finish` is the `finish` closure with its two
branches, called by `DispatchEvent` and `TimerFires`; `Dispose` is `dispose()`;
`ExecuteDisposed`, `ExecuteNoWorker`, `ExecuteNotPosted` and `ExecutePosted` are
the ways `execute()` can go. `events[r]` holds what the worker queued for the page;
it survives the worker's termination, because a queued event may already be on
its way. This is why `settled` matters, and why `dispose()`, which does not set it,
relies on `resolve()` being a no-op for a rejected promise. The worker comes from a
factory that is a parameter: besides the project's own (`WorkerStarts`, `WorkerIgnores`,
`WorkerReplies`) it may be one that sends anything (`WorkerMisbehaves`) or replies in form
with a result of its own (`WorkerReplacesResult`), which the port believes, since
`isExecutionWorkerResponse()` does not look at it.

`ExecutionService` is what callers of that port may rely on: a call is refused,
or answered once, or rejected at the closing. `ExecutorPort` refines it with
`status <- call, closed <- (disposed # NoError)`.

`CompilerPort` is the compiler port against *any* worker: it may post any
response with any id in any order, and errors, at any time. A promise reaction
(`SendInit`, `Resume`) runs before the next task, which `Quiet` says; calls into
the port and disposal may come between any two steps. A `compile()` call carries
the shape of its argument: valid, refused by the worker's protocol, or not
cloneable. `CompileService` is its abstract service: a failure may reach some pending
calls at once (those in the table) and the others later (those suspended at an
await, which look at `fatalError` a second time); after it nothing is answered and
nothing stays pending.

`CompilerWorker` is `runtimeWorker.ts` with one handler per request, split at
each `await` (`SysrootEnds`, `ModuleEnds`, `CompilerMade`, `CompileEnds`), against
any page that posts each request at most once. `CompilerSystem` connects the two:
the port's outgoing channel is the worker's inbox and the worker's outbox is the
port's event queue; it adds the failing worker and termination. That the
connected worker is one of those `CompilerPort` allows is checked (`ImplementsPort`).

`SysrootArchive` has the pure functions of `internal/toolchain/`: a tar file as blocks
(a size field may be unreadable, the file may end anywhere, a gzip stream that was cut
is refused, and one cut to less than its two-byte mark is read as an empty archive), the parser with its offsets, the choice of the clang version and of
the builtins library, and which files the two command lines name. `CompilerDriver` is
`YowaspCppCompiler.ts` over them: a file tree is a function from paths to contents, and
`AppendTreeFile` what a directory in the way of a file and a file in the way of a
directory do to it, as the set of the one tree it leaves, or the empty set when it throws; the two YoWASP commands are external and return a tree with or
without their output, or throw. Two calls of one compiler interleave at the commands.

`Summary` has the pure functions of `summary.ts`, `Judge` the core's `judge()`
with one stage per await over ports that answer anything their types permit;
`ExactChecker` is `exactChecker.ts` on texts of line feeds, carriage returns, blanks and
visible characters; `Page` is what it is compared with, a description of what a reader
sees of a text that shares none of its steps.

`JudgeRuntime` puts the core judges under the bootstrap and `terminate()`. It contains
the two port services: `Compiler == INSTANCE CompileService` and
`Executor == INSTANCE ExecutionService`, the specifications `CompilerPort` and
`ExecutorPort` are shown to implement. A port answers in a step of its own and the judge
reacts to the settled promise later, so an answer may be under way when `terminate()`
comes. `JudgeService` is what a caller of `judge()` may rely on: the result or the error
of its own judge, or `terminate()`'s error if that was first, and nothing after it.

`WasiRun` is one run of `executeWasm()`: a guest program that grows its memory,
writes, reads, exits, returns or traps as it likes, against the imports with
their limits. Bytes of output are counted, bytes of stdin are numbered. A memory of no
pages stands for one that is not exported too, which the limits cannot tell apart. An
output that the engine cannot decode ends a run either in `executeWasm()`'s own catch
block or, if decoding succeeds the second time, as a trap of the guest; `engine` marks
such verdicts.

`MC...` modules and their `.cfg` files are the instances; `...Proofs` the proofs, over
`Loops`, which has what they need about loops.

## What the runs show, and their bounds

| run | question | instance |
|---|---|---|
| `executor_port` | do worker, timer and map entry exist exactly for pending calls; is disposal final; is every verdict earned; is a settled call inert; is every call answered though workers hang; is the port an `ExecutionService` | two calls, two reasons, the port's own worker and others |
| `executor_port_late` | violation: a reply over the limit is a success if it is dispatched before the due timer | |
| `compiler_port` | does the table match the promises; is the first error the one everybody gets; does init come first; is nothing posted after a failure; is the port a `CompileService`, whatever the worker sends | two calls |
| `compiler_worker` | does an init result mean ready, do compilations find their sysroot and module, is every started request answered, while handlers interleave | three inits, two compilations |
| `compiler_system` | does every request find the worker ready and every response its entry; does every well-formed compilation settle; is the worker one that `CompilerPort` was checked with | two calls |
| `judge` | are exactly the right tests run; is the summary's status the worst; are its figures right | up to three tests |
| `judge_conversion` | violation: a checker that returns nothing makes `judge()` reject | |
| `judge_runtime` | is no caller forgotten, does no worker outlive the runtime, has every test one execution of its own, is the runtime a `JudgeService`, is every call settled unless its own checker hangs | two judges, up to two tests |
| `judge_runtime_health` | violation: `health()` stays ready after the compiler worker crashed | |
| `wasi_run` | do the limits decide the verdict, is stdin read once and in order, can a guest over its memory limit go on reading | |
| `exact_checker` | is an output accepted exactly if it reads like the expected text | all pairs of texts up to four characters |
| `compiler_driver` | is every archive read as it was written, or refused, or read as a beginning; do the commands find their files; does a call get its own program | 308 archives, two calls |

Bounds. Two executions suffice for interference between calls, since calls meet
only in the map and in `dispose()`; two reasons tell the first from a later one.
One event is queued per worker (`MaxEvents`): a second one, arriving after the first
has settled the call, is covered by the proofs, which hold for any bound;
`CompilerPort` needs one reason only, a crash being the other; the time limit is one
tick, and ages saturate one tick over it, where nothing compares them any further
(`Horizon`). A foreign worker's results are no result at all and a time limit verdict, the
two that the port's own worker never sends. Two compilations share the init promise in every order; `MaxInbox` lets a
right and a wrong response be under way together, and in `compiler_system` everything
the worker can have to say. Three init requests allow every pair of differing archive
and differing URL. Three tests give the summary loop a first, a middle and a last
result, three times and three memory figures (one missing) give ties, gaps and sums. Two judges
race each other and termination with one and two tests, a language that is compiled and
one that is not, and checkers that may hang; stop policies and other numbers of tests are
`judge`'s. The WASI instance lets each limit be met, exceeded at once, and exceeded by a
sum, and lets stdin end inside, between and before the up to two buffers of an import. Texts of four characters hold
a CRLF, a blank before it, and a character or a final line end after it; blanks and
visible characters of one kind are enough, since the code only tests a character for
being one of them. A block of two bytes gives files of none, part of one, exactly one,
and more than one block; the archives are a complete one, it with one member added
anywhere, removed, replaced, renamed or turned into a directory, two clang versions, and
it cut after every byte, compressed and not; a name may be any string. No run uses symmetry. All runs turn the
deadlock check off: a runtime whose calls have all ended, or whose guest has its
verdict, has nothing more to do.

Fairness. `ExecutorPort` assumes that time passes and that due timers run; it assumes
nothing of workers. `CompilerPort` assumes that ready promise reactions run (the
event loop does this) and that a fetch ends; nothing of its worker. `CompilerWorker` and
`CompilerSystem` assume that decompression, import and clang end in a worker that lives:
the code has no timeout for them. `JudgeRuntime` assumes that reactions run, that an
execution is answered (shown by `executor_port`, where the timer does it), and that a
compilation is (shown by `compiler_system`); nothing of custom checkers. The abstract
services carry only fairness of their own steps, so that the detailed ones have to earn
it.

## Disagreements between documents and code

1. `docs/foundation/07_EXECUTION_AND_ERROR_POLICY.md:60`: a test that ran longer than
   `timeLimitMs` is a time limit verdict. The port believes any reply dispatched before
   the timer's callback, whatever its `elapsedMs` (`executor_port_late`).
2. `docs/foundation/02_REQUIREMENTS.md:95`: `health()` reports the compiler's readiness.
   The flags are set once and never reset (`judge_runtime_health`).
3. `docs/foundation/07_EXECUTION_AND_ERROR_POLICY.md:117`: errors while converting results are
   `internal_error` verdicts. `resultFromCheckerOutcome()` runs outside every try block
   (`judge_conversion`).

## Proofs

Every safety property that a passing run checks is also a theorem, for all values of the
constants under the assumptions the modules name. The assumptions are of three kinds:
bounds and sizes are natural numbers (`TimeLimitAssumption`, `LimitsAssumption`,
`FiguresAssumption`, `BlockSizeAssumption`), values that mean "none" are none of the
values they stand beside (`ErrorsAssumption`, `SysrootAssumption`, `ValuesAssumption`),
and the enumerated inputs are inputs the code can get (`RequestsAssumption`,
`FailuresAssumption`, `ForeignResultsAssumption`, `ArchivesAssumption`,
`CharactersAssumption`; `NamesAssumption` and
`FilesAssumption` say that the fixed file names are names). TLC evaluates each of them on
its run. One is about a bound of the model: `RoomAssumption` says that the port's event
queue has room for one response per call, one to init, and one error event.

Loops. The code's loops over lists, bytes, archives and file trees are recursive
*functions* over `0 .. n` whose value at k is the loop's state after k rounds. `Loops` has
what the proofs need about them: induction over the natural numbers, stated for sets
(it follows from the order being well-founded, as the induction theorem of the library
takes an operator, which the provers cannot instantiate); that such a function exists
(`RunExists`); and that rounds which keep a type keep it to the end (`RunStays`). Every proof about a
loop then is an induction over its rounds (`InductionTo`) with a loop invariant.

`ExecutorPortProofs`, for any sets of calls and reasons, any time limit and any bound on
queued events:

- `TypeCorrect`, one case per action.
- `NoLeak` and `DisposalFinal`: `ResourcesMatchCalls` and `DisposalIsFinal` are not
  inductive: `finish()` looks at `settled`, which `dispose()` does not set, so one must
  know that a settled call has ended. `PortInv` adds this (`SettledMeansEnded`).
- `VerdictsEarned`: a verdict comes out of a queue, so what the queue holds has to be
  earned as well: `VerdictInv` adds that every queued reply comes from a worker that has
  replied, with a result that such a worker sends (`Earned`), and that a fired timer has
  resolved its call.
- `SettledInert`: under `PortInv` a second `finish()`, a late event and a second
  `dispose()` have nothing left to change.
- `ServiceSafety`: every step of the port is a step of `ExecutionService` or a stutter.

`CompilerSystemProofs`, first about the port, for any number of calls, any reasons and
*any worker*:

- `TypeCorrect`, `NoOrphans`, `FailureFinal`, `InitFirst`: the invariants of the run
  `compiler_port`. `PortInv` joins them and adds two parts that make them inductive: the
  init promise was rejected with the port's own first error (`InitErrorIsFinal`), and
  nothing was posted before the init request (`NothingSentEarly`). The argument of
  `FailureFinal` is that `failAllPending()` finds the table empty when the port has
  failed before, so the error it passes on is always the first; this rests on the
  second look at `fatalError` after each await.
- `FailureSilent` and `OwnKindOnly`: the two action properties of that run.
- `ServiceSafety`: every step is a step of `CompileService` or a stutter. That a failed
  port answers nothing follows from `FatalIsFinal`: its table is empty.

and then about the port with its worker, crash, error event and termination at any point:

- `ResponsesFindTheirEntry` (`ResponsesAreAwaited`), `OneSysroot`
  (`InitMeansOneSysroot`), `SystemServes` (the composition keeps `CompileService`'s
  safety). `SystemInv` joins `PortInv` with what the two ends know of each other: a
  request is at one place at a time (`OnePlace`), one that was not posted is nowhere
  (`UnpostedIsNowhere`), what is under way is in the table until the port fails
  (`UnderWayIsPending`), and the worker is ready before the init promise is resolved
  (`ReadyInOrder`). Every step of a handler is shown to be an abstract `Moves`, and one
  lemma about `Moves` keeps the first three.
- `PortRefined` (`ImplementsPort`): every step of port and worker is a step of the port
  with *some* worker. The point is the bounded queue: a handler may post when the
  queue has room, and `RoomForAnswer` shows that it has, by an injection of the waiting
  events into the calls, init and the one error event (`OneError`). `PortKept` carries
  the port's own theorems over to the system.

`CompilerWorkerProofs`, for any number of requests, archives and URLs: `TypeCorrect` and
`ReadyMeansReady` (`InitResultMeansReady`). `WorkerInv` adds what a suspended handler may
rely on (`SuspendedAreSafe`): the first URL is the only one, a sysroot, once stored, may be
replaced but never goes, and a compiler exists only when the module is loaded. Without
it a handler that awakes might find another bundle.

`CompilerDriverProofs`, for archives of any members, cut anywhere, any block size, and
any number of compilations; `DriverInv` is inductive:

- `ArchiveRead` (`ArchiveIsRead`). `TarLayout` says where in the tar file each header is,
  `ParseIsReading` that the parser's loop is always in a state that matches some number of
  members read (`FoundAdds`, `OneMoreMatches`), or has stopped, behind the last of them, at
  a cut or at a size it cannot read. Only the last file read may be short, because a
  member behind a cut has no whole header.
- `OnlyBrokenRefused` (`RefusedOnlyIfBroken`): building the tree throws exactly if some
  entry is a file where a later one needs a directory (`FilesystemThrows`), and the layout
  is resolved exactly if what it names is there (`LayoutIs`).
- `FilesFound` (`CommandsFindTheirFiles`): a tree has the last entry of every path, unless a
  later one replaced its directory (`Stocked`); the work files are outside the sysroot
  (`Tidy`), so neither command disturbs this (`WorkFileAdded`).
- `OwnArtifact` (`ArtifactIsOwn`): each call's tree is made from its own source, and clang's
  object and the linker's output inherit it, whatever other calls do (`OthersInv`).

`JudgeRuntimeProofs`, first about the core's judge, for any number of calls, tests and
results:

- `RightTests` (`RunsTheRightTests`) and `JudgeTypeCorrect`; `JudgeInv` says what each stage
  promises to the steps that follow (`Progress`): results so far are accepted when a judge
  with `stopOnFirstFailure` goes on.
- `SummaryStatus` and `SummaryFigures`: a finished call's outcome is the summary of exactly
  the results pushed (`Reported`), and the loops of `summary.ts` compute, for any list of
  results, the worst status, the number of accepted tests and the number of the others, the
  sum of all times, the longest time, the first of the slowest tests, and the largest
  memory that any test reported. The property says the counts as cardinalities: of the
  accepted tests, of the others, and, for the sum, of the units of time of all tests
  (`Units`, pairs of a test and a number). `CountsAreRight` is the induction, one result at
  a time (`RoundCounts`): the sets up to a test are those up to the one before and what
  it adds.

and then about the runtime, for any number of judges and tests, over any ports that
keep their services:

- `RuntimeRunsCoreJudge`: what goes on behind `judge()` is a behaviour of `Judge`, so that
  `JudgeInv` and `RightTests` carry over (`RuntimeRightTests`).
- `CallersRemembered`, `NothingAfterEnd`, `OwnExecutions`, `TypeCorrect`. `RuntimeInv` joins
  `JudgeInv`, the types, the callers (`CallsKept`: a judge that started has a promise), the
  executions by stage of their judge (`TestsKept`) and what the end leaves (`EndKept`: the
  executor port of a terminated runtime is disposed, and a disposed one accepts nothing).
- `ServiceSafety`: every step is a step of `JudgeService` or a stutter.

`WasiRunProofs`, for any guest, limits, and numbers and sizes of buffers:

- `MemoryDecides` (`MemoryLimitDecides`): every way a run ends over its memory limit is a
  failure without exit code; and `OverweightStops` (`OverweightGuestStops`).
- `SuccessClean`, `OutputDecides` (the sum of a stream decides, unless the engine fails
  over the output), `StdinOnce`. `RunInv` adds to the three properties that a
  guest that may still run has no verdict and both streams within their limits. Under it,
  `CollectedIsExact`: the loop of `fd_write` is left with an excess exactly if the sum
  of all buffers is over the limit; and `HandedOutInOrder`: the loop of `fd_read` hands out
  the numbers that follow the last one handed out.

`ExactCheckerProofs`, for texts of any length over any characters, `CheckerRight`
(`OutcomeIsRight`). `Placed` is the invariant of reading a text: after n characters the
lines found hold every character at the line and column a reader would count (the number
of line ends before it, and of characters before it on its line), and nothing else. So the
trimmed lines have the characters a reader sees (`CharactersSeen`), and the lines
that count are those of the page (`LinesSeen`). The normal form is these lines joined
(`NormalizedIs`), and joining is injective on lines without line feeds
(`JoinInjective`: the last line feed of a text tells where its last line begins).

Only model-checked: liveness (`EveryCallSettles` of the executor port and of the runtime,
`EveryRequestAnswered`, `EveryCompileSettles`, and the fairness parts of the three
`ImplementsService`), which is out of the prover's reach; the theorems called
`ServiceSafety` and `SystemServes` are the safety parts of those refinements.

## Not modelled

- The contents of messages, programs and outputs, and the wording of errors. Elapsed time
  in `WasiRun`, and the data of the clock, random and stat imports.
- YoWASP's clang and linker: they are external, and `CompilerDriver` lets them return or
  throw as `YowaspCppCompiler.ts` is written to expect. Of their command lines only the
  files are modelled, not the spelling of the options.
- `resolveBootstrapOptions.ts`: a stateless defaulting of URLs, version and worker
  factories; `JudgeRuntime` starts from its result, or from its failure
  (`BootFailsEarly`).
- `runtime-node` and `runtime-cpp` (placeholders), the sample page (a client of the public
  interface, with its own form state), the artifact scripts (input and output only), and
  the type declarations of `core/src/domain` and `core/src/ports`, which have no behaviour
  and give the models their sets of statuses.
- Names in an archive with empty segments (`a//b`): the compiler's tree takes them for the
  path without, the choice of the layout does not.
- An empty bundle URL, which `runtimeWorker.ts:14` takes for none: the page resolves its URL
  against a base, and the result is never empty (`RequestsAssumption` of `CompilerWorker`).
- A `fetch()` that never ends: it has no timeout, and `dispose()` does not reach the
  calls that wait for it (`BrowserCompilerPort.ts:108`); the fairness of `CompilerPort`
  assumes that it ends.

`WasiRun` assumes that a guest cannot catch an import's exception, which holds for
programs compiled with `-fno-exceptions`.

Two remarks without a run of their own. `compileCpp()` catches every exception, of a
damaged archive or a crashed clang too, and reports a compile failure;
`docs/context/ARCHITECTURE_FLOW.md:271` wants errors inside the worker kept apart as
`internal-error` (`RefusedOnlyIfBroken` shows when this happens). A second init request
with another archive would replace the sysroot while an earlier compiler is kept
(`runtimeWorker.ts:47`): `compiler_worker` has such requests, and shows that a compilation
has a sysroot and a module, not which sysroot, as nothing is promised for a second one;
the worker's only page sends one (`OneSysroot`). And a `compile()` whose request cannot be
posted leaves its entry in the port's table (`BrowserCompilerPort.ts:174`):
`TableMatchesPromises` allows exactly these entries, since nothing promises that they go.

## Plan

Done: every stateful component of the two packages, their compositions, an abstract
service for each of the three interfaces with the refinement checked and its safety
proved, and proofs of all safety properties.

What could come next: a composition of `WasiRun` with the execution worker of
`ExecutorPort` (today the port takes any reply a worker may post); and, beside the
liveness that stays with TLC, the invariants it rests on as theorems: whatever a pending
call waits for is always about to come.
