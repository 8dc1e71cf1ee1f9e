------------------------------ MODULE WasiRun -------------------------------
(***************************************************************************)
(* executeWasm(): one run of a compiled program in an execution worker,    *)
(* from the artifact to its verdict.  The guest is any program: it grows   *)
(* its memory, calls the WASI imports with any buffers, exits, returns,    *)
(* traps, or runs for ever.  Bytes are counted, stdin's are numbered;      *)
(* memory is counted in pages, 0 standing for a memory without any and for *)
(* one that the module does not export (an import then does nothing but    *)
(* fail, and the limit checks pass).                                       *)
(* An exception of an import ends the guest: programs are compiled with    *)
(* -fno-exceptions (buildToolchainArgs.ts) and cannot catch it.            *)
(***************************************************************************)
EXTENDS Naturals, Sequences

CONSTANTS
    PageLimit,      \* memoryLimitBytes in whole pages: a memory is over the
                    \* limit in bytes exactly if it has more pages than that
    StdoutLimit,    \* policy.stdoutLimitBytes
    StderrLimit,    \* policy.stderrLimitBytes
    StdinLength,    \* bytes of stdin
    MaxPages,       \* bound on the guest's memory
    MaxBuffer,      \* bound on the length of one buffer of an import
    MaxBuffers,     \* bound on the number of buffers of an import
    ExitCodes,      \* the exit codes enumerated
    Null            \* the exit code of a program that did not exit

ASSUME LimitsAssumption == {PageLimit, StdoutLimit, StderrLimit, StdinLength,
                            MaxPages, MaxBuffer, MaxBuffers} \subseteq Nat
ASSUME ExitCodesAssumption == ExitCodes \subseteq Nat /\ Null \notin Nat

VARIABLES
    stage,      \* "compile", "instantiate", "guest", "done"
    memory,     \* pages of state.memory
    exitCode,   \* state.exitCode
    written,    \* written[s]: bytes the collector has of stream s
    stdinOffset,\* bytes of stdin handed out
    received,   \* the bytes of stdin the guest was given, by number
    toldEnd,    \* a read into a buffer told the guest that stdin has ended
    verdict     \* the result

vars == <<stage, memory, exitCode, written, stdinOffset, received, toldEnd, verdict>>

Streams == {"stdout", "stderr"}
Limit(s) == IF s = "stdout" THEN StdoutLimit ELSE StderrLimit

\* The buffers of an import's iovec list, by their lengths.
Buffers == UNION {[1 .. n -> 0 .. MaxBuffer] : n \in 0 .. MaxBuffers}

Nothing == [s \in Streams |-> 0]
NoVerdict == [status |-> "none", output |-> Nothing, exit |-> Null, engine |-> FALSE]
Statuses == {"success", "runtime_error", "memory_limit_exceeded",
             "output_limit_exceeded", "internal_error"}

Init ==
    /\ stage = "compile"
    /\ memory = 0
    /\ exitCode = 0
    /\ written = Nothing
    /\ stdinOffset = 0
    /\ received = <<>>
    /\ toldEnd = FALSE
    /\ verdict = NoVerdict

-----------------------------------------------------------------------------
(* Results *)

\* buildFailure() shows no output, buildExecutionFailure() the collector's.
\* (The message that takes the place of stderr is left out.)
ExecutionFailure(status, output) ==
    [status |-> status, output |-> output, exit |-> Null, engine |-> FALSE]
Failure(status) == ExecutionFailure(status, Nothing)

\* A result whose reason is an exception that the engine threw in the runtime.
OfEngine(v) == [v EXCEPT !.engine = TRUE]

Ends(v) == stage' = "done" /\ verdict' = v
GoesOn == UNCHANGED <<stage, verdict>>

\* An engine that runs out of memory says so in its message, or not.
EngineStatuses(other) == {"memory_limit_exceeded", other}
EngineFails == \E s \in EngineStatuses("internal_error") : Ends(OfEngine(Failure(s)))

\* A result that shows output decodes it; if the engine cannot, the exception
\* ends in executeWasm()'s own catch block, normalizeUnexpectedError().
EndsShowing(v) == Ends(v) \/ EngineFails

\* A trap of the guest: its stderr gives way to the trap's message.
Trap(status, output) ==
    ExecutionFailure(status, IF status = "runtime_error" THEN [output EXCEPT !.stderr = 0]
                             ELSE output)

\* Mutant: a failing program is a runtime error whatever its memory.
FinalResultExitFirst(code) ==
    [status |-> IF code # 0 THEN "runtime_error"
                ELSE IF memory > PageLimit THEN "memory_limit_exceeded" ELSE "success",
     output |-> written, exit |-> IF code = 0 /\ memory > PageLimit THEN Null ELSE code,
     engine |-> FALSE]

\* buildFinalResult(): the memory is looked at before the exit code.
FinalResult(code) ==
    IF memory > PageLimit
    THEN ExecutionFailure("memory_limit_exceeded", written)
    ELSE [status |-> IF code = 0 THEN "success" ELSE "runtime_error",
          output |-> written, exit |-> code, engine |-> FALSE]

-----------------------------------------------------------------------------
(* From the artifact to the guest *)

Compiles == /\ stage = "compile"
            /\ stage' = "instantiate"
            /\ UNCHANGED <<memory, exitCode, written, stdinOffset, received, toldEnd, verdict>>

\* WebAssembly.compile() fails, or the artifact cannot be copied.
CompileFails == /\ stage = "compile"
                /\ EngineFails
                /\ UNCHANGED <<memory, exitCode, written, stdinOffset, received, toldEnd>>

\* A module's start function runs before state.memory is set: the imports
\* refuse it, and an exit ends the instantiation as an error.
InstantiateFails == /\ stage = "instantiate"
                    /\ exitCode' \in ExitCodes \cup {0}
                    /\ EngineFails
                    /\ UNCHANGED <<memory, written, stdinOffset, received, toldEnd>>

\* The memory is looked at before _start is, and before it is called.
Instantiates ==
    /\ stage = "instantiate"
    /\ memory' \in 0 .. MaxPages
    /\ \/ memory' > PageLimit /\ Ends(Failure("memory_limit_exceeded"))
       \/ memory' <= PageLimit /\ Ends(Failure("runtime_error"))   \* no _start
       \/ memory' <= PageLimit /\ stage' = "guest" /\ UNCHANGED verdict
    /\ UNCHANGED <<exitCode, written, stdinOffset, received, toldEnd>>

-----------------------------------------------------------------------------
(* The guest and its imports *)

Grows == /\ stage = "guest"
         /\ memory' \in memory + 1 .. MaxPages
         /\ UNCHANGED <<stage, exitCode, written, stdinOffset, received, toldEnd, verdict>>

\* Mutant: every chunk is compared with the limit by itself.
CollectByChunk(s, acc, length) ==
    IF acc.over THEN acc
    ELSE [bytes |-> acc.bytes + length, over |-> length > Limit(s)]

\* OutputCollector.write(): collect first, then compare the sum.
Collect(s, acc, length) ==
    IF acc.over THEN acc
    ELSE [bytes |-> acc.bytes + length, over |-> acc.bytes + length > Limit(s)]

\* The loop of fd_write(); the exception leaves it at the first excess.
Collected(s, lengths) ==
    LET acc[n \in 0 .. Len(lengths)] ==
          IF n = 0 THEN [bytes |-> written[s], over |-> FALSE]
          ELSE Collect(s, acc[n - 1], lengths[n])
    IN  acc[Len(lengths)]

\* The memory limit is not checked here.  What is collected is as much of a buffer
\* as lies in the memory; a list or a result pointer outside it is a trap once the
\* buffers before it were collected (as in fd_read).  The output that is too much
\* is decoded at once: if the engine cannot, its exception looks like a trap.
FdWrite(s, lengths) ==
    /\ stage = "guest"
    /\ memory > 0
    /\ LET collected == Collected(s, lengths)
       IN  /\ written' = [written EXCEPT ![s] = collected.bytes]
           /\ \/ collected.over /\ EndsShowing(ExecutionFailure("output_limit_exceeded", written'))
              \/ /\ collected.over
                 /\ \E t \in EngineStatuses("runtime_error") : EndsShowing(OfEngine(Trap(t, written')))
              \/ ~collected.over /\ GoesOn
              \/ ~collected.over /\ EndsShowing(Trap("runtime_error", written'))
    /\ UNCHANGED <<memory, exitCode, stdinOffset, received, toldEnd>>

\* Mutant: the second buffer is filled from where the first one was.
HandOutAgain(acc, length) ==
    LET n == IF length < StdinLength - acc.offset THEN length ELSE StdinLength - acc.offset
    IN  IF acc.ended \/ n = 0 THEN [acc EXCEPT !.ended = TRUE]
        ELSE [acc EXCEPT !.offset = @ + n,
                         !.bytes = @ \o [i \in 1 .. n |-> stdinOffset + i]]

\* One buffer of fd_read(): an empty one ends the loop as the end of stdin does.
HandOut(acc, length) ==
    LET n == IF length < StdinLength - acc.offset THEN length ELSE StdinLength - acc.offset
    IN  IF acc.ended \/ n = 0 THEN [acc EXCEPT !.ended = TRUE]
        ELSE [acc EXCEPT !.offset = @ + n,
                         !.bytes = @ \o [i \in 1 .. n |-> acc.offset + i]]

HandedOut(lengths) ==
    LET acc[n \in 0 .. Len(lengths)] ==
          IF n = 0 THEN [offset |-> stdinOffset, bytes |-> <<>>, ended |-> FALSE]
          ELSE HandOut(acc[n - 1], lengths[n])
    IN  acc[Len(lengths)]

\* Mutant: the imports do not look at the memory.
NeverChecked == FALSE

\* ensureMemoryWithinLimit() throws.
OverLimit == memory > PageLimit

\* A read whose answer of 0 bytes means the end of stdin to its caller.
AsksForBytes(lengths) == lengths # <<>> /\ lengths[1] > 0

FdRead(lengths) ==
    /\ stage = "guest"
    /\ memory > 0
    /\ LET out == HandedOut(lengths)
       IN  /\ stdinOffset' = out.offset
           /\ received' = received \o out.bytes
           /\ \/ /\ ~OverLimit
                 /\ toldEnd' = (toldEnd \/ (AsksForBytes(lengths) /\ out.bytes = <<>>))
                 /\ GoesOn
              \/ /\ OverLimit
                 /\ EndsShowing(ExecutionFailure("memory_limit_exceeded", written))
                 /\ UNCHANGED toldEnd
              \/ /\ EndsShowing(Trap("runtime_error", written))
                 /\ UNCHANGED toldEnd
    /\ UNCHANGED <<memory, exitCode, written>>

\* fd_seek, fd_fdstat_get, fd_filestat_get, poll_oneoff, random_get,
\* clock_time_get, environ_sizes_get, args_sizes_get: nothing else happens.
CheckedCall == /\ stage = "guest"
               /\ OverLimit
               /\ EndsShowing(ExecutionFailure("memory_limit_exceeded", written))
               /\ UNCHANGED <<memory, exitCode, written, stdinOffset, received, toldEnd>>

ProcExit(code) == /\ stage = "guest"
                  /\ exitCode' = code
                  /\ EndsShowing(FinalResult(code))
                  /\ UNCHANGED <<memory, written, stdinOffset, received, toldEnd>>

Returns == /\ stage = "guest"
           /\ EndsShowing(FinalResult(exitCode))
           /\ UNCHANGED <<memory, exitCode, written, stdinOffset, received, toldEnd>>

Traps == /\ stage = "guest"
         /\ \E s \in EngineStatuses("runtime_error") : EndsShowing(Trap(s, written))
         /\ UNCHANGED <<memory, exitCode, written, stdinOffset, received, toldEnd>>

Guest == \/ Grows \/ CheckedCall \/ Returns \/ Traps
         \/ \E s \in Streams, lengths \in Buffers : FdWrite(s, lengths)
         \/ \E lengths \in Buffers : FdRead(lengths)
         \/ \E code \in ExitCodes : ProcExit(code)

Next == Compiles \/ CompileFails \/ Instantiates \/ InstantiateFails \/ Guest

Spec == Init /\ [][Next]_vars

-----------------------------------------------------------------------------
(* Properties *)

\* A success is a program that ended by itself with code 0, wrote no more than
\* it may on either stream over all its calls, never kept too much memory to
\* the end, and whose whole output is in the result.
SuccessIsClean ==
    verdict.status = "success" =>
        /\ verdict.exit = 0 /\ exitCode = 0
        /\ memory <= PageLimit
        /\ \A s \in Streams : verdict.output[s] = written[s] /\ written[s] <= Limit(s)

\* docs/foundation/07_EXECUTION_AND_ERROR_POLICY.md:86-94: a stream whose sum is
\* over its limit ends the guest, with an output limit verdict unless the engine
\* failed, and in no case with a success; it is the only such stream, and nothing
\* is cut off, not even the chunk that was too much.
OutputLimitDecides ==
    LET Over == {s \in Streams : written[s] > Limit(s)}
    IN  /\ Over # {} => /\ stage = "done"
                        /\ verdict.status # "success"
                        /\ verdict.status = "output_limit_exceeded" \/ verdict.engine
        /\ verdict.status = "output_limit_exceeded" =>
             /\ \E s \in Streams : Over = {s}
             /\ verdict.output = written

\* A program that ends with too much memory gets no exit code and no success,
\* whichever of exit, return, import and trap ended it.
MemoryLimitDecides ==
    stage = "done" /\ memory > PageLimit =>
        verdict.exit = Null /\ verdict.status # "success"

\* The guest reads stdin in order, each byte once, over all its reads and
\* buffers, and is told of the end only when it has had all of it.
StdinIsReadOnce ==
    /\ received = [i \in 1 .. stdinOffset |-> i]
    /\ toldEnd => stdinOffset = StdinLength

\* A guest over the memory limit is not started, and one that grew over it never
\* gets past its next read: it can go on only by computing and writing.
OverweightGuestStops ==
    [][stage' = "guest" =>
         /\ stage = "instantiate" => memory' <= PageLimit
         /\ memory > PageLimit => received' = received]_vars
=============================================================================
