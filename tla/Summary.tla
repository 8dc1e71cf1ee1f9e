------------------------------ MODULE Summary -------------------------------
(***************************************************************************)
(* summary.ts: the summary of a submission from its tests' results.  A     *)
(* result is the part of JudgeTestResult that the summary reads.           *)
(***************************************************************************)
EXTENDS Naturals, Sequences, Functions, FiniteSetsExt

CONSTANTS
    Undefined   \* the JavaScript value undefined

\* Mutant: two statuses change places.
StatusPrioritySwapped ==
    << "time_limit_exceeded", "memory_limit_exceeded", "output_limit_exceeded",
       "internal_error", "runtime_error", "wrong_answer", "accepted" >>

\* STATUS_PRIORITY, the most severe first.
StatusPriority ==
    << "time_limit_exceeded", "memory_limit_exceeded", "output_limit_exceeded",
       "runtime_error", "internal_error", "wrong_answer", "accepted" >>

TestStatuses == Range(StatusPriority)

\* statusFromTests(): the first status of the list that some test has.
StatusFromTests(tests) ==
    LET Seen(status) == \E i \in DOMAIN tests : tests[i].status = status
        found == {p \in DOMAIN StatusPriority : Seen(StatusPriority[p])}
    IN  IF found = {} THEN "accepted" ELSE StatusPriority[Min(found)]

\* Mutant: a later test that is as slow takes over.
NotFaster(t, acc) == t.elapsed >= acc.maxElapsed

Slower(t, acc) == t.elapsed > acc.maxElapsed

\* One test in the loop of summarizeTests(), in its two filters and its sum.
Accumulate(acc, t) ==
    LET known == IF acc.memory = Undefined THEN 0 ELSE acc.memory
        accepted == t.status = "accepted"
    IN  [passed     |-> IF accepted THEN acc.passed + 1 ELSE acc.passed,
         failed     |-> IF accepted THEN acc.failed ELSE acc.failed + 1,
         maxElapsed |-> IF Slower(t, acc) THEN t.elapsed ELSE acc.maxElapsed,
         slowest    |-> IF Slower(t, acc) THEN t.id ELSE acc.slowest,
         memory     |-> IF t.memory = Undefined THEN acc.memory
                        ELSE IF t.memory > known THEN t.memory ELSE known,
         total      |-> acc.total + t.elapsed]

Accumulated(tests) ==
    LET acc[n \in 0 .. Len(tests)] ==
          IF n = 0
          THEN [passed |-> 0, failed |-> 0, maxElapsed |-> 0, slowest |-> Undefined,
                memory |-> Undefined, total |-> 0]
          ELSE Accumulate(acc[n - 1], tests[n])
    IN  acc[Len(tests)]

\* summarizeTests()
Summarize(tests) ==
    LET acc == Accumulated(tests)
    IN  [status     |-> StatusFromTests(tests),
         passed     |-> acc.passed,
         failed     |-> acc.failed,
         count      |-> Len(tests),
         maxElapsed |-> acc.maxElapsed,
         slowest    |-> acc.slowest,
         memory     |-> acc.memory,
         total      |-> acc.total]
=============================================================================
