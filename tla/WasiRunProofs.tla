--------------------------- MODULE WasiRunProofs ---------------------------
(***************************************************************************)
(* Proofs about WasiRun: the memory limit, the output limits, stdin and    *)
(* the verdict, for any guest, any limits, any exit codes, and any number  *)
(* of buffers of any length in a call.                                     *)
(***************************************************************************)
EXTENDS WasiRun, Loops

\* A failure, shown with output or not, has no exit code and is no success.
LEMMA FailuresFail ==
    ASSUME NEW output, NEW s \in Statuses, s # "success"
    PROVE  /\ Failure(s).exit = Null /\ Failure(s).status # "success"
           /\ ExecutionFailure(s, output).exit = Null
           /\ ExecutionFailure(s, output).status # "success"
           /\ Trap(s, output).exit = Null /\ Trap(s, output).status # "success"
           /\ OfEngine(Failure(s)).exit = Null /\ OfEngine(Failure(s)).status # "success"
           /\ OfEngine(Trap(s, output)).exit = Null /\ OfEngine(Trap(s, output)).status # "success"
  BY DEF Failure, ExecutionFailure, Trap, OfEngine

Fails(v) == v.exit = Null /\ v.status # "success"

\* The engine's failure is one.
LEMMA EngineFailsFails == EngineFails => stage' = "done" /\ Fails(verdict')
<1>1. \A s \in EngineStatuses("internal_error") : Fails(OfEngine(Failure(s)))
  BY FailuresFail DEF EngineStatuses, Fails, Statuses
<1> QED
  BY <1>1 DEF EngineFails, Ends

\* So is a failure that shows output.
LEMMA ShowingFails ==
    ASSUME NEW v, Fails(v), EndsShowing(v)
    PROVE  stage' = "done" /\ Fails(verdict')
  BY EngineFailsFails DEF EndsShowing, Ends, Fails

\* A final result under too much memory is a failure.
LEMMA FinalResultFails ==
    ASSUME NEW code, EndsShowing(FinalResult(code)), UNCHANGED memory
    PROVE  stage' = "done" /\ (memory' > PageLimit => Fails(verdict'))
<1>1. memory > PageLimit => Fails(FinalResult(code))
  BY FailuresFail DEF FinalResult, Fails, Statuses
<1>2. memory > PageLimit => stage' = "done" /\ Fails(verdict')
  BY <1>1, ShowingFails
<1>3. stage' = "done"
  BY EngineFailsFails DEF EndsShowing, Ends
<1> QED
  BY <1>2, <1>3

\* The guest's end: with too much memory it is a failure, whatever ended it.
LEMMA GuestEnds ==
    ASSUME stage = "guest", Next
    PROVE  \/ UNCHANGED <<stage, verdict>>
           \/ stage' = "done" /\ (memory' > PageLimit => Fails(verdict'))
<1>1. CASE Grows
  BY <1>1 DEF Grows
<1>2. CASE CheckedCall
  <2>1. Fails(ExecutionFailure("memory_limit_exceeded", written))
    BY FailuresFail DEF Fails, Statuses
  <2> QED
    BY <1>2, <2>1, ShowingFails DEF CheckedCall
<1>3. CASE Returns
  BY <1>3, FinalResultFails DEF Returns
<1>4. CASE Traps
  <2>1. PICK s \in EngineStatuses("runtime_error") : EndsShowing(Trap(s, written))
    BY <1>4 DEF Traps
  <2>2. Fails(Trap(s, written))
    BY FailuresFail DEF EngineStatuses, Fails, Statuses
  <2> QED
    BY <2>1, <2>2, ShowingFails
<1>5. ASSUME NEW s \in Streams, NEW lengths \in Buffers, FdWrite(s, lengths)
      PROVE  UNCHANGED <<stage, verdict>> \/ (stage' = "done" /\ Fails(verdict'))
  <2>1. \/ EndsShowing(ExecutionFailure("output_limit_exceeded", written'))
        \/ \E t \in EngineStatuses("runtime_error") : EndsShowing(OfEngine(Trap(t, written')))
        \/ GoesOn \/ EndsShowing(Trap("runtime_error", written'))
    BY <1>5 DEF FdWrite
  <2>2. /\ Fails(ExecutionFailure("output_limit_exceeded", written'))
        /\ Fails(Trap("runtime_error", written'))
        /\ \A t \in EngineStatuses("runtime_error") : Fails(OfEngine(Trap(t, written')))
    BY FailuresFail DEF EngineStatuses, Fails, Statuses
  <2> QED
    BY <2>1, <2>2, ShowingFails DEF GoesOn
<1>6. ASSUME NEW lengths \in Buffers, FdRead(lengths)
      PROVE  UNCHANGED <<stage, verdict>> \/ (stage' = "done" /\ Fails(verdict'))
  <2>1. \/ GoesOn \/ EndsShowing(ExecutionFailure("memory_limit_exceeded", written))
        \/ EndsShowing(Trap("runtime_error", written))
    BY <1>6 DEF FdRead
  <2>2. /\ Fails(ExecutionFailure("memory_limit_exceeded", written))
        /\ Fails(Trap("runtime_error", written))
    BY FailuresFail DEF Fails, Statuses
  <2> QED
    BY <2>1, <2>2, ShowingFails DEF GoesOn
<1>7. ASSUME NEW code \in ExitCodes, ProcExit(code)
      PROVE  stage' = "done" /\ (memory' > PageLimit => Fails(verdict'))
  BY <1>7, FinalResultFails DEF ProcExit
<1> QED
  BY <1>1, <1>2, <1>3, <1>4, <1>5, <1>6, <1>7
     DEF Next, Guest, Compiles, CompileFails, Instantiates, InstantiateFails

\* The end of a run that never reached its guest has no exit code.
LEMMA StartEnds ==
    ASSUME stage # "guest", Next
    PROVE  stage \in {"compile", "instantiate"} /\ (stage' = "done" => Fails(verdict'))
<1>1. stage \in {"compile", "instantiate"}
  BY DEF Next, Compiles, CompileFails, Instantiates, InstantiateFails, Guest, Grows, CheckedCall,
         Returns, Traps, FdWrite, FdRead, ProcExit
<1>2. CASE Compiles
  BY <1>1, <1>2 DEF Compiles
<1>3. CASE CompileFails \/ InstantiateFails
  BY <1>1, <1>3, EngineFailsFails DEF CompileFails, InstantiateFails
<1>4. CASE Instantiates
  <2>1. Fails(Failure("memory_limit_exceeded")) /\ Fails(Failure("runtime_error"))
    BY FailuresFail DEF Fails, Statuses
  <2> QED
    BY <1>1, <1>4, <2>1 DEF Instantiates, Ends
<1> QED
  BY <1>1, <1>2, <1>3, <1>4
     DEF Next, Guest, Grows, CheckedCall, Returns, Traps, FdWrite, FdRead, ProcExit

\* executeWasm() never gives a success or an exit code to a program that ends with
\* more memory than its limit, whether it returned, exited, trapped, was stopped by
\* an import, or was never started; and a verdict, once given, stands.
THEOREM MemoryDecides == Spec => []MemoryLimitDecides
<1>1. Init => MemoryLimitDecides
  BY DEF Init, MemoryLimitDecides
<1>2. MemoryLimitDecides /\ [Next]_vars => MemoryLimitDecides'
  <2> SUFFICES ASSUME MemoryLimitDecides, [Next]_vars PROVE MemoryLimitDecides'
    OBVIOUS
  <2>1. CASE UNCHANGED vars
    BY <2>1 DEF vars, MemoryLimitDecides
  <2>2. CASE Next /\ stage = "guest"
    BY <2>2, GuestEnds DEF MemoryLimitDecides, Fails
  <2>3. CASE Next /\ stage # "guest"
    BY <2>3, StartEnds DEF MemoryLimitDecides, Fails
  <2> QED
    BY <2>1, <2>2, <2>3
<1> QED
  BY <1>1, <1>2, PTL DEF Spec

StopsOverweight ==
    stage' = "guest" =>
      /\ stage = "instantiate" => memory' <= PageLimit
      /\ memory > PageLimit => received' = received

\* Only a read hands out stdin, and a guest over its limit does not outlive one.
LEMMA StepStops == Next => StopsOverweight
<1> SUFFICES ASSUME Next, stage' = "guest"
             PROVE  /\ stage = "instantiate" => memory' <= PageLimit
                    /\ memory > PageLimit => received' = received
  BY DEF StopsOverweight
<1>1. CASE Guest
  <2>1. stage = "guest"
    BY <1>1 DEF Guest, Grows, CheckedCall, Returns, Traps, FdWrite, FdRead, ProcExit
  <2>2. ASSUME NEW lengths \in Buffers, FdRead(lengths) PROVE memory > PageLimit => received' = received
    <3>1. \/ ~OverLimit
          \/ EndsShowing(ExecutionFailure("memory_limit_exceeded", written))
          \/ EndsShowing(Trap("runtime_error", written))
      BY <2>2 DEF FdRead
    <3>2. ASSUME NEW v, EndsShowing(v) PROVE stage' = "done"
      BY <3>2, EngineFailsFails DEF EndsShowing, Ends
    <3> QED
      BY <3>1, <3>2 DEF OverLimit
  <2> QED
    BY <1>1, <2>1, <2>2 DEF Guest, Grows, CheckedCall, Returns, Traps, FdWrite, ProcExit
<1>2. CASE Compiles \/ CompileFails
  BY <1>2, EngineFailsFails DEF Compiles, CompileFails
<1>3. CASE Instantiates \/ InstantiateFails
  BY <1>3, EngineFailsFails DEF Instantiates, InstantiateFails, Ends
<1> QED
  BY <1>1, <1>2, <1>3 DEF Next

\* executeWasm() does not start a guest over its memory limit, and one that grew
\* over it later is ended by its next read, not given stdin.
THEOREM OverweightStops == Spec => OverweightGuestStops
<1>1. Spec => [][StopsOverweight]_vars
  BY StepStops, PTL DEF Spec
<1> QED
  BY <1>1 DEF OverweightGuestStops, StopsOverweight

-----------------------------------------------------------------------------
(* The loops of fd_write and fd_read *)

LEMMA Constants ==
    /\ PageLimit \in Nat /\ StdoutLimit \in Nat /\ StderrLimit \in Nat /\ StdinLength \in Nat
    /\ MaxPages \in Nat /\ MaxBuffer \in Nat /\ MaxBuffers \in Nat
    /\ \A s \in Streams : Limit(s) \in Nat
  BY LimitsAssumption DEF Streams, Limit

LEMMA BuffersAreLists ==
    ASSUME NEW lengths \in Buffers
    PROVE  lengths \in Seq(Nat)
<1>1. PICK n \in 0 .. MaxBuffers : lengths \in [1 .. n -> 0 .. MaxBuffer]
  BY DEF Buffers
<1>2. n \in Nat /\ lengths \in [1 .. n -> Nat]
  BY <1>1, Constants
<1> QED
  BY <1>2

\* What fd_write's loop is in after any round: over exactly beyond the limit.
Collecting(s) == {acc \in [bytes : Nat, over : BOOLEAN] : acc.over <=> acc.bytes > Limit(s)}

LEMMA CollectStays ==
    ASSUME NEW s \in Streams, NEW acc \in Collecting(s), NEW length \in Nat
    PROVE  Collect(s, acc, length) \in Collecting(s)
<1>1. acc.bytes \in Nat /\ acc.bytes + length \in Nat /\ Limit(s) \in Nat
  BY Constants DEF Collecting
<1>2. CASE acc.over
  BY <1>2 DEF Collect
<1>3. CASE ~acc.over
  <2> DEFINE sum == acc.bytes + length
             over == sum > Limit(s)
             made == [bytes |-> sum, over |-> over]
  <2>1. Collect(s, acc, length) = made
    BY <1>3 DEF Collect
  <2>2. over \in BOOLEAN /\ sum \in Nat /\ (over <=> sum > Limit(s))
    BY <1>1
  <2> HIDE DEF sum, over
  <2>3. made \in [bytes : Nat, over : BOOLEAN] /\ made.bytes = sum /\ (made.over <=> over)
    <3>1. CASE over = TRUE
      BY <2>2, <3>1
    <3>2. CASE over = FALSE
      BY <2>2, <3>2
    <3> QED
      BY <2>2, <3>1, <3>2
  <2> HIDE DEF made
  <2> QED
    BY <2>1, <2>2, <2>3 DEF Collecting
<1> QED
  BY <1>2, <1>3

\* fd_write leaves its loop with an excess exactly if the stream is over its limit.
LEMMA CollectedIsExact ==
    ASSUME NEW s \in Streams, NEW lengths \in Buffers, written[s] \in 0 .. Limit(s)
    PROVE  Collected(s, lengths) \in Collecting(s)
<1> DEFINE L == Len(lengths)
           S == Collecting(s)
           b == [bytes |-> written[s], over |-> FALSE]
           round == [n \in 1 .. L |-> [acc \in S |-> Collect(s, acc, lengths[n])]]
           IsRun(g) == g = [n \in 0 .. L |-> IF n = 0 THEN b ELSE Collect(s, g[n - 1], lengths[n])]
           c == CHOOSE g : IsRun(g)
<1>1. L \in Nat /\ lengths \in Seq(Nat)
  BY BuffersAreLists
<1>2. b \in S
  BY Constants DEF Collecting
<1>3. round \in Rounds(L, S)
  <2>1. ASSUME NEW n \in 1 .. L, NEW acc \in S PROVE Collect(s, acc, lengths[n]) \in S
    <3>1. lengths[n] \in Nat
      BY <1>1
    <3> QED
      BY <3>1, CollectStays
  <2> HIDE DEF S
  <2> QED
    BY <2>1 DEF Rounds
<1>4. \A n \in 1 .. L, acc \in S : round[n][acc] = Collect(s, acc, lengths[n])
  OBVIOUS
<1>5. PICK g : g \in Runs(L, S, b, round)
  <2> HIDE DEF L, S, b, round
  <2> QED
    BY <1>1, <1>2, <1>3, RunExists
<1>6. IsRun(g)
  <2> HIDE DEF S, b, round
  <2>1. g \in [0 .. L -> S] /\ g[0] = b /\ \A n \in 1 .. L : g[n] = round[n][g[n - 1]]
    BY <1>5 DEF Runs
  <2>2. \A n \in 0 .. L : g[n] = IF n = 0 THEN b ELSE Collect(s, g[n - 1], lengths[n])
    <3>1. ASSUME NEW n \in 1 .. L PROVE g[n] = Collect(s, g[n - 1], lengths[n])
      <4>1. n - 1 \in 0 .. L
        BY <1>1
      <4> QED
        BY <1>4, <2>1, <4>1
    <3> HIDE DEF L
    <3> QED
      BY <1>1, <2>1, <3>1
  <2> HIDE DEF L
  <2> QED
    BY <2>1, <2>2
<1>7. IsRun(c)
  <2> HIDE DEF IsRun
  <2> QED
    BY <1>6
<1>8. c[0] = b /\ \A n \in 1 .. L : c[n - 1] \in S => c[n] = round[n][c[n - 1]]
  <2> HIDE DEF c, b, S, round
  <2> QED
    BY <1>1, <1>4, <1>7
<1>9. \A n \in 0 .. L : c[n] \in S
  <2> HIDE DEF L, S, b, round, c
  <2> QED
    BY <1>1, <1>2, <1>3, <1>8, RunStays
<1>10. Collected(s, lengths) = c[L]
  BY DEF Collected
<1>11. c[L] \in S
  <2> HIDE DEF c, S, L
  <2> QED
    BY <1>1, <1>9
<1> QED
  BY <1>10, <1>11

\* The n numbers that follow a.
After(a, n) == [i \in 1 .. n |-> a + i]

LEMMA AfterIsList == ASSUME NEW a \in Nat, NEW n \in Nat PROVE After(a, n) \in Seq(Nat) /\ Len(After(a, n)) = n
<1>1. After(a, n) \in [1 .. n -> Nat]
  BY DEF After
<1> QED
  BY <1>1

LEMMA AfterJoined ==
    ASSUME NEW a \in Nat, NEW m \in Nat, NEW n \in Nat
    PROVE  After(a, m) \o After(a + m, n) = After(a, m + n)
<1> DEFINE p == After(a, m)
           q == After(a + m, n)
<1>1. p \in Seq(Nat) /\ Len(p) = m /\ q \in Seq(Nat) /\ Len(q) = n
  BY AfterIsList
<1>2. \A i \in 1 .. m : p[i] = a + i
  BY DEF After
<1>3. \A i \in 1 .. n : q[i] = a + m + i
  BY DEF After
<1>4. /\ p \o q \in Seq(Nat) /\ Len(p \o q) = m + n
      /\ \A i \in 1 .. m + n : (p \o q)[i] = IF i <= m THEN p[i] ELSE q[i - m]
  <2> HIDE DEF p, q
  <2> QED
    BY <1>1, ConcatProperties
<1>5. \A i \in 1 .. m + n : (p \o q)[i] = After(a, m + n)[i]
  <2> SUFFICES ASSUME NEW i \in 1 .. m + n PROVE (p \o q)[i] = After(a, m + n)[i]
    OBVIOUS
  <2>1. After(a, m + n)[i] = a + i
    BY DEF After
  <2> HIDE DEF p, q
  <2>2. CASE i <= m
    BY <1>2, <1>4, <2>1, <2>2
  <2>3. CASE ~(i <= m)
    <3>1. i - m \in 1 .. n
      BY <2>3
    <3>2. q[i - m] = a + m + (i - m)
      BY <1>3, <3>1
    <3> QED
      BY <1>4, <2>1, <2>3, <3>2
  <2> QED
    BY <2>2, <2>3
<1>6. After(a, m + n) \in Seq(Nat) /\ Len(After(a, m + n)) = m + n
  BY AfterIsList
<1> HIDE DEF p, q
<1>7. p \o q = After(a, m + n)
  BY <1>4, <1>5, <1>6, SeqEqual
<1> QED
  BY <1>7 DEF p, q

\* What fd_read's loop is in after any round: the bytes from stdinOffset on.
Handing == {acc \in [offset : Nat, bytes : Seq(Nat), ended : BOOLEAN] :
              /\ acc.offset \in stdinOffset .. StdinLength
              /\ acc.bytes = After(stdinOffset, acc.offset - stdinOffset)}

LEMMA HandOutStays ==
    ASSUME stdinOffset \in Nat, NEW acc \in Handing, NEW length \in Nat
    PROVE  HandOut(acc, length) \in Handing /\ HandOut(acc, length).offset >= acc.offset
<1> DEFINE rest == StdinLength - acc.offset
           n == IF length < rest THEN length ELSE rest
<1>1. /\ acc.offset \in stdinOffset .. StdinLength /\ acc.offset \in Nat /\ StdinLength \in Nat
      /\ rest \in Nat /\ n \in 0 .. rest /\ acc.ended \in BOOLEAN
      /\ acc.bytes = After(stdinOffset, acc.offset - stdinOffset)
      /\ acc \in [offset : Nat, bytes : Seq(Nat), ended : BOOLEAN]
  BY Constants DEF Handing
<1>2. CASE acc.ended \/ n = 0
  <2>1. HandOut(acc, length) = [acc EXCEPT !.ended = TRUE]
    BY <1>2 DEF HandOut
  <2>2. /\ HandOut(acc, length) \in [offset : Nat, bytes : Seq(Nat), ended : BOOLEAN]
        /\ HandOut(acc, length).offset = acc.offset /\ HandOut(acc, length).bytes = acc.bytes
    BY <1>1, <2>1
  <2> QED
    BY <1>1, <2>2 DEF Handing
<1>3. CASE ~(acc.ended \/ n = 0)
  <2> DEFINE m == acc.offset - stdinOffset
             more == After(acc.offset, n)
  <2>1. HandOut(acc, length) = [acc EXCEPT !.offset = acc.offset + n, !.bytes = acc.bytes \o more]
    BY <1>3 DEF HandOut, After
  <2>2. m \in Nat /\ n \in Nat /\ acc.offset = stdinOffset + m
    BY <1>1
  <2>3. acc.bytes \o more = After(stdinOffset, m + n)
    <3>1. acc.bytes = After(stdinOffset, m)
      BY <1>1
    <3>2. more = After(stdinOffset + m, n)
      BY <2>2
    <3> HIDE DEF m, n, more
    <3>3. After(stdinOffset, m) \o After(stdinOffset + m, n) = After(stdinOffset, m + n)
      BY <2>2, AfterJoined
    <3> QED
      BY <3>1, <3>2, <3>3
  <2>4. After(stdinOffset, m + n) \in Seq(Nat)
    <3> HIDE DEF m, n
    <3> QED
      BY <2>2, AfterIsList
  <2>5. acc.offset + n \in stdinOffset .. StdinLength
    BY <1>1
  <2>6. m + n = (acc.offset + n) - stdinOffset
    BY <1>1
  <2> HIDE DEF m, n, more, rest
  <2>7. /\ HandOut(acc, length) \in [offset : Nat, bytes : Seq(Nat), ended : BOOLEAN]
        /\ HandOut(acc, length).offset = acc.offset + n
        /\ HandOut(acc, length).bytes = After(stdinOffset, m + n)
    <3> DEFINE bytes == acc.bytes \o more
               made == [acc EXCEPT !.offset = acc.offset + n, !.bytes = bytes]
    <3>1. bytes \in Seq(Nat) /\ bytes = After(stdinOffset, m + n) /\ acc.offset + n \in Nat
      <4>1. bytes = After(stdinOffset, m + n)
        BY <2>3
      <4>2. acc.offset + n \in Nat
        BY <1>1, <2>2
      <4> HIDE DEF bytes
      <4> QED
        BY <2>4, <4>1, <4>2
    <3>2. HandOut(acc, length) = made
      BY <2>1
    <3> HIDE DEF bytes
    <3>3. /\ made \in [offset : Nat, bytes : Seq(Nat), ended : BOOLEAN]
          /\ made.offset = acc.offset + n /\ made.bytes = bytes
      BY <1>1, <3>1
    <3> HIDE DEF made
    <3> QED
      BY <3>1, <3>2, <3>3
  <2> QED
    BY <1>1, <2>2, <2>5, <2>6, <2>7 DEF Handing
<1> QED
  BY <1>2, <1>3

\* fd_read hands out the bytes that follow those handed out before, and nothing
\* to a caller that asks for bytes only at the end of stdin.
LEMMA HandedOutInOrder ==
    ASSUME stdinOffset \in 0 .. StdinLength, NEW lengths \in Buffers
    PROVE  /\ HandedOut(lengths) \in Handing
           /\ AsksForBytes(lengths) /\ HandedOut(lengths).bytes = <<>> => stdinOffset = StdinLength
<1> DEFINE L == Len(lengths)
           S == Handing
           b == [offset |-> stdinOffset, bytes |-> <<>>, ended |-> FALSE]
           round == [n \in 1 .. L |-> [acc \in S |-> HandOut(acc, lengths[n])]]
           IsRun(g) == g = [n \in 0 .. L |-> IF n = 0 THEN b ELSE HandOut(g[n - 1], lengths[n])]
           c == CHOOSE g : IsRun(g)
<1>1. /\ L \in Nat /\ lengths \in Seq(Nat) /\ stdinOffset \in Nat /\ StdinLength \in Nat
      /\ \A n \in 1 .. L : lengths[n] \in Nat
  BY BuffersAreLists, Constants
<1>2. b \in S
  <2>1. After(stdinOffset, 0) = <<>> /\ <<>> \in Seq(Nat)
    BY DEF After
  <2>2. b.offset = stdinOffset /\ b.bytes = <<>> /\ b \in [offset : Nat, bytes : Seq(Nat), ended : BOOLEAN]
    BY <1>1, <2>1
  <2> HIDE DEF b
  <2> QED
    BY <1>1, <2>1, <2>2 DEF Handing
<1>3. round \in Rounds(L, S)
  <2>1. ASSUME NEW n \in 1 .. L, NEW acc \in S PROVE HandOut(acc, lengths[n]) \in S
    BY <1>1, HandOutStays
  <2> HIDE DEF S
  <2> QED
    BY <2>1 DEF Rounds
<1>4. \A n \in 1 .. L, acc \in S : round[n][acc] = HandOut(acc, lengths[n])
  OBVIOUS
<1>5. PICK g : g \in Runs(L, S, b, round)
  <2> HIDE DEF L, S, b, round
  <2> QED
    BY <1>1, <1>2, <1>3, RunExists
<1>6. IsRun(g)
  <2> HIDE DEF S, b, round
  <2>1. g \in [0 .. L -> S] /\ g[0] = b /\ \A n \in 1 .. L : g[n] = round[n][g[n - 1]]
    BY <1>5 DEF Runs
  <2>2. ASSUME NEW n \in 1 .. L PROVE g[n] = HandOut(g[n - 1], lengths[n])
    <3>1. n - 1 \in 0 .. L
      BY <1>1
    <3> QED
      BY <1>4, <2>1, <3>1
  <2> HIDE DEF L
  <2>3. \A n \in 0 .. L : g[n] = IF n = 0 THEN b ELSE HandOut(g[n - 1], lengths[n])
    BY <1>1, <2>1, <2>2
  <2> QED
    BY <2>1, <2>3
<1>7. IsRun(c)
  <2> HIDE DEF IsRun
  <2> QED
    BY <1>6
<1>8. /\ HandedOut(lengths) = c[L]
      /\ c[0] = b /\ \A n \in 1 .. L : c[n] = HandOut(c[n - 1], lengths[n])
  <2>1. HandedOut(lengths) = c[L]
    BY DEF HandedOut
  <2>2. c = [n \in 0 .. L |-> IF n = 0 THEN b ELSE HandOut(c[n - 1], lengths[n])]
    <3> HIDE DEF c, b, L, S, round
    <3> QED
      BY <1>7
  <2> HIDE DEF c, b, L, S, round, IsRun
  <2>3. \A n \in 0 .. L : c[n] = IF n = 0 THEN b ELSE HandOut(c[n - 1], lengths[n])
    BY <2>2
  <2>4. c[0] = b
    BY <1>1, <2>3
  <2>5. \A n \in 1 .. L : c[n] = HandOut(c[n - 1], lengths[n])
    BY <1>1, <2>3
  <2> QED
    BY <2>1, <2>4, <2>5
<1> HIDE DEF c
<1>9. \A n \in 0 .. L : c[n] \in S
  <2>1. \A n \in 1 .. L : c[n - 1] \in S => c[n] = round[n][c[n - 1]]
    <3> HIDE DEF round, S
    <3> QED
      BY <1>4, <1>8
  <2> HIDE DEF L, S, b, round
  <2> QED
    BY <1>1, <1>2, <1>3, <1>8, <2>1, RunStays
<1>10. ASSUME AsksForBytes(lengths), stdinOffset < StdinLength PROVE HandedOut(lengths).bytes # <<>>
  <2>1. 1 \in 1 .. L /\ lengths[1] > 0
    BY <1>1, <1>10 DEF AsksForBytes
  <2> DEFINE T == {n \in 0 .. L : n = 0 \/ c[n].offset > stdinOffset}
  <2>2. c[1].offset > stdinOffset
    <3>1. c[1] = HandOut(b, lengths[1])
      BY <1>8, <2>1
    <3> QED
      BY <1>1, <1>10, <2>1, <3>1 DEF HandOut
  <2>3. ASSUME NEW n \in 1 .. L, n - 1 \in T PROVE n \in T
    <3>1. CASE n = 1
      BY <2>2, <3>1
    <3>2. CASE n # 1
      <4>1. n - 1 \in 1 .. L /\ c[n - 1].offset > stdinOffset
        BY <1>1, <2>3, <3>2
      <4>2. c[n - 1] \in Handing /\ c[n] \in Handing /\ lengths[n] \in Nat
        BY <1>1, <1>9, <4>1
      <4>3. c[n] = HandOut(c[n - 1], lengths[n])
        BY <1>8
      <4>4. c[n].offset >= c[n - 1].offset
        BY <1>1, <4>2, <4>3, HandOutStays
      <4>5. c[n].offset \in Nat /\ c[n - 1].offset \in Nat
        BY <4>2 DEF Handing
      <4> QED
        BY <1>1, <4>1, <4>4, <4>5
    <3> QED
      BY <3>1, <3>2
  <2>4. \A n \in 0 .. L : n \in T
    <3>1. 0 \in T
      BY <1>1
    <3> HIDE DEF T, L
    <3> QED
      BY <1>1, <2>3, <3>1, InductionTo
  <2>5. c[L] \in Handing /\ c[L].offset > stdinOffset
    BY <1>1, <1>9, <2>1, <2>4
  <2> DEFINE m == c[L].offset - stdinOffset
  <2>6. m \in Nat /\ m > 0 /\ c[L].bytes = After(stdinOffset, m)
    BY <1>1, <2>5 DEF Handing
  <2>7. Len(c[L].bytes) = m
    <3> HIDE DEF m
    <3> QED
      BY <1>1, <2>6, AfterIsList
  <2> QED
    BY <1>8, <2>6, <2>7
<1> QED
  BY <1>1, <1>8, <1>9, <1>10

-----------------------------------------------------------------------------
(* The output limits, stdin and the verdict *)

\* The inductive invariant: as long as the guest may run, there is no verdict
\* and both streams are within their limits.
RunInv ==
    /\ memory \in Nat
    /\ written \in [Streams -> Nat]
    /\ stdinOffset \in 0 .. StdinLength
    /\ toldEnd \in BOOLEAN
    /\ stage # "done" => verdict = NoVerdict /\ \A s \in Streams : written[s] <= Limit(s)
    /\ SuccessIsClean
    /\ OutputLimitDecides
    /\ StdinIsReadOnce

\* The run ends with an exception of the engine.
EngineEnds == /\ stage' = "done"
              /\ verdict'.engine = TRUE
              /\ verdict'.status \in {"memory_limit_exceeded", "internal_error", "runtime_error"}

LEMMA EngineFailsEnds == EngineFails => EngineEnds
<1>1. \A t \in EngineStatuses("internal_error") :
        OfEngine(Failure(t)).engine = TRUE /\ OfEngine(Failure(t)).status = t
  BY DEF OfEngine, Failure, ExecutionFailure
<1> QED
  BY <1>1 DEF EngineFails, EngineStatuses, Ends, EngineEnds

\* A result shown is the result, or the engine's failure to show it.
LEMMA ShownVerdict ==
    ASSUME NEW v, EndsShowing(v)
    PROVE  stage' = "done" /\ (verdict' = v \/ EngineEnds)
  BY EngineFailsEnds DEF EndsShowing, Ends, EngineEnds

\* An output that is too much and cannot be decoded: the engine's exception.
LEMMA UndecodedEnds ==
    ASSUME NEW output, NEW t \in EngineStatuses("runtime_error"), EndsShowing(OfEngine(Trap(t, output)))
    PROVE  EngineEnds
<1>1. OfEngine(Trap(t, output)).engine = TRUE /\ OfEngine(Trap(t, output)).status = t
  BY DEF OfEngine, Trap, ExecutionFailure
<1>2. stage' = "done" /\ (verdict' = OfEngine(Trap(t, output)) \/ EngineEnds)
  BY ShownVerdict
<1> QED
  BY <1>1, <1>2 DEF EngineStatuses, EngineEnds

\* A verdict that is neither a success nor about the output, of a run whose
\* streams are within their limits, keeps the invariant.
LEMMA EndWithinLimits ==
    ASSUME RunInv, stage # "done", UNCHANGED written, stage' = "done",
           verdict'.status \notin {"success", "output_limit_exceeded"},
           memory' \in Nat, stdinOffset' \in 0 .. StdinLength, toldEnd' \in BOOLEAN, StdinIsReadOnce'
    PROVE  RunInv'
<1>1. \A s \in Streams : written'[s] \in Nat /\ written'[s] <= Limit(s) /\ Limit(s) \in Nat
  BY Constants DEF RunInv
<1>2. {s \in Streams : written'[s] > Limit(s)} = {}
  BY <1>1
<1>3. SuccessIsClean' /\ OutputLimitDecides'
  BY <1>2 DEF SuccessIsClean, OutputLimitDecides
<1> QED
  BY <1>3 DEF RunInv

\* So does the engine's failure, even if a stream is over its limit.
LEMMA EngineEndKeeps ==
    ASSUME RunInv, EngineEnds, written' \in [Streams -> Nat],
           memory' \in Nat, stdinOffset' \in 0 .. StdinLength, toldEnd' \in BOOLEAN, StdinIsReadOnce'
    PROVE  RunInv'
<1>1. verdict'.engine /\ verdict'.status \notin {"success", "output_limit_exceeded"}
  BY DEF EngineEnds
<1>2. SuccessIsClean' /\ OutputLimitDecides'
  BY <1>1 DEF SuccessIsClean, OutputLimitDecides, EngineEnds
<1> QED
  BY <1>2 DEF RunInv, EngineEnds

\* A step that leaves the guest running, its streams within their limits.
LEMMA GoingOnKeeps ==
    ASSUME RunInv, stage # "done", stage' # "done", UNCHANGED verdict,
           written' \in [Streams -> Nat], \A s \in Streams : written'[s] <= Limit(s),
           memory' \in Nat, stdinOffset' \in 0 .. StdinLength, toldEnd' \in BOOLEAN, StdinIsReadOnce'
    PROVE  RunInv'
<1>1. verdict' = NoVerdict /\ verdict'.status = "none"
  BY DEF RunInv, NoVerdict
<1>2. {s \in Streams : written'[s] > Limit(s)} = {}
  BY Constants
<1>3. SuccessIsClean' /\ OutputLimitDecides'
  BY <1>1, <1>2 DEF SuccessIsClean, OutputLimitDecides
<1> QED
  BY <1>1, <1>3 DEF RunInv

\* proc_exit and the return of _start: a success has everything a success needs.
LEMMA FinalResultKeeps ==
    ASSUME RunInv, stage = "guest", NEW code, EndsShowing(FinalResult(code)), exitCode' = code,
           UNCHANGED <<memory, written, stdinOffset, received, toldEnd>>
    PROVE  RunInv'
<1>1. /\ StdinIsReadOnce' /\ memory' \in Nat
      /\ stdinOffset' \in 0 .. StdinLength /\ toldEnd' \in BOOLEAN
  BY DEF RunInv, StdinIsReadOnce
<1>2. CASE EngineEnds
  BY <1>1, <1>2, EngineEndKeeps DEF RunInv
<1>3. CASE verdict' = FinalResult(code) /\ verdict'.status # "success"
  <2>1. verdict'.status # "output_limit_exceeded"
    BY <1>3 DEF FinalResult, ExecutionFailure
  <2> QED
    BY <1>1, <1>3, <2>1, ShownVerdict, EndWithinLimits
<1>4. CASE verdict' = FinalResult(code) /\ verdict'.status = "success"
  <2>1. /\ memory <= PageLimit /\ code = 0
        /\ verdict' = [status |-> "success", output |-> written, exit |-> 0, engine |-> FALSE]
    <3>1. ~(memory > PageLimit)
      BY <1>4 DEF FinalResult, ExecutionFailure
    <3>2. verdict' = [status |-> IF code = 0 THEN "success" ELSE "runtime_error",
                      output |-> written, exit |-> code, engine |-> FALSE]
      BY <1>4, <3>1 DEF FinalResult
    <3>3. code = 0
      BY <1>4, <3>2
    <3> QED
      BY <3>1, <3>2, <3>3, Constants DEF RunInv
  <2>2. SuccessIsClean'
    BY <2>1, Constants DEF SuccessIsClean, RunInv
  <2>3. {s \in Streams : written'[s] > Limit(s)} = {} /\ verdict'.status = "success"
    BY <2>1, Constants DEF RunInv
  <2>4. OutputLimitDecides'
    BY <2>3 DEF OutputLimitDecides
  <2> QED
    BY <1>1, <2>2, <2>4, ShownVerdict DEF RunInv
<1> QED
  BY <1>2, <1>3, <1>4, ShownVerdict

\* fd_write: the stream's new sum is over its limit exactly if the loop was left
\* with an excess, and then the guest has ended.
LEMMA FdWriteKeeps ==
    ASSUME RunInv, NEW s \in Streams, NEW lengths \in Buffers, FdWrite(s, lengths)
    PROVE  RunInv'
<1> DEFINE sum == Collected(s, lengths)
<1>1. /\ stage = "guest" /\ UNCHANGED <<memory, exitCode, stdinOffset, received, toldEnd>>
      /\ written' = [written EXCEPT ![s] = sum.bytes]
  BY DEF FdWrite
<1>2. \A r \in Streams : written[r] \in Nat /\ Limit(r) \in Nat /\ written[r] <= Limit(r)
  BY <1>1, Constants DEF RunInv
<1>3. sum.bytes \in Nat /\ (sum.over <=> sum.bytes > Limit(s))
  <2>1. written[s] \in 0 .. Limit(s)
    BY <1>2
  <2>2. sum \in Collecting(s)
    BY <2>1, CollectedIsExact
  <2> HIDE DEF sum
  <2> QED
    BY <2>2 DEF Collecting
<1>4. /\ written' \in [Streams -> Nat] /\ written'[s] = sum.bytes
      /\ \A r \in Streams \ {s} : written'[r] = written[r]
  <2> HIDE DEF sum
  <2> QED
    BY <1>1, <1>3 DEF RunInv
<1>5. /\ StdinIsReadOnce' /\ memory' \in Nat
      /\ stdinOffset' \in 0 .. StdinLength /\ toldEnd' \in BOOLEAN
  BY <1>1 DEF RunInv, StdinIsReadOnce
<1>6. CASE EngineEnds
  BY <1>4, <1>5, <1>6, EngineEndKeeps
<1>7. CASE sum.over /\ ~EngineEnds
  <2>1. EndsShowing(ExecutionFailure("output_limit_exceeded", written'))
    BY <1>7, UndecodedEnds DEF FdWrite
  <2>2. /\ stage' = "done"
        /\ verdict' = [status |-> "output_limit_exceeded", output |-> written', exit |-> Null,
                       engine |-> FALSE]
    BY <1>7, <2>1, ShownVerdict DEF ExecutionFailure
  <2>3. written'[s] > Limit(s)
    BY <1>3, <1>4, <1>7
  <2>4. \A r \in Streams \ {s} : ~(written'[r] > Limit(r))
    BY <1>2, <1>4
  <2>5. {r \in Streams : written'[r] > Limit(r)} = {s}
    BY <2>3, <2>4
  <2>6. verdict'.status = "output_limit_exceeded" /\ verdict'.output = written'
    BY <2>2
  <2>7. OutputLimitDecides' /\ SuccessIsClean'
    BY <2>2, <2>5, <2>6 DEF OutputLimitDecides, SuccessIsClean
  <2> QED
    BY <1>4, <1>5, <2>2, <2>7 DEF RunInv
<1>8. CASE ~sum.over /\ ~EngineEnds
  <2>1. \A r \in Streams : ~(written'[r] > Limit(r)) /\ written'[r] <= Limit(r)
    BY <1>2, <1>3, <1>4, <1>8
  <2>2. CASE GoesOn
    BY <1>1, <1>4, <1>5, <2>1, <2>2, GoingOnKeeps DEF GoesOn
  <2>3. CASE EndsShowing(Trap("runtime_error", written'))
    <3>1. stage' = "done" /\ verdict' = Trap("runtime_error", written')
      BY <1>8, <2>3, ShownVerdict
    <3>2. verdict'.status = "runtime_error"
      BY <3>1 DEF Trap, ExecutionFailure
    <3>3. {r \in Streams : written'[r] > Limit(r)} = {}
      BY <2>1
    <3>4. OutputLimitDecides' /\ SuccessIsClean'
      BY <3>2, <3>3 DEF OutputLimitDecides, SuccessIsClean
    <3> QED
      BY <1>4, <1>5, <3>1, <3>4 DEF RunInv
  <2> QED
    BY <1>8, <2>2, <2>3 DEF FdWrite
<1> QED
  BY <1>6, <1>7, <1>8

\* fd_read: the bytes handed out are those that follow the ones received.
LEMMA FdReadKeeps ==
    ASSUME RunInv, NEW lengths \in Buffers, FdRead(lengths)
    PROVE  RunInv'
<1> DEFINE out == HandedOut(lengths)
<1>1. /\ stage = "guest" /\ UNCHANGED <<memory, exitCode, written>>
      /\ stdinOffset' = out.offset /\ received' = received \o out.bytes
      /\ \/ /\ GoesOn
            /\ toldEnd' = (toldEnd \/ (AsksForBytes(lengths) /\ out.bytes = <<>>))
         \/ /\ UNCHANGED toldEnd
            /\ \/ EndsShowing(ExecutionFailure("memory_limit_exceeded", written))
               \/ EndsShowing(Trap("runtime_error", written))
  BY DEF FdRead
<1>2. /\ stdinOffset \in 0 .. StdinLength /\ StdinLength \in Nat /\ stdinOffset \in Nat
      /\ received = After(0, stdinOffset) /\ toldEnd \in BOOLEAN
      /\ toldEnd => stdinOffset = StdinLength
  <2>1. received = [i \in 1 .. stdinOffset |-> i]
    BY DEF RunInv, StdinIsReadOnce
  <2>2. [i \in 1 .. stdinOffset |-> i] = After(0, stdinOffset)
    BY Constants DEF After, RunInv
  <2> QED
    BY <2>1, <2>2, Constants DEF RunInv, StdinIsReadOnce
<1>3. out \in Handing /\ (AsksForBytes(lengths) /\ out.bytes = <<>> => stdinOffset = StdinLength)
  BY <1>2, HandedOutInOrder
<1> HIDE DEF out
<1>4. /\ out.offset \in stdinOffset .. StdinLength
      /\ out.bytes = After(stdinOffset, out.offset - stdinOffset)
  BY <1>3 DEF Handing
<1>5. stdinOffset' \in 0 .. StdinLength /\ stdinOffset' \in Nat /\ memory' \in Nat
  BY <1>1, <1>2, <1>4 DEF RunInv
<1>6. received' = After(0, stdinOffset')
  <2> DEFINE n == out.offset - stdinOffset
  <2>1. n \in Nat /\ out.offset = stdinOffset + n /\ out.bytes = After(0 + stdinOffset, n)
    BY <1>2, <1>4
  <2> HIDE DEF n
  <2>2. After(0, stdinOffset) \o After(0 + stdinOffset, n) = After(0, stdinOffset + n)
    BY <1>2, <2>1, AfterJoined
  <2> QED
    BY <1>1, <1>2, <2>1, <2>2
<1>7. After(0, stdinOffset') = [i \in 1 .. stdinOffset' |-> i]
  BY <1>5 DEF After
<1>8. toldEnd' \in BOOLEAN /\ (toldEnd' => stdinOffset' = StdinLength)
  <2>1. CASE UNCHANGED toldEnd
    BY <1>1, <1>2, <1>4, <2>1
  <2>2. CASE toldEnd' = (toldEnd \/ (AsksForBytes(lengths) /\ out.bytes = <<>>))
    <3>1. toldEnd' => stdinOffset = StdinLength
      BY <1>2, <1>3, <2>2
    <3>2. stdinOffset = StdinLength => stdinOffset' = StdinLength
      BY <1>1, <1>2, <1>4
    <3> QED
      BY <2>2, <3>1, <3>2
  <2> QED
    BY <1>1, <2>1, <2>2
<1>9. StdinIsReadOnce'
  BY <1>6, <1>7, <1>8 DEF StdinIsReadOnce
<1>10. written' \in [Streams -> Nat] /\ \A s \in Streams : written'[s] <= Limit(s)
  BY <1>1 DEF RunInv
<1>11. CASE GoesOn
  BY <1>1, <1>5, <1>8, <1>9, <1>10, <1>11, GoingOnKeeps DEF GoesOn
<1>12. CASE EngineEnds
  BY <1>5, <1>8, <1>9, <1>10, <1>12, EngineEndKeeps
<1>13. ASSUME ~EngineEnds,
              NEW v \in {ExecutionFailure("memory_limit_exceeded", written), Trap("runtime_error", written)},
              EndsShowing(v)
       PROVE  RunInv'
  <2>1. verdict' = v /\ stage' = "done"
    BY <1>13, ShownVerdict
  <2>2. verdict'.status \in {"memory_limit_exceeded", "runtime_error"}
    BY <2>1 DEF Trap, ExecutionFailure
  <2> QED
    BY <1>1, <1>5, <1>8, <1>9, <2>1, <2>2, EndWithinLimits
<1> QED
  BY <1>1, <1>11, <1>12, <1>13

\* Every step keeps the invariant.
LEMMA RunStepKeeps == RunInv /\ [Next]_vars => RunInv'
<1> SUFFICES ASSUME RunInv, [Next]_vars PROVE RunInv'
  OBVIOUS
<1>1. CASE UNCHANGED vars
  BY <1>1 DEF vars, RunInv, SuccessIsClean, OutputLimitDecides, StdinIsReadOnce
<1>2. ASSUME UNCHANGED <<stdinOffset, received, toldEnd>>
      PROVE  StdinIsReadOnce' /\ stdinOffset' \in 0 .. StdinLength /\ toldEnd' \in BOOLEAN
  BY <1>2 DEF RunInv, StdinIsReadOnce
<1>3. CASE Compiles
  BY <1>2, <1>3, GoingOnKeeps DEF Compiles, RunInv
<1>4. CASE CompileFails \/ InstantiateFails
  BY <1>2, <1>4, EngineFailsEnds, EngineEndKeeps DEF CompileFails, InstantiateFails, RunInv
<1>5. CASE Instantiates
  <2>1. memory' \in Nat /\ stage = "instantiate" /\ UNCHANGED <<written, stdinOffset, received, toldEnd>>
    BY <1>5, Constants DEF Instantiates
  <2>2. CASE stage' = "guest" /\ UNCHANGED verdict
    BY <1>2, <2>1, <2>2, GoingOnKeeps DEF RunInv
  <2>3. CASE stage' = "done" /\ verdict' \in {Failure("memory_limit_exceeded"), Failure("runtime_error")}
    <3>1. verdict'.status \in {"memory_limit_exceeded", "runtime_error"}
      BY <2>3 DEF Failure, ExecutionFailure
    <3> QED
      BY <1>2, <2>1, <2>3, <3>1, EndWithinLimits
  <2> QED
    BY <1>5, <2>2, <2>3 DEF Instantiates, Ends
<1>6. CASE Grows
  <2>1. /\ memory' \in Nat /\ stage = "guest"
        /\ UNCHANGED <<stage, written, stdinOffset, received, toldEnd, verdict>>
    BY <1>6, Constants DEF Grows, RunInv
  <2> QED
    BY <1>2, <2>1, GoingOnKeeps DEF RunInv
<1>7. CASE CheckedCall \/ Traps
  <2>1. PICK v : /\ v.status \notin {"success", "output_limit_exceeded"}
                 /\ EndsShowing(v)
    <3>1. ExecutionFailure("memory_limit_exceeded", written).status = "memory_limit_exceeded"
      BY DEF ExecutionFailure
    <3>2. \A s : Trap(s, written).status = s
      BY DEF Trap, ExecutionFailure
    <3> QED
      BY <1>7, <3>1, <3>2 DEF CheckedCall, Traps, EngineStatuses
  <2>2. /\ stage = "guest" /\ UNCHANGED <<memory, written, stdinOffset, received, toldEnd>>
    BY <1>7 DEF CheckedCall, Traps
  <2>3. CASE EngineEnds
    BY <1>2, <2>2, <2>3, EngineEndKeeps DEF RunInv
  <2>4. CASE ~EngineEnds
    <3>1. verdict' = v /\ stage' = "done"
      BY <2>1, <2>4, ShownVerdict
    <3> QED
      BY <1>2, <2>1, <2>2, <3>1, EndWithinLimits DEF RunInv
  <2> QED
    BY <2>3, <2>4
<1>8. CASE Returns
  BY <1>8, FinalResultKeeps DEF Returns
<1>9. ASSUME NEW code \in ExitCodes, ProcExit(code) PROVE RunInv'
  BY <1>9, FinalResultKeeps DEF ProcExit
<1> QED
  BY <1>1, <1>3, <1>4, <1>5, <1>6, <1>7, <1>8, <1>9, FdWriteKeeps, FdReadKeeps DEF Next, Guest

LEMMA RunInvariant == Spec => []RunInv
<1>1. Init => RunInv
  <2> SUFFICES ASSUME Init PROVE RunInv
    OBVIOUS
  <2>1. written = [s \in Streams |-> 0] /\ verdict.status = "none" /\ stage = "compile"
    BY DEF Init, Nothing, NoVerdict
  <2>2. {s \in Streams : written[s] > Limit(s)} = {}
    BY <2>1, Constants
  <2>3. SuccessIsClean /\ OutputLimitDecides
    BY <2>1, <2>2 DEF SuccessIsClean, OutputLimitDecides
  <2>4. StdinIsReadOnce
    BY DEF Init, StdinIsReadOnce
  <2>5. written \in [Streams -> Nat] /\ \A s \in Streams : written[s] <= Limit(s)
    BY <2>1, Constants
  <2>6. memory \in Nat /\ stdinOffset \in 0 .. StdinLength /\ verdict = NoVerdict
    BY Constants DEF Init
  <2>7. toldEnd \in BOOLEAN
    BY Zenon DEF Init
  <2> QED
    BY <2>3, <2>4, <2>5, <2>6, <2>7 DEF RunInv
<1> QED
  BY <1>1, RunStepKeeps, PTL DEF Spec

\* executeWasm() calls a run a success only if the program ended by itself with
\* code 0, within its memory limit and within both output limits over all its
\* calls of fd_write, and then the result shows everything it wrote.
THEOREM SuccessClean == Spec => []SuccessIsClean
<1>1. RunInv => SuccessIsClean
  BY DEF RunInv
<1> QED
  BY <1>1, RunInvariant, PTL

\* The collector's count over all calls and buffers decides: a stream beyond its
\* limit ends the run, such a verdict is given to no other, and nothing is cut off.
THEOREM OutputDecides == Spec => []OutputLimitDecides
<1>1. RunInv => OutputLimitDecides
  BY DEF RunInv
<1> QED
  BY <1>1, RunInvariant, PTL

\* However the guest splits its reads into calls and buffers, fd_read() gives it
\* stdin in order, each byte once, and an end only at the end.
THEOREM StdinOnce == Spec => []StdinIsReadOnce
<1>1. RunInv => StdinIsReadOnce
  BY DEF RunInv
<1> QED
  BY <1>1, RunInvariant, PTL
=============================================================================
