---------------------- MODULE ExactCheckerProofs ----------------------
(***************************************************************************)
(* Proofs about ExactChecker, for texts of any length.                     *)
(***************************************************************************)
EXTENDS ExactChecker, Loops, FiniteSetTheorems

\* The characters of a line, and of a text whose line ends are line feeds.
LineChars == Chars \ {LF, CR}
NoCR == Chars \ {CR}

LEMMA CharsDiffer ==
    LF # CR /\ LF # Blank /\ LF \in NoCR /\ LF \in Chars /\ Blank \in LineChars
  BY CharactersAssumption DEF Chars, LineChars, NoCR

-----------------------------------------------------------------------------
(* The three loops *)

\* The rounds of normalizeLineEndings().
IsReplacing(out, text) ==
    /\ out \in [0 .. Len(text) -> Seq(NoCR)]
    /\ out[0] = <<>>
    /\ \A n \in 1 .. Len(text) : out[n] = ReplaceEnd(text, n, out[n - 1])

LEMMA ReplacingRuns ==
    ASSUME NEW text \in Seq(Chars)
    PROVE  \E run : IsReplacing(run, text) /\ NormalizeLineEndings(text) = run[Len(text)]
<1> DEFINE L == Len(text)
           S == Seq(NoCR)
           b == <<>>
           round == [n \in 1 .. L |-> [x \in S |-> ReplaceEnd(text, n, x)]]
           IsRun(g) == g = [n \in 0 .. L |-> IF n = 0 THEN b ELSE ReplaceEnd(text, n, g[n - 1])]
           t == CHOOSE g : IsRun(g)
<1>1. L \in Nat
  OBVIOUS
<1>2. b \in S
  OBVIOUS
<1>3. round \in Rounds(L, S)
  <2>1. ASSUME NEW n \in 1 .. L, NEW x \in S PROVE ReplaceEnd(text, n, x) \in S
    <3>1. text[n] \in Chars
      OBVIOUS
    <3>2. (IF text[n] = CR THEN LF ELSE text[n]) \in NoCR
      BY <3>1, CharsDiffer DEF NoCR
    <3> QED
      BY <3>2 DEF ReplaceEnd
  <2> HIDE DEF S
  <2> QED
    BY <2>1 DEF Rounds
<1>4. \A n \in 1 .. L, x \in S : round[n][x] = ReplaceEnd(text, n, x)
  <2> HIDE DEF S
  <2> QED
    OBVIOUS
<1>5. PICK g : g \in Runs(L, S, b, round)
  <2> HIDE DEF L, S, b, round
  <2> QED
    BY <1>1, <1>2, <1>3, RunExists
<1>6. IsRun(g)
  <2>1. g \in [0 .. L -> S] /\ g[0] = b /\ \A n \in 1 .. L : g[n] = round[n][g[n - 1]]
    <3> HIDE DEF L, S, b, round
    <3> QED
      BY <1>5 DEF Runs
  <2>2. \A n \in 0 .. L : g[n] = IF n = 0 THEN b ELSE ReplaceEnd(text, n, g[n - 1])
    <3>1. ASSUME NEW n \in 1 .. L PROVE g[n] = ReplaceEnd(text, n, g[n - 1])
      <4>1. n - 1 \in 0 .. L
        BY <1>1
      <4> HIDE DEF L, S, b, round
      <4>2. g[n - 1] \in S
        BY <2>1, <4>1
      <4> QED
        BY <1>4, <2>1, <4>2
    <3> HIDE DEF L, S, b, round
    <3> QED
      BY <1>1, <2>1, <3>1
  <2> HIDE DEF L, S, b, round
  <2> QED
    BY <2>1, <2>2
<1>7. IsRun(t)
  <2> HIDE DEF IsRun
  <2> QED
    BY <1>6
<1>8. t[0] = b /\ \A n \in 1 .. L : t[n] = ReplaceEnd(text, n, t[n - 1])
  <2> HIDE DEF t, b, S, L
  <2> QED
    BY <1>1, <1>7
<1>9. t \in [0 .. L -> S]
  <2>1. \A n \in 0 .. L : t[n] \in S
    <3>1. \A n \in 1 .. L : t[n - 1] \in S => t[n] = round[n][t[n - 1]]
      <4> HIDE DEF t, b, S, L, round
      <4> QED
        BY <1>4, <1>8
    <3> HIDE DEF t, b, S, L, round
    <3> QED
      BY <1>1, <1>2, <1>3, <1>8, <3>1, RunStays
  <2> HIDE DEF t, b, S, L
  <2> QED
    BY <1>7, <2>1
<1>10. NormalizeLineEndings(text) = t[L]
  BY DEF NormalizeLineEndings
<1>11. IsReplacing(t, text)
  <2> HIDE DEF t
  <2> QED
    BY <1>8, <1>9 DEF IsReplacing
<1> QED
  BY <1>10, <1>11

\* The rounds of split().
IsSplitting(lines, text) ==
    /\ lines \in [0 .. Len(text) -> Seq(Seq(LineChars)) \ {<<>>}]
    /\ lines[0] = << <<>> >>
    /\ \A n \in 1 .. Len(text) : lines[n] = Split(lines[n - 1], text[n])

\* A line feed begins a line, another character goes to the last one.
LEMMA SplitIs ==
    ASSUME NEW ls \in Seq(Seq(LineChars)) \ {<<>>}, NEW ch \in NoCR
    PROVE  /\ Split(ls, ch) \in Seq(Seq(LineChars)) \ {<<>>}
           /\ ch = LF => Split(ls, ch) = Append(ls, <<>>)
           /\ ch # LF => /\ Len(Split(ls, ch)) = Len(ls)
                         /\ Split(ls, ch)[Len(ls)] = Append(ls[Len(ls)], ch)
                         /\ \A l \in 1 .. Len(ls) : l # Len(ls) => Split(ls, ch)[l] = ls[l]
<1> DEFINE T == Seq(LineChars)
           n == Len(ls)
<1>1. ls \in Seq(T) /\ n \in Nat /\ n \in 1 .. n /\ ls[n] \in T /\ <<>> \in T
  BY EmptySeq
<1>2. CASE ch = LF
  <2> HIDE DEF T
  <2> QED
    BY <1>1, <1>2 DEF Split
<1>3. CASE ch # LF
  <2> DEFINE e == Append(ls[n], ch)
  <2>1. e \in T
    BY <1>1, <1>3 DEF NoCR, LineChars
  <2> HIDE DEF T, e
  <2>2. /\ [ls EXCEPT ![n] = e] \in Seq(T)
        /\ Len([ls EXCEPT ![n] = e]) = n
        /\ \A j \in 1 .. n : [ls EXCEPT ![n] = e][j] = IF j = n THEN e ELSE ls[j]
    BY <1>1, <2>1, ExceptSeq
  <2>3. Split(ls, ch) = [ls EXCEPT ![n] = e]
    BY <1>3 DEF Split, e
  <2>4. [ls EXCEPT ![n] = e] # <<>>
    BY <1>1, <2>2, EmptySeq
  <2> QED
    BY <1>1, <1>3, <2>2, <2>3, <2>4 DEF e, T
<1> QED
  BY <1>2, <1>3

LEMMA SplittingRuns ==
    ASSUME NEW text \in Seq(NoCR)
    PROVE  \E run : IsSplitting(run, text) /\ Lines(text) = run[Len(text)]
<1> DEFINE L == Len(text)
           S == Seq(Seq(LineChars)) \ {<<>>}
           b == << <<>> >>
           round == [n \in 1 .. L |-> [x \in S |-> Split(x, text[n])]]
           IsRun(g) == g = [n \in 0 .. L |-> IF n = 0 THEN b ELSE Split(g[n - 1], text[n])]
           t == CHOOSE g : IsRun(g)
<1>1. L \in Nat
  OBVIOUS
<1>2. b \in S
  <2>1. <<>> \in Seq(LineChars)
    OBVIOUS
  <2> HIDE DEF b
  <2>2. b \in Seq(Seq(LineChars)) /\ Len(b) = 1
    BY <2>1 DEF b
  <2> QED
    BY <2>2, EmptySeq
<1>3. round \in Rounds(L, S)
  <2>1. ASSUME NEW n \in 1 .. L, NEW x \in S PROVE Split(x, text[n]) \in S
    <3>1. text[n] \in NoCR
      OBVIOUS
    <3> QED
      BY <3>1, SplitIs
  <2> HIDE DEF S
  <2> QED
    BY <2>1 DEF Rounds
<1>4. \A n \in 1 .. L, x \in S : round[n][x] = Split(x, text[n])
  <2> HIDE DEF S
  <2> QED
    OBVIOUS
<1>5. PICK g : g \in Runs(L, S, b, round)
  <2> HIDE DEF L, S, b, round
  <2> QED
    BY <1>1, <1>2, <1>3, RunExists
<1>6. IsRun(g)
  <2>1. g \in [0 .. L -> S] /\ g[0] = b /\ \A n \in 1 .. L : g[n] = round[n][g[n - 1]]
    <3> HIDE DEF L, S, b, round
    <3> QED
      BY <1>5 DEF Runs
  <2>2. \A n \in 0 .. L : g[n] = IF n = 0 THEN b ELSE Split(g[n - 1], text[n])
    <3>1. ASSUME NEW n \in 1 .. L PROVE g[n] = Split(g[n - 1], text[n])
      <4>1. n - 1 \in 0 .. L
        BY <1>1
      <4> HIDE DEF L, S, b, round
      <4>2. g[n - 1] \in S
        BY <2>1, <4>1
      <4> QED
        BY <1>4, <2>1, <4>2
    <3> HIDE DEF L, S, b, round
    <3> QED
      BY <1>1, <2>1, <3>1
  <2> HIDE DEF L, S, b, round
  <2> QED
    BY <2>1, <2>2
<1>7. IsRun(t)
  <2> HIDE DEF IsRun
  <2> QED
    BY <1>6
<1>8. t[0] = b /\ \A n \in 1 .. L : t[n] = Split(t[n - 1], text[n])
  <2> HIDE DEF t, b, S, L
  <2> QED
    BY <1>1, <1>7
<1>9. t \in [0 .. L -> S]
  <2>1. \A n \in 0 .. L : t[n] \in S
    <3>1. \A n \in 1 .. L : t[n - 1] \in S => t[n] = round[n][t[n - 1]]
      <4> HIDE DEF t, b, S, L, round
      <4> QED
        BY <1>4, <1>8
    <3> HIDE DEF t, b, S, L, round
    <3> QED
      BY <1>1, <1>2, <1>3, <1>8, <3>1, RunStays
  <2> HIDE DEF t, b, S, L
  <2> QED
    BY <1>7, <2>1
<1>10. Lines(text) = t[L]
  BY DEF Lines
<1>11. IsSplitting(t, text)
  <2> HIDE DEF t
  <2> QED
    BY <1>8, <1>9 DEF IsSplitting
<1> QED
  BY <1>10, <1>11

\* The rounds of join().
IsJoining(text, lines) ==
    /\ text \in [0 .. Len(lines) - 1 -> Seq(NoCR)]
    /\ text[0] = lines[1]
    /\ \A n \in 1 .. Len(lines) - 1 : text[n] = AddLine(text[n - 1], lines[n + 1])

LEMMA JoiningRuns ==
    ASSUME NEW lines \in Seq(Seq(LineChars)) \ {<<>>}
    PROVE  \E run : IsJoining(run, lines) /\ Join(lines) = run[Len(lines) - 1]
<1> DEFINE L == Len(lines) - 1
           S == Seq(NoCR)
           b == lines[1]
           round == [n \in 1 .. L |-> [x \in S |-> AddLine(x, lines[n + 1])]]
           IsRun(g) == g = [n \in 0 .. L |-> IF n = 0 THEN b ELSE AddLine(g[n - 1], lines[n + 1])]
           t == CHOOSE g : IsRun(g)
<1>1. L \in Nat
  BY EmptySeq
<1>2. b \in S
  <2>1. lines[1] \in Seq(LineChars)
    BY <1>1
  <2> QED
    BY <2>1, SeqMonotonic DEF LineChars, NoCR
<1>3. round \in Rounds(L, S)
  <2>1. ASSUME NEW n \in 1 .. L, NEW x \in S PROVE AddLine(x, lines[n + 1]) \in S
    <3>1. lines[n + 1] \in Seq(LineChars)
      BY <1>1
    <3>2. lines[n + 1] \in Seq(NoCR)
      BY <3>1, SeqMonotonic DEF LineChars, NoCR
    <3>3. <<LF>> \in Seq(NoCR)
      BY CharsDiffer
    <3> QED
      BY <3>2, <3>3, ConcatProperties DEF AddLine
  <2> HIDE DEF S
  <2> QED
    BY <2>1 DEF Rounds
<1>4. \A n \in 1 .. L, x \in S : round[n][x] = AddLine(x, lines[n + 1])
  <2> HIDE DEF S
  <2> QED
    OBVIOUS
<1>5. PICK g : g \in Runs(L, S, b, round)
  <2> HIDE DEF L, S, b, round
  <2> QED
    BY <1>1, <1>2, <1>3, RunExists
<1>6. IsRun(g)
  <2>1. g \in [0 .. L -> S] /\ g[0] = b /\ \A n \in 1 .. L : g[n] = round[n][g[n - 1]]
    <3> HIDE DEF L, S, b, round
    <3> QED
      BY <1>5 DEF Runs
  <2>2. \A n \in 0 .. L : g[n] = IF n = 0 THEN b ELSE AddLine(g[n - 1], lines[n + 1])
    <3>1. ASSUME NEW n \in 1 .. L PROVE g[n] = AddLine(g[n - 1], lines[n + 1])
      <4>1. n - 1 \in 0 .. L
        BY <1>1
      <4> HIDE DEF L, S, b, round
      <4>2. g[n - 1] \in S
        BY <2>1, <4>1
      <4> QED
        BY <1>4, <2>1, <4>2
    <3> HIDE DEF L, S, b, round
    <3> QED
      BY <1>1, <2>1, <3>1
  <2> HIDE DEF L, S, b, round
  <2> QED
    BY <2>1, <2>2
<1>7. IsRun(t)
  <2> HIDE DEF IsRun
  <2> QED
    BY <1>6
<1>8. t[0] = b /\ \A n \in 1 .. L : t[n] = AddLine(t[n - 1], lines[n + 1])
  <2> HIDE DEF t, b, S, L
  <2> QED
    BY <1>1, <1>7
<1>9. t \in [0 .. L -> S]
  <2>1. \A n \in 0 .. L : t[n] \in S
    <3>1. \A n \in 1 .. L : t[n - 1] \in S => t[n] = round[n][t[n - 1]]
      <4> HIDE DEF t, b, S, L, round
      <4> QED
        BY <1>4, <1>8
    <3>2. t[0] = b
      BY <1>8
    <3> HIDE DEF t, b, S, L, round, IsRun
    <3> QED
      BY <1>1, <1>2, <1>3, <3>1, <3>2, RunStays
  <2> HIDE DEF t, b, S, L
  <2> QED
    BY <1>7, <2>1
<1>10. Join(lines) = t[L]
  BY DEF Join
<1>11. IsJoining(t, lines)
  <2> HIDE DEF t
  <2> QED
    BY <1>8, <1>9 DEF IsJoining
<1> QED
  BY <1>10, <1>11

-----------------------------------------------------------------------------
(* The lines of a text, character by character *)

LEMMA LinesOfEmpty == Lines(<<>>) = << <<>> >>
<1>1. <<>> \in Seq(NoCR) /\ Len(<<>>) = 0
  OBVIOUS
<1>2. PICK r : IsSplitting(r, <<>>) /\ Lines(<<>>) = r[0]
  BY <1>1, SplittingRuns
<1> QED
  BY <1>2 DEF IsSplitting

\* A further character of the text goes on where the lines end.
LEMMA LinesOfAppend ==
    ASSUME NEW x \in Seq(NoCR), NEW ch \in NoCR
    PROVE  Lines(Append(x, ch)) = Split(Lines(x), ch)
<1> DEFINE y == Append(x, ch)
           L == Len(x)
<1>1. y \in Seq(NoCR) /\ L \in Nat /\ Len(y) = L + 1 /\ y[L + 1] = ch
  OBVIOUS
<1>2. \A n \in 1 .. L : y[n] = x[n]
  OBVIOUS
<1>3. PICK r : IsSplitting(r, x) /\ Lines(x) = r[L]
  BY SplittingRuns
<1> HIDE DEF y
<1>4. PICK s : IsSplitting(s, y) /\ Lines(y) = s[Len(y)]
  BY <1>1, SplittingRuns
<1>5. /\ r[0] = << <<>> >> /\ \A n \in 1 .. L : r[n] = Split(r[n - 1], x[n])
      /\ s[0] = << <<>> >> /\ \A n \in 1 .. L + 1 : s[n] = Split(s[n - 1], y[n])
  <2>1. r[0] = << <<>> >> /\ \A n \in 1 .. L : r[n] = Split(r[n - 1], x[n])
    BY <1>3, Zenon DEF IsSplitting
  <2>2. s[0] = << <<>> >> /\ \A n \in 1 .. Len(y) : s[n] = Split(s[n - 1], y[n])
    BY <1>4, Zenon DEF IsSplitting
  <2> QED
    BY <1>1, <2>1, <2>2, Zenon
<1> DEFINE T == {n \in 0 .. L : r[n] = s[n]}
<1>6. 0 \in T
  <2>1. r[0] = s[0]
    BY <1>5
  <2>2. 0 \in 0 .. L
    BY <1>1
  <2> HIDE DEF L
  <2> QED
    BY <2>1, <2>2
<1>7. ASSUME NEW n \in 1 .. L, n - 1 \in T PROVE n \in T
  <2>1. r[n - 1] = s[n - 1] /\ n \in 1 .. L + 1 /\ n \in 0 .. L
    BY <1>1, <1>7
  <2>2. r[n] = Split(r[n - 1], x[n]) /\ s[n] = Split(s[n - 1], y[n])
    BY <1>5, <2>1
  <2>3. x[n] = y[n]
    BY <1>2
  <2> QED
    BY <2>1, <2>2, <2>3
<1>8. \A n \in 0 .. L : n \in T
  <2> HIDE DEF T
  <2> QED
    BY <1>1, <1>6, <1>7, InductionTo
<1>9. r[L] = s[L]
  BY <1>1, <1>8
<1>10. s[L + 1] = Split(s[L], ch)
  <2>1. L + 1 \in 1 .. L + 1 /\ (L + 1) - 1 = L
    BY <1>1
  <2>2. s[L + 1] = Split(s[(L + 1) - 1], y[L + 1])
    BY <1>5, <2>1
  <2> QED
    BY <1>1, <2>1, <2>2
<1> QED
  BY <1>1, <1>3, <1>4, <1>9, <1>10 DEF y

\* The lines after the first n characters: a line feed after a carriage return
\* changes nothing, another line end begins a line, any other character goes to
\* the last line.
IsReading(ls, text) ==
    /\ ls \in [0 .. Len(text) -> Seq(Seq(LineChars)) \ {<<>>}]
    /\ ls[0] = << <<>> >>
    /\ \A n \in 1 .. Len(text) :
           IF text[n] \in {CR, LF} /\ ~IsBreak(text, n) THEN ls[n] = ls[n - 1]
           ELSE ls[n] = Split(ls[n - 1], IF text[n] \in {CR, LF} THEN LF ELSE text[n])

LEMMA Reading ==
    ASSUME NEW text \in Seq(Chars)
    PROVE  \E ls : IsReading(ls, text) /\ Lines(NormalizeLineEndings(text)) = ls[Len(text)]
<1> DEFINE L == Len(text)
           S == Seq(Seq(LineChars)) \ {<<>>}
<1>1. L \in Nat
  OBVIOUS
<1>2. PICK out : IsReplacing(out, text) /\ NormalizeLineEndings(text) = out[L]
  BY ReplacingRuns
<1>3. /\ out \in [0 .. L -> Seq(NoCR)]
      /\ out[0] = <<>>
      /\ \A n \in 1 .. L : out[n] = ReplaceEnd(text, n, out[n - 1])
  BY <1>2 DEF IsReplacing
<1> DEFINE ls == [n \in 0 .. L |-> Lines(out[n])]
<1>4. ls \in [0 .. L -> S]
  <2>1. ASSUME NEW x \in Seq(NoCR) PROVE Lines(x) \in S
    <3>1. PICK r : IsSplitting(r, x) /\ Lines(x) = r[Len(x)]
      BY SplittingRuns
    <3>2. r \in [0 .. Len(x) -> S] /\ Len(x) \in 0 .. Len(x)
      BY <3>1 DEF IsSplitting
    <3> HIDE DEF S
    <3> QED
      BY <3>1, <3>2
  <2>2. \A n \in 0 .. L : out[n] \in Seq(NoCR)
    BY <1>3
  <2> HIDE DEF S, L
  <2> QED
    BY <2>1, <2>2
<1>5. ls[0] = << <<>> >>
  BY <1>1, <1>3, LinesOfEmpty
<1>6. ASSUME NEW n \in 1 .. L
      PROVE  IF text[n] \in {CR, LF} /\ ~IsBreak(text, n) THEN ls[n] = ls[n - 1]
             ELSE ls[n] = Split(ls[n - 1], IF text[n] \in {CR, LF} THEN LF ELSE text[n])
  <2> DEFINE c == IF text[n] \in {CR, LF} THEN LF ELSE text[n]
             x == out[n - 1]
  <2>1. n - 1 \in 0 .. L /\ n \in 0 .. L /\ text[n] \in Chars
    BY <1>1
  <2>2. x \in Seq(NoCR) /\ out[n] = ReplaceEnd(text, n, x)
    BY <1>3, <2>1
  <2>3. ls[n] = Lines(out[n]) /\ ls[n - 1] = Lines(x)
    BY <2>1
  <2>4. c \in NoCR
    BY <2>1, CharsDiffer DEF NoCR
  <2>5. ReplaceEnd(text, n, x) =
            IF text[n] \in {CR, LF} /\ ~IsBreak(text, n) THEN x ELSE Append(x, c)
    BY <2>1, CharsDiffer DEF ReplaceEnd, IsBreak
  <2> HIDE DEF ls, c, x
  <2>6. Lines(Append(x, c)) = Split(Lines(x), c)
    BY <2>2, <2>4, LinesOfAppend
  <2> QED
    BY <2>2, <2>3, <2>5, <2>6 DEF c
<1>7. IsReading(ls, text)
  <2> HIDE DEF ls
  <2> QED
    BY <1>4, <1>5, <1>6 DEF IsReading
<1>8. Lines(NormalizeLineEndings(text)) = ls[L]
  <2>1. L \in 0 .. L
    BY <1>1
  <2> QED
    BY <1>2, <2>1
<1> QED
  BY <1>7, <1>8

-----------------------------------------------------------------------------
(* The place of a character: its line and its column, both from 0 *)

Kept(text, i) == text[i] \notin {CR, LF}
Column(text, i) == Cardinality({k \in SameLine(text, i) : k < i})

LEMMA LineSteps ==
    ASSUME NEW text \in Seq(Chars)
    PROVE  /\ \A i \in 1 .. Len(text) + 1 : LineOf(text, i) \in Nat
           /\ LineOf(text, 1) = 0
           /\ LineOf(text, Len(text) + 1) = Cardinality(Breaks(text))
           /\ \A n \in 1 .. Len(text) : /\ IsBreak(text, n) => LineOf(text, n + 1) = LineOf(text, n) + 1
                                        /\ ~IsBreak(text, n) => LineOf(text, n + 1) = LineOf(text, n)
           /\ \A i, k \in 1 .. Len(text) + 1 : k <= i => LineOf(text, k) <= LineOf(text, i)
<1> DEFINE L == Len(text)
           B == Breaks(text)
           At(i) == {b \in B : b < i}
<1>1. L \in Nat /\ \A b \in B : b \in Nat /\ 1 <= b /\ b <= L
  BY DEF Breaks
<1>2. \A n \in 1 .. L : n \in B <=> IsBreak(text, n)
  BY DEF Breaks
<1>3. \A i : LineOf(text, i) = Cardinality(At(i))
  BY DEF LineOf
<1> HIDE DEF B, L
<1>4. IsFiniteSet(B)
  <2>1. B \in SUBSET (1 .. L)
    BY <1>1
  <2>2. IsFiniteSet(1 .. L)
    BY <1>1, FS_Interval
  <2> QED
    BY <2>1, <2>2, FS_Subset
<1>5. \A i : IsFiniteSet(At(i)) /\ Cardinality(At(i)) \in Nat
  <2> TAKE i
  <2>1. At(i) \in SUBSET B
    OBVIOUS
  <2> HIDE DEF At
  <2>2. IsFiniteSet(At(i))
    BY <1>4, <2>1, FS_Subset
  <2> QED
    BY <2>2, FS_CardinalityType
<1>6. LineOf(text, 1) = 0
  <2>1. At(1) = {}
    BY <1>1
  <2> QED
    BY <1>3, <2>1, FS_EmptySet
<1>7. LineOf(text, L + 1) = Cardinality(B)
  <2>1. At(L + 1) = B
    BY <1>1
  <2> QED
    BY <1>3, <2>1
<1>8. ASSUME NEW n \in 1 .. L
      PROVE  /\ IsBreak(text, n) => LineOf(text, n + 1) = LineOf(text, n) + 1
             /\ ~IsBreak(text, n) => LineOf(text, n + 1) = LineOf(text, n)
  <2>1. IsBreak(text, n) => At(n + 1) = At(n) \cup {n}
    BY <1>1, <1>2
  <2>2. ~IsBreak(text, n) => At(n + 1) = At(n)
    BY <1>1, <1>2
  <2>3. n \notin At(n)
    BY <1>1
  <2> HIDE DEF At
  <2>4. Cardinality(At(n) \cup {n}) = Cardinality(At(n)) + 1
    BY <1>5, <2>3, FS_AddElement
  <2> QED
    BY <1>3, <2>1, <2>2, <2>4
<1>9. ASSUME NEW i \in 1 .. L + 1, NEW k \in 1 .. L + 1, k <= i
      PROVE  LineOf(text, k) <= LineOf(text, i)
  <2>1. At(k) \in SUBSET At(i)
    BY <1>1, <1>9
  <2> HIDE DEF At
  <2> QED
    BY <1>3, <1>5, <2>1, FS_Subset
<1> QED
  BY <1>3, <1>5, <1>6, <1>7, <1>8, <1>9 DEF L, B

LEMMA ColumnSteps ==
    ASSUME NEW text \in Seq(Chars)
    PROVE  /\ \A i \in 1 .. Len(text) + 1 : Column(text, i) \in Nat
           /\ Column(text, 1) = 0
           /\ \A n \in 1 .. Len(text) :
                  /\ IsBreak(text, n) => Column(text, n + 1) = 0
                  /\ Kept(text, n) => Column(text, n + 1) = Column(text, n) + 1
                  /\ ~IsBreak(text, n) /\ ~Kept(text, n) => Column(text, n + 1) = Column(text, n)
           /\ \A i, k \in 1 .. Len(text) :
                  i < k /\ Kept(text, i) /\ LineOf(text, i) = LineOf(text, k)
                      => Column(text, i) < Column(text, k)
<1> DEFINE L == Len(text)
           At(i) == {k \in SameLine(text, i) : k < i}
<1>1. /\ L \in Nat
      /\ \A i : At(i) = {k \in 1 .. L : Kept(text, k) /\ LineOf(text, k) = LineOf(text, i) /\ k < i}
  BY DEF SameLine, Kept
<1>2. \A i : Column(text, i) = Cardinality(At(i))
  BY DEF Column
<1>3. /\ \A n \in 1 .. L : /\ IsBreak(text, n) => LineOf(text, n + 1) = LineOf(text, n) + 1
                           /\ ~IsBreak(text, n) => LineOf(text, n + 1) = LineOf(text, n)
      /\ \A i, k \in 1 .. L + 1 : k <= i => LineOf(text, k) <= LineOf(text, i)
      /\ \A i \in 1 .. L + 1 : LineOf(text, i) \in Nat
  BY LineSteps
<1>4. \A n \in 1 .. L : IsBreak(text, n) => ~Kept(text, n)
  BY DEF IsBreak, Kept
<1> HIDE DEF At, L
<1>5. \A i : IsFiniteSet(At(i)) /\ Cardinality(At(i)) \in Nat
  <2> TAKE i
  <2>1. At(i) \in SUBSET (1 .. L)
    BY <1>1
  <2>2. IsFiniteSet(1 .. L)
    BY <1>1, FS_Interval
  <2>3. IsFiniteSet(At(i))
    BY <2>1, <2>2, FS_Subset
  <2> QED
    BY <2>3, FS_CardinalityType
<1>6. Column(text, 1) = 0
  <2>1. At(1) = {}
    BY <1>1
  <2> QED
    BY <1>2, <2>1, FS_EmptySet
<1>7. ASSUME NEW n \in 1 .. L
      PROVE  /\ IsBreak(text, n) => Column(text, n + 1) = 0
             /\ Kept(text, n) => Column(text, n + 1) = Column(text, n) + 1
             /\ ~IsBreak(text, n) /\ ~Kept(text, n) => Column(text, n + 1) = Column(text, n)
  <2>1. ASSUME IsBreak(text, n) PROVE Column(text, n + 1) = 0
    <3>1. \A k \in 1 .. L : k < n + 1 => LineOf(text, k) # LineOf(text, n + 1)
      <4> TAKE k \in 1 .. L
      <4> HAVE k < n + 1
      <4>1. k <= n /\ k \in 1 .. L + 1 /\ n \in 1 .. L + 1
        BY <1>1
      <4>2. LineOf(text, k) <= LineOf(text, n) /\ LineOf(text, n) \in Nat /\ LineOf(text, k) \in Nat
        BY <1>3, <4>1
      <4>3. LineOf(text, n + 1) = LineOf(text, n) + 1
        BY <1>3, <2>1
      <4> QED
        BY <4>2, <4>3
    <3>2. At(n + 1) = {}
      BY <1>1, <3>1
    <3> QED
      BY <1>2, <3>2, FS_EmptySet
  <2>2. ASSUME Kept(text, n) PROVE Column(text, n + 1) = Column(text, n) + 1
    <3>1. LineOf(text, n + 1) = LineOf(text, n)
      BY <1>3, <1>4, <2>2
    <3>2. At(n + 1) = At(n) \cup {n} /\ n \notin At(n)
      BY <1>1, <2>2, <3>1
    <3> QED
      BY <1>2, <1>5, <3>2, FS_AddElement
  <2>3. ASSUME ~IsBreak(text, n), ~Kept(text, n) PROVE Column(text, n + 1) = Column(text, n)
    <3>1. LineOf(text, n + 1) = LineOf(text, n)
      BY <1>3, <2>3
    <3>2. \A k \in 1 .. L : k < n + 1 /\ Kept(text, k) => k < n
      BY <1>1, <2>3
    <3>3. \A k \in 1 .. L : k < n => k < n + 1
      BY <1>1
    <3>4. At(n + 1) = At(n)
      BY <1>1, <3>1, <3>2, <3>3
    <3> QED
      BY <1>2, <3>4
  <2> QED
    BY <2>1, <2>2, <2>3
<1>8. ASSUME NEW i \in 1 .. L, NEW k \in 1 .. L,
             i < k, Kept(text, i), LineOf(text, i) = LineOf(text, k)
      PROVE  Column(text, i) < Column(text, k)
  <2>1. At(i) \in SUBSET At(k) /\ i \in At(k) /\ i \notin At(i)
    BY <1>1, <1>8
  <2>2. Cardinality(At(i)) <= Cardinality(At(k)) /\ (Cardinality(At(k)) = Cardinality(At(i)) => At(k) = At(i))
    BY <1>5, <2>1, FS_Subset
  <2>3. Cardinality(At(i)) # Cardinality(At(k))
    BY <2>1, <2>2
  <2> QED
    BY <1>2, <1>5, <2>2, <2>3
<1> QED
  BY <1>2, <1>5, <1>6, <1>7, <1>8 DEF L

\* After n characters, every character that is no line end is at its place in
\* the lines, nothing else is in them, and the next one goes to the end.
Placed(ls, text, n) ==
    /\ Len(ls) = LineOf(text, n + 1) + 1
    /\ Len(ls[Len(ls)]) = Column(text, n + 1)
    /\ \A i \in 1 .. n : Kept(text, i) =>
           /\ LineOf(text, i) + 1 \in 1 .. Len(ls)
           /\ Column(text, i) + 1 \in 1 .. Len(ls[LineOf(text, i) + 1])
           /\ ls[LineOf(text, i) + 1][Column(text, i) + 1] = text[i]
    /\ \A l \in 1 .. Len(ls) : \A q \in 1 .. Len(ls[l]) :
           \E i \in 1 .. n : Kept(text, i) /\ LineOf(text, i) = l - 1 /\ Column(text, i) = q - 1

\* A further character, on the last line.
LEMMA PlaceKept ==
    ASSUME NEW text \in Seq(Chars), NEW n \in 1 .. Len(text), Kept(text, n),
           NEW ls \in Seq(Seq(LineChars)) \ {<<>>}, Placed(ls, text, n - 1)
    PROVE  Placed(Split(ls, text[n]), text, n)
<1> DEFINE L == Len(text)
           lt == Split(ls, text[n])
           m == Len(ls)
           c == text[n]
           ln == LineOf(text, n)
           cn == Column(text, n)
<1>1. L \in Nat /\ n \in 1 .. L /\ n \in Nat /\ (n - 1) + 1 = n /\ n - 1 \in Nat
  OBVIOUS
<1>2. c \in NoCR /\ c # LF
  <2>1. c \in Chars
    OBVIOUS
  <2> QED
    BY <2>1 DEF Kept, NoCR
<1>3. m \in Nat /\ m >= 1
  BY EmptySeq
<1>4. /\ Len(lt) = m
      /\ lt[m] = Append(ls[m], c)
      /\ \A l \in 1 .. m : l # m => lt[l] = ls[l]
  BY <1>2, SplitIs
<1>5. ls[m] \in Seq(LineChars) /\ Len(ls[m]) \in Nat
  BY <1>3
<1>6. /\ Len(lt[m]) = Len(ls[m]) + 1
      /\ lt[m][Len(ls[m]) + 1] = c
      /\ \A q \in 1 .. Len(ls[m]) : lt[m][q] = ls[m][q]
  BY <1>4, <1>5, AppendProperties
<1>7. /\ LineOf(text, n + 1) = ln /\ ln \in Nat
      /\ Column(text, n + 1) = cn + 1 /\ cn \in Nat
  <2>1. ~IsBreak(text, n) /\ n \in 1 .. L + 1
    BY <1>1 DEF Kept, IsBreak
  <2>2. ln \in Nat /\ cn \in Nat
    BY <2>1, LineSteps, ColumnSteps
  <2>3. LineOf(text, n + 1) = ln
    BY <2>1, LineSteps
  <2>4. Column(text, n + 1) = cn + 1
    BY ColumnSteps
  <2> QED
    BY <2>2, <2>3, <2>4
<1>8. /\ m = ln + 1
      /\ Len(ls[m]) = cn
      /\ \A i \in 1 .. n - 1 : Kept(text, i) =>
           /\ LineOf(text, i) + 1 \in 1 .. m
           /\ Column(text, i) + 1 \in 1 .. Len(ls[LineOf(text, i) + 1])
           /\ ls[LineOf(text, i) + 1][Column(text, i) + 1] = text[i]
      /\ \A l \in 1 .. m : \A q \in 1 .. Len(ls[l]) :
           \E i \in 1 .. n - 1 : Kept(text, i) /\ LineOf(text, i) = l - 1 /\ Column(text, i) = q - 1
  BY <1>1 DEF Placed
<1> HIDE DEF lt, m, c, ln, cn, L
<1>9. Len(lt) = LineOf(text, n + 1) + 1
  BY <1>4, <1>7, <1>8
<1>10. Len(lt[Len(lt)]) = Column(text, n + 1)
  BY <1>4, <1>6, <1>7, <1>8
<1>11. \A i \in 1 .. n : Kept(text, i) =>
           /\ LineOf(text, i) + 1 \in 1 .. Len(lt)
           /\ Column(text, i) + 1 \in 1 .. Len(lt[LineOf(text, i) + 1])
           /\ lt[LineOf(text, i) + 1][Column(text, i) + 1] = text[i]
  <2> TAKE i \in 1 .. n
  <2> HAVE Kept(text, i)
  <2>1. CASE i = n
    <3>1. LineOf(text, i) = ln /\ Column(text, i) = cn /\ text[i] = c
      BY <2>1 DEF ln, cn, c
    <3>2. LineOf(text, i) + 1 = m /\ Column(text, i) + 1 = Len(ls[m]) + 1
      BY <1>8, <3>1
    <3>3. m \in 1 .. Len(lt) /\ Len(ls[m]) + 1 \in 1 .. Len(lt[m])
      BY <1>3, <1>4, <1>5, <1>6
    <3>4. lt[m][Len(ls[m]) + 1] = text[i]
      BY <1>6, <3>1
    <3> QED
      BY <3>2, <3>3, <3>4, Zenon
  <2>2. CASE i # n
    <3> DEFINE k == LineOf(text, i) + 1
               q == Column(text, i) + 1
    <3>1. i \in 1 .. n - 1
      BY <1>1, <2>2
    <3>2. k \in 1 .. m /\ q \in 1 .. Len(ls[k]) /\ ls[k][q] = text[i]
      BY <1>8, <3>1
    <3> HIDE DEF k, q
    <3>3. q \in 1 .. Len(lt[k]) /\ lt[k][q] = text[i]
      <4>1. CASE k # m
        BY <1>4, <3>2, <4>1
      <4>2. CASE k = m
        <5>1. q \in 1 .. Len(ls[m]) /\ ls[m][q] = text[i]
          BY <3>2, <4>2
        <5>2. q \in 1 .. Len(lt[m]) /\ lt[m][q] = text[i]
          BY <1>5, <1>6, <5>1
        <5> QED
          BY <4>2, <5>2
      <4> QED
        BY <4>1, <4>2
    <3> QED
      BY <1>4, <3>2, <3>3 DEF k, q
  <2> QED
    BY <2>1, <2>2
<1>12. \A l \in 1 .. Len(lt) : \A q \in 1 .. Len(lt[l]) :
           \E i \in 1 .. n : Kept(text, i) /\ LineOf(text, i) = l - 1 /\ Column(text, i) = q - 1
  <2> TAKE l \in 1 .. Len(lt)
  <2> TAKE q \in 1 .. Len(lt[l])
  <2>1. CASE l = m /\ q = Len(ls[m]) + 1
    <3>1. ln = l - 1 /\ cn = q - 1
      BY <1>7, <1>8, <2>1
    <3> QED
      BY <1>1, <3>1 DEF ln, cn
  <2>2. CASE ~(l = m /\ q = Len(ls[m]) + 1)
    <3>1. l \in 1 .. m /\ q \in 1 .. Len(ls[l])
      <4>1. l \in 1 .. m
        BY <1>4
      <4>2. CASE l # m
        BY <1>4, <4>1, <4>2
      <4>3. CASE l = m
        <5>1. q \in 1 .. Len(lt[m]) /\ q # Len(ls[m]) + 1
          BY <2>2, <4>3
        <5>2. q \in 1 .. Len(ls[m])
          BY <1>5, <1>6, <5>1
        <5> QED
          BY <4>1, <4>3, <5>2
      <4> QED
        BY <4>2, <4>3
    <3>2. PICK i \in 1 .. n - 1 : Kept(text, i) /\ LineOf(text, i) = l - 1 /\ Column(text, i) = q - 1
      BY <1>8, <3>1
    <3>3. i \in 1 .. n
      BY <1>1
    <3> QED
      BY <3>2, <3>3
  <2> QED
    BY <2>1, <2>2
<1> QED
  BY <1>9, <1>10, <1>11, <1>12 DEF Placed, lt

\* A line end: the line after it is empty.
LEMMA PlaceBreak ==
    ASSUME NEW text \in Seq(Chars), NEW n \in 1 .. Len(text), IsBreak(text, n),
           NEW ls \in Seq(Seq(LineChars)) \ {<<>>}, Placed(ls, text, n - 1)
    PROVE  Placed(Append(ls, <<>>), text, n)
<1> DEFINE L == Len(text)
           lt == Append(ls, <<>>)
           m == Len(ls)
<1>1. L \in Nat /\ n \in 1 .. L /\ n \in Nat /\ (n - 1) + 1 = n /\ n - 1 \in Nat
  OBVIOUS
<1>2. ~Kept(text, n)
  BY DEF IsBreak, Kept
<1>3. m \in Nat /\ m >= 1
  BY EmptySeq
<1>4. /\ Len(lt) = m + 1
      /\ lt[m + 1] = <<>>
      /\ \A l \in 1 .. m : lt[l] = ls[l]
  BY AppendProperties
<1>5. LineOf(text, n + 1) = LineOf(text, n) + 1 /\ Column(text, n + 1) = 0
  BY LineSteps, ColumnSteps
<1>6. /\ m = LineOf(text, n) + 1
      /\ \A i \in 1 .. n - 1 : Kept(text, i) =>
           /\ LineOf(text, i) + 1 \in 1 .. m
           /\ Column(text, i) + 1 \in 1 .. Len(ls[LineOf(text, i) + 1])
           /\ ls[LineOf(text, i) + 1][Column(text, i) + 1] = text[i]
      /\ \A l \in 1 .. m : \A q \in 1 .. Len(ls[l]) :
           \E i \in 1 .. n - 1 : Kept(text, i) /\ LineOf(text, i) = l - 1 /\ Column(text, i) = q - 1
  BY <1>1 DEF Placed
<1> HIDE DEF lt, m, L
<1>7. Len(<<>>) = 0
  OBVIOUS
<1>8. Len(lt) = LineOf(text, n + 1) + 1
  BY <1>4, <1>5, <1>6
<1>9. Len(lt[Len(lt)]) = Column(text, n + 1)
  BY <1>4, <1>5, <1>7
<1>10. \A i \in 1 .. n : Kept(text, i) =>
           /\ LineOf(text, i) + 1 \in 1 .. Len(lt)
           /\ Column(text, i) + 1 \in 1 .. Len(lt[LineOf(text, i) + 1])
           /\ lt[LineOf(text, i) + 1][Column(text, i) + 1] = text[i]
  <2> TAKE i \in 1 .. n
  <2> HAVE Kept(text, i)
  <2> DEFINE k == LineOf(text, i) + 1
             q == Column(text, i) + 1
  <2>1. i \in 1 .. n - 1
    BY <1>1, <1>2
  <2>2. k \in 1 .. m /\ q \in 1 .. Len(ls[k]) /\ ls[k][q] = text[i]
    BY <1>6, <2>1
  <2> HIDE DEF k, q
  <2>3. k \in 1 .. Len(lt) /\ q \in 1 .. Len(lt[k]) /\ lt[k][q] = text[i]
    BY <1>3, <1>4, <2>2
  <2> QED
    BY <2>3 DEF k, q
<1>11. \A l \in 1 .. Len(lt) : \A q \in 1 .. Len(lt[l]) :
           \E i \in 1 .. n : Kept(text, i) /\ LineOf(text, i) = l - 1 /\ Column(text, i) = q - 1
  <2> TAKE l \in 1 .. Len(lt)
  <2> TAKE q \in 1 .. Len(lt[l])
  <2>1. l # m + 1
    BY <1>4, <1>7
  <2>2. l \in 1 .. m
    BY <1>3, <1>4, <2>1
  <2>5. lt[l] = ls[l]
    BY <1>4, <2>2
  <2>6. q \in 1 .. Len(ls[l])
    BY <2>5
  <2>3. PICK i \in 1 .. n - 1 : Kept(text, i) /\ LineOf(text, i) = l - 1 /\ Column(text, i) = q - 1
    BY <1>6, <2>2, <2>6
  <2>4. i \in 1 .. n
    BY <1>1
  <2> QED
    BY <2>3, <2>4
<1> QED
  BY <1>8, <1>9, <1>10, <1>11 DEF Placed, lt

\* The lines that normalizeTrailingWhitespace() trims hold the characters of
\* the text, each at its place.
LEMMA PlacedLines ==
    ASSUME NEW text \in Seq(Chars)
    PROVE  LET lines == Lines(NormalizeLineEndings(text))
           IN  lines \in Seq(Seq(LineChars)) \ {<<>>} /\ Placed(lines, text, Len(text))
<1> DEFINE L == Len(text)
<1>1. L \in Nat
  OBVIOUS
<1>2. PICK ls : IsReading(ls, text) /\ Lines(NormalizeLineEndings(text)) = ls[L]
  BY Reading
<1>3. /\ ls \in [0 .. L -> Seq(Seq(LineChars)) \ {<<>>}]
      /\ ls[0] = << <<>> >>
      /\ \A n \in 1 .. L :
             IF text[n] \in {CR, LF} /\ ~IsBreak(text, n) THEN ls[n] = ls[n - 1]
             ELSE ls[n] = Split(ls[n - 1], IF text[n] \in {CR, LF} THEN LF ELSE text[n])
  BY <1>2 DEF IsReading
<1> DEFINE T == {n \in 0 .. L : Placed(ls[n], text, n)}
<1>4. 0 \in T
  <2>1. LineOf(text, 1) = 0 /\ Column(text, 1) = 0
    BY LineSteps, ColumnSteps
  <2>2. Len(<< <<>> >>) = 1 /\ << <<>> >>[1] = <<>> /\ Len(<<>>) = 0
    OBVIOUS
  <2>3. Placed(<< <<>> >>, text, 0)
    BY <2>1, <2>2 DEF Placed
  <2> QED
    BY <1>1, <1>3, <2>3
<1>5. ASSUME NEW n \in 1 .. L, n - 1 \in T PROVE n \in T
  <2>1. n - 1 \in 0 .. L /\ n \in 0 .. L /\ Placed(ls[n - 1], text, n - 1)
    BY <1>1, <1>5
  <2>2. ls[n - 1] \in Seq(Seq(LineChars)) \ {<<>>}
    BY <1>3, <2>1
  <2>3. Placed(ls[n], text, n)
    <3>1. CASE Kept(text, n)
      <4>1. ls[n] = Split(ls[n - 1], text[n])
        BY <1>3, <3>1 DEF Kept
      <4> QED
        BY <2>1, <2>2, <3>1, <4>1, PlaceKept
    <3>2. CASE IsBreak(text, n)
      <4>1. ls[n] = Split(ls[n - 1], LF)
        BY <1>3, <3>2 DEF IsBreak
      <4>2. ls[n] = Append(ls[n - 1], <<>>)
        BY <4>1 DEF Split
      <4> QED
        BY <2>1, <2>2, <3>2, <4>2, PlaceBreak
    <3>3. CASE ~Kept(text, n) /\ ~IsBreak(text, n)
      <4>1. ls[n] = ls[n - 1]
        BY <1>3, <3>3 DEF Kept
      <4>2. LineOf(text, n + 1) = LineOf(text, n) /\ Column(text, n + 1) = Column(text, n)
        BY <3>3, LineSteps, ColumnSteps
      <4>3. n \in Nat /\ (n - 1) + 1 = n /\ \A i \in 1 .. n : Kept(text, i) => i \in 1 .. n - 1
        BY <1>1, <3>3
      <4>4. \A i \in 1 .. n - 1 : i \in 1 .. n
        BY <4>3
      <4> DEFINE m == ls[n - 1]
      <4>5. Placed(m, text, n - 1) /\ ls[n] = m
        BY <2>1, <4>1
      <4> HIDE DEF m
      <4>6. Placed(m, text, n)
        BY <4>2, <4>3, <4>4, <4>5 DEF Placed
      <4> QED
        BY <4>5, <4>6
    <3> QED
      BY <3>1, <3>2, <3>3
  <2> QED
    BY <2>1, <2>3
<1>6. \A n \in 0 .. L : n \in T
  <2> HIDE DEF T, L
  <2> QED
    BY <1>1, <1>4, <1>5, InductionTo
<1>7. L \in T /\ L \in 0 .. L
  BY <1>1, <1>6
<1> QED
  BY <1>2, <1>3, <1>7

-----------------------------------------------------------------------------
(* What is left of the lines, and what a reader sees of the text *)

LEMMA MaxIs ==
    ASSUME NEW S \in SUBSET Nat, 0 \in S, NEW B \in Nat, \A x \in S : x <= B
    PROVE  Max(S) \in S /\ \A x \in S : x <= Max(S)
<1> DEFINE U == {m \in Nat : \A x \in S : x <= m}
<1>1. PICK m \in U : \A k \in U : m <= k
  <2>1. U \subseteq Nat /\ B \in U
    OBVIOUS
  <2> QED
    BY <2>1, LeastExists
<1>2. m \in S
  <2> SUFFICES ASSUME m \notin S PROVE FALSE
    OBVIOUS
  <2>1. m # 0 /\ m \in Nat
    BY <1>1
  <2>2. \A x \in S : x <= m - 1
    BY <1>1, <2>1
  <2>3. m - 1 \in U
    BY <2>1, <2>2
  <2> QED
    BY <1>1, <2>1, <2>3
<1>3. \A x \in S : m >= x
  BY <1>1
<1>4. Max(S) \in S /\ \A x \in S : Max(S) >= x
  BY <1>2, <1>3 DEF Max
<1> QED
  BY <1>4

\* A line keeps the characters up to the last one that is no blank.
LEMMA TrimEndIs ==
    ASSUME NEW line \in Seq(LineChars)
    PROVE  /\ TrimEnd(line) \in Seq(LineChars)
           /\ Len(TrimEnd(line)) <= Len(line)
           /\ \A q \in 1 .. Len(TrimEnd(line)) : TrimEnd(line)[q] = line[q]
           /\ \A q \in 1 .. Len(line) :
                  q <= Len(TrimEnd(line)) <=> \E p \in 1 .. Len(line) : p >= q /\ line[p] # Blank
<1> DEFINE S == {0} \cup {i \in DOMAIN line : line[i] # Blank}
           w == Max(S)
           L == Len(line)
<1>1. L \in Nat /\ DOMAIN line = 1 .. L
  OBVIOUS
<1>2. w \in S /\ \A x \in S : x <= w
  <2>1. S \in SUBSET Nat /\ 0 \in S /\ \A x \in S : x <= L
    BY <1>1
  <2> HIDE DEF S
  <2> QED
    BY <1>1, <2>1, MaxIs
<1>3. w \in 0 .. L
  BY <1>1, <1>2
<1>4. TrimEnd(line) = SubSeq(line, 1, w)
  BY DEF TrimEnd
<1>5. /\ SubSeq(line, 1, w) \in Seq(LineChars)
      /\ Len(SubSeq(line, 1, w)) = w
      /\ \A q \in 1 .. w : SubSeq(line, 1, w)[q] = line[q]
  <2> HIDE DEF w
  <2> QED
    BY <1>1, <1>3
<1>6. \A q \in 1 .. L : q <= w <=> \E p \in 1 .. L : p >= q /\ line[p] # Blank
  <2> TAKE q \in 1 .. L
  <2>1. ASSUME q <= w PROVE \E p \in 1 .. L : p >= q /\ line[p] # Blank
    <3>1. w # 0 /\ w \in Nat
      BY <1>1, <1>3, <2>1
    <3>2. w \in 1 .. L /\ line[w] # Blank
      BY <1>1, <1>2, <3>1
    <3> HIDE DEF w
    <3> QED
      BY <2>1, <3>1, <3>2
  <2>2. ASSUME NEW p \in 1 .. L, p >= q, line[p] # Blank PROVE q <= w
    <3>1. p \in S
      BY <1>1, <2>2
    <3>2. p <= w
      BY <1>2, <3>1
    <3> HIDE DEF w
    <3> QED
      BY <1>1, <1>3, <2>2, <3>2
  <2> QED
    BY <2>1, <2>2
<1> QED
  <2> HIDE DEF w
  <2> QED
    BY <1>1, <1>3, <1>4, <1>5, <1>6

\* A character is seen exactly if trimming its line leaves it.
LEMMA SeenIs ==
    ASSUME NEW text \in Seq(Chars), NEW ls \in Seq(Seq(LineChars)) \ {<<>>},
           Placed(ls, text, Len(text)), NEW i \in 1 .. Len(text)
    PROVE  Seen(text, i) <=> /\ Kept(text, i)
                             /\ Column(text, i) + 1 <= Len(TrimEnd(ls[LineOf(text, i) + 1]))
<1> DEFINE L == Len(text)
           l == LineOf(text, i) + 1
           q == Column(text, i) + 1
           row == ls[l]
<1>1. SUFFICES ASSUME Kept(text, i) PROVE Seen(text, i) <=> q <= Len(TrimEnd(row))
  BY DEF Seen, Kept
<1>2. Seen(text, i) <=> \E k \in 1 .. L : /\ Kept(text, k) /\ LineOf(text, k) = LineOf(text, i)
                                          /\ k >= i /\ text[k] # Blank
  BY <1>1 DEF Seen, SameLine, Kept
<1>3. /\ \A k \in 1 .. L : Kept(text, k) =>
           /\ LineOf(text, k) + 1 \in 1 .. Len(ls)
           /\ Column(text, k) + 1 \in 1 .. Len(ls[LineOf(text, k) + 1])
           /\ ls[LineOf(text, k) + 1][Column(text, k) + 1] = text[k]
      /\ \A m \in 1 .. Len(ls) : \A p \in 1 .. Len(ls[m]) :
           \E k \in 1 .. L : Kept(text, k) /\ LineOf(text, k) = m - 1 /\ Column(text, k) = p - 1
  BY DEF Placed
<1>4. l \in 1 .. Len(ls) /\ q \in 1 .. Len(row) /\ LineOf(text, i) = l - 1 /\ Column(text, i) = q - 1
  <2>1. LineOf(text, i) \in Nat /\ Column(text, i) \in Nat
    BY LineSteps, ColumnSteps
  <2>2. l \in 1 .. Len(ls) /\ q \in 1 .. Len(row)
    BY <1>1, <1>3
  <2>3. LineOf(text, i) = l - 1 /\ Column(text, i) = q - 1
    <3> HIDE DEF row
    <3> QED
      BY <2>1
  <2> HIDE DEF l, q, row
  <2> QED
    BY <2>2, <2>3
<1>5. row \in Seq(LineChars) /\ Len(row) \in Nat
  BY <1>4
<1>6. q <= Len(TrimEnd(row)) <=> \E p \in 1 .. Len(row) : p >= q /\ row[p] # Blank
  <2> HIDE DEF row, q
  <2> QED
    BY <1>4, <1>5, TrimEndIs
<1>7. ASSUME NEW k \in 1 .. L, Kept(text, k), LineOf(text, k) = LineOf(text, i), k >= i, text[k] # Blank
      PROVE  \E p \in 1 .. Len(row) : p >= q /\ row[p] # Blank
  <2> DEFINE p == Column(text, k) + 1
  <2>1. p \in 1 .. Len(row) /\ row[p] = text[k]
    BY <1>3, <1>7
  <2>2. Column(text, k) \in Nat /\ Column(text, i) \in Nat
    <3>1. k \in 1 .. Len(text) + 1 /\ i \in 1 .. Len(text) + 1
      OBVIOUS
    <3> QED
      BY <3>1, ColumnSteps
  <2>4. Column(text, i) <= Column(text, k)
    <3>1. k # i => i < k
      BY <1>7
    <3>2. k # i => Column(text, i) < Column(text, k)
      BY <1>1, <1>7, <3>1, ColumnSteps
    <3> QED
      BY <2>2, <3>2
  <2>3. p >= q
    <3> HIDE DEF row, l
    <3> QED
      BY <2>2, <2>4
  <2> QED
    BY <1>7, <2>1, <2>3
<1>8. ASSUME NEW p \in 1 .. Len(row), p >= q, row[p] # Blank
      PROVE  \E k \in 1 .. L : /\ Kept(text, k) /\ LineOf(text, k) = LineOf(text, i)
                               /\ k >= i /\ text[k] # Blank
  <2>1. PICK k \in 1 .. L : Kept(text, k) /\ LineOf(text, k) = l - 1 /\ Column(text, k) = p - 1
    BY <1>3, <1>4
  <2>2. LineOf(text, k) = LineOf(text, i) /\ LineOf(text, k) + 1 = l /\ Column(text, k) + 1 = p
    <3> HIDE DEF l, row
    <3> QED
      BY <1>4, <1>5, <2>1
  <2>3. text[k] = row[p]
    BY <1>3, <2>1, <2>2
  <2>4. ~(Column(text, k) < Column(text, i))
    BY <1>4, <1>5, <1>8, <2>1
  <2>5. ~(k < i)
    BY <2>1, <2>2, <2>4, ColumnSteps
  <2> QED
    BY <1>8, <2>1, <2>2, <2>3, <2>5
<1> HIDE DEF q, row
<1> QED
  BY <1>2, <1>6, <1>7, <1>8

\* The trimmed lines of a text, and those a reader counts: not a last empty one.
Trimmed(text) ==
    LET lines == Lines(NormalizeLineEndings(text)) IN [n \in DOMAIN lines |-> TrimEnd(lines[n])]
EndsEmpty(lines) == Len(lines) > 1 /\ lines[Len(lines)] = <<>>
Counted(lines) == IF EndsEmpty(lines) THEN SubSeq(lines, 1, Len(lines) - 1) ELSE lines

\* The characters of lines, each with its line and its column.
CharactersOf(lines) ==
    UNION {{<<l - 1, q - 1, lines[l][q]>> : q \in 1 .. Len(lines[l])} : l \in 1 .. Len(lines)}

LEMMA CountedIs ==
    ASSUME NEW lines \in Seq(Seq(LineChars)) \ {<<>>}
    PROVE  /\ Counted(lines) \in Seq(Seq(LineChars)) \ {<<>>}
           /\ CharactersOf(Counted(lines)) = CharactersOf(lines)
           /\ Len(Counted(lines)) = IF EndsEmpty(lines) THEN Len(lines) - 1 ELSE Len(lines)
           /\ \A l \in 1 .. Len(Counted(lines)) : Counted(lines)[l] = lines[l]
<1>1. CASE ~EndsEmpty(lines)
  BY <1>1 DEF Counted
<1>2. CASE EndsEmpty(lines)
  <2> DEFINE m == Len(lines)
             D == SubSeq(lines, 1, m - 1)
             S == Seq(LineChars)
  <2>1. lines \in Seq(S) /\ m \in Nat /\ m > 1 /\ lines[m] = <<>>
    BY <1>2 DEF EndsEmpty
  <2>2. D \in Seq(S) /\ Len(D) = m - 1 /\ \A l \in 1 .. m - 1 : D[l] = lines[l]
    <3> HIDE DEF S
    <3> QED
      BY <2>1
  <2>3. D # <<>>
    <3>1. Len(D) # 0
      BY <2>1, <2>2
    <3> HIDE DEF D
    <3> QED
      BY <3>1
  <2>4. Counted(lines) = D
    BY <1>2 DEF Counted
  <2> HIDE DEF D, m
  <2>5. Len(<<>>) = 0
    OBVIOUS
  <2>6. CharactersOf(D) = CharactersOf(lines)
    <3>1. ASSUME NEW x \in CharactersOf(D) PROVE x \in CharactersOf(lines)
      <4>10. PICK l \in 1 .. m - 1 : \E q \in 1 .. Len(D[l]) : x = <<l - 1, q - 1, D[l][q]>>
        BY <2>2, <3>1 DEF CharactersOf
      <4>1. PICK q \in 1 .. Len(D[l]) : x = <<l - 1, q - 1, D[l][q]>>
        BY <4>10
      <4>2. l \in 1 .. m /\ D[l] = lines[l]
        BY <2>1, <2>2
      <4>3. q \in 1 .. Len(lines[l]) /\ x = <<l - 1, q - 1, lines[l][q]>>
        BY <4>1, <4>2
      <4> QED
        BY <4>2, <4>3 DEF CharactersOf, m
    <3>2. ASSUME NEW x \in CharactersOf(lines) PROVE x \in CharactersOf(D)
      <4>10. PICK l \in 1 .. m : \E q \in 1 .. Len(lines[l]) : x = <<l - 1, q - 1, lines[l][q]>>
        BY <3>2 DEF CharactersOf, m
      <4>1. PICK q \in 1 .. Len(lines[l]) : x = <<l - 1, q - 1, lines[l][q]>>
        BY <4>10
      <4>2. l # m
        BY <2>1, <2>5, <4>1
      <4>3. l \in 1 .. m - 1
        BY <2>1, <4>2
      <4>4. D[l] = lines[l]
        BY <2>2, <4>3
      <4>5. q \in 1 .. Len(D[l]) /\ x = <<l - 1, q - 1, D[l][q]>>
        BY <4>1, <4>4
      <4>6. l \in 1 .. Len(D)
        BY <2>2, <4>3
      <4> QED
        BY <4>5, <4>6 DEF CharactersOf
    <3> QED
      BY <3>1, <3>2
  <2> QED
    BY <1>2, <2>2, <2>3, <2>4, <2>6 DEF S, m
<1> QED
  BY <1>1, <1>2

LEMMA TrimmedIs ==
    ASSUME NEW text \in Seq(Chars)
    PROVE  LET ls == Lines(NormalizeLineEndings(text))
           IN  /\ ls \in Seq(Seq(LineChars)) \ {<<>>}
               /\ Placed(ls, text, Len(text))
               /\ Trimmed(text) \in Seq(Seq(LineChars)) \ {<<>>}
               /\ Len(Trimmed(text)) = Len(ls)
               /\ \A l \in 1 .. Len(ls) : ls[l] \in Seq(LineChars) /\ Trimmed(text)[l] = TrimEnd(ls[l])
<1> DEFINE ls == Lines(NormalizeLineEndings(text))
           t == Trimmed(text)
           S == Seq(LineChars)
<1>1. ls \in Seq(S) \ {<<>>} /\ Placed(ls, text, Len(text))
  BY PlacedLines
<1>2. t = [l \in DOMAIN ls |-> TrimEnd(ls[l])]
  BY DEF Trimmed
<1> HIDE DEF ls, t
<1>3. Len(ls) \in Nat /\ DOMAIN ls = 1 .. Len(ls)
  BY <1>1
<1>4. \A l \in 1 .. Len(ls) : ls[l] \in S
  BY <1>1
<1>5. \A l \in 1 .. Len(ls) : TrimEnd(ls[l]) \in S
  BY <1>4, TrimEndIs
<1> HIDE DEF S
<1>6. t \in Seq(S) /\ Len(t) = Len(ls) /\ \A l \in 1 .. Len(ls) : t[l] = TrimEnd(ls[l])
  <2>1. t = [l \in 1 .. Len(ls) |-> TrimEnd(ls[l])]
    BY <1>2, <1>3
  <2>2. t \in [1 .. Len(ls) -> S] /\ \A l \in 1 .. Len(ls) : t[l] = TrimEnd(ls[l])
    BY <1>5, <2>1
  <2>3. t \in Seq(S) /\ DOMAIN t = 1 .. Len(ls)
    BY <1>3, <2>2, IsASeq
  <2>4. Len(t) = Len(ls)
    BY <1>3, <2>3
  <2> QED
    BY <2>2, <2>3, <2>4
<1>7. t # <<>>
  BY <1>1, <1>6, EmptySeq
<1> QED
  BY <1>1, <1>4, <1>6, <1>7 DEF ls, t, S

\* A reader sees the characters of the trimmed lines.
LEMMA CharactersSeen ==
    ASSUME NEW text \in Seq(Chars)
    PROVE  Page(text).characters = CharactersOf(Trimmed(text))
<1> DEFINE ls == Lines(NormalizeLineEndings(text))
           t == Trimmed(text)
           L == Len(text)
           seen == {i \in DOMAIN text : Seen(text, i)}
<1>1. /\ ls \in Seq(Seq(LineChars)) \ {<<>>}
      /\ Placed(ls, text, L)
      /\ t \in Seq(Seq(LineChars)) \ {<<>>}
      /\ Len(t) = Len(ls)
      /\ \A l \in 1 .. Len(ls) : ls[l] \in Seq(LineChars) /\ t[l] = TrimEnd(ls[l])
  BY TrimmedIs
<1>2. Page(text).characters = {<<LineOf(text, i), Column(text, i), text[i]>> : i \in seen}
  BY DEF Page, Column
<1> HIDE DEF ls, t
<1>3. /\ \A k \in 1 .. L : Kept(text, k) =>
           /\ LineOf(text, k) + 1 \in 1 .. Len(ls)
           /\ Column(text, k) + 1 \in 1 .. Len(ls[LineOf(text, k) + 1])
           /\ ls[LineOf(text, k) + 1][Column(text, k) + 1] = text[k]
      /\ \A m \in 1 .. Len(ls) : \A p \in 1 .. Len(ls[m]) :
           \E k \in 1 .. L : Kept(text, k) /\ LineOf(text, k) = m - 1 /\ Column(text, k) = p - 1
  BY <1>1 DEF Placed
<1>4. \A i : i \in seen <=> i \in 1 .. L /\ Kept(text, i)
                            /\ Column(text, i) + 1 <= Len(TrimEnd(ls[LineOf(text, i) + 1]))
  <2> TAKE i
  <2>1. i \in seen <=> i \in 1 .. L /\ Seen(text, i)
    OBVIOUS
  <2> QED
    BY <1>1, <2>1, SeenIs
<1>5. \A l \in 1 .. Len(ls) : \A q \in 1 .. Len(t[l]) : q \in 1 .. Len(ls[l]) /\ t[l][q] = ls[l][q]
  <2> TAKE l \in 1 .. Len(ls)
  <2>1. ls[l] \in Seq(LineChars) /\ t[l] = TrimEnd(ls[l]) /\ Len(ls[l]) \in Nat
    BY <1>1
  <2>2. t[l] \in Seq(LineChars) /\ Len(t[l]) \in Nat
    BY <2>1, TrimEndIs
  <2>3. Len(t[l]) <= Len(ls[l]) /\ \A q \in 1 .. Len(t[l]) : t[l][q] = ls[l][q]
    BY <2>1, TrimEndIs
  <2> QED
    BY <2>1, <2>2, <2>3
<1> HIDE DEF seen, L
<1>6. ASSUME NEW i \in seen
      PROVE  <<LineOf(text, i), Column(text, i), text[i]>> \in CharactersOf(t)
  <2> DEFINE l == LineOf(text, i) + 1
             q == Column(text, i) + 1
  <2>1. i \in 1 .. L /\ Kept(text, i) /\ q <= Len(TrimEnd(ls[l]))
    BY <1>4
  <2>2. l \in 1 .. Len(ls) /\ q \in 1 .. Len(ls[l]) /\ ls[l][q] = text[i]
    BY <1>3, <2>1
  <2>3. LineOf(text, i) = l - 1 /\ Column(text, i) = q - 1
    <3>1. i \in 1 .. Len(text) + 1
      BY <2>1 DEF L
    <3>2. LineOf(text, i) \in Nat /\ Column(text, i) \in Nat
      BY <3>1, LineSteps, ColumnSteps
    <3> QED
      BY <3>2
  <2> HIDE DEF l, q
  <2>4. t[l] = TrimEnd(ls[l]) /\ ls[l] \in Seq(LineChars)
    BY <1>1, <2>2
  <2>5. q \in 1 .. Len(t[l])
    <3>1. t[l] \in Seq(LineChars)
      BY <2>4, TrimEndIs
    <3>2. Len(t[l]) \in Nat
      BY <3>1
    <3> QED
      BY <2>1, <2>2, <2>4, <3>2
  <2>6. t[l][q] = text[i]
    BY <1>5, <2>2, <2>5
  <2>7. <<LineOf(text, i), Column(text, i), text[i]>> = <<l - 1, q - 1, t[l][q]>>
    BY <2>3, <2>6
  <2>8. l \in 1 .. Len(t)
    BY <1>1, <2>2
  <2>9. <<l - 1, q - 1, t[l][q]>> \in CharactersOf(t)
    BY <2>5, <2>8 DEF CharactersOf
  <2> QED
    BY <2>7, <2>9
<1>7. ASSUME NEW x \in CharactersOf(t)
      PROVE  \E i \in seen : x = <<LineOf(text, i), Column(text, i), text[i]>>
  <2>10. PICK l \in 1 .. Len(t) : \E q \in 1 .. Len(t[l]) : x = <<l - 1, q - 1, t[l][q]>>
    BY DEF CharactersOf
  <2>1. PICK q \in 1 .. Len(t[l]) : x = <<l - 1, q - 1, t[l][q]>>
    BY <2>10
  <2>2. l \in 1 .. Len(ls) /\ q \in 1 .. Len(ls[l]) /\ t[l][q] = ls[l][q]
    <3>1. l \in 1 .. Len(ls)
      BY <1>1
    <3> QED
      BY <1>5, <3>1
  <2>3. PICK i \in 1 .. L : Kept(text, i) /\ LineOf(text, i) = l - 1 /\ Column(text, i) = q - 1
    BY <1>3, <2>2
  <2>4. LineOf(text, i) + 1 = l /\ Column(text, i) + 1 = q
    BY <2>3
  <2>5. text[i] = ls[l][q]
    BY <1>3, <2>3, <2>4
  <2>6. t[l] = TrimEnd(ls[l]) /\ ls[l] \in Seq(LineChars)
    BY <1>1, <2>2
  <2>7. q <= Len(TrimEnd(ls[l]))
    <3>1. t[l] \in Seq(LineChars)
      BY <2>6, TrimEndIs
    <3>2. Len(t[l]) \in Nat
      BY <3>1
    <3> QED
      BY <2>1, <2>6, <3>2
  <2>8. i \in seen
    BY <1>4, <2>3, <2>4, <2>7
  <2>9. x = <<LineOf(text, i), Column(text, i), text[i]>>
    BY <2>1, <2>2, <2>3, <2>5
  <2> QED
    BY <2>8, <2>9
<1>8. \A x : x \in {<<LineOf(text, i), Column(text, i), text[i]>> : i \in seen} <=> x \in CharactersOf(t)
  BY <1>6, <1>7
<1> QED
  BY <1>2, <1>8 DEF t

\* A reader counts the line ends between the lines that count.
LEMMA LinesSeen ==
    ASSUME NEW text \in Seq(Chars)
    PROVE  Page(text).breaks = Len(Counted(Trimmed(text))) - 1
<1> DEFINE t == Trimmed(text)
           breaks == Cardinality(Breaks(text))
           seen == {i \in DOMAIN text : Seen(text, i)}
           final == breaks > 0 /\ \A i \in seen : LineOf(text, i) < breaks
<1>1. t \in Seq(Seq(LineChars)) \ {<<>>} /\ Len(t) = breaks + 1 /\ breaks \in Nat
  <2>1. Len(t) = LineOf(text, Len(text) + 1) + 1 /\ t \in Seq(Seq(LineChars)) \ {<<>>}
    BY TrimmedIs DEF Placed
  <2>2. LineOf(text, Len(text) + 1) = breaks
    BY LineSteps
  <2>3. Len(text) + 1 \in 1 .. Len(text) + 1
    OBVIOUS
  <2>4. breaks \in Nat
    BY <2>2, <2>3, LineSteps
  <2> QED
    BY <2>1, <2>2, <2>4
<1>2. Page(text).breaks = IF final THEN breaks - 1 ELSE breaks
  BY DEF Page
<1>3. CharactersOf(t) = {<<LineOf(text, i), Column(text, i), text[i]>> : i \in seen}
  <2>1. Page(text).characters = {<<LineOf(text, i), Column(text, i), text[i]>> : i \in seen}
    BY DEF Page, Column
  <2> QED
    BY <2>1, CharactersSeen
<1> HIDE DEF t, seen, breaks
<1>4. ASSUME EndsEmpty(t) PROVE final
  <2>1. breaks > 0 /\ t[breaks + 1] = <<>>
    BY <1>1, <1>4 DEF EndsEmpty
  <2>2. ASSUME NEW i \in seen PROVE LineOf(text, i) < breaks
    <3>1. <<LineOf(text, i), Column(text, i), text[i]>> \in CharactersOf(t)
      BY <1>3
    <3>2. PICK l \in 1 .. Len(t) : \E q \in 1 .. Len(t[l]) :
              <<LineOf(text, i), Column(text, i), text[i]>> = <<l - 1, q - 1, t[l][q]>>
      BY <3>1 DEF CharactersOf
    <3>3. PICK q \in 1 .. Len(t[l]) :
              <<LineOf(text, i), Column(text, i), text[i]>> = <<l - 1, q - 1, t[l][q]>>
      BY <3>2
    <3>4. LineOf(text, i) = l - 1
      BY <3>3
    <3>5. Len(<<>>) = 0
      OBVIOUS
    <3>6. l # breaks + 1
      BY <2>1, <3>3, <3>5
    <3> QED
      BY <1>1, <3>4, <3>6
  <2> QED
    BY <2>1, <2>2
<1>5. ASSUME ~EndsEmpty(t) PROVE ~final
  <2> SUFFICES ASSUME final PROVE FALSE
    OBVIOUS
  <2> DEFINE m == breaks + 1
  <2>1. breaks > 0 /\ m \in 1 .. Len(t) /\ t[m] # <<>>
    BY <1>1, <1>5 DEF EndsEmpty
  <2>2. t[m] \in Seq(LineChars)
    BY <1>1, <2>1
  <2>3. 1 \in 1 .. Len(t[m])
    BY <2>1, <2>2, EmptySeq
  <2> HIDE DEF m
  <2>4. <<m - 1, 1 - 1, t[m][1]>> \in CharactersOf(t)
    BY <2>1, <2>3 DEF CharactersOf
  <2>5. PICK i \in seen : <<LineOf(text, i), Column(text, i), text[i]>> = <<m - 1, 1 - 1, t[m][1]>>
    BY <1>3, <2>4
  <2>6. LineOf(text, i) = m - 1
    BY <2>5
  <2> QED
    BY <1>1, <2>6 DEF m
<1>6. Len(Counted(t)) = IF EndsEmpty(t) THEN Len(t) - 1 ELSE Len(t)
  BY <1>1, CountedIs
<1> HIDE DEF final
<1>7. Page(text).breaks = Len(Counted(t)) - 1
  BY <1>1, <1>2, <1>4, <1>5, <1>6
<1> QED
  BY <1>7 DEF t

\* Lines with the same characters at the same places are the same lines.
LEMMA CharactersWithin ==
    ASSUME NEW D, NEW E, CharactersOf(D) \subseteq CharactersOf(E),
           NEW l \in 1 .. Len(D), Len(D) \in Nat, Len(E) \in Nat, NEW q \in 1 .. Len(D[l]),
           Len(D[l]) \in Nat
    PROVE  l \in 1 .. Len(E) /\ q \in 1 .. Len(E[l]) /\ E[l][q] = D[l][q]
<1>1. <<l - 1, q - 1, D[l][q]>> \in CharactersOf(E)
  <2>1. <<l - 1, q - 1, D[l][q]>> \in CharactersOf(D)
    BY DEF CharactersOf
  <2> QED
    BY <2>1
<1>2. PICK m \in 1 .. Len(E) : \E p \in 1 .. Len(E[m]) :
          <<l - 1, q - 1, D[l][q]>> = <<m - 1, p - 1, E[m][p]>>
  BY <1>1 DEF CharactersOf
<1>3. PICK p \in 1 .. Len(E[m]) : <<l - 1, q - 1, D[l][q]>> = <<m - 1, p - 1, E[m][p]>>
  BY <1>2
<1>4. l - 1 = m - 1 /\ q - 1 = p - 1 /\ D[l][q] = E[m][p]
  BY <1>3
<1>5. l = m
  BY <1>4
<1>6. p \in 1 .. Len(E[l]) /\ p - 1 = q - 1 /\ p \in Int
  BY <1>3, <1>4, <1>5
<1>7. p = q
  BY <1>6
<1> QED
  BY <1>2, <1>4, <1>5, <1>6, <1>7

LEMMA SamePlaces ==
    ASSUME NEW D \in Seq(Seq(LineChars)), NEW E \in Seq(Seq(LineChars)),
           CharactersOf(D) = CharactersOf(E), Len(D) = Len(E)
    PROVE  D = E
<1> DEFINE S == Seq(LineChars)
           m == Len(D)
<1>1. m \in Nat /\ \A l \in 1 .. m : D[l] \in S /\ E[l] \in S
  OBVIOUS
<1>2. ASSUME NEW l \in 1 .. m PROVE D[l] = E[l]
  <2>1. D[l] \in S /\ E[l] \in S /\ Len(D[l]) \in Nat /\ Len(E[l]) \in Nat
    <3>1. D[l] \in S /\ E[l] \in S
      BY <1>1
    <3> QED
      BY <3>1
  <2>2. \A q \in 1 .. Len(D[l]) : q \in 1 .. Len(E[l]) /\ E[l][q] = D[l][q]
    <3> HIDE DEF S
    <3> QED
      BY <1>1, <2>1, CharactersWithin
  <2>3. \A q \in 1 .. Len(E[l]) : q \in 1 .. Len(D[l])
    <3>1. l \in 1 .. Len(E)
      OBVIOUS
    <3> HIDE DEF S
    <3> QED
      BY <1>1, <2>1, <3>1, CharactersWithin
  <2>4. Len(D[l]) = Len(E[l])
    <3> DEFINE d == Len(D[l])
               e == Len(E[l])
    <3>1. d \in Nat /\ e \in Nat
      BY <2>1
    <3>2. (\A q \in 1 .. d : q \in 1 .. e) /\ (\A q \in 1 .. e : q \in 1 .. d)
      BY <2>2, <2>3
    <3> HIDE DEF d, e
    <3>3. d <= e
      <4>1. CASE d = 0
        BY <3>1, <4>1
      <4>2. CASE d # 0
        <5>1. d \in 1 .. d
          BY <3>1, <4>2
        <5>2. d \in 1 .. e
          BY <3>2, <5>1
        <5> QED
          BY <3>1, <5>2
      <4> QED
        BY <4>1, <4>2
    <3>4. e <= d
      <4>1. CASE e = 0
        BY <3>1, <4>1
      <4>2. CASE e # 0
        <5>1. e \in 1 .. e
          BY <3>1, <4>2
        <5>2. e \in 1 .. d
          BY <3>2, <5>1
        <5> QED
          BY <3>1, <5>2
      <4> QED
        BY <4>1, <4>2
    <3>5. d = e
      BY <3>1, <3>3, <3>4
    <3> QED
      BY <3>5 DEF d, e
  <2> DEFINE x == D[l]
             y == E[l]
  <2>5. x \in S /\ y \in S /\ Len(x) = Len(y) /\ \A q \in 1 .. Len(x) : x[q] = y[q]
    BY <2>1, <2>2, <2>4
  <2> HIDE DEF x, y
  <2>6. x = y
    BY <2>5, SeqEqual
  <2> QED
    BY <2>6 DEF x, y
<1> HIDE DEF S
<1> QED
  BY <1>1, <1>2, SeqEqual DEF S

-----------------------------------------------------------------------------
(* The lines can be read off the text that join() makes of them *)

\* What is added to a text as a line, and the text, can be told apart.
LEMMA AddLineIs ==
    ASSUME NEW a \in Seq(NoCR), NEW x \in Seq(LineChars)
    PROVE  /\ AddLine(a, x) \in Seq(NoCR)
           /\ Len(AddLine(a, x)) = Len(a) + 1 + Len(x)
           /\ \A i \in 1 .. Len(a) : AddLine(a, x)[i] = a[i]
           /\ AddLine(a, x)[Len(a) + 1] = LF
           /\ \A q \in 1 .. Len(x) : AddLine(a, x)[Len(a) + 1 + q] = x[q]
<1> DEFINE c == a \o <<LF>>
<1>1. x \in Seq(NoCR) /\ <<LF>> \in Seq(NoCR) /\ Len(<<LF>>) = 1 /\ <<LF>>[1] = LF
  BY SeqMonotonic, CharsDiffer DEF LineChars, NoCR
<1>2. Len(a) \in Nat /\ Len(x) \in Nat
  OBVIOUS
<1>3. /\ c \in Seq(NoCR)
      /\ Len(c) = Len(a) + 1
      /\ \A i \in 1 .. Len(a) : c[i] = a[i]
      /\ c[Len(a) + 1] = LF
  <2>1. /\ c \in Seq(NoCR)
        /\ Len(c) = Len(a) + Len(<<LF>>)
        /\ \A i \in 1 .. Len(a) + Len(<<LF>>) :
               c[i] = IF i <= Len(a) THEN a[i] ELSE <<LF>>[i - Len(a)]
    BY <1>1, ConcatProperties
  <2> HIDE DEF c
  <2>2. Len(a) + 1 \in 1 .. Len(a) + 1 /\ (Len(a) + 1) - Len(a) = 1
    BY <1>2
  <2> QED
    BY <1>1, <1>2, <2>1, <2>2
<1>4. AddLine(a, x) = c \o x
  BY DEF AddLine
<1> HIDE DEF c
<1>5. /\ c \o x \in Seq(NoCR)
      /\ Len(c \o x) = Len(c) + Len(x)
      /\ \A i \in 1 .. Len(c) + Len(x) : (c \o x)[i] = IF i <= Len(c) THEN c[i] ELSE x[i - Len(c)]
  <2>1. \A u, v \in Seq(NoCR) :
            /\ u \o v \in Seq(NoCR)
            /\ Len(u \o v) = Len(u) + Len(v)
            /\ \A i \in 1 .. Len(u) + Len(v) : (u \o v)[i] = IF i <= Len(u) THEN u[i] ELSE v[i - Len(u)]
    BY ConcatProperties
  <2>2. c \in Seq(NoCR) /\ x \in Seq(NoCR)
    BY <1>1, <1>3
  <2> QED
    BY <2>1, <2>2, Zenon
<1> DEFINE y == c \o x
<1>6. /\ y \in Seq(NoCR)
      /\ Len(y) = Len(a) + 1 + Len(x)
      /\ \A i \in 1 .. Len(a) + 1 + Len(x) : y[i] = IF i <= Len(a) + 1 THEN c[i] ELSE x[i - (Len(a) + 1)]
  BY <1>3, <1>5
<1> HIDE DEF y
<1>7. \A i \in 1 .. Len(a) : y[i] = a[i]
  <2> TAKE i \in 1 .. Len(a)
  <2>1. i \in 1 .. Len(a) + 1 + Len(x) /\ i <= Len(a) + 1
    BY <1>2
  <2> QED
    BY <1>3, <1>6, <2>1
<1>8. y[Len(a) + 1] = LF
  <2>1. Len(a) + 1 \in 1 .. Len(a) + 1 + Len(x) /\ Len(a) + 1 <= Len(a) + 1
    BY <1>2
  <2> QED
    BY <1>3, <1>6, <2>1
<1>9. \A q \in 1 .. Len(x) : y[Len(a) + 1 + q] = x[q]
  <2> TAKE q \in 1 .. Len(x)
  <2> DEFINE i == Len(a) + 1 + q
  <2>1. i \in 1 .. Len(a) + 1 + Len(x) /\ ~(i <= Len(a) + 1) /\ i - (Len(a) + 1) = q
    BY <1>2
  <2> HIDE DEF i
  <2>2. y[i] = x[q]
    BY <1>6, <2>1
  <2> QED
    BY <2>2 DEF i
<1>10. AddLine(a, x) = y
  BY <1>4 DEF y
<1> QED
  BY <1>6, <1>7, <1>8, <1>9, <1>10

\* Its last line feed ends the text before it.
LEMMA LastBreak ==
    ASSUME NEW a \in Seq(NoCR), NEW x \in Seq(LineChars),
           NEW b \in Seq(NoCR), NEW y \in Seq(LineChars), AddLine(a, x) = AddLine(b, y)
    PROVE  Len(a) >= Len(b)
<1> DEFINE s == AddLine(a, x)
<1>1. /\ Len(s) = Len(a) + 1 + Len(x)
      /\ \A q \in 1 .. Len(x) : s[Len(a) + 1 + q] = x[q]
  BY AddLineIs
<1>2. /\ Len(s) = Len(b) + 1 + Len(y)
      /\ s[Len(b) + 1] = LF
  <2>1. s = AddLine(b, y)
    OBVIOUS
  <2>2. Len(AddLine(b, y)) = Len(b) + 1 + Len(y) /\ AddLine(b, y)[Len(b) + 1] = LF
    BY AddLineIs
  <2> QED
    BY <2>1, <2>2
<1>3. Len(a) \in Nat /\ Len(b) \in Nat /\ Len(x) \in Nat /\ Len(y) \in Nat
  OBVIOUS
<1> HIDE DEF s
<1> SUFFICES ASSUME Len(a) < Len(b) PROVE FALSE
  BY <1>3
<1> DEFINE q == Len(b) - Len(a)
<1>4. q \in 1 .. Len(x) /\ Len(a) + 1 + q = Len(b) + 1
  BY <1>1, <1>2, <1>3
<1> HIDE DEF q
<1>5. x[q] = LF
  BY <1>1, <1>2, <1>4
<1>6. x[q] \in LineChars
  BY <1>4
<1> QED
  BY <1>5, <1>6 DEF LineChars

LEMMA AddLineInjective ==
    ASSUME NEW a \in Seq(NoCR), NEW x \in Seq(LineChars),
           NEW b \in Seq(NoCR), NEW y \in Seq(LineChars), AddLine(a, x) = AddLine(b, y)
    PROVE  a = b /\ x = y
<1> DEFINE s == AddLine(a, x)
<1>1. Len(a) = Len(b)
  <2>1. Len(a) >= Len(b) /\ Len(b) >= Len(a)
    BY LastBreak
  <2>2. Len(a) \in Nat /\ Len(b) \in Nat
    OBVIOUS
  <2> QED
    BY <2>1, <2>2
<1>2. /\ Len(s) = Len(a) + 1 + Len(x)
      /\ \A i \in 1 .. Len(a) : s[i] = a[i]
      /\ \A q \in 1 .. Len(x) : s[Len(a) + 1 + q] = x[q]
  BY AddLineIs
<1>3. /\ Len(s) = Len(a) + 1 + Len(y)
      /\ \A i \in 1 .. Len(a) : s[i] = b[i]
      /\ \A q \in 1 .. Len(y) : s[Len(a) + 1 + q] = y[q]
  <2> DEFINE r == AddLine(b, y)
  <2>1. s = r
    OBVIOUS
  <2>2. /\ Len(r) = Len(b) + 1 + Len(y)
        /\ \A i \in 1 .. Len(b) : r[i] = b[i]
        /\ \A q \in 1 .. Len(y) : r[Len(b) + 1 + q] = y[q]
    BY AddLineIs
  <2> HIDE DEF r, s
  <2> QED
    BY <1>1, <2>1, <2>2
<1>4. Len(a) \in Nat /\ Len(x) \in Nat /\ Len(y) \in Nat
  OBVIOUS
<1> HIDE DEF s
<1>5. Len(x) = Len(y)
  BY <1>2, <1>3, <1>4
<1>6. a = b
  <2>1. \A i \in 1 .. Len(a) : a[i] = b[i]
    BY <1>2, <1>3
  <2> QED
    BY <1>1, <2>1, SeqEqual
<1>7. x = y
  <2>1. \A q \in 1 .. Len(x) : x[q] = y[q]
    BY <1>2, <1>3, <1>5
  <2> QED
    BY <1>5, <2>1, SeqEqual
<1> QED
  BY <1>6, <1>7

LEMMA JoinInjective ==
    ASSUME NEW D \in Seq(Seq(LineChars)) \ {<<>>}, NEW E \in Seq(Seq(LineChars)) \ {<<>>},
           Join(D) = Join(E)
    PROVE  D = E
<1> DEFINE S == Seq(LineChars)
           M == Len(D) - 1
           N == Len(E) - 1
<1>1. /\ M \in Nat /\ Len(D) = M + 1 /\ \A l \in 1 .. M + 1 : D[l] \in S
      /\ N \in Nat /\ Len(E) = N + 1 /\ \A l \in 1 .. N + 1 : E[l] \in S
  BY EmptySeq
<1>2. PICK j : IsJoining(j, D) /\ Join(D) = j[M]
  BY JoiningRuns
<1>3. PICK k : IsJoining(k, E) /\ Join(E) = k[N]
  BY JoiningRuns
<1>4. /\ j \in [0 .. M -> Seq(NoCR)] /\ j[0] = D[1]
      /\ \A n \in 1 .. M : j[n] = AddLine(j[n - 1], D[n + 1])
      /\ k \in [0 .. N -> Seq(NoCR)] /\ k[0] = E[1]
      /\ \A n \in 1 .. N : k[n] = AddLine(k[n - 1], E[n + 1])
  BY <1>2, <1>3 DEF IsJoining
<1> HIDE DEF M, N, S
<1>5. ASSUME NEW x \in S, NEW a \in Seq(NoCR), NEW y \in S PROVE x # AddLine(a, y)
  <2> SUFFICES ASSUME x = AddLine(a, y) PROVE FALSE
    OBVIOUS
  <2>1. /\ Len(AddLine(a, y)) = Len(a) + 1 + Len(y)
        /\ AddLine(a, y)[Len(a) + 1] = LF
    BY AddLineIs DEF S
  <2>2. Len(a) \in Nat /\ Len(y) \in Nat
    BY DEF S
  <2>3. Len(a) + 1 \in 1 .. Len(x) /\ x[Len(a) + 1] = LF
    BY <2>1, <2>2
  <2>4. \A q \in 1 .. Len(x) : x[q] \in LineChars
    BY DEF S
  <2>5. LF \in LineChars
    BY <2>3, <2>4
  <2> QED
    BY <2>5 DEF LineChars
<1> DEFINE T == {n \in 0 .. M : \A m \in 0 .. N :
                     j[n] = k[m] => m = n /\ \A l \in 1 .. n + 1 : D[l] = E[l]}
<1>6. 0 \in T
  <2>1. ASSUME NEW m \in 0 .. N, j[0] = k[m] PROVE m = 0 /\ \A l \in 1 .. 0 + 1 : D[l] = E[l]
    <3>1. D[1] \in S /\ E[1] \in S
      BY <1>1
    <3>2. ASSUME m # 0 PROVE FALSE
      <4>1. m \in 1 .. N /\ m - 1 \in 0 .. N /\ m + 1 \in 1 .. N + 1
        BY <1>1, <3>2
      <4>2. k[m] = AddLine(k[m - 1], E[m + 1]) /\ k[m - 1] \in Seq(NoCR) /\ E[m + 1] \in S
        BY <1>1, <1>4, <4>1
      <4> QED
        BY <1>4, <1>5, <2>1, <3>1, <4>2
    <3>3. D[1] = E[1]
      BY <1>4, <2>1, <3>2
    <3> QED
      BY <3>2, <3>3
  <2> QED
    BY <1>1, <2>1
<1>7. ASSUME NEW n \in 1 .. M, n - 1 \in T PROVE n \in T
  <2>1. /\ n - 1 \in 0 .. M /\ n \in 0 .. M /\ n + 1 \in 1 .. M + 1
        /\ \A m \in 0 .. N : j[n - 1] = k[m] => m = n - 1 /\ \A l \in 1 .. (n - 1) + 1 : D[l] = E[l]
    BY <1>1, <1>7
  <2>2. j[n] = AddLine(j[n - 1], D[n + 1]) /\ j[n - 1] \in Seq(NoCR) /\ D[n + 1] \in S
    BY <1>1, <1>4, <2>1
  <2>3. ASSUME NEW m \in 0 .. N, j[n] = k[m] PROVE m = n /\ \A l \in 1 .. n + 1 : D[l] = E[l]
    <3>1. ASSUME m = 0 PROVE FALSE
      <4>1. k[m] \in S
        BY <1>1, <1>4, <3>1
      <4> QED
        BY <1>5, <2>2, <2>3, <4>1
    <3>2. m \in 1 .. N /\ m - 1 \in 0 .. N /\ m + 1 \in 1 .. N + 1
      BY <1>1, <3>1
    <3>3. k[m] = AddLine(k[m - 1], E[m + 1]) /\ k[m - 1] \in Seq(NoCR) /\ E[m + 1] \in S
      BY <1>1, <1>4, <3>2
    <3> DEFINE a == j[n - 1]
               x == D[n + 1]
               b == k[m - 1]
               y == E[m + 1]
    <3>4. a \in Seq(NoCR) /\ b \in Seq(NoCR) /\ x \in Seq(LineChars) /\ y \in Seq(LineChars)
          /\ AddLine(a, x) = AddLine(b, y)
      BY <2>2, <2>3, <3>3 DEF S
    <3> HIDE DEF a, b, x, y
    <3>5. a = b /\ x = y
      BY <3>4, AddLineInjective
    <3>6. m - 1 = n - 1 /\ \A l \in 1 .. (n - 1) + 1 : D[l] = E[l]
      BY <2>1, <3>2, <3>5 DEF a, b
    <3>7. m = n
      BY <3>2, <3>6
    <3>8. D[n + 1] = E[n + 1]
      BY <3>5, <3>7 DEF x, y
    <3>9. \A l \in 1 .. n + 1 : D[l] = E[l]
      <4> TAKE l \in 1 .. n + 1
      <4>1. l = n + 1 \/ l \in 1 .. (n - 1) + 1
        BY <1>1
      <4> QED
        BY <3>6, <3>8, <4>1
    <3> QED
      BY <3>7, <3>9
  <2> QED
    BY <2>1, <2>3
<1>8. \A n \in 0 .. M : n \in T
  <2> HIDE DEF T
  <2> QED
    BY <1>1, <1>6, <1>7, InductionTo
<1>9. N = M /\ \A l \in 1 .. M + 1 : D[l] = E[l]
  <2>1. M \in T /\ N \in 0 .. N
    BY <1>1, <1>8
  <2> QED
    BY <1>2, <1>3, <2>1
<1>10. D \in Seq(S) /\ E \in Seq(S) /\ Len(D) = Len(E) /\ \A l \in 1 .. Len(D) : D[l] = E[l]
  BY <1>1, <1>9 DEF S
<1> QED
  BY <1>10, SeqEqual

\* The first lines of a text make its beginning.
LEMMA JoinOfFront ==
    ASSUME NEW t \in Seq(Seq(LineChars)) \ {<<>>}, Len(t) > 1
    PROVE  LET D == SubSeq(t, 1, Len(t) - 1)
           IN  /\ Join(D) \in Seq(NoCR)
               /\ Join(t) = AddLine(Join(D), t[Len(t)])
<1> DEFINE S == Seq(LineChars)
           m == Len(t)
           D == SubSeq(t, 1, m - 1)
<1>1. t \in Seq(S) /\ m \in Nat /\ m > 1 /\ m - 1 \in 0 .. m /\ m - 2 \in Nat /\ m - 1 \in 1 .. m - 1
  BY EmptySeq
<1>2. D \in Seq(S) /\ Len(D) = m - 1 /\ \A l \in 1 .. m - 1 : D[l] = t[l]
  <2> HIDE DEF S
  <2> QED
    BY <1>1
<1>3. D \in Seq(S) \ {<<>>}
  <2>1. Len(D) # 0
    BY <1>1, <1>2
  <2> HIDE DEF D, S
  <2> QED
    BY <1>2, <2>1
<1> HIDE DEF D
<1>4. PICK k : IsJoining(k, D) /\ Join(D) = k[Len(D) - 1]
  BY <1>3, JoiningRuns
<1>5. PICK j : IsJoining(j, t) /\ Join(t) = j[m - 1]
  BY JoiningRuns
<1> DEFINE N == m - 2
<1>6. Len(D) - 1 = N /\ N \in Nat /\ m - 1 = N + 1
  BY <1>1, <1>2
<1>7. /\ k \in [0 .. N -> Seq(NoCR)] /\ k[0] = D[1]
      /\ \A n \in 1 .. N : k[n] = AddLine(k[n - 1], D[n + 1])
      /\ Join(D) = k[N]
  BY <1>4, <1>6 DEF IsJoining
<1>8. /\ j[0] = t[1]
      /\ \A n \in 1 .. N + 1 : j[n] = AddLine(j[n - 1], t[n + 1])
      /\ Join(t) = j[N + 1]
  BY <1>5, <1>6 DEF IsJoining
<1>9. \A n \in 0 .. N : D[n + 1] = t[n + 1]
  <2> TAKE n \in 0 .. N
  <2>1. n + 1 \in 1 .. m - 1
    BY <1>1
  <2> HIDE DEF m, N, S
  <2> QED
    BY <1>2, <2>1
<1>10. t[N + 1 + 1] = t[m]
  BY <1>1
<1> HIDE DEF N, m, S
<1> DEFINE T == {n \in 0 .. N : j[n] = k[n]}
<1>11. 0 \in T
  <2>1. 0 \in 0 .. N /\ 0 + 1 = 1
    BY <1>6
  <2>2. D[1] = t[1]
    BY <1>9, <2>1
  <2> QED
    BY <1>7, <1>8, <2>1, <2>2
<1>12. ASSUME NEW n \in 1 .. N, n - 1 \in T PROVE n \in T
  <2>1. n \in 0 .. N /\ n \in 1 .. N + 1 /\ j[n - 1] = k[n - 1]
    BY <1>6, <1>12
  <2>2. D[n + 1] = t[n + 1]
    BY <1>9, <2>1
  <2> QED
    BY <1>7, <1>8, <2>1, <2>2
<1>13. \A n \in 0 .. N : n \in T
  <2> HIDE DEF T
  <2> QED
    BY <1>6, <1>11, <1>12, InductionTo
<1>14. j[N] = k[N] /\ k[N] \in Seq(NoCR)
  BY <1>6, <1>7, <1>13
<1>15. j[N + 1] = AddLine(j[N], t[m])
  <2>1. N + 1 \in 1 .. N + 1 /\ (N + 1) - 1 = N
    BY <1>6
  <2>2. j[N + 1] = AddLine(j[(N + 1) - 1], t[(N + 1) + 1])
    BY <1>8, <2>1
  <2> QED
    BY <1>10, <2>1, <2>2
<1> QED
  BY <1>7, <1>8, <1>14, <1>15 DEF D, m

\* One line without line ends is its own text.
LEMMA JoinOfOne ==
    ASSUME NEW t \in Seq(Seq(LineChars)) \ {<<>>}, Len(t) = 1
    PROVE  Join(t) = t[1]
<1>1. PICK j : IsJoining(j, t) /\ Join(t) = j[Len(t) - 1]
  BY JoiningRuns
<1> QED
  BY <1>1 DEF IsJoining

\* Dropping one final line feed is dropping a last empty line.
LEMMA NormalizedIs ==
    ASSUME NEW text \in Seq(Chars)
    PROVE  /\ Counted(Trimmed(text)) \in Seq(Seq(LineChars)) \ {<<>>}
           /\ NormalizeTrailingWhitespace(text) = Join(Counted(Trimmed(text)))
<1> DEFINE t == Trimmed(text)
           s == Join(t)
           D == SubSeq(t, 1, Len(t) - 1)
           m == Len(t)
<1>1. t \in Seq(Seq(LineChars)) \ {<<>>}
  BY TrimmedIs
<1>2. NormalizeTrailingWhitespace(text) = IF s # <<>> /\ Last(s) = LF THEN Front(s) ELSE s
  BY DEF NormalizeTrailingWhitespace, Trimmed
<1> HIDE DEF t
<1>3. m \in Nat /\ m >= 1 /\ m \in 1 .. m /\ t[m] \in Seq(LineChars) /\ Len(t[m]) \in Nat
  <2>1. m \in Nat /\ m >= 1
    BY <1>1, EmptySeq
  <2>2. m \in 1 .. m
    BY <2>1
  <2>3. t[m] \in Seq(LineChars)
    BY <1>1, <2>2
  <2> QED
    BY <2>1, <2>2, <2>3
<1>4. CASE m > 1 /\ t[m] = <<>>
  <2>1. Join(D) \in Seq(NoCR) /\ s = AddLine(Join(D), t[m])
    BY <1>1, <1>4, JoinOfFront
  <2> DEFINE a == Join(D)
             e == <<>>
  <2>2. a \in Seq(NoCR) /\ s = AddLine(a, e) /\ e \in Seq(LineChars) /\ Len(e) = 0 /\ Len(a) \in Nat
    BY <1>4, <2>1
  <2> HIDE DEF a, e, s
  <2>3. /\ s \in Seq(NoCR)
        /\ Len(s) = Len(a) + 1
        /\ \A i \in 1 .. Len(a) : s[i] = a[i]
        /\ s[Len(a) + 1] = LF
    <3>1. /\ s \in Seq(NoCR)
          /\ Len(s) = Len(a) + 1 + Len(e)
          /\ \A i \in 1 .. Len(a) : s[i] = a[i]
          /\ s[Len(a) + 1] = LF
      BY <2>2, AddLineIs, Zenon
    <3>2. Len(a) + 1 + Len(e) = Len(a) + 1
      BY <2>2
    <3> QED
      BY <3>1, <3>2
  <2>4. s # <<>> /\ Last(s) = LF
    <3>1. Len(s) # 0
      BY <2>2, <2>3
    <3> QED
      BY <2>3, <3>1 DEF Last
  <2>5. Front(s) = a
    <3> DEFINE f == SubSeq(s, 1, Len(s) - 1)
    <3>1. Len(s) - 1 = Len(a) /\ Len(a) \in 0 .. Len(s)
      BY <2>2, <2>3
    <3>2. f \in Seq(NoCR) /\ Len(f) = Len(a) /\ \A i \in 1 .. Len(a) : f[i] = s[i]
      BY <2>2, <2>3, <3>1
    <3> HIDE DEF f
    <3>3. f = a
      BY <2>2, <2>3, <3>2, SeqEqual
    <3> QED
      BY <3>3 DEF Front, f
  <2>6. Counted(t) = D
    BY <1>4 DEF Counted, EndsEmpty
  <2> QED
    BY <1>1, <1>2, <2>4, <2>5, <2>6, CountedIs DEF a, t
<1>5. CASE ~(m > 1 /\ t[m] = <<>>)
  <2>1. Counted(t) = t
    BY <1>5 DEF Counted, EndsEmpty
  <2>2. ~(s # <<>> /\ Last(s) = LF)
    <3>1. CASE m = 1
      <4>1. s = t[1] /\ t[1] \in Seq(LineChars)
        BY <1>1, <1>3, <3>1, JoinOfOne
      <4> HIDE DEF s
      <4>2. s # <<>> => s[Len(s)] \in LineChars
        BY <4>1, EmptySeq
      <4> QED
        BY <4>2 DEF Last, LineChars
    <3>2. CASE m # 1
      <4> DEFINE a == Join(D)
                 x == t[m]
      <4>1. m > 1 /\ x # <<>> /\ x \in Seq(LineChars) /\ Len(x) \in Nat
        <5>1. m > 1
          <6> HIDE DEF m, x
          <6> QED
            BY <1>3, <3>2
        <5>2. x # <<>>
          BY <1>5, <5>1
        <5> QED
          BY <1>3, <5>1, <5>2
      <4>2. a \in Seq(NoCR) /\ s = AddLine(a, x)
        BY <1>1, <4>1, JoinOfFront
      <4> HIDE DEF a, x, s
      <4>3. /\ Len(s) = Len(a) + 1 + Len(x)
            /\ \A q \in 1 .. Len(x) : s[Len(a) + 1 + q] = x[q]
        BY <4>1, <4>2, AddLineIs
      <4>4. Len(x) \in 1 .. Len(x)
        BY <4>1, EmptySeq
      <4>5. s[Len(s)] = x[Len(x)] /\ x[Len(x)] \in LineChars
        BY <4>1, <4>3, <4>4
      <4> QED
        BY <4>5 DEF Last, LineChars
    <3> QED
      BY <3>1, <3>2
  <2> QED
    BY <1>1, <1>2, <2>1, <2>2 DEF t
<1> QED
  BY <1>4, <1>5

-----------------------------------------------------------------------------
(* The checker *)

\* Two texts have the same normal form exactly if they read the same.
LEMMA ReadsTheSame ==
    ASSUME NEW x \in Seq(Chars), NEW y \in Seq(Chars)
    PROVE  NormalizeTrailingWhitespace(x) = NormalizeTrailingWhitespace(y) <=> Page(x) = Page(y)
<1> DEFINE D == Counted(Trimmed(x))
           E == Counted(Trimmed(y))
<1>1. /\ D \in Seq(Seq(LineChars)) \ {<<>>} /\ NormalizeTrailingWhitespace(x) = Join(D)
      /\ E \in Seq(Seq(LineChars)) \ {<<>>} /\ NormalizeTrailingWhitespace(y) = Join(E)
  BY NormalizedIs
<1>2. /\ Page(x).characters = CharactersOf(D) /\ Page(x).breaks = Len(D) - 1
      /\ Page(y).characters = CharactersOf(E) /\ Page(y).breaks = Len(E) - 1
  BY TrimmedIs, CountedIs, CharactersSeen, LinesSeen
<1>3. Page(x) = Page(y) <=> Page(x).characters = Page(y).characters /\ Page(x).breaks = Page(y).breaks
  BY DEF Page
<1> HIDE DEF D, E
<1>4. Page(x) = Page(y) <=> D = E
  <2>1. Len(D) \in Nat /\ Len(E) \in Nat
    BY <1>1
  <2>2. D = E => Page(x) = Page(y)
    BY <1>2, <1>3
  <2>3. ASSUME Page(x) = Page(y) PROVE D = E
    <3>1. CharactersOf(D) = CharactersOf(E) /\ Len(D) - 1 = Len(E) - 1
      BY <1>2, <1>3, <2>3
    <3>2. Len(D) = Len(E)
      BY <2>1, <3>1
    <3> QED
      BY <1>1, <3>1, <3>2, SamePlaces
  <2> QED
    BY <2>2, <2>3
<1>5. Join(D) = Join(E) <=> D = E
  BY <1>1, JoinInjective
<1> QED
  BY <1>1, <1>4, <1>5

\* The checker has not run, or its verdict is that of the two texts it was given.
CheckerInv ==
    /\ spec \in [ignore : BOOLEAN]
    /\ actual \in Seq(Chars) /\ expected \in Seq(Chars)
    /\ status \in {"none", "accepted", "wrong_answer"}
    /\ status # "none" => (status = "accepted" <=> Compared(actual) = Compared(expected))

\* runExactChecker() accepts an output exactly if it reads like the expected
\* text, whatever line ends, trailing blanks and final line end the two have,
\* and without ignoreTrailingWhitespace exactly if it is that text: for texts
\* of any length, over any characters.
THEOREM CheckerRight == Spec => []OutcomeIsRight
<1>1. Init => CheckerInv
  <2>1. ASSUME NEW x \in Texts PROVE x \in Seq(Chars)
    <3>1. PICK m \in 0 .. MaxLength : x \in [1 .. m -> Chars]
      BY <2>1 DEF Texts, BoundedSeq, SeqOf
    <3>2. m \in Nat
      BY <3>1
    <3> QED
      BY <3>1, <3>2, IsASeq
  <2> QED
    BY <2>1 DEF Init, CheckerInv
<1>2. CheckerInv /\ [RunExactChecker]_vars => CheckerInv'
  <2> SUFFICES ASSUME CheckerInv, [RunExactChecker]_vars PROVE CheckerInv'
    OBVIOUS
  <2>1. CASE RunExactChecker
    BY <2>1 DEF CheckerInv, RunExactChecker, Compared
  <2>2. CASE UNCHANGED vars
    BY <2>2 DEF CheckerInv, vars, Compared
  <2> QED
    BY <2>1, <2>2
<1>3. CheckerInv => OutcomeIsRight
  <2> SUFFICES ASSUME CheckerInv, status # "none"
               PROVE  status = "accepted" <=> IF spec.ignore THEN Page(actual) = Page(expected)
                                              ELSE actual = expected
    BY DEF OutcomeIsRight
  <2>1. actual \in Seq(Chars) /\ expected \in Seq(Chars)
        /\ (status = "accepted" <=> Compared(actual) = Compared(expected))
    BY DEF CheckerInv
  <2>2. CASE spec.ignore
    BY <2>1, <2>2, ReadsTheSame DEF Compared
  <2>3. CASE ~spec.ignore
    BY <2>1, <2>3 DEF Compared
  <2> QED
    BY <2>2, <2>3
<1> QED
  BY <1>1, <1>2, <1>3, PTL DEF Spec
=============================================================================
