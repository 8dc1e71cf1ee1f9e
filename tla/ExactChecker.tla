---------------------------- MODULE ExactChecker ----------------------------
(***************************************************************************)
(* runExactChecker(): the output of a test against the expected text, as   *)
(* they are or up to line ends, blanks at the end of a line and one final  *)
(* line end.  A text is a sequence of characters; all blanks ([ \t\f\v])   *)
(* are one character, all others are visible.                              *)
(***************************************************************************)
EXTENDS Naturals, FiniteSetsExt, SequencesExt

CONSTANTS
    LF, CR,         \* the line feed and the carriage return
    Blank,          \* a space, tab, form feed or vertical tab
    Visible,        \* the other characters enumerated
    MaxLength       \* bound on the length of a text

ASSUME CharactersAssumption ==
    LF # CR /\ LF # Blank /\ CR # Blank /\ {LF, CR, Blank} \cap Visible = {}

Chars == {LF, CR, Blank} \cup Visible
Texts == BoundedSeq(Chars, MaxLength)

VARIABLES
    spec,       \* the checker spec: ignoreTrailingWhitespace
    actual,     \* context.execution.stdout
    expected,   \* context.testCase.expected
    status      \* outcome.status, once the checker has returned

vars == <<spec, actual, expected, status>>

-----------------------------------------------------------------------------
\* Mutant: a carriage return is a line end, and so is the line feed after it.
CrOnly(text) == [i \in DOMAIN text |-> IF text[i] = CR THEN LF ELSE text[i]]

\* replace(/\r\n?/g, '\n'): a line feed after a carriage return goes with it.
ReplaceEnd(text, i, before) ==
    IF text[i] = LF /\ i > 1 /\ text[i - 1] = CR THEN before
    ELSE Append(before, IF text[i] = CR THEN LF ELSE text[i])

NormalizeLineEndings(text) ==
    LET out[n \in 0 .. Len(text)] == IF n = 0 THEN <<>> ELSE ReplaceEnd(text, n, out[n - 1])
    IN  out[Len(text)]

\* split('\n')
Split(lines, ch) ==
    IF ch = LF THEN Append(lines, <<>>)
    ELSE [lines EXCEPT ![Len(lines)] = Append(@, ch)]

Lines(text) ==
    LET lines[n \in 0 .. Len(text)] == IF n = 0 THEN << <<>> >> ELSE Split(lines[n - 1], text[n])
    IN  lines[Len(text)]

\* replace(/[ \t\f\v]+$/g, '')
TrimEnd(line) == SubSeq(line, 1, Max({0} \cup {i \in DOMAIN line : line[i] # Blank}))

\* join('\n'): the first line, and then the others.
AddLine(text, line) == text \o <<LF>> \o line

Join(lines) ==
    LET text[n \in 0 .. Len(lines) - 1] ==
            IF n = 0 THEN lines[1] ELSE AddLine(text[n - 1], lines[n + 1])
    IN  text[Len(lines) - 1]

NormalizeTrailingWhitespace(text) ==
    LET lines == Lines(NormalizeLineEndings(text))
        trimmed == Join([n \in DOMAIN lines |-> TrimEnd(lines[n])])
    IN  IF trimmed # <<>> /\ Last(trimmed) = LF THEN Front(trimmed) ELSE trimmed

Compared(text) == IF spec.ignore THEN NormalizeTrailingWhitespace(text) ELSE text

-----------------------------------------------------------------------------
Init == /\ spec \in [ignore : BOOLEAN]
        /\ actual \in Texts
        /\ expected \in Texts
        /\ status = "none"

RunExactChecker ==
    /\ status = "none"
    /\ status' = IF Compared(actual) = Compared(expected) THEN "accepted" ELSE "wrong_answer"
    /\ UNCHANGED <<spec, actual, expected>>

Spec == Init /\ [][RunExactChecker]_vars

-----------------------------------------------------------------------------
(* What a reader of the page sees: the visible characters at their places, *)
(* and the number of lines a final line end does not count in.             *)

IsBreak(text, i) == \/ text[i] = CR
                    \/ text[i] = LF /\ (i > 1 => text[i - 1] # CR)
Breaks(text) == {i \in DOMAIN text : IsBreak(text, i)}
LineOf(text, i) == Cardinality({b \in Breaks(text) : b < i})
SameLine(text, i) == {k \in DOMAIN text : text[k] \notin {CR, LF} /\ LineOf(text, k) = LineOf(text, i)}

Seen(text, i) == /\ text[i] \notin {CR, LF}
                 /\ \E k \in SameLine(text, i) : k >= i /\ text[k] # Blank

Page(text) ==
    LET seen == {i \in DOMAIN text : Seen(text, i)}
        breaks == Cardinality(Breaks(text))
    IN  [characters |-> {<<LineOf(text, i),
                           Cardinality({k \in SameLine(text, i) : k < i}), text[i]>> : i \in seen},
         breaks |-> IF breaks > 0 /\ \A i \in seen : LineOf(text, i) < breaks
                    THEN breaks - 1 ELSE breaks]

\* An output is accepted exactly if it reads like the expected text: whatever
\* mix of line ends, trailing blanks and one final line end the two have (and,
\* without ignoreTrailingWhitespace, exactly if it is that text).
OutcomeIsRight ==
    status # "none" =>
        (status = "accepted" <=> IF spec.ignore THEN Page(actual) = Page(expected)
                                 ELSE actual = expected)
=============================================================================
