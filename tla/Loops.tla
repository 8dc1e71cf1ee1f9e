------------------------------- MODULE Loops --------------------------------
(***************************************************************************)
(* What the proofs need about loops.  The models write a loop of the code  *)
(* as a function over 0 .. L whose value at n is the loop's state after n  *)
(* rounds.  Here: induction over the natural numbers for sets, and that a  *)
(* loop whose rounds keep a type has a run, and only runs of that type.    *)
(***************************************************************************)
EXTENDS Integers, TLAPS, WellFoundedInduction, SequenceTheorems

\* Every set of natural numbers has a least member.
LEMMA LeastExists ==
    ASSUME NEW T, T \subseteq Nat, T # {}
    PROVE  \E m \in T : \A k \in T : m <= k
<1>1. IsWellFoundedOn(OpToRel(<, Nat), Nat)
  BY NatLessThanWellFounded
<1>2. PICK m \in T : \A k \in T : ~(<<k, m>> \in OpToRel(<, Nat))
  BY <1>1, WFMin
<1>3. \A k \in T : ~(k < m)
  BY <1>2 DEF OpToRel
<1> QED
  BY <1>3

\* A set with 0 and every member's successor has all natural numbers.
LEMMA Induction ==
    ASSUME NEW S, 0 \in S, \A n \in Nat : n \in S => n + 1 \in S
    PROVE  Nat \subseteq S
<1> SUFFICES ASSUME ~(Nat \subseteq S) PROVE FALSE
  OBVIOUS
<1>1. PICK m \in Nat \ S : \A k \in Nat \ S : m <= k
  <2>1. Nat \ S \subseteq Nat /\ Nat \ S # {}
    OBVIOUS
  <2> QED
    BY <2>1, LeastExists
<1>2. m # 0 /\ m - 1 \in Nat
  BY <1>1
<1>3. m - 1 \in S
  BY <1>1, <1>2
<1> QED
  BY <1>1, <1>2, <1>3

\* The same up to a bound: the rounds of a loop.
LEMMA InductionTo ==
    ASSUME NEW L \in Nat, NEW T, 0 \in T, \A n \in 1 .. L : n - 1 \in T => n \in T
    PROVE  \A n \in 0 .. L : n \in T
<1> DEFINE S == {n \in Nat : n <= L => n \in T}
<1>1. 0 \in S /\ \A n \in Nat : n \in S => n + 1 \in S
  OBVIOUS
<1>2. Nat \subseteq S
  <2> HIDE DEF S
  <2> QED
    BY <1>1, Induction
<1> QED
  BY <1>2

\* The rounds of a loop over 1 .. L with its state in S, and its runs from b.
Rounds(L, S) == [1 .. L -> [S -> S]]
Runs(L, S, b, round) ==
    {g \in [0 .. L -> S] : g[0] = b /\ \A n \in 1 .. L : g[n] = round[n][g[n - 1]]}

\* Such a loop has a run.
LEMMA RunExists ==
    ASSUME NEW L \in Nat, NEW S, NEW b \in S, NEW round \in Rounds(L, S)
    PROVE  \E g : g \in Runs(L, S, b, round)
<1> DEFINE T == {k \in 0 .. L : \E g : g \in Runs(k, S, b, round)}
<1>1. 0 \in T
  <2>1. [n \in 0 .. 0 |-> b] \in Runs(0, S, b, round)
    BY DEF Runs
  <2> QED
    BY <2>1
<1>2. ASSUME NEW m \in 1 .. L, m - 1 \in T PROVE m \in T
  <2> DEFINE k == m - 1
  <2>1. PICK g : g \in Runs(k, S, b, round)
    BY <1>2
  <2> DEFINE h == [n \in 0 .. m |-> IF n <= k THEN g[n] ELSE round[m][g[k]]]
  <2>2. g \in [0 .. k -> S] /\ g[0] = b /\ \A n \in 1 .. k : g[n] = round[n][g[n - 1]]
    BY <2>1 DEF Runs
  <2>3. g[k] \in S /\ round[m] \in [S -> S] /\ round[m][g[k]] \in S
    BY <2>2 DEF Rounds
  <2>4. h \in [0 .. m -> S] /\ h[0] = b
    BY <2>2, <2>3
  <2>5. ASSUME NEW n \in 1 .. m PROVE h[n] = round[n][h[n - 1]]
    BY <2>2
  <2>6. h \in Runs(m, S, b, round)
    BY <2>4, <2>5 DEF Runs
  <2> QED
    BY <2>6
<1>3. \A n \in 0 .. L : n \in T
  <2> HIDE DEF T
  <2> QED
    BY <1>1, <1>2, InductionTo
<1> QED
  BY <1>3

\* A loop that does these rounds as long as its state is in S never leaves S.
LEMMA RunStays ==
    ASSUME NEW L \in Nat, NEW S, NEW b \in S, NEW round \in Rounds(L, S), NEW c,
           c[0] = b, \A n \in 1 .. L : c[n - 1] \in S => c[n] = round[n][c[n - 1]]
    PROVE  \A n \in 0 .. L : c[n] \in S
<1> DEFINE T == {n \in 0 .. L : c[n] \in S}
<1>1. 0 \in T
  OBVIOUS
<1>2. ASSUME NEW n \in 1 .. L, n - 1 \in T PROVE n \in T
  <2>1. round[n] \in [S -> S]
    BY DEF Rounds
  <2> QED
    BY <1>2, <2>1
<1>3. \A n \in 0 .. L : n \in T
  <2> HIDE DEF T
  <2> QED
    BY <1>1, <1>2, InductionTo
<1> QED
  BY <1>3
=============================================================================
