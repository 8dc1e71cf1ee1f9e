------------------------ MODULE CompilerDriverProofs ------------------------
(***************************************************************************)
(* Proofs about CompilerDriver and SysrootArchive, for any block size, any *)
(* archives and any number of compilations that run at the same time.      *)
(***************************************************************************)
EXTENDS CompilerDriver, Loops

FilePaths == Seq(Names)
Entries == [path : FilePaths, length : Nat]

-----------------------------------------------------------------------------
(* Blocks *)

\* Multiplying by the size of a block.
LEMMA Times ==
    ASSUME NEW a \in Int, NEW b \in Int, a <= b
    PROVE  a * BlockSize <= b * BlockSize
<1>1. BlockSize \in Nat
  BY BlockSizeAssumption
<1>2. PICK d \in Nat : b = a + d
  <2>1. b - a \in Nat /\ b = a + (b - a)
    OBVIOUS
  <2> QED BY <2>1
<1>3. b * BlockSize = a * BlockSize + d * BlockSize
  BY <1>1, <1>2
<1>4. d * BlockSize \in Nat
  BY <1>1
<1>5. a * BlockSize \in Int
  BY <1>1
<1> QED
  BY <1>3, <1>4, <1>5

LEMMA Quotient ==
    ASSUME NEW a \in Nat
    PROVE  /\ a \div BlockSize \in Nat
           /\ (a \div BlockSize) * BlockSize <= a
           /\ a < (a \div BlockSize + 1) * BlockSize
<1>1. BlockSize \in Nat /\ BlockSize > 0
  BY BlockSizeAssumption
<1>2. a \div BlockSize \in Int /\ a % BlockSize \in 0 .. BlockSize - 1
   /\ a = BlockSize * (a \div BlockSize) + (a % BlockSize)
  BY <1>1
<1>3. (a \div BlockSize) * BlockSize <= a
   /\ a < (a \div BlockSize + 1) * BlockSize
   BY <1>1, <1>2
<1>4. a \div BlockSize >= 0
   BY <1>1
<1> QED
  BY <1>2, <1>3, <1>4

\* Math.ceil(size / 512) is the number of blocks tar writes.
LEMMA BlocksOfFile ==
    ASSUME NEW size \in Nat
    PROVE  /\ DataBlocks(size) \in Nat
           /\ FileBlocks(size) = DataBlocks(size)
           /\ size <= DataBlocks(size) * BlockSize
<1> DEFINE q == DataBlocks(size)
           Fits(n) == n * BlockSize >= size /\ (n - 1) * BlockSize < size
<1>0. BlockSize \in Nat /\ BlockSize > 0
  BY BlockSizeAssumption
<1>1. q \in Nat /\ q * BlockSize <= size + BlockSize - 1 /\ size + BlockSize - 1 < (q + 1) * BlockSize
  <2>1. size + BlockSize - 1 \in Nat
    BY <1>0
  <2> QED
    BY <2>1, Quotient DEF DataBlocks
<1> HIDE DEF q
<1>2. q * BlockSize \in Nat /\ (q + 1) * BlockSize = q * BlockSize + BlockSize
      /\ (q - 1) * BlockSize = q * BlockSize - BlockSize
  BY <1>0, <1>1
<1>3. Fits(q)
  BY <1>0, <1>1, <1>2
<1>4. q <= size
  <2> SUFFICES ASSUME size <= q - 1 PROVE FALSE
    BY <1>1
  <2>1. size * BlockSize <= (q - 1) * BlockSize
    BY <1>1, Times
  <2>2. size <= size * BlockSize
    BY <1>0
  <2>3. size * BlockSize \in Nat
    BY <1>0
  <2> QED
    BY <1>0, <1>1, <1>2, <1>3, <2>1, <2>2, <2>3
<1>5. ASSUME NEW n \in Nat, Fits(n) PROVE n = q
  <2>1. ASSUME NEW i \in Nat, NEW j \in Nat, i * BlockSize >= size, (j - 1) * BlockSize < size PROVE j <= i
    <3> SUFFICES ASSUME i <= j - 1 PROVE FALSE
      OBVIOUS
    <3>1. i * BlockSize <= (j - 1) * BlockSize
      BY Times
    <3>2. i * BlockSize \in Nat /\ (j - 1) * BlockSize \in Int
      BY <1>0
    <3> QED
      BY <2>1, <3>1, <3>2
  <2>2. n <= q /\ q <= n
    BY <1>1, <1>3, <1>5, <2>1
  <2> QED
    BY <1>1, <2>2
<1>6. FileBlocks(size) = CHOOSE n \in 0 .. size : Fits(n)
  BY ValuesAssumption DEF FileBlocks
<1>7. (CHOOSE n \in 0 .. size : Fits(n)) = q
  <2>1. q \in 0 .. size
    BY <1>1, <1>4
  <2> HIDE DEF Fits
  <2>2. \A n \in 0 .. size : Fits(n) => n = q
    BY <1>5
  <2> QED
    BY <1>3, <2>1, <2>2
<1>8. size <= q * BlockSize
  BY <1>3
<1> QED
  BY <1>1, <1>6, <1>7, <1>8 DEF q

\* What is written in rounds, each of which only adds to it.
Adds(made, L) ==
    \A n \in 1 .. L : /\ Len(made[n - 1]) <= Len(made[n])
                      /\ \A i \in 1 .. Len(made[n - 1]) : made[n][i] = made[n - 1][i]

LEMMA OnlyAdds ==
    ASSUME NEW D, NEW L \in Nat, NEW made \in [0 .. L -> Seq(D)], Adds(made, L),
           NEW k \in 0 .. L
    PROVE  Len(made[k]) <= Len(made[L]) /\ \A i \in 1 .. Len(made[k]) : made[L][i] = made[k][i]
<1> DEFINE Kept(n) == Len(made[k]) <= Len(made[n]) /\ \A i \in 1 .. Len(made[k]) : made[n][i] = made[k][i]
           T == {n \in 0 .. L : k <= n => Kept(n)}
<1>0. \A n \in 0 .. L : Len(made[n]) \in Nat
  OBVIOUS
<1>1. 0 \in T
  BY <1>0
<1>2. ASSUME NEW n \in 1 .. L, n - 1 \in T PROVE n \in T
  <2>1. CASE n = k
    BY <1>0, <2>1
  <2>2. CASE k < n
    <3>1. Kept(n - 1) /\ n - 1 \in 0 .. L
      BY <1>2, <2>2
    <3>2. /\ Len(made[n - 1]) <= Len(made[n])
          /\ \A i \in 1 .. Len(made[n - 1]) : made[n][i] = made[n - 1][i]
      BY DEF Adds
    <3>3. Kept(n)
      BY <1>0, <3>1, <3>2
    <3> QED
      BY <3>3
  <2> QED
    BY <2>1, <2>2
<1> QED
  <2> HIDE DEF T
  <2>1. \A n \in 0 .. L : n \in T
    BY <1>1, <1>2, InductionTo
  <2> QED
    BY <2>1 DEF T

-----------------------------------------------------------------------------
(* The tar file of an archive *)

BlockSeqs == Seq(Members \cup {Zero})

LEMMA MemberTypes ==
    ASSUME NEW m \in Members
    PROVE  /\ m.name \in FilePaths /\ m.regular \in BOOLEAN
           /\ m.size \in Nat \/ m.size = NaN
           /\ FileBlocks(m.size) \in Nat
           /\ m # Zero
<1>1. m.name \in FilePaths /\ m.regular \in BOOLEAN /\ m.size \in Nat \cup {NaN}
  BY DEF Members, FilePaths
<1>2. m # Zero
  BY ValuesAssumption
<1>3. FileBlocks(m.size) \in Nat
  <2>1. CASE m.size \in Nat
    BY <2>1, BlocksOfFile
  <2>2. CASE m.size = NaN
    BY <2>2 DEF FileBlocks
  <2> QED
    BY <1>1, <2>1, <2>2
<1> QED
  BY <1>1, <1>2, <1>3

\* A member's header stands behind what was written before, and its data behind it.
LEMMA MemberWritten ==
    ASSUME NEW blocks \in BlockSeqs, NEW m \in Members
    PROVE  /\ WithMember(blocks, m) \in BlockSeqs
           /\ Len(WithMember(blocks, m)) = Len(blocks) + 1 + FileBlocks(m.size)
           /\ \A i \in 1 .. Len(blocks) : WithMember(blocks, m)[i] = blocks[i]
           /\ WithMember(blocks, m)[Len(blocks) + 1] = m
<1> DEFINE F == FileBlocks(m.size)
           d == [i \in 1 .. F |-> Data]
           B == Members \cup {Zero}
           one == blocks \o <<m>>
<1>0. blocks \in Seq(B) /\ Len(blocks) \in Nat
  BY DEF BlockSeqs
<1>1. F \in Nat
  BY MemberTypes
<1>2. Data \in B
  BY NamesAssumption DEF Data, Members
<1> HIDE DEF F
<1>3. d \in Seq(B) /\ Len(d) = F
  <2> HIDE DEF B
  <2> QED
    BY <1>1, <1>2
<1>4. <<m>> \in Seq(B) /\ Len(<<m>>) = 1 /\ <<m>>[1] = m
  BY DEF B
<1> HIDE DEF d, B
<1>5. /\ one \in Seq(B) /\ Len(one) = Len(blocks) + 1
      /\ \A i \in 1 .. Len(blocks) : one[i] = blocks[i]
      /\ one[Len(blocks) + 1] = m
  <2>1. /\ one \in Seq(B) /\ Len(one) = Len(blocks) + Len(<<m>>)
        /\ \A i \in 1 .. Len(blocks) + Len(<<m>>) :
             one[i] = IF i <= Len(blocks) THEN blocks[i] ELSE <<m>>[i - Len(blocks)]
    BY <1>0, <1>4, ConcatProperties
  <2> HIDE DEF one
  <2> QED
    BY <1>0, <1>4, <2>1
<1> HIDE DEF one
<1>6. /\ one \o d \in Seq(B) /\ Len(one \o d) = Len(one) + Len(d)
      /\ \A i \in 1 .. Len(one) + Len(d) :
           (one \o d)[i] = IF i <= Len(one) THEN one[i] ELSE d[i - Len(one)]
  BY <1>3, <1>5, ConcatProperties
<1>7. WithMember(blocks, m) = one \o d
  BY DEF WithMember, one, d, F
<1>8. /\ Len(one \o d) = Len(blocks) + 1 + F
      /\ \A i \in 1 .. Len(blocks) : (one \o d)[i] = blocks[i]
      /\ (one \o d)[Len(blocks) + 1] = m
  BY <1>0, <1>1, <1>3, <1>5, <1>6
<1> QED
  BY <1>6, <1>7, <1>8 DEF F, B, BlockSeqs

\* The rounds of tar.
Written(members, tar) ==
    /\ tar \in [0 .. Len(members) -> BlockSeqs]
    /\ tar[0] = <<>>
    /\ \A n \in 1 .. Len(members) : tar[n] = WithMember(tar[n - 1], members[n])

LEMMA TarIsWritten ==
    ASSUME NEW members \in Seq(Members)
    PROVE  \E tar : Written(members, tar) /\ Tar(members) = tar[Len(members)] \o <<Zero, Zero>>
<1> DEFINE L == Len(members)
           S == BlockSeqs
           b == <<>>
           round == [n \in 1 .. L |-> [blocks \in S |-> WithMember(blocks, members[n])]]
           IsRun(g) == g = [n \in 0 .. L |-> IF n = 0 THEN b ELSE WithMember(g[n - 1], members[n])]
           t == CHOOSE g : IsRun(g)
<1>1. L \in Nat
  OBVIOUS
<1>2. b \in S
  BY DEF BlockSeqs
<1>3. round \in Rounds(L, S)
  <2>1. ASSUME NEW n \in 1 .. L, NEW blocks \in S PROVE WithMember(blocks, members[n]) \in S
    <3>1. members[n] \in Members
      OBVIOUS
    <3> QED
      BY <3>1, MemberWritten
  <2> HIDE DEF S
  <2> QED
    BY <2>1 DEF Rounds
<1>4. \A n \in 1 .. L, blocks \in S : round[n][blocks] = WithMember(blocks, members[n])
  <2> HIDE DEF S
  <2> QED
    OBVIOUS
<1>5. PICK g : g \in Runs(L, S, b, round)
  <2> HIDE DEF L, S, b, round
  <2> QED
    BY <1>1, <1>2, <1>3, RunExists
<1>6. IsRun(g)
  <2>1. g \in [0 .. L -> S] /\ g[0] = b /\ \A n \in 1 .. L : g[n] = round[n][g[n - 1]]
    <3> HIDE DEF L, S, b, round
    <3> QED
      BY <1>5 DEF Runs
  <2>2. \A n \in 0 .. L : g[n] = IF n = 0 THEN b ELSE WithMember(g[n - 1], members[n])
    <3>1. ASSUME NEW n \in 1 .. L PROVE g[n] = WithMember(g[n - 1], members[n])
      <4>1. n - 1 \in 0 .. L
        BY <1>1
      <4> HIDE DEF L, S, b, round
      <4>2. g[n - 1] \in S
        BY <2>1, <4>1
      <4> QED
        BY <1>4, <2>1, <4>2
    <3> HIDE DEF L, S, b, round
    <3> QED
      BY <1>1, <2>1, <3>1
  <2> HIDE DEF L, S, b, round
  <2> QED
    BY <2>1, <2>2
<1>7. IsRun(t)
  <2> HIDE DEF IsRun
  <2> QED
    BY <1>6
<1>8. t[0] = b /\ \A n \in 1 .. L : t[n] = WithMember(t[n - 1], members[n])
  <2> HIDE DEF t, b, S, L
  <2> QED
    BY <1>1, <1>7
<1>9. t \in [0 .. L -> S]
  <2>1. \A n \in 0 .. L : t[n] \in S
    <3>1. \A n \in 1 .. L : t[n - 1] \in S => t[n] = round[n][t[n - 1]]
      <4> HIDE DEF t, b, S, L, round
      <4> QED
        BY <1>4, <1>8
    <3> HIDE DEF t, b, S, L, round
    <3> QED
      BY <1>1, <1>2, <1>3, <1>8, <3>1, RunStays
  <2> HIDE DEF t, b, S, L
  <2> QED
    BY <1>7, <2>1
<1>10. Tar(members) = t[L] \o <<Zero, Zero>>
  BY DEF Tar
<1>11. Written(members, t)
  <2> HIDE DEF t
  <2> QED
    BY <1>8, <1>9 DEF Written
<1> QED
  BY <1>10, <1>11

\* A tar file of these members: at[n] blocks come before the header of member n + 1, and
\* before the two zero blocks.
LaidOut(members, at, blocks) ==
    /\ blocks \in BlockSeqs
    /\ at \in [0 .. Len(members) -> Nat]
    /\ at[0] = 0
    /\ \A n \in 1 .. Len(members) : /\ blocks[at[n - 1] + 1] = members[n]
                                    /\ at[n] = at[n - 1] + 1 + FileBlocks(members[n].size)
    /\ \A n \in 0 .. Len(members) : n <= at[n] /\ at[n] <= at[Len(members)]
    /\ blocks[at[Len(members)] + 1] = Zero
    /\ Len(blocks) = at[Len(members)] + 2

LEMMA TarLayout ==
    ASSUME NEW members \in Seq(Members)
    PROVE  \E at : LaidOut(members, at, Tar(members))
<1> DEFINE L == Len(members)
           B == Members \cup {Zero}
<1>0. L \in Nat /\ (\A n \in 1 .. L : members[n] \in Members /\ n - 1 \in 0 .. L /\ n \in 0 .. L)
  OBVIOUS
<1>1. PICK tar : Written(members, tar) /\ Tar(members) = tar[L] \o <<Zero, Zero>>
  BY TarIsWritten
<1> DEFINE at == [n \in 0 .. L |-> Len(tar[n])]
           blocks == Tar(members)
<1>2. tar \in [0 .. L -> Seq(B)] /\ tar[0] = <<>>
  BY <1>1 DEF Written, BlockSeqs
<1>3. at \in [0 .. L -> Nat] /\ at[0] = 0 /\ \A n \in 0 .. L : at[n] = Len(tar[n])
  <2> HIDE DEF L, B
  <2>1. \A n \in 0 .. L : Len(tar[n]) \in Nat
    BY <1>2
  <2> QED
    BY <1>0, <1>2, <2>1
<1>4. ASSUME NEW n \in 1 .. L
      PROVE  /\ at[n] = at[n - 1] + 1 + FileBlocks(members[n].size)
             /\ FileBlocks(members[n].size) \in Nat
             /\ \A i \in 1 .. at[n - 1] : tar[n][i] = tar[n - 1][i]
             /\ tar[n][at[n - 1] + 1] = members[n]
  <2>1. tar[n] = WithMember(tar[n - 1], members[n])
    BY <1>1 DEF Written
  <2>2. n \in 0 .. L /\ n - 1 \in 0 .. L /\ members[n] \in Members
    BY <1>0
  <2>3. tar[n - 1] \in BlockSeqs
    <3> HIDE DEF L
    <3> QED
      BY <1>2, <2>2 DEF BlockSeqs
  <2>4. FileBlocks(members[n].size) \in Nat
    BY <2>2, MemberTypes
  <2>5. at[n] = Len(tar[n]) /\ at[n - 1] = Len(tar[n - 1])
    BY <2>2
  <2> HIDE DEF at, L, B
  <2>6. /\ Len(tar[n]) = Len(tar[n - 1]) + 1 + FileBlocks(members[n].size)
        /\ \A i \in 1 .. Len(tar[n - 1]) : tar[n][i] = tar[n - 1][i]
        /\ tar[n][Len(tar[n - 1]) + 1] = members[n]
    <3> DEFINE before == tar[n - 1]
               m == members[n]
    <3>1. before \in BlockSeqs /\ m \in Members
      BY <2>2, <2>3
    <3> HIDE DEF before, m
    <3>2. /\ Len(WithMember(before, m)) = Len(before) + 1 + FileBlocks(m.size)
          /\ \A i \in 1 .. Len(before) : WithMember(before, m)[i] = before[i]
          /\ WithMember(before, m)[Len(before) + 1] = m
      BY <3>1, MemberWritten
    <3>3. tar[n] = WithMember(before, m)
      BY <2>1 DEF before, m
    <3> QED
      BY <3>2, <3>3 DEF before, m
  <2> QED
    BY <2>4, <2>5, <2>6
<1> HIDE DEF at
<1>5. \A n \in 0 .. L : at[n] <= at[L] /\ \A i \in 1 .. at[n] : tar[L][i] = tar[n][i]
  <2>1. Adds(tar, L)
    <3> SUFFICES ASSUME NEW n \in 1 .. L
                 PROVE  /\ Len(tar[n - 1]) <= Len(tar[n])
                        /\ \A i \in 1 .. Len(tar[n - 1]) : tar[n][i] = tar[n - 1][i]
      BY DEF Adds
    <3>1. Len(tar[n - 1]) = at[n - 1] /\ Len(tar[n]) = at[n] /\ at[n - 1] \in Nat /\ at[n] \in Nat
      BY <1>0, <1>3
    <3> HIDE DEF L, B
    <3> QED
      BY <1>4, <3>1
  <2> HIDE DEF L, B
  <2>2. \A k \in 0 .. L : Len(tar[k]) <= Len(tar[L]) /\ \A i \in 1 .. Len(tar[k]) : tar[L][i] = tar[k][i]
    <3> TAKE k \in 0 .. L
    <3>1. L \in Nat /\ tar \in [0 .. L -> Seq(B)]
      BY <1>0, <1>2
    <3> QED
      BY <2>1, <3>1, OnlyAdds
  <2>3. L \in 0 .. L
    BY <1>0
  <2> QED
    BY <1>3, <2>2, <2>3
<1>6. /\ blocks \in Seq(B) /\ Len(blocks) = at[L] + 2
      /\ \A i \in 1 .. at[L] : blocks[i] = tar[L][i]
      /\ blocks[at[L] + 1] = Zero
  <2>1. <<Zero, Zero>> \in Seq(B) /\ Len(<<Zero, Zero>>) = 2 /\ <<Zero, Zero>>[1] = Zero
    OBVIOUS
  <2>2. tar[L] \in Seq(B) /\ Len(tar[L]) = at[L] /\ at[L] \in Nat
    <3> HIDE DEF L, B
    <3> QED
      BY <1>0, <1>2, <1>3
  <2> HIDE DEF B, L, blocks
  <2>3. blocks = tar[L] \o <<Zero, Zero>>
    BY <1>1 DEF blocks
  <2>4. /\ blocks \in Seq(B) /\ Len(blocks) = Len(tar[L]) + Len(<<Zero, Zero>>)
        /\ \A i \in 1 .. Len(tar[L]) + Len(<<Zero, Zero>>) :
             blocks[i] = IF i <= Len(tar[L]) THEN tar[L][i] ELSE <<Zero, Zero>>[i - Len(tar[L])]
    BY <2>1, <2>2, <2>3, ConcatProperties
  <2>5. Len(blocks) = at[L] + 2 /\ \A i \in 1 .. at[L] : i \in 1 .. at[L] + 2 /\ i <= at[L]
    BY <2>1, <2>2, <2>4
  <2>6. \A i \in 1 .. at[L] : blocks[i] = tar[L][i]
    BY <2>1, <2>2, <2>4, <2>5
  <2>7. at[L] + 1 \in 1 .. at[L] + 2 /\ ~(at[L] + 1 <= at[L]) /\ at[L] + 1 - at[L] = 1
    BY <2>2
  <2> DEFINE last == at[L] + 1
  <2>8. last \in 1 .. Len(tar[L]) + Len(<<Zero, Zero>>) /\ ~(last <= Len(tar[L])) /\ last - Len(tar[L]) = 1
    BY <2>1, <2>2, <2>7
  <2> HIDE DEF last
  <2>9. blocks[last] = <<Zero, Zero>>[1]
    BY <2>4, <2>8
  <2> QED
    BY <2>1, <2>4, <2>5, <2>6, <2>9 DEF last
<1>7. \A n \in 1 .. L : blocks[at[n - 1] + 1] = members[n]
  <2> TAKE n \in 1 .. L
  <2>1. at[n - 1] + 1 \in 1 .. at[n]
    <3>1. at[n] = at[n - 1] + 1 + FileBlocks(members[n].size) /\ FileBlocks(members[n].size) \in Nat
      BY <1>4
    <3>2. at[n - 1] \in Nat
      BY <1>0, <1>3
    <3> QED
      BY <3>1, <3>2
  <2>2. at[n - 1] + 1 \in 1 .. at[L] /\ n \in 0 .. L
    BY <1>0, <1>3, <1>5, <2>1
  <2>3. blocks[at[n - 1] + 1] = tar[L][at[n - 1] + 1]
    BY <1>6, <2>2
  <2>4. tar[L][at[n - 1] + 1] = tar[n][at[n - 1] + 1]
    BY <1>5, <2>1, <2>2
  <2> QED
    BY <1>4, <2>3, <2>4
<1>8. \A n \in 0 .. L : n <= at[n]
  <2> DEFINE T == {n \in 0 .. L : n <= at[n]}
  <2>1. 0 \in T
    BY <1>0, <1>3
  <2>2. ASSUME NEW n \in 1 .. L, n - 1 \in T PROVE n \in T
    <3>1. n - 1 \in 0 .. L /\ n \in 0 .. L /\ n - 1 <= at[n - 1] /\ n \in Nat
      BY <1>0, <2>2
    <3>2. at[n] = at[n - 1] + 1 + FileBlocks(members[n].size) /\ FileBlocks(members[n].size) \in Nat
      BY <1>4
    <3>3. at[n - 1] \in Nat
      BY <1>3, <3>1
    <3> HIDE DEF L
    <3>4. n <= at[n]
      BY <3>1, <3>2, <3>3
    <3> QED
      BY <3>1, <3>4
  <2> HIDE DEF T
  <2>3. \A n \in 0 .. L : n \in T
    BY <1>0, <2>1, <2>2, InductionTo
  <2> QED
    BY <2>3 DEF T
<1>9. LaidOut(members, at, blocks)
  BY <1>3, <1>4, <1>5, <1>6, <1>7, <1>8 DEF LaidOut, BlockSeqs
<1> QED
  BY <1>9

-----------------------------------------------------------------------------
(* The reader *)

LEMMA MinOfTwo ==
    ASSUME NEW a \in Int, NEW b \in Int
    PROVE  Min({a, b}) = IF a <= b THEN a ELSE b
<1> DEFINE S == {a, b}
           m == IF a <= b THEN a ELSE b
<1>1. m \in S /\ \A y \in S : m <= y
  OBVIOUS
<1>2. \A x \in S : (\A y \in S : x <= y) => x = m
  OBVIOUS
<1>3. (CHOOSE x \in S : \A y \in S : x <= y) = m
  <2> HIDE DEF S, m
  <2> QED
    BY <1>1, <1>2
<1> QED
  BY <1>3 DEF Min

LEMMA EntryPathIs ==
    ASSUME NEW name \in FilePaths
    PROVE  EntryPath(name) \in FilePaths
  BY DEF EntryPath, FilePaths

\* A reader that is not at the end stands at a header.
LEMMA HeaderIsThere ==
    ASSUME NEW blocks \in BlockSeqs, NEW bytes \in Nat, bytes <= Len(blocks) * BlockSize,
           NEW offset \in Nat \cup {NaN}, ~AtEnd(blocks, bytes, offset)
    PROVE  /\ offset \in Nat
           /\ (offset + 1) * BlockSize <= bytes
           /\ blocks[offset + 1] \in Members
<1>1. offset \in Nat /\ ~((offset + 1) * BlockSize > bytes) /\ blocks[offset + 1] # Zero
  BY DEF AtEnd
<1>2. BlockSize \in Nat /\ BlockSize > 0 /\ Len(blocks) \in Nat /\ (offset + 1) * BlockSize \in Nat
  BY <1>1, BlockSizeAssumption DEF BlockSeqs
<1>3. offset + 1 \in 1 .. Len(blocks)
  <2> SUFFICES ASSUME Len(blocks) + 1 <= offset + 1 PROVE FALSE
    BY <1>1, <1>2
  <2>1. (Len(blocks) + 1) * BlockSize <= (offset + 1) * BlockSize
    BY <1>1, <1>2, Times
  <2>2. (Len(blocks) + 1) * BlockSize = Len(blocks) * BlockSize + BlockSize
    BY <1>2
  <2>3. Len(blocks) * BlockSize \in Nat
    BY <1>2
  <2> QED
    BY <1>1, <1>2, <2>1, <2>2, <2>3
<1>4. blocks[offset + 1] \in Members
  BY <1>1, <1>3 DEF BlockSeqs
<1> QED
  BY <1>1, <1>2, <1>4

\* What one more round makes of a reader that is not at the end.
Reads(read, next, header, bytes) ==
    LET rest == bytes - (read.offset + 1) * BlockSize
    IN  /\ read.offset \in Nat
        /\ header \in Members
        /\ rest \in Nat
        /\ next.offset = IF header.size = NaN THEN NaN ELSE read.offset + 1 + DataBlocks(header.size)
        /\ next.entries =
             IF header.regular /\ header.name # <<>>
             THEN Append(read.entries,
                         [path   |-> EntryPath(header.name),
                          length |-> IF header.size = NaN THEN 0
                                     ELSE IF header.size <= rest THEN header.size ELSE rest])
             ELSE read.entries

Readers == [offset : Nat \cup {NaN}, entries : Seq(Entries)]

LEMMA OneRound ==
    ASSUME NEW blocks \in BlockSeqs, NEW bytes \in Nat, bytes <= Len(blocks) * BlockSize,
           NEW read \in Readers
    PROVE  /\ ReadFile(blocks, bytes, read) \in Readers
           /\ AtEnd(blocks, bytes, read.offset) => ReadFile(blocks, bytes, read) = read
           /\ ~AtEnd(blocks, bytes, read.offset) =>
                Reads(read, ReadFile(blocks, bytes, read), blocks[read.offset + 1], bytes)
<1>1. read.offset \in Nat \cup {NaN} /\ read.entries \in Seq(Entries)
  BY DEF Readers
<1>2. CASE AtEnd(blocks, bytes, read.offset)
  BY <1>2 DEF ReadFile
<1>3. CASE ~AtEnd(blocks, bytes, read.offset)
  <2> DEFINE header == blocks[read.offset + 1]
             rest == bytes - (read.offset + 1) * BlockSize
             next == ReadFile(blocks, bytes, read)
             length == IF header.size = NaN THEN 0 ELSE Min({header.size, rest})
             entry == [path |-> EntryPath(header.name), length |-> length]
  <2>1. read.offset \in Nat /\ header \in Members /\ rest \in Nat
    <3>1. read.offset \in Nat /\ (read.offset + 1) * BlockSize <= bytes /\ header \in Members
      BY <1>1, <1>3, HeaderIsThere
    <3>2. (read.offset + 1) * BlockSize \in Nat
      BY <3>1, BlockSizeAssumption
    <3> QED
      BY <3>1, <3>2
  <2> HIDE DEF header, rest
  <2>2. next = [offset |-> IF header.size = NaN THEN NaN ELSE read.offset + 1 + DataBlocks(header.size),
                entries |-> IF header.regular /\ header.name # <<>> THEN Append(read.entries, entry)
                            ELSE read.entries]
    BY <1>3 DEF ReadFile, header, rest
  <2> HIDE DEF next
  <2>3. header.size \in Nat \/ header.size = NaN
    BY <2>1, MemberTypes
  <2>4. length \in Nat /\ length = IF header.size = NaN THEN 0
                                   ELSE IF header.size <= rest THEN header.size ELSE rest
    BY <2>1, <2>3, MinOfTwo
  <2> HIDE DEF length
  <2>5. entry \in Entries
    BY <2>1, <2>4, MemberTypes, EntryPathIs DEF Entries
  <2>6. next.offset \in Nat \cup {NaN}
    <3>1. CASE header.size = NaN
      BY <2>2, <3>1
    <3>2. CASE header.size \in Nat /\ header.size # NaN
      <4>1. DataBlocks(header.size) \in Nat
        BY <3>2, BlocksOfFile
      <4> QED
        BY <2>1, <2>2, <3>2, <4>1
    <3> QED
      BY <2>3, <3>1, <3>2
  <2>7. next.entries \in Seq(Entries)
    <3> HIDE DEF entry
    <3> QED
      BY <1>1, <2>2, <2>5
  <2>8. next \in Readers
    BY <2>2, <2>6, <2>7 DEF Readers
  <2>9. Reads(read, next, header, bytes)
    BY <2>1, <2>2, <2>4 DEF Reads, rest
  <2> QED
    BY <1>3, <2>8, <2>9 DEF next, header
<1> QED
  BY <1>2, <1>3

\* The rounds of parseSysrootTar().
IsReading(read, blocks, bytes) ==
    /\ read \in [0 .. Len(blocks) -> Readers]
    /\ read[0] = [offset |-> 0, entries |-> <<>>]
    /\ \A n \in 1 .. Len(blocks) : read[n] = ReadFile(blocks, bytes, read[n - 1])

LEMMA ParseIsReading ==
    ASSUME NEW blocks \in BlockSeqs, NEW bytes \in Nat, bytes <= Len(blocks) * BlockSize
    PROVE  \E read : /\ IsReading(read, blocks, bytes)
                     /\ ParseSysrootTar(blocks, bytes) = read[Len(blocks)].entries
<1> DEFINE L == Len(blocks)
           S == Readers
           b == [offset |-> 0, entries |-> <<>>]
           round == [n \in 1 .. L |-> [read \in S |-> ReadFile(blocks, bytes, read)]]
           IsRun(g) == g = [n \in 0 .. L |-> IF n = 0 THEN b ELSE ReadFile(blocks, bytes, g[n - 1])]
           t == CHOOSE g : IsRun(g)
<1>1. L \in Nat
  BY DEF BlockSeqs
<1>2. b \in S
  BY DEF Readers
<1>3. round \in Rounds(L, S)
  <2>1. ASSUME NEW read \in S PROVE ReadFile(blocks, bytes, read) \in S
    BY OneRound
  <2> HIDE DEF S
  <2> QED
    BY <2>1 DEF Rounds
<1>4. \A n \in 1 .. L, read \in S : round[n][read] = ReadFile(blocks, bytes, read)
  <2> HIDE DEF S
  <2> QED
    OBVIOUS
<1>5. PICK g : g \in Runs(L, S, b, round)
  <2> HIDE DEF L, S, b, round
  <2> QED
    BY <1>1, <1>2, <1>3, RunExists
<1>6. IsRun(g)
  <2>1. g \in [0 .. L -> S] /\ g[0] = b /\ \A n \in 1 .. L : g[n] = round[n][g[n - 1]]
    <3> HIDE DEF L, S, b, round
    <3> QED
      BY <1>5 DEF Runs
  <2>2. \A n \in 0 .. L : g[n] = IF n = 0 THEN b ELSE ReadFile(blocks, bytes, g[n - 1])
    <3>1. ASSUME NEW n \in 1 .. L PROVE g[n] = ReadFile(blocks, bytes, g[n - 1])
      <4>1. n - 1 \in 0 .. L
        BY <1>1
      <4> HIDE DEF L, S, b, round
      <4>2. g[n - 1] \in S
        BY <2>1, <4>1
      <4> QED
        BY <1>4, <2>1, <4>2
    <3> HIDE DEF L, S, b, round
    <3> QED
      BY <1>1, <2>1, <3>1
  <2> HIDE DEF L, S, b, round
  <2> QED
    BY <2>1, <2>2
<1>7. IsRun(t)
  <2> HIDE DEF IsRun
  <2> QED
    BY <1>6
<1>8. t[0] = b /\ \A n \in 1 .. L : t[n] = ReadFile(blocks, bytes, t[n - 1])
  <2> HIDE DEF t, b, S, L
  <2> QED
    BY <1>1, <1>7
<1>9. t \in [0 .. L -> S]
  <2>1. \A n \in 0 .. L : t[n] \in S
    <3>1. \A n \in 1 .. L : t[n - 1] \in S => t[n] = round[n][t[n - 1]]
      <4> HIDE DEF t, b, S, L, round
      <4> QED
        BY <1>4, <1>8
    <3> HIDE DEF t, b, S, L, round
    <3> QED
      BY <1>1, <1>2, <1>3, <1>8, <3>1, RunStays
  <2> HIDE DEF t, b, S, L
  <2> QED
    BY <1>7, <2>1
<1>10. ParseSysrootTar(blocks, bytes) = t[L].entries
  BY DEF ParseSysrootTar
<1>11. IsReading(t, blocks, bytes)
  <2> HIDE DEF t
  <2> QED
    BY <1>8, <1>9 DEF IsReading
<1> QED
  BY <1>10, <1>11

\* What was read are entries.
LEMMA EntriesTyped ==
    ASSUME NEW a \in Archives, LoadSysrootEntries(a) # Nothing
    PROVE  LoadSysrootEntries(a) \in Seq(Entries)
<1>1. /\ a.members \in Seq(Members) /\ a.bytes \in Nat
      /\ a.bytes <= Len(Tar(a.members)) * BlockSize
  BY ArchivesAssumption DEF Size
<1>2. Tar(a.members) \in BlockSeqs
  BY <1>1, TarLayout DEF LaidOut
<1>3. PICK read : /\ IsReading(read, Tar(a.members), a.bytes)
                  /\ ParseSysrootTar(Tar(a.members), a.bytes) = read[Len(Tar(a.members))].entries
  BY <1>1, <1>2, ParseIsReading
<1>4. read[Len(Tar(a.members))] \in Readers
  BY <1>2, <1>3 DEF IsReading, BlockSeqs
<1>5. LoadSysrootEntries(a) \in {<<>>, read[Len(Tar(a.members))].entries}
  BY <1>3 DEF LoadSysrootEntries
<1>6. <<>> \in Seq(Entries)
  OBVIOUS
<1>7. read[Len(Tar(a.members))].entries \in Seq(Entries)
  BY <1>4 DEF Readers
<1> QED
  BY <1>5, <1>6, <1>7

-----------------------------------------------------------------------------
(* What an archive gives *)

IsFile(m) == m.regular /\ m.name # <<>>

\* The rounds of FilesOf.
IsFinding(found, members) ==
    /\ found \in [0 .. Len(members) -> Seq(Members)]
    /\ found[0] = <<>>
    /\ \A n \in 1 .. Len(members) :
         found[n] = IF IsFile(members[n]) THEN Append(found[n - 1], members[n]) ELSE found[n - 1]

LEMMA FilesAreFound ==
    ASSUME NEW members \in Seq(Members)
    PROVE  \E found : IsFinding(found, members) /\ FilesOf(members) = found[Len(members)]
<1> DEFINE L == Len(members)
           S == Seq(Members)
           b == <<>>
           Step(f, n) == IF IsFile(members[n]) THEN Append(f, members[n]) ELSE f
           round == [n \in 1 .. L |-> [f \in S |-> Step(f, n)]]
           IsRun(g) == g = [n \in 0 .. L |->
                              IF n = 0 THEN b
                              ELSE IF members[n].regular /\ members[n].name # <<>>
                                   THEN Append(g[n - 1], members[n]) ELSE g[n - 1]]
           t == CHOOSE g : IsRun(g)
<1>1. L \in Nat
  OBVIOUS
<1>2. b \in S
  OBVIOUS
<1>3. round \in Rounds(L, S)
  <2>1. ASSUME NEW n \in 1 .. L, NEW f \in S PROVE Step(f, n) \in S
    <3>1. members[n] \in Members
      OBVIOUS
    <3> QED
      BY <3>1
  <2> HIDE DEF S, Step
  <2> QED
    BY <2>1 DEF Rounds
<1>4. \A n \in 1 .. L, f \in S : round[n][f] = Step(f, n)
  <2> HIDE DEF S, Step
  <2> QED
    OBVIOUS
<1>5. PICK g : g \in Runs(L, S, b, round)
  <2> HIDE DEF L, S, b, round
  <2> QED
    BY <1>1, <1>2, <1>3, RunExists
<1>6. IsRun(g)
  <2>1. g \in [0 .. L -> S] /\ g[0] = b /\ \A n \in 1 .. L : g[n] = round[n][g[n - 1]]
    <3> HIDE DEF L, S, b, round
    <3> QED
      BY <1>5 DEF Runs
  <2>2. \A n \in 0 .. L : g[n] = IF n = 0 THEN b ELSE Step(g[n - 1], n)
    <3>1. ASSUME NEW n \in 1 .. L PROVE g[n] = Step(g[n - 1], n)
      <4>1. n - 1 \in 0 .. L
        BY <1>1
      <4> HIDE DEF L, S, b, round, Step
      <4>2. g[n - 1] \in S
        BY <2>1, <4>1
      <4> QED
        BY <1>4, <2>1, <4>2
    <3> HIDE DEF L, S, b, round, Step
    <3> QED
      BY <1>1, <2>1, <3>1
  <2>3. g = [n \in 0 .. L |-> IF n = 0 THEN b ELSE Step(g[n - 1], n)]
    <3> HIDE DEF L, S, b, round, Step
    <3> QED
      BY <2>1, <2>2
  <2> QED
    BY <2>3 DEF IsFile
<1>7. IsRun(t)
  <2> HIDE DEF IsRun
  <2> QED
    BY <1>6
<1>8. t[0] = b /\ (\A n \in 1 .. L : t[n] = Step(t[n - 1], n)) /\ t = [n \in 0 .. L |-> t[n]]
  <2>1. t = [n \in 0 .. L |-> IF n = 0 THEN b ELSE Step(t[n - 1], n)]
    BY <1>7 DEF IsFile
  <2> HIDE DEF t, b, S, L, Step
  <2> QED
    BY <1>1, <2>1
<1>9. t \in [0 .. L -> S]
  <2>1. \A n \in 0 .. L : t[n] \in S
    <3>1. \A n \in 1 .. L : t[n - 1] \in S => t[n] = round[n][t[n - 1]]
      <4> HIDE DEF t, b, S, L, round, Step
      <4> QED
        BY <1>4, <1>8
    <3> HIDE DEF t, b, S, L, round
    <3> QED
      BY <1>1, <1>2, <1>3, <1>8, <3>1, RunStays
  <2> HIDE DEF t, b, S, L
  <2> QED
    BY <1>8, <2>1
<1>10. FilesOf(members) = t[L]
  BY DEF FilesOf
<1>11. IsFinding(t, members)
  <2> HIDE DEF t
  <2> QED
    BY <1>8, <1>9 DEF IsFinding
<1> QED
  BY <1>10, <1>11

LEMMA FoundAdds ==
    ASSUME NEW members \in Seq(Members), NEW found, IsFinding(found, members),
           NEW k \in 0 .. Len(members)
    PROVE  /\ found[k] \in Seq(Members) /\ found[Len(members)] \in Seq(Members)
           /\ Len(found[k]) <= Len(found[Len(members)])
           /\ \A i \in 1 .. Len(found[k]) : found[Len(members)][i] = found[k][i]
<1> DEFINE L == Len(members)
<1>1. L \in Nat /\ found \in [0 .. L -> Seq(Members)]
  BY DEF IsFinding
<1>2. Adds(found, L)
  <2> SUFFICES ASSUME NEW n \in 1 .. L
               PROVE  /\ Len(found[n - 1]) <= Len(found[n])
                      /\ \A i \in 1 .. Len(found[n - 1]) : found[n][i] = found[n - 1][i]
    BY DEF Adds
  <2>1. found[n - 1] \in Seq(Members) /\ members[n] \in Members
    BY <1>1
  <2>2. found[n] = found[n - 1] \/ found[n] = Append(found[n - 1], members[n])
    BY DEF IsFinding
  <2> QED
    BY <2>1, <2>2
<1> HIDE DEF L
<1>3. L \in 0 .. L
  BY <1>1
<1> QED
  BY <1>1, <1>2, <1>3, OnlyAdds DEF L

\* Entries of these files, the first m of them whole.
Matches(es, ms, m) ==
    /\ Len(es) = Len(ms)
    /\ \A i \in 1 .. Len(ms) : es[i].path = EntryPath(ms[i].name)
    /\ \A i \in 1 .. Len(ms) : i <= m => es[i].length = ms[i].size

LEMMA OneMoreMatches ==
    ASSUME NEW es \in Seq(Entries), NEW ms \in Seq(Members), Matches(es, ms, Len(ms)),
           NEW e \in Entries, NEW m \in Members, e.path = EntryPath(m.name)
    PROVE  /\ Matches(Append(es, e), Append(ms, m), Len(ms))
           /\ e.length = m.size => Matches(Append(es, e), Append(ms, m), Len(ms) + 1)
<1> DEFINE more == Append(es, e)
           all == Append(ms, m)
           n == Len(ms)
<1>1. n \in Nat /\ Len(es) = n
  BY DEF Matches
<1>2. /\ Len(more) = n + 1 /\ Len(all) = n + 1
      /\ \A i \in 1 .. n : more[i] = es[i] /\ all[i] = ms[i]
      /\ more[n + 1] = e /\ all[n + 1] = m
  <2> HIDE DEF Entries
  <2> QED
    BY <1>1
<1> HIDE DEF more, all, n
<1>3. \A i \in 1 .. n + 1 : i \in 1 .. n \/ i = n + 1
  BY <1>1
<1>4. \A i \in 1 .. n : es[i].path = EntryPath(ms[i].name) /\ es[i].length = ms[i].size
  BY <1>1 DEF Matches, n
<1>5. \A i \in 1 .. Len(all) : more[i].path = EntryPath(all[i].name)
  BY <1>2, <1>3, <1>4
<1>6. \A i \in 1 .. Len(all) : i <= n => more[i].length = all[i].size
  BY <1>1, <1>2, <1>3, <1>4
<1>7. e.length = m.size => \A i \in 1 .. Len(all) : more[i].length = all[i].size
  BY <1>2, <1>3, <1>4
<1>8. Matches(more, all, n)
  BY <1>2, <1>5, <1>6 DEF Matches
<1>9. e.length = m.size => Matches(more, all, n + 1)
  BY <1>2, <1>5, <1>7 DEF Matches
<1> QED
  BY <1>8, <1>9 DEF more, all, n

\* The archive was not cut and its sizes can be read.
Intact(members, blocks, bytes) ==
    bytes = Len(blocks) * BlockSize /\ \A i \in 1 .. Len(members) : members[i].size # NaN

\* A reader before the header of member k + 1, or at the end after k members.
Open(read, k, at, found) ==
    read.offset = at[k] /\ Matches(read.entries, found[k], Len(found[k]))

Ended(read, k, found, members, blocks, bytes) ==
    /\ AtEnd(blocks, bytes, read.offset)
    /\ Matches(read.entries, found[k], Len(found[k]) - 1)
    /\ Intact(members, blocks, bytes) => k = Len(members) /\ Matches(read.entries, found[k], Len(found[k]))

LEMMA MatchesLess ==
    ASSUME NEW es, NEW ms \in Seq(Members), Matches(es, ms, Len(ms))
    PROVE  Matches(es, ms, Len(ms) - 1)
  BY DEF Matches

LEMMA RoundFromOpen ==
    ASSUME NEW members \in Seq(Members), NEW blocks, NEW at, LaidOut(members, at, blocks),
           NEW found, IsFinding(found, members),
           NEW bytes \in Nat, bytes <= Len(blocks) * BlockSize,
           NEW read \in Readers, NEW k \in 0 .. Len(members), Open(read, k, at, found)
    PROVE  \/ k + 1 \in 0 .. Len(members) /\ Open(ReadFile(blocks, bytes, read), k + 1, at, found)
           \/ \E j \in 0 .. Len(members) :
                Ended(ReadFile(blocks, bytes, read), j, found, members, blocks, bytes)
<1> DEFINE L == Len(members)
           next == ReadFile(blocks, bytes, read)
           intact == Intact(members, blocks, bytes)
<1>0. L \in Nat /\ BlockSize \in Nat /\ BlockSize > 0
  BY BlockSizeAssumption
<1>1. /\ blocks \in BlockSeqs /\ at[k] \in Nat /\ at[L] \in Nat /\ at[k] <= at[L]
      /\ blocks[at[L] + 1] = Zero /\ Len(blocks) = at[L] + 2
  <2>1. L \in 0 .. L /\ k \in 0 .. L
    BY <1>0
  <2> QED
    BY <2>1 DEF LaidOut
<1>2. ASSUME intact, NEW i \in Nat, i <= at[L] + 1 PROVE ~((i + 1) * BlockSize > bytes)
  <2>1. (i + 1) * BlockSize <= Len(blocks) * BlockSize
    BY <1>1, <1>2, Times
  <2>2. (i + 1) * BlockSize \in Nat
    BY <1>0
  <2> QED
    BY <1>2, <2>1, <2>2 DEF Intact
<1>3. found[k] \in Seq(Members)
  BY FoundAdds
<1>4. read.offset = at[k] /\ Matches(read.entries, found[k], Len(found[k])) /\ read.entries \in Seq(Entries)
  BY DEF Open, Readers
<1>5. /\ next \in Readers
      /\ AtEnd(blocks, bytes, at[k]) => next = read
      /\ ~AtEnd(blocks, bytes, at[k]) => Reads(read, next, blocks[at[k] + 1], bytes)
  BY <1>1, <1>4, OneRound
<1> HIDE DEF next, intact
<1>6. CASE AtEnd(blocks, bytes, at[k])
  <2>1. intact => k = L
    <3> SUFFICES ASSUME intact, k # L PROVE FALSE
      OBVIOUS
    <3>1. blocks[at[k] + 1] = Zero
      <4>1. at[k] # NaN
        BY <1>1, ValuesAssumption
      <4> QED
        BY <1>1, <1>2, <1>6, <4>1 DEF AtEnd
    <3>2. k + 1 \in 1 .. L /\ (k + 1) - 1 = k
      BY <1>0
    <3>3. blocks[at[k] + 1] = members[k + 1] /\ members[k + 1] \in Members
      BY <3>2 DEF LaidOut
    <3> QED
      BY <3>1, <3>3, MemberTypes
  <2>2. Ended(next, k, found, members, blocks, bytes)
    BY <1>3, <1>4, <1>5, <1>6, <2>1, MatchesLess DEF Ended, intact
  <2> QED
    BY <2>2 DEF next
<1>7. CASE ~AtEnd(blocks, bytes, at[k])
  <2>1. k < L
    <3>1. k # L
      BY <1>1, <1>7 DEF AtEnd
    <3> QED
      BY <1>0, <3>1
  <2> DEFINE m == members[k + 1]
             n == k + 1
             rest == bytes - (at[k] + 1) * BlockSize
             e == [path |-> EntryPath(m.name),
                   length |-> IF m.size = NaN THEN 0 ELSE IF m.size <= rest THEN m.size ELSE rest]
  <2>2. /\ n \in 1 .. L /\ n \in 0 .. L /\ n - 1 = k
        /\ m \in Members
        /\ blocks[at[k] + 1] = m /\ at[n] = at[k] + 1 + FileBlocks(m.size)
        /\ found[n] = IF IsFile(m) THEN Append(found[k], m) ELSE found[k]
    <3>1. n \in 1 .. L /\ n \in 0 .. L /\ n - 1 = k
      BY <1>0, <2>1
    <3> QED
      BY <3>1 DEF LaidOut, IsFinding
  <2> HIDE DEF L
  <2>3. /\ rest \in Nat
        /\ next.offset = IF m.size = NaN THEN NaN ELSE at[k] + 1 + DataBlocks(m.size)
        /\ next.entries = IF IsFile(m) THEN Append(read.entries, e) ELSE read.entries
    BY <1>4, <1>5, <1>7, <2>2 DEF Reads, IsFile
  <2> HIDE DEF m, n, rest
  <2>4. m.size \in Nat \/ m.size = NaN
    BY <2>2, MemberTypes
  <2>5. e \in Entries /\ e.path = EntryPath(m.name)
    BY <2>2, <2>3, <2>4, MemberTypes, EntryPathIs DEF Entries
  <2>6. e.length = IF m.size = NaN THEN 0 ELSE IF m.size <= rest THEN m.size ELSE rest
    OBVIOUS
  <2> HIDE DEF e
  <2>7. found[n] \in Seq(Members)
    BY <2>2, FoundAdds DEF L
  <2>8. Matches(next.entries, found[n], Len(found[n]) - 1)
    <3>1. CASE IsFile(m)
      <4>1. Len(found[n]) - 1 = Len(found[k])
        BY <1>3, <2>2, <3>1
      <4> QED
        BY <1>3, <1>4, <2>2, <2>3, <2>5, <3>1, <4>1, OneMoreMatches
    <3>2. CASE ~IsFile(m)
      BY <1>3, <1>4, <2>2, <2>3, <3>2, MatchesLess
    <3> QED
      BY <3>1, <3>2
  <2>9. e.length = m.size => Matches(next.entries, found[n], Len(found[n]))
    <3>1. CASE IsFile(m)
      <4>1. Len(found[n]) = Len(found[k]) + 1
        BY <1>3, <2>2, <3>1
      <4> QED
        BY <1>3, <1>4, <2>2, <2>3, <2>5, <3>1, <4>1, OneMoreMatches
    <3>2. CASE ~IsFile(m)
      BY <1>3, <1>4, <2>2, <2>3, <3>2
    <3> QED
      BY <3>1, <3>2
  <2>10. CASE m.size = NaN
    <3>1. AtEnd(blocks, bytes, next.offset)
      BY <2>3, <2>10 DEF AtEnd
    <3>2. ~intact
      BY <2>2, <2>10 DEF intact, Intact, L, m, n
    <3>3. Ended(next, n, found, members, blocks, bytes)
      BY <2>8, <3>1, <3>2 DEF Ended, intact
    <3> QED
      BY <2>2, <3>3 DEF next, L
  <2>11. CASE m.size \in Nat /\ m.size # NaN /\ m.size <= rest
    <3>1. next.offset = at[n]
      BY <2>2, <2>3, <2>11, BlocksOfFile
    <3>2. Matches(next.entries, found[n], Len(found[n]))
      BY <2>6, <2>9, <2>11
    <3>3. Open(next, n, at, found)
      BY <3>1, <3>2 DEF Open
    <3> QED
      BY <2>2, <3>3 DEF next, n, L
  <2>12. CASE m.size \in Nat /\ m.size # NaN /\ ~(m.size <= rest)
    <3> DEFINE d == DataBlocks(m.size)
    <3>1. next.offset = at[n] /\ at[n] = at[k] + 1 + d /\ d \in Nat /\ m.size <= d * BlockSize
      BY <2>2, <2>3, <2>12, BlocksOfFile
    <3> HIDE DEF d
    <3>2. (at[n] + 1) * BlockSize > bytes
      <4>1. (at[n] + 1) * BlockSize = (at[k] + 1) * BlockSize + d * BlockSize + BlockSize
        BY <1>0, <1>1, <3>1
      <4>2. (at[k] + 1) * BlockSize \in Nat /\ d * BlockSize \in Nat
        <5>1. \A x \in Nat : x * BlockSize \in Nat
          BY <1>0
        <5>2. at[k] + 1 \in Nat
          BY <1>1
        <5> QED
          BY <3>1, <5>1, <5>2
      <4> QED
        BY <1>0, <2>12, <3>1, <4>1, <4>2 DEF rest
    <3>3. at[n] \in Nat /\ at[n] <= at[L]
      BY <2>2 DEF LaidOut, L
    <3>4. ~intact
      BY <1>1, <1>2, <3>2, <3>3
    <3>5. AtEnd(blocks, bytes, next.offset)
      BY <3>1, <3>2 DEF AtEnd
    <3>6. Ended(next, n, found, members, blocks, bytes)
      BY <2>8, <3>4, <3>5 DEF Ended, intact
    <3> QED
      BY <2>2, <3>6 DEF next, L
  <2> QED
    BY <2>4, <2>10, <2>11, <2>12
<1> QED
  BY <1>6, <1>7

LEMMA ReaderEnds ==
    ASSUME NEW members \in Seq(Members), NEW blocks, NEW at, LaidOut(members, at, blocks),
           NEW found, IsFinding(found, members),
           NEW bytes \in Nat, bytes <= Len(blocks) * BlockSize,
           NEW read, IsReading(read, blocks, bytes)
    PROVE  \E k \in 0 .. Len(members) : Ended(read[Len(blocks)], k, found, members, blocks, bytes)
<1> DEFINE L == Len(members)
           OpenAt(r) == r \in 0 .. L /\ Open(read[r], r, at, found)
           EndedAt(r) == \E k \in 0 .. L : Ended(read[r], k, found, members, blocks, bytes)
           T == {r \in 0 .. Len(blocks) : OpenAt(r) \/ EndedAt(r)}
<1>0. L \in Nat /\ L \in 0 .. L /\ 0 \in 0 .. L
  OBVIOUS
<1>1. blocks \in BlockSeqs /\ Len(blocks) \in Nat /\ Len(blocks) > L
  <2>1. /\ blocks \in BlockSeqs /\ Len(blocks) = at[L] + 2 /\ at \in [0 .. L -> Nat]
        /\ \A n \in 0 .. L : n <= at[n]
    BY DEF LaidOut
  <2>2. L <= at[L] /\ at[L] \in Nat
    BY <1>0, <2>1
  <2> QED
    BY <1>0, <2>1, <2>2
<1>2. 0 \in T
  <2>1. read[0] = [offset |-> 0, entries |-> <<>>] /\ found[0] = <<>> /\ at[0] = 0
    BY DEF IsReading, IsFinding, LaidOut
  <2>2. read[0].offset = at[0] /\ Matches(read[0].entries, found[0], Len(found[0]))
    BY <2>1 DEF Matches
  <2> QED
    BY <1>0, <1>1, <2>2 DEF Open
<1>3. ASSUME NEW r \in 1 .. Len(blocks), r - 1 \in T PROVE r \in T
  <2>1. read[r - 1] \in Readers /\ read[r] = ReadFile(blocks, bytes, read[r - 1])
    <3>1. r - 1 \in 0 .. Len(blocks)
      BY <1>1
    <3> QED
      BY <3>1 DEF IsReading
  <2>2. CASE OpenAt(r - 1)
    <3>1. (r - 1) + 1 = r
      BY <1>1
    <3>2. \/ r \in 0 .. L /\ Open(read[r], r, at, found)
          \/ \E j \in 0 .. L : Ended(read[r], j, found, members, blocks, bytes)
      BY <2>1, <2>2, <3>1, RoundFromOpen
    <3> QED
      BY <1>1, <3>2
  <2>3. CASE EndedAt(r - 1)
    <3>1. PICK k \in 0 .. L : Ended(read[r - 1], k, found, members, blocks, bytes)
      BY <2>3
    <3>2. read[r] = read[r - 1]
      BY <1>1, <2>1, <3>1, OneRound DEF Ended
    <3> QED
      BY <1>1, <3>1, <3>2
  <2> QED
    BY <1>3, <2>2, <2>3
<1>4. Len(blocks) \in T
  <2> HIDE DEF T
  <2>1. \A r \in 0 .. Len(blocks) : r \in T
    BY <1>1, <1>2, <1>3, InductionTo
  <2> QED
    BY <1>1, <2>1
<1>5. Len(blocks) \notin 0 .. L
  BY <1>0, <1>1
<1> QED
  BY <1>4, <1>5

\* ArchiveIsRead of one archive.
GivesItsFiles(a, es) ==
    LET expected == FilesOf(a.members)
        n == Len(es)
        whole == ~Cut(a) /\ \A i \in DOMAIN a.members : a.members[i].size # NaN
    IN  /\ n <= Len(expected)
        /\ \A i \in 1 .. n : /\ es[i].path = EntryPath(expected[i].name)
                             /\ whole \/ i < n => es[i].length = expected[i].size
        /\ whole => n = Len(expected)

\* A gzip stream of which less was fetched than its mark gives no entry.
LEMMA UnmarkedIsEmpty ==
    ASSUME NEW a \in Archives, LoadSysrootEntries(a) # Nothing, Undecompressed(a)
    PROVE  GivesItsFiles(a, LoadSysrootEntries(a))
<1>1. Cut(a) /\ LoadSysrootEntries(a) = <<>>
  BY DEF Undecompressed, LoadSysrootEntries
<1>2. Len(FilesOf(a.members)) \in Nat
  <2>1. a.members \in Seq(Members)
    BY ArchivesAssumption
  <2>2. PICK found : IsFinding(found, a.members) /\ FilesOf(a.members) = found[Len(a.members)]
    BY <2>1, FilesAreFound
  <2>3. found[Len(a.members)] \in Seq(Members)
    BY <2>1, <2>2, FoundAdds
  <2> QED
    BY <2>2, <2>3
<1> QED
  BY <1>1, <1>2 DEF GivesItsFiles

\* What was decompressed, or was never compressed, is parsed.
LEMMA ParsedIsRight ==
    ASSUME NEW a \in Archives, ~Undecompressed(a)
    PROVE  GivesItsFiles(a, LoadSysrootEntries(a))
<1> DEFINE members == a.members
           bytes == a.bytes
           blocks == Tar(members)
           es == LoadSysrootEntries(a)
           L == Len(members)
           expected == FilesOf(members)
           n == Len(es)
           whole == ~Cut(a) /\ \A i \in DOMAIN members : members[i].size # NaN
<1>1. members \in Seq(Members) /\ bytes \in Nat /\ bytes <= Len(blocks) * BlockSize
  BY ArchivesAssumption DEF Size
<1>2. PICK at : LaidOut(members, at, blocks)
  BY <1>1, TarLayout
<1>3. PICK found : IsFinding(found, members) /\ expected = found[L]
  BY <1>1, FilesAreFound
<1>4. blocks \in BlockSeqs
  BY <1>2 DEF LaidOut
<1>5. PICK read : IsReading(read, blocks, bytes) /\ ParseSysrootTar(blocks, bytes) = read[Len(blocks)].entries
  <2> HIDE DEF blocks, bytes
  <2> QED
    BY <1>1, <1>4, ParseIsReading
<1>6. es = read[Len(blocks)].entries
  BY <1>5 DEF LoadSysrootEntries
<1>7. whole => Intact(members, blocks, bytes)
  <2>1. DOMAIN members = 1 .. L
    BY <1>1
  <2>2. ~Cut(a) => ~(bytes < Len(blocks) * BlockSize)
    BY DEF Cut, Size
  <2>3. Len(blocks) * BlockSize \in Nat
    <3>1. Len(blocks) \in Nat /\ BlockSize \in Nat
      BY <1>4, BlockSizeAssumption DEF BlockSeqs
    <3> QED
      BY <3>1
  <2> HIDE DEF blocks, members, bytes
  <2> QED
    BY <1>1, <2>1, <2>2, <2>3 DEF Intact, members
<1> HIDE DEF blocks, bytes, members, es, expected, whole
<1>8. PICK k \in 0 .. L : Ended(read[Len(blocks)], k, found, members, blocks, bytes)
  BY <1>1, <1>2, <1>3, <1>5, ReaderEnds
<1>9. /\ Len(es) = Len(found[k])
      /\ \A i \in 1 .. Len(found[k]) : es[i].path = EntryPath(found[k][i].name)
      /\ \A i \in 1 .. Len(found[k]) : i <= Len(found[k]) - 1 => es[i].length = found[k][i].size
      /\ whole => k = L /\ \A i \in 1 .. Len(found[k]) : i <= Len(found[k]) => es[i].length = found[k][i].size
  BY <1>6, <1>7, <1>8 DEF Ended, Matches
<1>10. /\ Len(found[k]) \in Nat /\ Len(found[k]) <= Len(expected)
       /\ \A i \in 1 .. Len(found[k]) : expected[i] = found[k][i]
  <2>1. found[k] \in Seq(Members)
    BY <1>1, <1>3, FoundAdds
  <2> QED
    BY <1>1, <1>3, <2>1, FoundAdds
<1>11. n <= Len(expected) /\ (whole => n = Len(expected))
  BY <1>3, <1>9, <1>10
<1>12. ASSUME NEW i \in 1 .. n
       PROVE  /\ es[i].path = EntryPath(expected[i].name)
              /\ whole \/ i < n => es[i].length = expected[i].size
  <2>1. i \in 1 .. Len(found[k]) /\ expected[i] = found[k][i]
    BY <1>9, <1>10
  <2>2. i < n => i <= Len(found[k]) - 1
    BY <1>9, <1>10
  <2>3. i <= Len(found[k])
    BY <1>10, <2>1
  <2> QED
    BY <1>9, <2>1, <2>2, <2>3
<1> QED
  BY <1>11, <1>12 DEF GivesItsFiles, es, expected, whole, members

LEMMA LoadIsRight ==
    ASSUME NEW a \in Archives, LoadSysrootEntries(a) # Nothing
    PROVE  GivesItsFiles(a, LoadSysrootEntries(a))
BY ParsedIsRight, UnmarkedIsEmpty

-----------------------------------------------------------------------------
(* Paths *)

\* A path is a prefix of another one that begins with its segments.
LEMMA PrefixAt ==
    ASSUME NEW s \in FilePaths, NEW t \in FilePaths
    PROVE  IsPrefix(s, t) <=> Len(s) <= Len(t) /\ \A i \in 1 .. Len(s) : s[i] = t[i]
<1> USE DEF FilePaths
<1>1. ASSUME Len(s) <= Len(t)
      PROVE  SubSeq(s, 1, Len(s)) = SubSeq(t, 1, Len(s)) <=> \A i \in 1 .. Len(s) : s[i] = t[i]
  <2>1. SubSeq(s, 1, Len(s)) = [i \in 1 .. Len(s) |-> s[i]]
    BY DEF FilePaths
  <2>2. SubSeq(t, 1, Len(s)) = [i \in 1 .. Len(s) |-> t[i]]
    BY <1>1
  <2> QED
    BY <2>1, <2>2
<1> QED
  BY <1>1 DEF IsPrefix

LEMMA PrefixOrder ==
    ASSUME NEW s \in FilePaths, NEW t \in FilePaths, NEW u \in FilePaths
    PROVE  /\ IsPrefix(s, s)
           /\ IsPrefix(s, t) /\ IsPrefix(t, u) => IsPrefix(s, u)
           /\ IsPrefix(s, t) /\ IsPrefix(t, s) => s = t
<1>1. IsPrefix(s, s)
  BY PrefixAt DEF FilePaths
<1>2. IsPrefix(s, t) /\ IsPrefix(t, u) => IsPrefix(s, u)
  <2>1. ASSUME IsPrefix(s, t), IsPrefix(t, u) PROVE IsPrefix(s, u)
    <3>1. /\ Len(s) <= Len(t) /\ \A i \in 1 .. Len(s) : s[i] = t[i]
          /\ Len(t) <= Len(u) /\ \A i \in 1 .. Len(t) : t[i] = u[i]
          /\ Len(s) \in Nat /\ Len(t) \in Nat /\ Len(u) \in Nat
      BY <2>1, PrefixAt DEF FilePaths
    <3>2. Len(s) <= Len(u) /\ \A i \in 1 .. Len(s) : s[i] = u[i]
      BY <3>1
    <3> QED
      BY <3>2, PrefixAt
  <2> QED
    BY <2>1
<1>3. IsPrefix(s, t) /\ IsPrefix(t, s) => s = t
  BY PrefixAt, SeqEqual DEF FilePaths
<1> QED
  BY <1>1, <1>2, <1>3

InSysroot(file) == file \in FilePaths /\ file # <<>> /\ file[1] = "sysroot"
InWork(file) == file \in FilePaths /\ file # <<>> /\ file[1] = "work"

\* A path under the sysroot directory is as long as the entry's and one segment more.
LEMMA SysrootPathIs ==
    ASSUME NEW path \in FilePaths
    PROVE  /\ InSysroot(SysrootPath(path))
           /\ Len(SysrootPath(path)) = Len(path) + 1
           /\ \A i \in 1 .. Len(path) : SysrootPath(path)[i + 1] = path[i]
<1>1. <<"sysroot">> \in FilePaths /\ Len(<<"sysroot">>) = 1 /\ <<"sysroot">>[1] = "sysroot"
  BY NamesAssumption DEF FilePaths
<1>2. /\ SysrootPath(path) \in FilePaths
      /\ Len(SysrootPath(path)) = 1 + Len(path)
      /\ \A i \in 1 .. 1 + Len(path) :
           SysrootPath(path)[i] = IF i <= 1 THEN <<"sysroot">>[i] ELSE path[i - 1]
  BY <1>1, ConcatProperties DEF SysrootPath, FilePaths
<1>3. Len(path) \in Nat
  BY DEF FilePaths
<1>4. Len(SysrootPath(path)) = Len(path) + 1
  BY <1>2, <1>3
<1>5. SysrootPath(path)[1] = "sysroot" /\ SysrootPath(path) # <<>>
  BY <1>1, <1>2, <1>3
<1>6. \A i \in 1 .. Len(path) : SysrootPath(path)[i + 1] = path[i]
  BY <1>2, <1>3
<1> QED
  BY <1>2, <1>4, <1>5, <1>6 DEF InSysroot

LEMMA SysrootPrefix ==
    ASSUME NEW p \in FilePaths, NEW q \in FilePaths
    PROVE  /\ IsPrefix(SysrootPath(p), SysrootPath(q)) <=> IsPrefix(p, q)
           /\ SysrootPath(p) = SysrootPath(q) => p = q
<1> DEFINE P == SysrootPath(p)
           Q == SysrootPath(q)
<1>1. /\ P \in FilePaths /\ Q \in FilePaths /\ P[1] = Q[1]
      /\ Len(P) = Len(p) + 1 /\ Len(Q) = Len(q) + 1
      /\ \A i \in 1 .. Len(p) : P[i + 1] = p[i]
      /\ \A i \in 1 .. Len(q) : Q[i + 1] = q[i]
      /\ Len(p) \in Nat /\ Len(q) \in Nat
  BY SysrootPathIs DEF InSysroot, FilePaths
<1> HIDE DEF P, Q
<1>2. Len(p) <= Len(q) => ((\A i \in 1 .. Len(P) : P[i] = Q[i]) <=> \A i \in 1 .. Len(p) : p[i] = q[i])
  <2> SUFFICES ASSUME Len(p) <= Len(q)
               PROVE  (\A i \in 1 .. Len(P) : P[i] = Q[i]) <=> \A i \in 1 .. Len(p) : p[i] = q[i]
    OBVIOUS
  <2>1. ASSUME \A i \in 1 .. Len(P) : P[i] = Q[i], NEW i \in 1 .. Len(p) PROVE p[i] = q[i]
    <3>1. i + 1 \in 1 .. Len(P) /\ i \in 1 .. Len(q)
      BY <1>1
    <3> QED
      BY <1>1, <2>1, <3>1
  <2>2. ASSUME \A i \in 1 .. Len(p) : p[i] = q[i], NEW i \in 1 .. Len(P) PROVE P[i] = Q[i]
    <3>1. CASE i = 1
      BY <1>1, <3>1
    <3>2. CASE i # 1
      <4>1. i - 1 \in 1 .. Len(p) /\ i - 1 \in 1 .. Len(q) /\ (i - 1) + 1 = i
        BY <1>1, <3>2
      <4>2. P[(i - 1) + 1] = p[i - 1] /\ Q[(i - 1) + 1] = q[i - 1] /\ p[i - 1] = q[i - 1]
        BY <1>1, <2>2, <4>1
      <4> QED
        BY <4>1, <4>2
    <3> QED
      BY <3>1, <3>2
  <2> QED
    BY <2>1, <2>2
<1>3. IsPrefix(P, Q) <=> IsPrefix(p, q)
  <2>1. IsPrefix(P, Q) <=> Len(P) <= Len(Q) /\ \A i \in 1 .. Len(P) : P[i] = Q[i]
    BY <1>1, PrefixAt
  <2>2. Len(P) <= Len(Q) <=> Len(p) <= Len(q)
    BY <1>1
  <2>3. IsPrefix(p, q) <=> Len(p) <= Len(q) /\ \A i \in 1 .. Len(p) : p[i] = q[i]
    BY PrefixAt
  <2> QED
    BY <1>2, <2>1, <2>2, <2>3
<1>4. P = Q => p = q
  <2>1. P = Q => IsPrefix(p, q)
    BY <1>1, <1>3, PrefixOrder
  <2>2. P = Q => IsPrefix(q, p)
    <3>1. P = Q => \A i \in 1 .. Len(q) : q[i] = p[i]
      BY <1>1
    <3>2. P = Q => Len(q) <= Len(p)
      BY <1>1
    <3> QED
      BY <3>1, <3>2, PrefixAt
  <2> QED
    BY <2>1, <2>2, PrefixOrder
<1> QED
  BY <1>3, <1>4 DEF P, Q

\* Nothing under the one directory is in the way of a file under the other.
LEMMA Apart ==
    ASSUME NEW s, NEW w, InSysroot(s), InWork(w)
    PROVE  s # w /\ ~IsPrefix(s, w) /\ ~IsPrefix(w, s)
  BY PrefixAt DEF InSysroot, InWork, FilePaths

LEMMA WorkPaths ==
    /\ InWork(SourcePath) /\ InWork(ObjectPath) /\ InWork(OutputPath)
    /\ SourcePath # ObjectPath /\ SourcePath # OutputPath /\ ObjectPath # OutputPath
    /\ \A v, w \in {SourcePath, ObjectPath, OutputPath} : IsPrefix(v, w) => v = w
<1>1. /\ InWork(SourcePath) /\ InWork(ObjectPath) /\ InWork(OutputPath)
      /\ Len(SourcePath) = 2 /\ Len(ObjectPath) = 2 /\ Len(OutputPath) = 2
  <2>1. "work" \in Names /\ "source.cpp" \in Names /\ "source.o" \in Names /\ "output.wasm" \in Names
    BY FilesAssumption
  <2>2. ASSUME NEW file \in Names PROVE InWork(<<"work", file>>) /\ Len(<<"work", file>>) = 2
    BY <2>1 DEF InWork, FilePaths
  <2> QED
    BY <2>1, <2>2 DEF SourcePath, ObjectPath, OutputPath
<1>2. SourcePath[2] = "source.cpp" /\ ObjectPath[2] = "source.o" /\ OutputPath[2] = "output.wasm"
  BY DEF SourcePath, ObjectPath, OutputPath
<1>3. \A v, w \in {SourcePath, ObjectPath, OutputPath} : IsPrefix(v, w) => v[2] = w[2]
  BY <1>1, PrefixAt DEF InWork
<1> QED
  BY <1>1, <1>2, <1>3

-----------------------------------------------------------------------------
(* File trees *)

\* What appendTreeFile() leaves of a tree, and where the new file is.
Appended(made, tree, path, data) ==
    /\ ~Blocked(tree, path)
    /\ \A f : f \in DOMAIN made <=> f = path \/ (f \in DOMAIN tree /\ ~IsPrefix(path, f))
    /\ made[path] = data
    /\ \A f \in DOMAIN tree : ~IsPrefix(path, f) => made[f] = tree[f]

LEMMA AppendIs ==
    ASSUME NEW tree, NEW path \in FilePaths, NEW data, NEW made \in AppendTreeFile(tree, path, data)
    PROVE  Appended(made, tree, path, data)
<1> DEFINE kept == {f \in DOMAIN tree : ~IsPrefix(path, f)} \cup {path}
<1>1. made = [f \in kept |-> IF f = path THEN data ELSE tree[f]] /\ ~Blocked(tree, path)
  BY DEF AppendTreeFile
<1>2. IsPrefix(path, path)
  BY PrefixOrder
<1> QED
  BY <1>1, <1>2 DEF Appended

LEMMA AppendSucceeds ==
    ASSUME NEW tree, NEW path, NEW data, ~Blocked(tree, path)
    PROVE  AppendTreeFile(tree, path, data) # {}
  BY DEF AppendTreeFile

\* The trees of files of the archive.
SysrootFile(length) == [kind |-> "sysroot", length |-> length]
Trees == UNION {[D -> {SysrootFile(n) : n \in Nat}] : D \in SUBSET FilePaths}

LEMMA TreesStay ==
    ASSUME NEW tree \in Trees, NEW path \in FilePaths, NEW n \in Nat
    PROVE  AppendTreeFile(tree, path, SysrootFile(n)) \in SUBSET Trees
<1> DEFINE data == SysrootFile(n)
           Held == {SysrootFile(k) : k \in Nat}
           kept == {f \in DOMAIN tree : ~IsPrefix(path, f)} \cup {path}
<1>1. PICK D \in SUBSET FilePaths : tree \in [D -> Held]
  BY DEF Trees
<1>2. kept \in SUBSET FilePaths /\ data \in Held
  BY <1>1
<1>3. [f \in kept |-> IF f = path THEN data ELSE tree[f]] \in [kept -> Held]
  <2> HIDE DEF data, Held
  <2> QED
    BY <1>1, <1>2
<1>4. [f \in kept |-> IF f = path THEN data ELSE tree[f]] \in Trees
  BY <1>2, <1>3 DEF Trees
<1> QED
  BY <1>4 DEF AppendTreeFile

\* createCompilerFilesystem() adds the entries one after the other, and then the source.
WithEntry(trees, n) ==
    UNION {AppendTreeFile(tree, SysrootPath(entries[n].path), SysrootFile(entries[n].length)) : tree \in trees}

IsBuild(trees) ==
    /\ trees[0] = {EmptyTree}
    /\ \A n \in 1 .. Len(entries) : trees[n] = WithEntry(trees[n - 1], n)

LEMMA FilesystemIsBuilt ==
    ASSUME entries \in Seq(Entries), NEW c
    PROVE  \E trees : /\ IsBuild(trees)
                      /\ CreateCompilerFilesystem(c)
                           = UNION {AppendTreeFile(tree, SourcePath, [kind |-> "source", of |-> c])
                                      : tree \in trees[Len(entries)]}
<1> DEFINE L == Len(entries)
           S == SUBSET Trees
           b == {EmptyTree}
           round == [n \in 1 .. L |-> [trees \in S |-> WithEntry(trees, n)]]
           IsRun(g) == g = [n \in 0 .. L |->
                              IF n = 0 THEN {NewTree}
                              ELSE UNION {AppendTreeFile(tree, SysrootPath(entries[n].path),
                                                         [kind |-> "sysroot", length |-> entries[n].length])
                                            : tree \in g[n - 1]}]
           t == CHOOSE g : IsRun(g)
<1>1. L \in Nat
  OBVIOUS
<1>2. b \in S
  <2>1. EmptyTree \in [{} -> {SysrootFile(n) : n \in Nat}]
    BY DEF EmptyTree
  <2> QED
    BY <2>1 DEF Trees
<1>3. round \in Rounds(L, S)
  <2>1. ASSUME NEW n \in 1 .. L, NEW trees \in S PROVE WithEntry(trees, n) \in S
    <3>1. entries[n] \in Entries
      OBVIOUS
    <3>2. entries[n].path \in FilePaths /\ entries[n].length \in Nat
      BY <3>1 DEF Entries
    <3>3. SysrootPath(entries[n].path) \in FilePaths
      BY <3>2, SysrootPathIs DEF InSysroot
    <3> QED
      BY <3>2, <3>3, TreesStay DEF WithEntry
  <2> HIDE DEF S
  <2> QED
    BY <2>1 DEF Rounds
<1>4. \A n \in 1 .. L, trees \in S : round[n][trees] = WithEntry(trees, n)
  <2> HIDE DEF S
  <2> QED
    OBVIOUS
<1>5. PICK g : g \in Runs(L, S, b, round)
  <2> HIDE DEF L, S, b, round
  <2> QED
    BY <1>1, <1>2, <1>3, RunExists
<1>6. IsRun(g)
  <2>1. g \in [0 .. L -> S] /\ g[0] = b /\ \A n \in 1 .. L : g[n] = round[n][g[n - 1]]
    <3> HIDE DEF L, S, b, round
    <3> QED
      BY <1>5 DEF Runs
  <2>2. \A n \in 0 .. L : g[n] = IF n = 0 THEN b ELSE WithEntry(g[n - 1], n)
    <3>1. ASSUME NEW n \in 1 .. L PROVE g[n] = WithEntry(g[n - 1], n)
      <4>1. n - 1 \in 0 .. L
        BY <1>1
      <4> HIDE DEF L, S, b, round
      <4>2. g[n - 1] \in S
        BY <2>1, <4>1
      <4> QED
        BY <1>4, <2>1, <4>2
    <3> HIDE DEF L, S, b, round
    <3> QED
      BY <1>1, <2>1, <3>1
  <2>3. g = [n \in 0 .. L |-> IF n = 0 THEN b ELSE WithEntry(g[n - 1], n)]
    <3> HIDE DEF L, S, b, round
    <3> QED
      BY <2>1, <2>2
  <2> QED
    BY <2>3 DEF NewTree, SysrootFile, WithEntry
<1>7. IsRun(t)
  <2> HIDE DEF IsRun
  <2> QED
    BY <1>6
<1>8. t[0] = b /\ \A n \in 1 .. L : t[n] = WithEntry(t[n - 1], n)
  <2>1. t = [n \in 0 .. L |-> IF n = 0 THEN b ELSE WithEntry(t[n - 1], n)]
    BY <1>7 DEF NewTree, SysrootFile, WithEntry
  <2> HIDE DEF t, b, S, L
  <2> QED
    BY <1>1, <2>1
<1>9. CreateCompilerFilesystem(c)
        = UNION {AppendTreeFile(tree, SourcePath, [kind |-> "source", of |-> c]) : tree \in t[L]}
  BY DEF CreateCompilerFilesystem
<1>10. IsBuild(t)
  <2> HIDE DEF t
  <2> QED
    BY <1>8 DEF IsBuild
<1> QED
  BY <1>9, <1>10

EntryFile(i) == SysrootPath(entries[i].path)

LEMMA EntryTypes ==
    ASSUME entries \in Seq(Entries), NEW i \in 1 .. Len(entries)
    PROVE  entries[i].path \in FilePaths /\ entries[i].length \in Nat /\ InSysroot(EntryFile(i))
<1>1. entries[i] \in Entries
  OBVIOUS
<1>2. entries[i].path \in FilePaths /\ entries[i].length \in Nat
  BY <1>1 DEF Entries
<1> QED
  BY <1>2, SysrootPathIs DEF EntryFile

\* The tree of the first n entries: it has nothing else, each entry with its content but
\* for those a later entry replaced, something in the place of every entry, and none of
\* the entries was in the way of another one.
Whole(tree, n) ==
    /\ \A f \in DOMAIN tree : \E i \in 1 .. n : f = EntryFile(i)
    /\ \A i \in 1 .. n : \/ \E k \in i + 1 .. n : IsPrefix(entries[k].path, entries[i].path)
                         \/ EntryFile(i) \in DOMAIN tree /\ tree[EntryFile(i)] = SysrootFile(entries[i].length)
    /\ \A i \in 1 .. n : \E f \in DOMAIN tree : IsPrefix(f, EntryFile(i))
    /\ \A i, j \in 1 .. n : ~InTheWay(i, j)

LEMMA OneMoreEntry ==
    ASSUME entries \in Seq(Entries), NEW n \in 1 .. Len(entries), NEW tree, Whole(tree, n - 1),
           NEW made \in AppendTreeFile(tree, EntryFile(n), SysrootFile(entries[n].length))
    PROVE  Whole(made, n)
<1>0. /\ \A i \in 1 .. n : /\ entries[i].path \in FilePaths /\ EntryFile(i) \in FilePaths
      /\ Len(entries) \in Nat
      /\ \A i \in 1 .. n : i \in 1 .. n - 1 \/ i = n
  BY EntryTypes DEF InSysroot
<1>1. /\ ~Blocked(tree, EntryFile(n))
      /\ \A f : f \in DOMAIN made <=> f = EntryFile(n) \/ (f \in DOMAIN tree /\ ~IsPrefix(EntryFile(n), f))
      /\ made[EntryFile(n)] = SysrootFile(entries[n].length)
      /\ \A f \in DOMAIN tree : ~IsPrefix(EntryFile(n), f) => made[f] = tree[f]
  <2>1. EntryFile(n) \in FilePaths
    BY <1>0
  <2>2. Appended(made, tree, EntryFile(n), SysrootFile(entries[n].length))
    BY <2>1, AppendIs
  <2> QED
    BY <2>2 DEF Appended
<1>2. \A i, j \in 1 .. n : IsPrefix(EntryFile(i), EntryFile(j)) <=> IsPrefix(entries[i].path, entries[j].path)
  BY <1>0, SysrootPrefix DEF EntryFile
<1>3. \A f \in DOMAIN made : \E i \in 1 .. n : f = EntryFile(i)
  <2>1. \A f \in DOMAIN tree : \E i \in 1 .. n : f = EntryFile(i)
    BY DEF Whole
  <2> QED
    BY <1>1, <2>1
<1>4. ASSUME NEW i \in 1 .. n
      PROVE  \/ \E k \in i + 1 .. n : IsPrefix(entries[k].path, entries[i].path)
             \/ EntryFile(i) \in DOMAIN made /\ made[EntryFile(i)] = SysrootFile(entries[i].length)
  <2>1. CASE i = n
    BY <1>1, <2>1
  <2>2. CASE i # n
    <3>1. i \in 1 .. n - 1 /\ n \in i + 1 .. n
      BY <2>2
    <3>2. CASE \E k \in i + 1 .. n - 1 : IsPrefix(entries[k].path, entries[i].path)
      BY <3>2
    <3>3. CASE EntryFile(i) \in DOMAIN tree /\ tree[EntryFile(i)] = SysrootFile(entries[i].length)
      <4>1. CASE IsPrefix(EntryFile(n), EntryFile(i))
        BY <1>2, <3>1, <4>1
      <4>2. CASE ~IsPrefix(EntryFile(n), EntryFile(i))
        BY <1>1, <3>3, <4>2
      <4> QED
        BY <4>1, <4>2
    <3> QED
      BY <3>1, <3>2, <3>3 DEF Whole
  <2> QED
    BY <2>1, <2>2
<1>5. ASSUME NEW i \in 1 .. n PROVE \E f \in DOMAIN made : IsPrefix(f, EntryFile(i))
  <2>1. CASE i = n
    BY <1>0, <1>1, <2>1, PrefixOrder
  <2>2. CASE i # n
    <3>1. PICK f \in DOMAIN tree : IsPrefix(f, EntryFile(i))
      BY <1>0, <2>2 DEF Whole
    <3>2. f \in FilePaths
      BY <1>0 DEF Whole
    <3>3. CASE IsPrefix(EntryFile(n), f)
      BY <1>0, <1>1, <3>1, <3>2, <3>3, PrefixOrder
    <3>4. CASE ~IsPrefix(EntryFile(n), f)
      BY <1>1, <3>1, <3>4
    <3> QED
      BY <3>3, <3>4
  <2> QED
    BY <2>1, <2>2
<1>6. ASSUME NEW i \in 1 .. n, NEW j \in 1 .. n, InTheWay(i, j) PROVE FALSE
  <2>1. i < j /\ IsPrefix(entries[i].path, entries[j].path) /\ entries[i].path # entries[j].path
    BY <1>6 DEF InTheWay, IsStrictPrefix
  <2>2. i \in 1 .. n - 1
    BY <2>1
  <2>3. j = n
    BY <1>0, <1>6, <2>2 DEF Whole
  <2>4. PICK f \in DOMAIN tree : IsPrefix(f, EntryFile(i))
    BY <2>2 DEF Whole
  <2>5. f \in FilePaths /\ IsPrefix(EntryFile(i), EntryFile(n))
    BY <1>0, <1>2, <2>1, <2>3 DEF Whole
  <2>6. IsPrefix(f, EntryFile(n))
    BY <1>0, <2>4, <2>5, PrefixOrder
  <2>7. f # EntryFile(n)
    <3>1. SUFFICES ASSUME f = EntryFile(n) PROVE FALSE
      OBVIOUS
    <3>2. EntryFile(n) = EntryFile(i)
      BY <1>0, <2>4, <2>5, <3>1, PrefixOrder
    <3> QED
      BY <1>0, <2>1, <2>3, <3>2, SysrootPrefix DEF EntryFile
  <2> QED
    BY <1>1, <2>6, <2>7 DEF Blocked, IsStrictPrefix
<1> QED
  BY <1>3, <1>4, <1>5, <1>6 DEF Whole

\* A tree that is there is the tree of the entries so far.
LEMMA BuildIsWhole ==
    ASSUME entries \in Seq(Entries), NEW trees, IsBuild(trees)
    PROVE  \A n \in 0 .. Len(entries) : \A tree \in trees[n] : Whole(tree, n)
<1> DEFINE T == {n \in 0 .. Len(entries) : \A tree \in trees[n] : Whole(tree, n)}
<1>0. Len(entries) \in Nat
  OBVIOUS
<1>1. 0 \in T
  BY DEF IsBuild, Whole, EmptyTree
<1>2. ASSUME NEW n \in 1 .. Len(entries), n - 1 \in T PROVE n \in T
  <2> SUFFICES ASSUME NEW made \in trees[n] PROVE Whole(made, n)
    OBVIOUS
  <2>1. trees[n] = WithEntry(trees[n - 1], n)
    BY DEF IsBuild
  <2>2. PICK tree \in trees[n - 1] :
               made \in AppendTreeFile(tree, EntryFile(n), SysrootFile(entries[n].length))
    BY <2>1 DEF WithEntry, EntryFile
  <2>3. Whole(tree, n - 1)
    BY <1>2
  <2> QED
    BY <2>2, <2>3, OneMoreEntry
<1> QED
  <2> HIDE DEF T
  <2>1. \A n \in 0 .. Len(entries) : n \in T
    BY <1>0, <1>1, <1>2, InductionTo
  <2> QED
    BY <2>1 DEF T

\* Only a file in the way of a directory keeps a tree from being built.
LEMMA BuildThrows ==
    ASSUME entries \in Seq(Entries), NEW trees, IsBuild(trees)
    PROVE  \A n \in 0 .. Len(entries) : trees[n] = {} => \E i, j \in 1 .. n : InTheWay(i, j)
<1> DEFINE T == {n \in 0 .. Len(entries) : trees[n] = {} => \E i, j \in 1 .. n : InTheWay(i, j)}
<1>0. Len(entries) \in Nat
  OBVIOUS
<1>1. 0 \in T
  <2>1. EmptyTree \in trees[0]
    BY DEF IsBuild
  <2> QED
    BY <1>0, <2>1
<1>2. ASSUME NEW n \in 1 .. Len(entries), n - 1 \in T PROVE n \in T
  <2> SUFFICES ASSUME trees[n] = {} PROVE \E i, j \in 1 .. n : InTheWay(i, j)
    OBVIOUS
  <2>1. CASE trees[n - 1] = {}
    BY <1>2, <2>1
  <2>2. CASE trees[n - 1] # {}
    <3>1. PICK tree \in trees[n - 1] : TRUE
      BY <2>2
    <3>2. trees[n] = WithEntry(trees[n - 1], n)
      BY DEF IsBuild
    <3>3. Blocked(tree, EntryFile(n))
      <4> DEFINE added == AppendTreeFile(tree, EntryFile(n), SysrootFile(entries[n].length))
      <4>1. added \subseteq trees[n]
        BY <3>1, <3>2 DEF WithEntry, EntryFile
      <4>2. ~Blocked(tree, EntryFile(n)) => added # {}
        BY AppendSucceeds
      <4> QED
        BY <4>1, <4>2
    <3>4. PICK f \in DOMAIN tree : IsStrictPrefix(f, EntryFile(n))
      BY <3>3 DEF Blocked
    <3>5. n - 1 \in 0 .. Len(entries)
      OBVIOUS
    <3>6. PICK i \in 1 .. n - 1 : f = EntryFile(i)
      BY <3>1, <3>5, BuildIsWhole DEF Whole
    <3>7. i \in 1 .. Len(entries) /\ i \in 1 .. n /\ i < n
      OBVIOUS
    <3>8. IsPrefix(entries[i].path, entries[n].path) /\ entries[i].path # entries[n].path
      BY <3>4, <3>6, <3>7, EntryTypes, SysrootPrefix DEF IsStrictPrefix, EntryFile
    <3> QED
      BY <3>7, <3>8 DEF InTheWay, IsStrictPrefix
  <2> QED
    BY <2>1, <2>2
<1> QED
  <2> HIDE DEF T
  <2>1. \A n \in 0 .. Len(entries) : n \in T
    BY <1>0, <1>1, <1>2, InductionTo
  <2> QED
    BY <2>1 DEF T

-----------------------------------------------------------------------------
(* The trees the commands get *)

WorkFiles == {SourcePath, ObjectPath, OutputPath}

\* A tree has files of the sysroot directory and these ones of the work directory.
Tidy(tree, work) == \A f \in DOMAIN tree : InSysroot(f) \/ f \in work

\* It has every entry, but for those that a later one replaced.
Stocked(tree) ==
    \A i \in 1 .. Len(entries) :
       \/ \E k \in i + 1 .. Len(entries) : IsPrefix(entries[k].path, entries[i].path)
       \/ EntryFile(i) \in DOMAIN tree /\ tree[EntryFile(i)].length = entries[i].length

KeepsAllBut(path, tree, made) == \A f \in DOMAIN tree : f # path => f \in DOMAIN made /\ made[f] = tree[f]

\* A file of the work directory is in nobody's way and replaces only itself.
LEMMA WorkFileAdded ==
    ASSUME NEW tree, NEW work \in SUBSET WorkFiles, Tidy(tree, work), NEW path \in WorkFiles, NEW data,
           NEW made \in AppendTreeFile(tree, path, data)
    PROVE  /\ Tidy(made, work \cup {path})
           /\ path \in DOMAIN made /\ made[path] = data
           /\ KeepsAllBut(path, tree, made)
<1>1. path \in FilePaths /\ InWork(path)
  BY WorkPaths DEF WorkFiles, InWork
<1>2. Appended(made, tree, path, data)
  BY <1>1, AppendIs
<1>3. \A f \in DOMAIN tree : IsPrefix(path, f) => f = path
  BY <1>1, Apart, WorkPaths DEF Tidy, WorkFiles
<1>4. Tidy(made, work \cup {path})
  BY <1>2 DEF Tidy, Appended
<1> QED
  BY <1>2, <1>3, <1>4 DEF Appended, KeepsAllBut

LEMMA WorkFileFits ==
    ASSUME NEW tree, NEW work \in SUBSET WorkFiles, Tidy(tree, work), NEW path \in WorkFiles
    PROVE  ~Blocked(tree, path)
<1>1. InWork(path)
  BY WorkPaths DEF WorkFiles
<1>2. \A f \in DOMAIN tree : IsPrefix(f, path) => f = path
  BY <1>1, Apart, WorkPaths DEF Tidy, WorkFiles
<1> QED
  BY <1>2 DEF Blocked, IsStrictPrefix

LEMMA StockedStays ==
    ASSUME entries \in Seq(Entries), NEW tree, NEW made, NEW path \in WorkFiles, Stocked(tree),
           KeepsAllBut(path, tree, made)
    PROVE  Stocked(made)
<1>1. \A i \in 1 .. Len(entries) : EntryFile(i) # path
  <2>1. InWork(path)
    BY WorkPaths DEF WorkFiles
  <2> QED
    BY <2>1, EntryTypes, Apart
<1> QED
  BY <1>1 DEF Stocked, KeepsAllBut

\* What createCompilerFilesystem() returns, if it does.
LEMMA FilesystemIs ==
    ASSUME entries \in Seq(Entries), NEW c, NEW made \in CreateCompilerFilesystem(c)
    PROVE  /\ Tidy(made, {SourcePath}) /\ Stocked(made)
           /\ SourcePath \in DOMAIN made /\ made[SourcePath] = [kind |-> "source", of |-> c]
           /\ \A i, j \in 1 .. Len(entries) : ~InTheWay(i, j)
<1> DEFINE L == Len(entries)
<1>0. L \in Nat /\ L \in 0 .. L
  OBVIOUS
<1>1. PICK trees : /\ IsBuild(trees)
                   /\ CreateCompilerFilesystem(c)
                        = UNION {AppendTreeFile(tree, SourcePath, [kind |-> "source", of |-> c]) : tree \in trees[L]}
  BY FilesystemIsBuilt
<1>2. PICK tree \in trees[L] : made \in AppendTreeFile(tree, SourcePath, [kind |-> "source", of |-> c])
  BY <1>1
<1>3. Whole(tree, L)
  BY <1>0, <1>1, BuildIsWhole
<1>4. Tidy(tree, {})
  BY <1>3, EntryTypes DEF Whole, Tidy
<1>5. Stocked(tree)
  <2>1. \A n : SysrootFile(n).length = n
    BY DEF SysrootFile
  <2> QED
    BY <1>3, <2>1 DEF Whole, Stocked
<1>6. SourcePath \in WorkFiles /\ {} \in SUBSET WorkFiles
  BY DEF WorkFiles
<1>7. /\ Tidy(made, {} \cup {SourcePath})
      /\ SourcePath \in DOMAIN made /\ made[SourcePath] = [kind |-> "source", of |-> c]
      /\ KeepsAllBut(SourcePath, tree, made)
  BY <1>2, <1>4, <1>6, WorkFileAdded
<1>8. Stocked(made)
  BY <1>5, <1>6, <1>7, StockedStays
<1> QED
  BY <1>3, <1>7, <1>8 DEF Whole

\* It throws only if a file is in the way.
LEMMA FilesystemThrows ==
    ASSUME entries \in Seq(Entries), NEW c, CreateCompilerFilesystem(c) = {}
    PROVE  \E i, j \in 1 .. Len(entries) : InTheWay(i, j)
<1> DEFINE L == Len(entries)
           source == [kind |-> "source", of |-> c]
<1>0. L \in Nat /\ L \in 0 .. L
  OBVIOUS
<1>1. PICK trees : /\ IsBuild(trees)
                   /\ CreateCompilerFilesystem(c)
                        = UNION {AppendTreeFile(tree, SourcePath, source) : tree \in trees[L]}
  BY FilesystemIsBuilt
<1>2. CASE trees[L] = {}
  BY <1>0, <1>1, <1>2, BuildThrows
<1>3. ASSUME NEW tree \in trees[L] PROVE FALSE
  <2>1. Whole(tree, L)
    BY <1>0, <1>1, BuildIsWhole
  <2>2. Tidy(tree, {}) /\ SourcePath \in WorkFiles /\ {} \in SUBSET WorkFiles
    BY <2>1, EntryTypes DEF Whole, Tidy, WorkFiles
  <2>3. AppendTreeFile(tree, SourcePath, source) # {}
    BY <2>2, WorkFileFits, AppendSucceeds
  <2> QED
    BY <1>1, <2>3
<1> QED
  BY <1>2, <1>3

-----------------------------------------------------------------------------
(* The layout of the toolchain *)

LEMMA MinIsMember ==
    ASSUME NEW S, S \subseteq Nat, S # {}
    PROVE  Min(S) \in S
<1>1. \E m \in S : \A k \in S : m <= k
  BY LeastExists
<1> QED
  BY <1>1 DEF Min

\* The archive lacks a file of the toolchain.
Lacks ==
    LET stddefs == {i \in DOMAIN entries : IsStddef(entries[i].path)}
        resourceDir == ResourceDir(entries[Min(stddefs)].path[3])
    IN  \/ ~(Headers \cup Libraries \subseteq Paths(entries))
        \/ stddefs = {}
        \/ \A t \in Range(Targets) : Builtins(resourceDir, t) \notin Paths(entries)

LEMMA LayoutIs ==
    ASSUME entries \in Seq(Entries)
    PROVE  LET layout == ResolveToolchainLayout(entries)
           IN  /\ layout = Nothing <=> Lacks
               /\ layout # Nothing => BuildClangArgs(layout) \cup BuildLdArgs(layout) \subseteq Paths(entries)
<1> DEFINE layout == ResolveToolchainLayout(entries)
           m == Min(Stddefs(entries))
           dir == ResourceDir(entries[m].path[3])
           found == {i \in DOMAIN Targets : Builtins(dir, Targets[i]) \in Paths(entries)}
           target == Targets[Min(found)]
<1>1. CASE Stddefs(entries) = {}
  <2>1. layout = Nothing
    BY <1>1 DEF ResolveToolchainLayout, ResolveClangResourceDir
  <2>2. Lacks
    BY <1>1 DEF Lacks, Stddefs
  <2> QED
    BY <2>1, <2>2
<1>2. CASE Stddefs(entries) # {}
  <2>1. m \in Stddefs(entries)
    <3>1. Stddefs(entries) \subseteq Nat
      BY DEF Stddefs
    <3> QED
      BY <1>2, <3>1, MinIsMember
  <2>2. m \in 1 .. Len(entries) /\ IsStddef(entries[m].path) /\ entries[m].path \in FilePaths
    BY <2>1, EntryTypes DEF Stddefs
  <2>3. entries[m].path[3] \in Names /\ entries[m].path = Stddef(dir)
    BY <2>2 DEF IsStddef, FilePaths
  <2>4. dir \in Seq(Names)
    BY <2>3, NamesAssumption DEF ResourceDir
  <2>5. Stddef(dir) \in Paths(entries)
    BY <2>2, <2>3 DEF Paths
  <2> HIDE DEF m, dir
  <2>6. ResolveClangResourceDir(entries) = dir /\ dir # Nothing
    BY <1>2, <2>4, ValuesAssumption DEF ResolveClangResourceDir, m, dir
  <2>7. \A t \in Range(Targets) : Builtins(dir, t) \in Seq(Names)
    <3>1. ASSUME NEW t \in Names PROVE <<"lib", t, "libclang_rt.builtins.a">> \in Seq(Names)
      BY NamesAssumption
    <3>2. \A t \in Range(Targets) : t \in Names
      BY NamesAssumption DEF Range, Targets
    <3> QED
      BY <2>4, <3>1, <3>2, ConcatProperties DEF Builtins
  <2>8. Range(Targets) = {Targets[i] : i \in DOMAIN Targets} /\ DOMAIN Targets \subseteq Nat
    BY DEF Range, Targets
  <2>9. ResolveBuiltinsPath(entries, dir) = IF found = {} THEN Nothing ELSE Builtins(dir, target)
    BY DEF ResolveBuiltinsPath
  <2>10. found # {} => target \in Range(Targets) /\ Builtins(dir, target) \in Paths(entries)
    <3>1. found \subseteq Nat
      BY <2>8
    <3> SUFFICES ASSUME found # {} PROVE Min(found) \in found
      BY <2>8
    <3> HIDE DEF found
    <3> QED
      BY <3>1, MinIsMember
  <2>11. ResolveBuiltinsPath(entries, dir) = Nothing <=> found = {}
    <3> HIDE DEF found, target
    <3> QED
      BY <2>7, <2>9, <2>10, ValuesAssumption
  <2>12. found = {} <=> \A t \in Range(Targets) : Builtins(dir, t) \notin Paths(entries)
    BY <2>8
  <2>13. Lacks <=> ~(Headers \cup Libraries \subseteq Paths(entries)) \/ found = {}
    <3> HIDE DEF found
    <3> QED
      BY <1>2, <2>12 DEF Lacks, Stddefs, m, dir
  <2> HIDE DEF found, target
  <2>14. CASE Lacks
    <3>1. layout = Nothing
      BY <2>6, <2>11, <2>13, <2>14 DEF ResolveToolchainLayout
    <3> QED
      BY <2>14, <3>1
  <2>15. CASE ~Lacks
    <3>1. layout = [resourceDir |-> dir, builtins |-> Builtins(dir, target)]
      BY <2>6, <2>9, <2>11, <2>13, <2>15 DEF ResolveToolchainLayout
    <3>2. Builtins(dir, target) \in Seq(Names) /\ Builtins(dir, target) \in Paths(entries)
      BY <2>7, <2>10, <2>13, <2>15
    <3>3. layout \in [resourceDir : Seq(Names), builtins : Seq(Names)]
      BY <2>4, <3>1, <3>2
    <3>4. layout # Nothing
      BY <3>3, ValuesAssumption
    <3>5. BuildClangArgs(layout) = {Stddef(dir)} \cup Headers
          /\ BuildLdArgs(layout) = {Builtins(dir, target)} \cup Libraries
      BY <3>1 DEF BuildClangArgs, BuildLdArgs
    <3>6. BuildClangArgs(layout) \cup BuildLdArgs(layout) \subseteq Paths(entries)
      BY <2>5, <2>13, <2>15, <3>2, <3>5
    <3> QED
      BY <2>15, <3>4, <3>6
  <2> QED
    BY <2>14, <2>15
<1> QED
  BY <1>1, <1>2

\* The last entry of a path.
LEMMA LastEntry ==
    ASSUME entries \in Seq(Entries), NEW path \in Paths(entries)
    PROVE  \E i \in 1 .. Len(entries) : /\ entries[i].path = path
                                        /\ \A k \in i + 1 .. Len(entries) : entries[k].path # path
<1> DEFINE L == Len(entries)
           T == {d \in Nat : d < L /\ entries[L - d].path = path}
<1>1. L \in Nat /\ DOMAIN entries = 1 .. L
  OBVIOUS
<1>2. PICK i \in 1 .. L : entries[i].path = path
  BY <1>1 DEF Paths
<1>3. L - i \in T
  <2>1. L - i \in Nat /\ L - i < L /\ L - (L - i) = i
    BY <1>1
  <2> QED
    BY <1>2, <2>1
<1>4. PICK d \in T : \A e \in T : d <= e
  <2>1. T \subseteq Nat /\ T # {}
    BY <1>3
  <2> HIDE DEF T
  <2> QED
    BY <2>1, LeastExists
<1>5. L - d \in 1 .. L /\ entries[L - d].path = path
  BY <1>1
<1>6. ASSUME NEW k \in L - d + 1 .. L, entries[k].path = path PROVE FALSE
  <2>1. L - k \in Nat /\ L - k < L /\ L - (L - k) = k /\ L - k < d
    BY <1>1, <1>5
  <2>2. L - k \in T
    BY <1>6, <2>1
  <2> QED
    BY <1>4, <2>1, <2>2
<1> QED
  BY <1>5, <1>6

LEMMA PathIsInTree ==
    ASSUME entries \in Seq(Entries), NEW tree, Stocked(tree), NEW path \in Paths(entries)
    PROVE  SysrootPath(path) \in DOMAIN tree \/ Replaced(path)
<1>1. PICK i \in 1 .. Len(entries) : /\ entries[i].path = path
                                     /\ \A k \in i + 1 .. Len(entries) : entries[k].path # path
  BY LastEntry
<1>2. CASE EntryFile(i) \in DOMAIN tree
  BY <1>1, <1>2 DEF EntryFile
<1>3. CASE \E k \in i + 1 .. Len(entries) : IsPrefix(entries[k].path, entries[i].path)
  <2>1. PICK k \in i + 1 .. Len(entries) : IsPrefix(entries[k].path, entries[i].path)
    BY <1>3
  <2>2. k \in DOMAIN entries /\ i \in DOMAIN entries /\ i < k
    OBVIOUS
  <2> QED
    BY <1>1, <2>1, <2>2 DEF Replaced, IsStrictPrefix
<1> QED
  BY <1>2, <1>3 DEF Stocked

-----------------------------------------------------------------------------
(* The inductive invariant *)

\* What a call's stage says about its tree and its artifact.
CallInv(c) ==
    /\ stage[c] \in {"clang", "linker"} =>
         /\ entries \in Seq(Entries)
         /\ ResolveToolchainLayout(entries) # Nothing
         /\ Stocked(files[c])
    /\ stage[c] = "clang" =>
         /\ Tidy(files[c], {SourcePath})
         /\ SourcePath \in DOMAIN files[c] /\ files[c][SourcePath].of = c
    /\ stage[c] = "linker" =>
         /\ Tidy(files[c], {SourcePath, ObjectPath})
         /\ ObjectPath \in DOMAIN files[c] => files[c][ObjectPath].of = c
    /\ stage[c] = "success" =>
         artifact[c].kind = "wasm" /\ artifact[c].of = c /\ artifact[c].size <= SizeCap

DriverInv ==
    /\ archive \in Archives /\ entries = LoadSysrootEntries(archive)
    /\ DOMAIN stage = Calls /\ DOMAIN files = Calls /\ DOMAIN artifact = Calls
    /\ \A c \in Calls : CallInv(c)

\* A step leaves another call's stage, tree and artifact alone.
Others(c) ==
    \A d \in Calls \ {c} : stage'[d] = stage[d] /\ files'[d] = files[d] /\ artifact'[d] = artifact[d]

LEMMA OthersInv ==
    ASSUME DriverInv, NEW c \in Calls, UNCHANGED <<archive, entries>>, Others(c), CallInv(c)',
           DOMAIN stage' = Calls, DOMAIN files' = Calls, DOMAIN artifact' = Calls
    PROVE  DriverInv'
<1>1. ASSUME NEW d \in Calls, d # c PROVE CallInv(d)'
  <2>1. CallInv(d) /\ stage'[d] = stage[d] /\ files'[d] = files[d] /\ artifact'[d] = artifact[d]
    BY <1>1 DEF DriverInv, Others
  <2>2. Stocked(files[d])' <=> Stocked(files[d])
    BY <2>1 DEF Stocked, EntryFile
  <2>3. \A work : Tidy(files[d], work)' <=> Tidy(files[d], work)
    BY <2>1 DEF Tidy
  <2> QED
    BY <2>1, <2>2, <2>3 DEF CallInv
<1> QED
  BY <1>1 DEF DriverInv

LEMMA FailsInv ==
    ASSUME DriverInv, NEW c \in Calls, Fails(c)
    PROVE  DriverInv'
<1>1. /\ stage' = [stage EXCEPT ![c] = "failure"] /\ DOMAIN stage = Calls
      /\ UNCHANGED <<archive, entries, files, artifact>>
  BY DEF Fails, DriverInv
<1>2. stage'[c] = "failure" /\ DOMAIN stage' = Calls /\ Others(c)
  BY <1>1 DEF Others
<1>3. CallInv(c)'
  BY <1>2 DEF CallInv
<1> QED
  BY <1>1, <1>2, <1>3, OthersInv DEF DriverInv

LEMMA CompileInv ==
    ASSUME DriverInv, NEW c \in Calls, Compile(c)
    PROVE  DriverInv'
<1>1. entries \in Seq(Entries)
  BY EntriesTyped DEF DriverInv, Compile
<1>2. CASE CreateCompilerFilesystem(c) = {} \/ ResolveToolchainLayout(entries) = Nothing
  BY <1>2, FailsInv DEF Compile
<1>3. CASE ~(CreateCompilerFilesystem(c) = {} \/ ResolveToolchainLayout(entries) = Nothing)
  <2>1. /\ stage' = [stage EXCEPT ![c] = "clang"] /\ DOMAIN stage = Calls
        /\ files' \in {[files EXCEPT ![c] = tree] : tree \in CreateCompilerFilesystem(c)}
        /\ DOMAIN files = Calls /\ DOMAIN artifact = Calls
        /\ UNCHANGED <<archive, entries, artifact>>
    BY <1>3 DEF Compile, DriverInv
  <2>2. PICK made \in CreateCompilerFilesystem(c) : files' = [files EXCEPT ![c] = made]
    BY <2>1
  <2>3. stage'[c] = "clang" /\ files'[c] = made /\ DOMAIN stage' = Calls /\ DOMAIN files' = Calls /\ Others(c)
    BY <2>1, <2>2 DEF Others
  <2>4. /\ Tidy(made, {SourcePath}) /\ Stocked(made)
        /\ SourcePath \in DOMAIN made /\ made[SourcePath].of = c
    <3>1. /\ Tidy(made, {SourcePath}) /\ Stocked(made)
          /\ SourcePath \in DOMAIN made /\ made[SourcePath] = [kind |-> "source", of |-> c]
      BY <1>1, FilesystemIs
    <3> QED
      BY <3>1
  <2>5. Stocked(files[c])'
    BY <2>1, <2>3, <2>4 DEF Stocked, EntryFile
  <2>6. Tidy(files[c], {SourcePath})'
    BY <2>3, <2>4 DEF Tidy
  <2>7. CallInv(c)'
    BY <1>1, <1>3, <2>1, <2>3, <2>4, <2>5, <2>6 DEF CallInv
  <2> QED
    BY <2>1, <2>3, <2>7, OthersInv
<1> QED
  BY <1>2, <1>3

LEMMA ClangEndsInv ==
    ASSUME DriverInv, NEW c \in Calls, ClangEnds(c)
    PROVE  DriverInv'
<1>1. /\ stage[c] = "clang" /\ CallInv(c)
      /\ stage' = [stage EXCEPT ![c] = "linker"] /\ DOMAIN stage = Calls
      /\ files' \in {[files EXCEPT ![c] = tree] : tree \in ClangReturns(files[c])}
      /\ DOMAIN files = Calls /\ DOMAIN artifact = Calls
      /\ UNCHANGED <<archive, entries, artifact>>
  BY DEF ClangEnds, DriverInv
<1>2. PICK made \in ClangReturns(files[c]) : files' = [files EXCEPT ![c] = made]
  BY <1>1
<1>3. stage'[c] = "linker" /\ files'[c] = made /\ DOMAIN stage' = Calls /\ DOMAIN files' = Calls /\ Others(c)
  BY <1>1, <1>2 DEF Others
<1>4. /\ entries \in Seq(Entries) /\ ResolveToolchainLayout(entries) # Nothing
      /\ Stocked(files[c]) /\ Tidy(files[c], {SourcePath})
      /\ SourcePath \in DOMAIN files[c] /\ files[c][SourcePath].of = c
  BY <1>1 DEF CallInv
<1>5. /\ Stocked(made) /\ Tidy(made, {SourcePath, ObjectPath})
      /\ ObjectPath \in DOMAIN made => made[ObjectPath].of = c
  <2>1. CASE made = files[c]
    <3>1. ObjectPath \notin DOMAIN made
      <4>1. InWork(ObjectPath) /\ ObjectPath # SourcePath
        BY WorkPaths
      <4>2. ~InSysroot(ObjectPath)
        BY <4>1, Apart
      <4> QED
        BY <1>4, <2>1, <4>1, <4>2 DEF Tidy
    <3> QED
      BY <1>4, <2>1, <3>1 DEF Tidy
  <2>2. CASE made # files[c]
    <3> DEFINE object == [kind |-> "object", of |-> files[c][SourcePath].of]
    <3>1. made \in AppendTreeFile(files[c], ObjectPath, object)
      BY <2>2 DEF ClangReturns
    <3>2. {SourcePath} \in SUBSET WorkFiles /\ ObjectPath \in WorkFiles /\ object.of = c
      BY <1>4 DEF WorkFiles
    <3> HIDE DEF object
    <3>3. /\ Tidy(made, {SourcePath} \cup {ObjectPath})
          /\ ObjectPath \in DOMAIN made /\ made[ObjectPath] = object
          /\ KeepsAllBut(ObjectPath, files[c], made)
      BY <1>4, <3>1, <3>2, WorkFileAdded
    <3>4. Stocked(made)
      BY <1>4, <3>2, <3>3, StockedStays
    <3>5. {SourcePath} \cup {ObjectPath} = {SourcePath, ObjectPath}
      OBVIOUS
    <3> QED
      BY <3>2, <3>3, <3>4, <3>5
  <2> QED
    BY <2>1, <2>2
<1>6. Stocked(files[c])'
  BY <1>1, <1>3, <1>5 DEF Stocked, EntryFile
<1>7. Tidy(files[c], {SourcePath, ObjectPath})'
  BY <1>3, <1>5 DEF Tidy
<1>8. CallInv(c)'
  BY <1>1, <1>3, <1>4, <1>5, <1>6, <1>7 DEF CallInv
<1> QED
  BY <1>1, <1>3, <1>8, OthersInv

LEMMA LinkerEndsInv ==
    ASSUME DriverInv, NEW c \in Calls, LinkerEnds(c)
    PROVE  DriverInv'
<1> DEFINE layout == ResolveToolchainLayout(entries)
<1>1. /\ stage[c] = "linker" /\ CallInv(c)
      /\ DOMAIN stage = Calls /\ DOMAIN files = Calls /\ DOMAIN artifact = Calls
      /\ UNCHANGED <<archive, entries>>
  BY DEF LinkerEnds, DriverInv
<1>2. PICK made \in LinkerReturns(files[c], layout) :
         /\ files' = [files EXCEPT ![c] = made]
         /\ IF OutputPath \in DOMAIN made /\ made[OutputPath].size <= SizeCap
            THEN /\ stage' = [stage EXCEPT ![c] = "success"]
                 /\ artifact' = [artifact EXCEPT ![c] = made[OutputPath]]
            ELSE /\ stage' = [stage EXCEPT ![c] = "failure"]
                 /\ UNCHANGED artifact
  BY DEF LinkerEnds
<1>3. DOMAIN stage' = Calls /\ DOMAIN files' = Calls /\ DOMAIN artifact' = Calls /\ Others(c)
  BY <1>1, <1>2 DEF Others
<1>4. /\ Tidy(files[c], {SourcePath, ObjectPath})
      /\ ObjectPath \in DOMAIN files[c] => files[c][ObjectPath].of = c
  BY <1>1 DEF CallInv
<1>5. CASE OutputPath \in DOMAIN made /\ made[OutputPath].size <= SizeCap
  <2>1. stage'[c] = "success" /\ artifact'[c] = made[OutputPath]
    BY <1>1, <1>2, <1>5
  <2>2. OutputPath \notin DOMAIN files[c]
    <3>1. InWork(OutputPath) /\ OutputPath # SourcePath /\ OutputPath # ObjectPath
      BY WorkPaths
    <3>2. ~InSysroot(OutputPath)
      BY <3>1, Apart
    <3> QED
      BY <1>4, <3>1, <3>2 DEF Tidy
  <2>3. /\ ObjectPath \in DOMAIN files[c]
        /\ \E size \in Sizes : made \in AppendTreeFile(files[c], OutputPath,
                                          [kind |-> "wasm", of |-> files[c][ObjectPath].of, size |-> size])
    <3>1. made # files[c]
      BY <1>5, <2>2
    <3> HIDE DEF layout
    <3> QED
      BY <1>2, <3>1 DEF LinkerReturns
  <2>4. PICK size \in Sizes : made \in AppendTreeFile(files[c], OutputPath,
                                         [kind |-> "wasm", of |-> files[c][ObjectPath].of, size |-> size])
    BY <2>3
  <2> DEFINE output == [kind |-> "wasm", of |-> files[c][ObjectPath].of, size |-> size]
  <2>5. {SourcePath, ObjectPath} \in SUBSET WorkFiles /\ OutputPath \in WorkFiles
    BY DEF WorkFiles
  <2>6. output.kind = "wasm" /\ output.of = c
    BY <1>4, <2>3
  <2>7. made[OutputPath] = output
    <3> DEFINE tree == files[c]
               work == {SourcePath, ObjectPath}
    <3>1. made \in AppendTreeFile(tree, OutputPath, output) /\ Tidy(tree, work)
      BY <1>4, <2>4
    <3>2. work \in SUBSET WorkFiles /\ OutputPath \in WorkFiles
      BY <2>5
    <3> HIDE DEF output, tree, work
    <3>3. /\ Tidy(made, work \cup {OutputPath})
          /\ OutputPath \in DOMAIN made /\ made[OutputPath] = output
          /\ KeepsAllBut(OutputPath, tree, made)
      BY <3>1, <3>2, WorkFileAdded
    <3> QED
      BY <3>3
  <2>8. CallInv(c)'
    <3> HIDE DEF output
    <3> QED
      BY <1>5, <2>1, <2>6, <2>7 DEF CallInv
  <2> QED
    BY <1>1, <1>3, <2>8, OthersInv
<1>6. CASE ~(OutputPath \in DOMAIN made /\ made[OutputPath].size <= SizeCap)
  <2>1. stage'[c] = "failure"
    BY <1>1, <1>2, <1>6
  <2>2. CallInv(c)'
    BY <2>1 DEF CallInv
  <2> QED
    BY <1>1, <1>3, <2>2, OthersInv
<1> QED
  BY <1>5, <1>6

LEMMA DriverInvariant == Spec => []DriverInv
<1>1. Init => DriverInv
  <2> SUFFICES ASSUME Init PROVE DriverInv
    OBVIOUS
  <2>1. \A c \in Calls : stage[c] = "idle"
    BY DEF Init
  <2>2. \A c \in Calls : CallInv(c)
    BY <2>1 DEF CallInv
  <2> QED
    BY <2>2 DEF Init, DriverInv
<1>2. DriverInv /\ [Next]_vars => DriverInv'
  <2> SUFFICES ASSUME DriverInv, [Next]_vars PROVE DriverInv'
    OBVIOUS
  <2>1. ASSUME NEW c \in Calls, Compile(c) PROVE DriverInv'
    BY <2>1, CompileInv
  <2>2. ASSUME NEW c \in Calls, ClangEnds(c) PROVE DriverInv'
    BY <2>2, ClangEndsInv
  <2>3. ASSUME NEW c \in Calls, LinkerEnds(c) PROVE DriverInv'
    BY <2>3, LinkerEndsInv
  <2>4. ASSUME NEW c \in Calls, CommandThrows(c) PROVE DriverInv'
    BY <2>4, FailsInv DEF CommandThrows
  <2>5. CASE UNCHANGED vars
    BY <2>5 DEF vars, DriverInv, CallInv, Stocked, Tidy, EntryFile
  <2> QED
    BY <2>1, <2>2, <2>3, <2>4, <2>5 DEF Next
<1> QED
  BY <1>1, <1>2, PTL DEF Spec

-----------------------------------------------------------------------------
(* Theorems *)

\* Whatever archive was fetched, whole or cut, compressed or not: what the reader
\* makes of it are its first files, all of them whole but for the last one.
THEOREM ArchiveRead == Spec => []ArchiveIsRead
<1>1. DriverInv => ArchiveIsRead
  <2> SUFFICES ASSUME DriverInv, entries # Nothing PROVE GivesItsFiles(archive, entries)
    BY DEF ArchiveIsRead, GivesItsFiles
  <2> QED
    BY LoadIsRight DEF DriverInv
<1> QED
  BY <1>1, DriverInvariant, PTL

\* However many calls run at the same time, a success has the program linked from the
\* object that clang made of this call's source, and is within the cap.
THEOREM OwnArtifact == Spec => []ArtifactIsOwn
<1>1. DriverInv => ArtifactIsOwn
  BY DEF DriverInv, CallInv, ArtifactIsOwn
<1> QED
  BY <1>1, DriverInvariant, PTL

\* Both commands find the files of the toolchain's layout in their tree, and every
\* entry that no later one replaced.
THEOREM FilesFound == Spec => []CommandsFindTheirFiles
<1>1. DriverInv => CommandsFindTheirFiles
  <2> DEFINE layout == ResolveToolchainLayout(entries)
  <2> SUFFICES ASSUME DriverInv, NEW c \in Calls, stage[c] \in {"clang", "linker"}
               PROVE  /\ \A path \in BuildClangArgs(layout) \cup BuildLdArgs(layout) :
                           SysrootPath(path) \in DOMAIN files[c] \/ Replaced(path)
                      /\ \A i \in DOMAIN entries :
                           \/ \E k \in DOMAIN entries : k > i /\ entries[k].path = entries[i].path
                           \/ Replaced(entries[i].path)
                           \/ files[c][SysrootPath(entries[i].path)].length = entries[i].length
    BY DEF CommandsFindTheirFiles
  <2>1. entries \in Seq(Entries) /\ layout # Nothing /\ Stocked(files[c])
    BY DEF DriverInv, CallInv
  <2>2. BuildClangArgs(layout) \cup BuildLdArgs(layout) \subseteq Paths(entries)
    BY <2>1, LayoutIs
  <2> HIDE DEF layout
  <2>3. \A path \in BuildClangArgs(layout) \cup BuildLdArgs(layout) :
          SysrootPath(path) \in DOMAIN files[c] \/ Replaced(path)
    BY <2>1, <2>2, PathIsInTree
  <2>4. ASSUME NEW i \in DOMAIN entries
        PROVE  \/ \E k \in DOMAIN entries : k > i /\ entries[k].path = entries[i].path
               \/ Replaced(entries[i].path)
               \/ files[c][SysrootPath(entries[i].path)].length = entries[i].length
    <3>1. i \in 1 .. Len(entries) /\ DOMAIN entries = 1 .. Len(entries)
      BY <2>1
    <3>2. ASSUME NEW k \in i + 1 .. Len(entries), IsPrefix(entries[k].path, entries[i].path)
          PROVE  \/ k \in DOMAIN entries /\ k > i /\ entries[k].path = entries[i].path
                 \/ Replaced(entries[i].path)
      <4>1. k \in DOMAIN entries /\ i < k
        BY <3>1
      <4> QED
        BY <3>2, <4>1 DEF Replaced, IsStrictPrefix
    <3> QED
      BY <2>1, <3>1, <3>2 DEF Stocked, EntryFile
  <2> QED
    BY <2>3, <2>4
<1> QED
  BY <1>1, DriverInvariant, PTL

\* compileCpp() gives up before clang exactly if the archive is broken.
THEOREM OnlyBrokenRefused == Spec => RefusedOnlyIfBroken
<1> DEFINE Refused(c) == stage[c] = "idle" /\ stage'[c] # "idle" => (stage'[c] = "failure" <=> Broken)
<1>1. DriverInv /\ [Next]_vars => [\A c \in Calls : Refused(c)]_vars
  <2> SUFFICES ASSUME DriverInv, Next, NEW c \in Calls, stage[c] = "idle", stage'[c] # "idle"
               PROVE  stage'[c] = "failure" <=> Broken
    OBVIOUS
  <2>1. Compile(c)
    <3>1. PICK d \in Calls : Compile(d) \/ ClangEnds(d) \/ LinkerEnds(d) \/ CommandThrows(d)
      BY DEF Next
    <3>2. \A s : stage' = [stage EXCEPT ![d] = s] => d = c
      BY DEF DriverInv
    <3> QED
      BY <3>1, <3>2 DEF Compile, ClangEnds, LinkerEnds, CommandThrows, Fails
  <2>2. entries \in Seq(Entries) /\ DOMAIN entries = 1 .. Len(entries)
    <3>1. entries \in Seq(Entries)
      BY <2>1, EntriesTyped DEF DriverInv, Compile
    <3> QED
      BY <3>1
  <2>3. stage'[c] = "failure" <=> CreateCompilerFilesystem(c) = {} \/ ResolveToolchainLayout(entries) = Nothing
    BY <2>1 DEF Compile, Fails, DriverInv
  <2>4. CreateCompilerFilesystem(c) = {} <=> \E i, j \in DOMAIN entries : InTheWay(i, j)
    <3>1. CreateCompilerFilesystem(c) = {} => \E i, j \in DOMAIN entries : InTheWay(i, j)
      BY <2>2, FilesystemThrows
    <3>2. ASSUME NEW made \in CreateCompilerFilesystem(c) PROVE ~\E i, j \in DOMAIN entries : InTheWay(i, j)
      BY <2>2, FilesystemIs
    <3> QED
      BY <3>1, <3>2
  <2>5. ResolveToolchainLayout(entries) = Nothing <=> Lacks
    BY <2>2, LayoutIs
  <2>6. Broken <=> (\E i, j \in DOMAIN entries : InTheWay(i, j)) \/ Lacks
    BY DEF Broken, Lacks
  <2> QED
    BY <2>3, <2>4, <2>5, <2>6
<1>2. Spec => [][\A c \in Calls : Refused(c)]_vars
  BY <1>1, DriverInvariant, PTL DEF Spec
<1> QED
  BY <1>2 DEF RefusedOnlyIfBroken
=============================================================================
