----------------------------- MODULE FeedsProofs ----------------------------
(***************************************************************************)
(* Proofs about Feeds: for any stream that is H.264, however read() cuts   *)
(* it up and whatever ends the feed, what Encoder hands on is the stream's *)
(* NAL units in order, one whole picture at a time, and both backends keep *)
(* the safety half of the contract of Feed.                                *)
(*                                                                         *)
(* Boundaries of a stream are numbered by Rank.  CutInv relates the units  *)
(* cut off to the boundaries of the WHOLE stream up to Base, where buf     *)
(* begins: a turn of split cuts at the next boundary or none of it was     *)
(* read (NextCode), because start codes do not overlap (Apart) and those   *)
(* of the bytes held are those of the stream (CodeSeen).  AuInv says that  *)
(* cur is whole so far: a slice that continues a picture finds the first   *)
(* one of it in cur, since between the two nothing flushes (HeadFits).     *)
(***************************************************************************)
EXTENDS Feeds, HelperProofs, FiniteSetTheorems, WellFoundedInduction

\* A set of numbers has a least one, and Min is it.
LEMMA MinFacts ==
  ASSUME NEW T \in SUBSET Nat, T # {}
  PROVE  Min(T) \in T /\ \A x \in T : Min(T) =< x
  <1>1. PICK x \in T : \A y \in T : ~(<<y, x>> \in OpToRel(<, Nat))
    BY WFMin, NatLessThanWellFounded
  <1>2. \A y \in T : x =< y
    <2> TAKE y \in T
    <2>1. ~(y < x)
      <3>1. <<y, x>> \in Nat \X Nat
        OBVIOUS
      <3> QED
        BY <1>1, <3>1 DEF OpToRel
    <2> QED
      BY <2>1
  <1> QED
    BY <1>2 DEF Min

\* What the parts of s up to each of its first n positions add up to.
Sums(s, f, n) == \A i \in 1..n : f[i] = IF i = 1 THEN s[i] ELSE f[i - 1] \o s[i]

\* There are such sums, of any sequence of sequences.
LEMMA SumsExist ==
  ASSUME NEW S, NEW s \in Seq(Seq(S))
  PROVE  \A n \in 1..Len(s) : \E f \in [1..n -> Seq(S)] : Sums(s, f, n)
  <1> DEFINE Bad == {n \in 1..Len(s) : ~\E f \in [1..n -> Seq(S)] : Sums(s, f, n)}
  <1>1. SUFFICES ASSUME Bad # {} PROVE FALSE
    OBVIOUS
  <1>2. PICK n \in Bad : \A y \in Bad : n =< y
    <2>1. Bad \in SUBSET Nat
      BY LenProperties
    <2> HIDE DEF Bad
    <2> QED
      BY <1>1, <2>1, MinFacts
  <1>3. n \in 1..Len(s) /\ Len(s) \in Nat /\ s[n] \in Seq(S) /\ s[1] \in Seq(S)
    BY LenProperties, ElementOfSeq
  <1>4. CASE n = 1
    <2> DEFINE f == [i \in 1..1 |-> s[1]]
    <2>1. f \in [1..1 -> Seq(S)] /\ Sums(s, f, 1)
      BY <1>3 DEF Sums
    <2> QED
      BY <1>4, <2>1
  <1>5. CASE n # 1
    <2>1. n - 1 \in 1..Len(s) /\ n - 1 \notin Bad
      <3>1. n - 1 \in 1..Len(s) /\ ~(n =< n - 1)
        BY <1>3, <1>5
      <3> HIDE DEF Bad
      <3> QED
        BY <1>2, <3>1
    <2>2. PICK g \in [1..(n - 1) -> Seq(S)] : Sums(s, g, n - 1)
      BY <2>1
    <2> DEFINE f == [i \in 1..n |-> IF i = n THEN g[n - 1] \o s[n] ELSE g[i]]
    <2>3. g[n - 1] \o s[n] \in Seq(S)
      BY <2>1, <1>3, ConcatProperties
    <2>4. f \in [1..n -> Seq(S)]
      BY <2>3, <1>3
    <2>5. \A i \in 1..n : f[i] = IF i = n THEN g[n - 1] \o s[n] ELSE g[i]
      OBVIOUS
    <2>6. n \in Nat /\ n # 1 /\ n # 0
      BY <1>3, <1>5
    <2>7. Sums(s, f, n)
      <3> HIDE DEF f, Bad
      <3> SUFFICES ASSUME NEW i \in 1..n
                   PROVE  f[i] = IF i = 1 THEN s[i] ELSE f[i - 1] \o s[i]
        BY DEF Sums
      <3>1. CASE i = n
        <4>1. n - 1 \in 1..n /\ n - 1 # n
          BY <2>6
        <4>2. f[n - 1] = g[n - 1] /\ f[n] = g[n - 1] \o s[n]
          BY <2>5, <4>1, <3>1
        <4> QED
          BY <3>1, <4>2, <2>6
      <3>2. CASE i # n
        <4>1. i \in 1..(n - 1) /\ (i # 1 => i - 1 \in 1..n /\ i - 1 # n)
          BY <3>2, <2>6
        <4> QED
          BY <3>2, <4>1, <2>5, <2>2 DEF Sums
      <3> QED
        BY <3>1, <3>2
    <2> HIDE DEF f
    <2> QED
      BY <2>4, <2>7
  <1> QED
    BY <1>4, <1>5

\* Sequences that begin alike add up to the same so far.
LEMMA SumsUnique ==
  ASSUME NEW n \in Nat \ {0}, NEW s, NEW t, NEW f, NEW g,
         \A i \in 1..n : s[i] = t[i], Sums(s, f, n), Sums(t, g, n)
  PROVE  f[n] = g[n]
  <1> DEFINE Bad == {i \in 1..n : f[i] # g[i]}
  <1>1. SUFFICES ASSUME Bad # {} PROVE FALSE
    OBVIOUS
  <1>2. PICK i \in Bad : \A y \in Bad : i =< y
    <2>1. Bad \in SUBSET Nat
      OBVIOUS
    <2> HIDE DEF Bad
    <2> QED
      BY <1>1, <2>1, MinFacts
  <1>3. i \in 1..n /\ f[i] # g[i]
    OBVIOUS
  <1>4. i # 1 => i - 1 \in 1..n /\ i - 1 \notin Bad
    <2>1. i # 1 => i - 1 \in 1..n /\ ~(i =< i - 1)
      BY <1>3
    <2> HIDE DEF Bad
    <2> QED
      BY <1>2, <2>1
  <1>5. i # 1 => f[i - 1] = g[i - 1]
    BY <1>4
  <1> HIDE DEF Bad
  <1>6. CASE i = 1
    BY <1>3, <1>6 DEF Sums
  <1>7. CASE i # 1
    BY <1>3, <1>5, <1>7 DEF Sums
  <1> QED
    BY <1>6, <1>7

\* FlattenSeq is what they all add up to.
LEMMA FlattenIs ==
  ASSUME NEW S, NEW s \in Seq(Seq(S)), s # <<>>
  PROVE  \E f \in [1..Len(s) -> Seq(S)] :
           Sums(s, f, Len(s)) /\ FlattenSeq(s) = f[Len(s)]
  <1> DEFINE Is(f) == f = [i \in 1..Len(s) |-> IF i = 1 THEN s[i] ELSE f[i - 1] \o s[i]]
             F == CHOOSE f : Is(f)
  <1>1. Len(s) \in Nat \ {0} /\ Len(s) \in 1..Len(s)
    BY EmptySeq
  <1>2. PICK f \in [1..Len(s) -> Seq(S)] : Sums(s, f, Len(s))
    BY <1>1, SumsExist
  <1>3. Is(f)
    <2>1. f = [i \in 1..Len(s) |-> f[i]]
      OBVIOUS
    <2> QED
      BY <1>2, <2>1 DEF Sums
  <1>4. Is(F)
    <2> HIDE DEF Is
    <2> QED
      BY <1>3
  <1>5. FlattenSeq(s) = F[Len(s)]
    BY <1>1 DEF FlattenSeq
  <1>6. Sums(s, F, Len(s))
    <2> DEFINE G == [i \in 1..Len(s) |-> IF i = 1 THEN s[i] ELSE F[i - 1] \o s[i]]
    <2>1. F = G
      BY <1>4
    <2>2. \A i \in 1..Len(s) : G[i] = IF i = 1 THEN s[i] ELSE F[i - 1] \o s[i]
      OBVIOUS
    <2> HIDE DEF F, G
    <2> QED
      BY <2>1, <2>2 DEF Sums
  <1> HIDE DEF F, Is
  <1>7. F[Len(s)] = f[Len(s)]
    BY <1>1, <1>2, <1>6, SumsUnique
  <1> QED
    BY <1>2, <1>5, <1>7

\* The parts of a sequence of sequences put together, ...
LEMMA FlattenType ==
  ASSUME NEW S, NEW s \in Seq(Seq(S))
  PROVE  FlattenSeq(s) \in Seq(S)
  <1>1. CASE s = <<>>
    BY <1>1 DEF FlattenSeq
  <1>2. CASE s # <<>>
    <2>1. PICK f \in [1..Len(s) -> Seq(S)] : FlattenSeq(s) = f[Len(s)]
      BY <1>2, FlattenIs
    <2>2. Len(s) \in 1..Len(s)
      BY <1>2, EmptySeq
    <2> QED
      BY <2>1, <2>2
  <1> QED
    BY <1>1, <1>2

\* ... and one more of them comes last.
LEMMA FlattenAppend ==
  ASSUME NEW S, NEW s \in Seq(Seq(S)), NEW x \in Seq(S)
  PROVE  FlattenSeq(Append(s, x)) = FlattenSeq(s) \o x
  <1>1. PICK t \in Seq(Seq(S)) : t = Append(s, x)
    BY AppendProperties
  <1>2. /\ t # <<>> /\ Len(t) = Len(s) + 1 /\ Len(s) \in Nat
        /\ (\A i \in 1..Len(s) : t[i] = s[i]) /\ t[Len(t)] = x
    BY <1>1, AppendProperties, LenProperties
  <1>3. PICK g \in [1..Len(t) -> Seq(S)] : Sums(t, g, Len(t)) /\ FlattenSeq(t) = g[Len(t)]
    BY <1>2, FlattenIs
  <1>4. g[Len(t)] = IF Len(t) = 1 THEN x ELSE g[Len(t) - 1] \o x
    <2>1. Len(t) \in 1..Len(t)
      BY <1>2
    <2>2. \A i \in 1..Len(t) : g[i] = IF i = 1 THEN t[i] ELSE g[i - 1] \o t[i]
      BY <1>3 DEF Sums
    <2> QED
      BY <1>2, <2>1, <2>2
  <1>5. CASE s = <<>>
    <2>1. FlattenSeq(s) = <<>> /\ Len(t) = 1
      BY <1>2, <1>5 DEF FlattenSeq
    <2> QED
      BY <1>1, <1>3, <1>4, <2>1, ConcatEmptySeq
  <1>6. CASE s # <<>>
    <2>1. PICK f \in [1..Len(s) -> Seq(S)] : Sums(s, f, Len(s)) /\ FlattenSeq(s) = f[Len(s)]
      BY <1>6, FlattenIs
    <2>2. Len(s) \in Nat \ {0}
      BY <1>6, EmptySeq
    <2>3. Sums(t, g, Len(s))
      <3>1. 1..Len(s) \subseteq 1..Len(t)
        BY <1>2
      <3>2. \A i \in 1..Len(t) : g[i] = IF i = 1 THEN t[i] ELSE g[i - 1] \o t[i]
        BY <1>3 DEF Sums
      <3>3. \A i \in 1..Len(s) : g[i] = IF i = 1 THEN t[i] ELSE g[i - 1] \o t[i]
        BY <3>1, <3>2
      <3> QED
        BY <3>3 DEF Sums
    <2>4. f[Len(s)] = g[Len(s)]
      <3>1. PICK n : n = Len(s)
        OBVIOUS
      <3>2. n \in Nat \ {0} /\ (\A i \in 1..n : s[i] = t[i]) /\ Sums(s, f, n) /\ Sums(t, g, n)
        BY <3>1, <1>2, <2>1, <2>2, <2>3
      <3>3. f[n] = g[n]
        BY <3>2, SumsUnique
      <3> QED
        BY <3>1, <3>3
    <2>5. Len(t) # 1 /\ Len(t) - 1 = Len(s)
      BY <1>2, <2>2
    <2> QED
      BY <1>1, <1>3, <1>4, <2>1, <2>4, <2>5
  <1> QED
    BY <1>5, <1>6

-----------------------------------------------------------------------------
Byte == 0..255

\* What is held of a stream: its bytes behind base, as far as it was read.
LEMMA Window ==
  ASSUME NEW st \in Seq(Byte), NEW n \in 0..Len(st), NEW base \in 0..n
  PROVE  /\ SubSeq(st, base + 1, n) \in Seq(Byte)
         /\ Len(SubSeq(st, base + 1, n)) = n - base
         /\ \A i \in 1..(n - base) : SubSeq(st, base + 1, n)[i] = st[base + i]
  <1>1. Len(st) \in Nat /\ n \in Nat /\ base \in Nat /\ base =< n /\ n =< Len(st)
    BY LenProperties
  <1>2. \A i \in (base + 1)..n : st[i] \in Byte
    BY <1>1, ElementOfSeq
  <1>3. /\ SubSeq(st, base + 1, n) \in Seq(Byte)
        /\ Len(SubSeq(st, base + 1, n)) = IF base + 1 =< n THEN n - (base + 1) + 1 ELSE 0
        /\ \A i \in 1..(n - (base + 1) + 1) : SubSeq(st, base + 1, n)[i] = st[base + 1 + i - 1]
    BY <1>1, <1>2, SubSeqProperties
  <1>4. n - (base + 1) + 1 = n - base /\ \A i \in 1..(n - base) : base + 1 + i - 1 = base + i
    BY <1>1
  <1> QED
    BY <1>1, <1>3, <1>4

\* A start code has three bytes or four, and they are all there.
LEMMA CodeRange ==
  ASSUME NEW b \in Seq(Byte), NEW i \in Nat
  PROVE  /\ codeAt(b, i) \in {0, 3, 4}
         /\ codeAt(b, i) # 0 => i + codeAt(b, i) - 1 =< Len(b)
  BY LenProperties DEF codeAt

\* The bytes of a start code.
LEMMA CodeBytes ==
  ASSUME NEW b \in Seq(Byte), NEW i \in Nat
  PROVE  /\ codeAt(b, i) = 3 <=> i + 2 =< Len(b) /\ b[i] = 0 /\ b[i + 1] = 0 /\ b[i + 2] = 1
         /\ codeAt(b, i) = 4 <=> i + 3 =< Len(b) /\ b[i] = 0 /\ b[i + 1] = 0 /\ b[i + 2] = 0 /\ b[i + 3] = 1
  BY LenProperties DEF codeAt

\* A start code is seen once all of it was read.
LEMMA CodeSeen ==
  ASSUME NEW st \in Seq(Byte), NEW n \in 0..Len(st), NEW base \in 0..n,
         NEW b \in Seq(Byte), Len(b) = n - base, \A i \in 1..(n - base) : b[i] = st[base + i],
         NEW i \in 1..(n - base)
  PROVE  codeAt(b, i) = IF base + i + codeAt(st, base + i) - 1 =< n THEN codeAt(st, base + i) ELSE 0
  <1>1. Len(st) \in Nat /\ n \in Nat /\ base \in Nat /\ n =< Len(st) /\ i \in Nat \ {0} /\ base + i \in Nat
    BY LenProperties
  <1>0. PICK j \in Nat : j = base + i
    BY <1>1
  <1>2. /\ b[i] = st[j]
        /\ i + 1 =< n - base => b[i + 1] = st[j + 1]
        /\ i + 2 =< n - base => b[i + 2] = st[j + 2]
        /\ i + 3 =< n - base => b[i + 3] = st[j + 3]
    <2>1. \A k \in {0, 1, 2, 3} : i + k =< n - base => b[i + k] = st[base + (i + k)]
      BY <1>1
    <2>2. \A k \in {0, 1, 2, 3} : base + (i + k) = j + k
      BY <1>0, <1>1
    <2> QED
      BY <1>0, <1>1, <2>1, <2>2
  <1>3. /\ i + 2 =< n - base <=> j + 2 =< n
        /\ i + 3 =< n - base <=> j + 3 =< n
    BY <1>0, <1>1
  <1>4. codeAt(b, i) \in {0, 3, 4} /\ codeAt(st, j) \in {0, 3, 4}
    BY <1>1, <1>3, CodeRange
  <1>a. /\ codeAt(b, i) = 3 <=> i + 2 =< Len(b) /\ b[i] = 0 /\ b[i + 1] = 0 /\ b[i + 2] = 1
        /\ codeAt(b, i) = 4 <=> i + 3 =< Len(b) /\ b[i] = 0 /\ b[i + 1] = 0 /\ b[i + 2] = 0 /\ b[i + 3] = 1
    BY <1>1, CodeBytes
  <1>b. /\ codeAt(st, j) = 3 <=> j + 2 =< Len(st) /\ st[j] = 0 /\ st[j + 1] = 0 /\ st[j + 2] = 1
        /\ codeAt(st, j) = 4 <=>
             j + 3 =< Len(st) /\ st[j] = 0 /\ st[j + 1] = 0 /\ st[j + 2] = 0 /\ st[j + 3] = 1
    BY <1>3, CodeBytes
  <1>c. /\ i + 2 =< Len(b) <=> j + 2 =< n
        /\ i + 3 =< Len(b) <=> j + 3 =< n
        /\ j + 2 =< n => j + 2 =< Len(st) /\ i + 1 =< n - base /\ i + 2 =< n - base
        /\ j + 3 =< n => j + 2 =< n /\ j + 3 =< Len(st) /\ i + 3 =< n - base
    BY <1>0, <1>1, <1>3
  <1>5. codeAt(b, i) = 3 <=> codeAt(st, j) = 3 /\ j + 2 =< n
    <2>1. CASE j + 2 =< n
      <3>1. b[i] = st[j] /\ b[i + 1] = st[j + 1] /\ b[i + 2] = st[j + 2]
        BY <2>1, <1>2, <1>c
      <3>2. i + 2 =< Len(b) /\ j + 2 =< Len(st)
        BY <2>1, <1>c
      <3> QED
        BY ONLY <2>1, <3>1, <3>2, <1>a, <1>b
    <2>2. CASE ~(j + 2 =< n)
      BY ONLY <2>2, <1>a, <1>c
    <2> QED
      BY <2>1, <2>2
  <1>6. codeAt(b, i) = 4 <=> codeAt(st, j) = 4 /\ j + 3 =< n
    <2>1. CASE j + 3 =< n
      <3>1. b[i] = st[j] /\ b[i + 1] = st[j + 1] /\ b[i + 2] = st[j + 2] /\ b[i + 3] = st[j + 3]
        BY <2>1, <1>2, <1>c
      <3>2. i + 3 =< Len(b) /\ j + 3 =< Len(st)
        BY <2>1, <1>c
      <3> QED
        BY ONLY <2>1, <3>1, <3>2, <1>a, <1>b
    <2>2. CASE ~(j + 3 =< n)
      BY ONLY <2>2, <1>a, <1>c
    <2> QED
      BY <2>1, <2>2
  <1>7. codeAt(b, i) = IF j + codeAt(st, j) - 1 =< n THEN codeAt(st, j) ELSE 0
    BY <1>0, <1>1, <1>4, <1>5, <1>6
  <1> QED
    BY <1>0, <1>7

\* The boundaries are finitely many places of a stream, each with a start code.
LEMMA BoundaryFacts ==
  ASSUME NEW st \in Seq(Byte)
  PROVE  /\ Boundaries(st) \in SUBSET Nat /\ IsFiniteSet(Boundaries(st))
         /\ \A i \in Boundaries(st) : i \in 1..Len(st) /\ codeAt(st, i) \in {3, 4}
         /\ \A i \in 1..Len(st) : codeAt(st, i) = 4 => i \in Boundaries(st)
         /\ \A i \in 1..Len(st) : codeAt(st, i) = 3 =>
              (i \in Boundaries(st) <=> ~(i > 1 /\ st[i - 1] = 0))
  <1>1. Len(st) \in Nat /\ Boundaries(st) \subseteq 1..Len(st)
    BY LenProperties DEF Boundaries
  <1>2. IsFiniteSet(Boundaries(st))
    <2>1. IsFiniteSet(1..Len(st)) /\ Boundaries(st) \in SUBSET (1..Len(st))
      BY <1>1, FS_Interval
    <2> QED
      BY <2>1, FS_Subset
  <1> QED
    BY <1>1, <1>2 DEF Boundaries

\* Start codes of two units have no byte in common.
LEMMA Apart ==
  ASSUME NEW st \in Seq(Byte), NEW i \in Boundaries(st), NEW j \in Boundaries(st), i < j
  PROVE  i + codeAt(st, i) =< j
  <1>1. Len(st) \in Nat /\ i \in Nat /\ j \in Nat /\ i \in 1..Len(st) /\ j \in 1..Len(st)
    BY LenProperties, BoundaryFacts
  <1>2. /\ st[j] = 0 /\ st[j + 1] = 0
        /\ codeAt(st, j) = 3 => st[j + 2] = 1 /\ st[j - 1] # 0
        /\ codeAt(st, j) = 4 => st[j + 2] = 0
        /\ codeAt(st, j) \in {3, 4}
    BY <1>1, CodeBytes, BoundaryFacts
  <1>3. CASE codeAt(st, i) = 3
    <2>1. st[i] = 0 /\ st[i + 1] = 0 /\ st[i + 2] = 1
      BY <1>1, <1>3, CodeBytes
    <2>2. j # i + 1 /\ j # i + 2
      BY <1>1, <1>2, <2>1
    <2> QED
      BY <1>1, <1>3, <2>2
  <1>4. CASE codeAt(st, i) = 4
    <2>1. st[i] = 0 /\ st[i + 1] = 0 /\ st[i + 2] = 0 /\ st[i + 3] = 1
      BY <1>1, <1>4, CodeBytes
    <2>2. j # i + 1 /\ j # i + 2 /\ j # i + 3
      BY <1>1, <1>2, <2>1
    <2> QED
      BY <1>1, <1>4, <2>2
  <1> QED
    BY <1>3, <1>4, BoundaryFacts

\* Where the loop cuts, if it does: at the next boundary, once its start code
\* was read.
LEMMA NextCode ==
  ASSUME NEW st \in Seq(Byte), NEW n \in 0..Len(st), NEW base \in 0..n,
         NEW b \in Seq(Byte), b = SubSeq(st, base + 1, n),
         base + 1 \in Boundaries(st), codeAt(b, 1) # 0
  PROVE  LET next == indexStartCode(b, codeAt(b, 1))
         IN  /\ next = 0 => \A j \in Boundaries(st) : j > base + 1 => j + codeAt(st, j) - 1 > n
             /\ next # 0 =>
                  /\ next \in 2..(n - base)
                  /\ base + next \in Boundaries(st)
                  /\ base + next + codeAt(st, base + next) - 1 =< n
                  /\ \A j \in Boundaries(st) : ~(base + 1 < j /\ j < base + next)
  <1> DEFINE sc == codeAt(b, 1)
             at == {i \in (sc + 1)..Len(b) : codeAt(b, i) # 0}
  <1>1. /\ Len(st) \in Nat /\ n \in Nat /\ base \in Nat /\ base =< n /\ n =< Len(st)
        /\ Len(b) = n - base /\ \A i \in 1..(n - base) : b[i] = st[base + i]
    BY LenProperties, Window
  <1>2. \A i \in 1..(n - base) :
          codeAt(b, i) = IF base + i + codeAt(st, base + i) - 1 =< n THEN codeAt(st, base + i) ELSE 0
    BY <1>1, CodeSeen
  <1>3. sc \in {3, 4} /\ sc = codeAt(st, base + 1) /\ sc =< n - base
    <2>1. codeAt(b, 1) \in {0, 3, 4} /\ 1 + codeAt(b, 1) - 1 =< Len(b)
      BY CodeRange
    <2>2. 1 \in 1..(n - base)
      BY <1>1, <2>1
    <2> QED
      BY <1>1, <1>2, <2>1, <2>2
  <1>4. \A j \in Boundaries(st) : j > base + 1 /\ j + codeAt(st, j) - 1 =< n => j - base \in at
    <2> SUFFICES ASSUME NEW j \in Boundaries(st), j > base + 1, j + codeAt(st, j) - 1 =< n
                 PROVE  j - base \in at
      OBVIOUS
    <2>1. j \in Nat /\ codeAt(st, j) \in {3, 4} /\ base + 1 + sc =< j
      BY <1>1, <1>3, BoundaryFacts, Apart
    <2>2. PICK i \in Nat : i = j - base
      BY <1>1, <2>1
    <2>3. base + i = j /\ i \in 1..(n - base) /\ i \in (sc + 1)..Len(b)
      BY <1>1, <1>3, <2>1, <2>2
    <2>4. codeAt(b, i) = codeAt(st, j)
      BY <1>2, <2>3
    <2> QED
      BY <2>1, <2>2, <2>3, <2>4
  <1>5. at \in SUBSET Nat
    BY <1>1, <1>3
  <1>6. indexStartCode(b, sc) = IF at = {} THEN 0 ELSE Min(at)
    BY DEF indexStartCode
  <1>7. CASE at = {}
    <2>1. indexStartCode(b, sc) = 0
      BY <1>6, <1>7
    <2>2. \A j \in Boundaries(st) : j > base + 1 => j + codeAt(st, j) - 1 > n
      <3> SUFFICES ASSUME NEW j \in Boundaries(st), j > base + 1
                   PROVE  j + codeAt(st, j) - 1 > n
        OBVIOUS
      <3>1. j \in Nat /\ codeAt(st, j) \in {3, 4}
        BY BoundaryFacts
      <3>2. ~(j + codeAt(st, j) - 1 =< n)
        BY <1>4, <1>7
      <3> QED
        BY <1>1, <3>1, <3>2
    <2> QED
      BY <2>1, <2>2
  <1>8. CASE at # {}
    <2>1. PICK m : m = Min(at)
      OBVIOUS
    <2>2. m \in at /\ \A i \in at : m =< i
      <3> HIDE DEF at
      <3> QED
        BY <1>5, <1>8, <2>1, MinFacts
    <2>3. m \in Nat /\ sc + 1 =< m /\ m =< Len(b) /\ codeAt(b, m) # 0
      BY <1>1, <1>3, <2>2
    <2>4. PICK k \in Nat : k = base + m
      BY <1>1, <2>3
    <2>5. /\ m \in 1..(n - base) /\ m \in 2..(n - base) /\ k \in 1..Len(st)
          /\ codeAt(st, k) = codeAt(b, m) /\ k + codeAt(st, k) - 1 =< n /\ codeAt(st, k) \in {3, 4}
      <3>1. m \in 1..(n - base) /\ m \in 2..(n - base) /\ k \in 1..Len(st)
        BY <1>1, <1>3, <2>3, <2>4
      <3>2. codeAt(st, k) \in {0, 3, 4}
        BY CodeRange
      <3>3. codeAt(b, m) = IF k + codeAt(st, k) - 1 =< n THEN codeAt(st, k) ELSE 0
        BY <1>2, <2>4, <3>1
      <3> QED
        BY <2>3, <3>1, <3>2, <3>3
    <2>6. k \in Boundaries(st)
      <3>1. CASE codeAt(st, k) = 4
        BY <2>5, <3>1, BoundaryFacts
      <3>2. CASE codeAt(st, k) = 3
        <4>1. SUFFICES ASSUME st[k - 1] = 0 PROVE FALSE
          BY <2>5, <3>2, BoundaryFacts
        <4>2. st[k] = 0 /\ st[k + 1] = 0 /\ st[k + 2] = 1 /\ k + 2 =< Len(st)
          BY <3>2, CodeBytes
        <4>3. CASE m = sc + 1
          <5>1. st[base + 1 + sc - 1] = 1
            <6>1. CASE sc = 3
              BY <1>1, <1>3, <6>1, CodeBytes
            <6>2. CASE sc = 4
              BY <1>1, <1>3, <6>2, CodeBytes
            <6> QED
              BY <1>3, <6>1, <6>2
          <5>2. base + 1 + sc - 1 = k - 1
            <6>1. base \in Nat /\ sc \in Nat /\ m = sc + 1 /\ k = base + m
              BY <1>1, <1>3, <2>4, <4>3
            <6> HIDE DEF sc
            <6> QED
              BY ONLY <6>1
          <5> QED
            BY <4>1, <5>1, <5>2
        <4>4. CASE m # sc + 1
          <5>1. PICK p \in Nat : p = k - 1
            BY <2>5
          <5>2. p + 3 =< Len(st) /\ st[p] = 0 /\ st[p + 1] = 0 /\ st[p + 2] = 0 /\ st[p + 3] = 1
            <6>1. p + 1 = k /\ p + 2 = k + 1 /\ p + 3 = k + 2
              BY <5>1
            <6> QED
              BY <4>1, <4>2, <5>1, <6>1
          <5>3. codeAt(st, p) = 4
            BY <5>2, CodeBytes
          <5>4. PICK q \in Nat : q = m - 1
            BY <1>3, <2>3
          <5>5. /\ q \in 1..(n - base) /\ base + q = p /\ p + 3 =< n
                /\ q \in (sc + 1)..Len(b) /\ ~(m =< q)
            BY <1>1, <1>3, <2>3, <2>4, <2>5, <3>2, <4>4, <5>1, <5>4
          <5>6. codeAt(b, q) = 4
            BY <1>2, <5>3, <5>5
          <5>7. q \in at
            BY <5>5, <5>6
          <5> HIDE DEF at
          <5> QED
            BY <2>2, <5>5, <5>7
        <4> QED
          BY <4>3, <4>4
      <3> QED
        BY <2>5, <3>1, <3>2
    <2>7. \A j \in Boundaries(st) : ~(base + 1 < j /\ j < k)
      <3> SUFFICES ASSUME NEW j \in Boundaries(st), base + 1 < j, j < k
                   PROVE  FALSE
        OBVIOUS
      <3>1. j \in Nat /\ codeAt(st, j) \in {3, 4} /\ j + codeAt(st, j) =< k
        BY <2>6, BoundaryFacts, Apart
      <3>2. j - base \in at
        <4>1. j > base + 1 /\ j + codeAt(st, j) - 1 =< n
          BY <1>1, <2>5, <3>1
        <4> HIDE DEF at
        <4> QED
          BY <1>4, <4>1
      <3>3. m =< j - base
        <4> HIDE DEF at
        <4> QED
          BY <2>2, <3>2
      <3> QED
        BY <1>1, <2>3, <2>4, <3>1, <3>3
    <2>8. indexStartCode(b, sc) = m /\ m # 0
      BY <1>6, <1>8, <2>1, <2>5
    <2> HIDE DEF at
    <2> QED
      BY <2>4, <2>5, <2>6, <2>7, <2>8
  <1> QED
    BY <1>7, <1>8

\* One more unit: the boundary behind those up to base is the next in rank.
LEMMA RankNext ==
  ASSUME NEW at \in SUBSET Nat, IsFiniteSet(at), NEW lo \in Nat, NEW i \in at, lo < i,
         NEW hi \in Nat, i =< hi, \A j \in at : j =< hi => j =< lo \/ j = i
  PROVE  Rank(at, hi) = Rank(at, lo) + 1 /\ Rank(at, i) = Rank(at, lo) + 1
  <1> DEFINE R(k) == {j \in at : j =< k}
  <1>1. IsFiniteSet(R(lo))
    <2>1. R(lo) \in SUBSET at
      OBVIOUS
    <2> QED
      BY <2>1, FS_Subset
  <1>2. i \notin R(lo)
    BY SMT
  <1>3. R(hi) = R(lo) \cup {i}
    <2>1. \A j \in at : j =< hi <=> j =< lo \/ j = i
      BY SMT
    <2> QED
      BY <2>1
  <1>4. R(i) = R(lo) \cup {i}
    <2>1. \A j \in at : j =< i <=> j =< lo \/ j = i
      BY SMT
    <2> QED
      BY <2>1
  <1> QED
    BY <1>1, <1>2, <1>3, <1>4, FS_AddElement DEF Rank

\* Later places have as high a number, and later boundaries a higher one.
LEMMA RankMonotone ==
  ASSUME NEW at \in SUBSET Nat, IsFiniteSet(at), NEW i \in Nat, NEW j \in Nat, i =< j
  PROVE  /\ Rank(at, i) \in Nat /\ Rank(at, j) \in Nat /\ Rank(at, i) =< Rank(at, j)
         /\ i \in at => Rank(at, i) # 0
         /\ i < j /\ j \in at => Rank(at, i) < Rank(at, j)
  <1> DEFINE R(k) == {l \in at : l =< k}
  <1>1. R(j) \in SUBSET at /\ R(i) \in SUBSET R(j)
    <2>1. \A l \in at : l =< i => l =< j
      BY SMT
    <2> QED
      BY <2>1
  <1>2. IsFiniteSet(R(j)) /\ IsFiniteSet(R(i))
    BY <1>1, FS_Subset
  <1>3. Cardinality(R(i)) =< Cardinality(R(j)) /\ (Cardinality(R(i)) = Cardinality(R(j)) => R(j) = R(i))
    BY <1>1, <1>2, FS_Subset
  <1>4. Cardinality(R(i)) \in Nat /\ Cardinality(R(j)) \in Nat
    BY <1>2, FS_CardinalityType
  <1>5. i \in at => Cardinality(R(i)) # 0
    <2>1. i \in at => i \in R(i)
      OBVIOUS
    <2> QED
      BY <1>2, <2>1, FS_EmptySet
  <1>6. i < j /\ j \in at => R(i) # R(j)
    <2>1. i < j /\ j \in at => j \in R(j) /\ j \notin R(i)
      OBVIOUS
    <2> QED
      BY <2>1
  <1> HIDE DEF R
  <1>7. i < j /\ j \in at => Cardinality(R(i)) < Cardinality(R(j))
    BY <1>3, <1>4, <1>6
  <1> QED
    BY <1>3, <1>4, <1>5, <1>7 DEF Rank, R

\* The unit at a boundary ends before the next one.
LEMMA UnitAt ==
  ASSUME NEW b \in Seq(Byte), NEW at \in SUBSET (1..Len(b)), NEW i \in at,
         NEW e \in Nat, i < e, e \in at \/ e = Len(b) + 1,
         \A j \in at : ~(i < j /\ j < e)
  PROVE  NALUnit(b, at, i) = SubSeq(b, i, e - 1)
  <1> DEFINE later == {j \in at : j > i} \cup {Len(b) + 1}
  <1>1. Len(b) \in Nat
    BY LenProperties
  <1>2. later \in SUBSET Nat /\ e \in later /\ \A j \in later : e =< j
    <2>1. \A j \in at : j \in Nat /\ j < Len(b) + 1
      BY <1>1
    <2>2. \A j \in at : j > i => e =< j
      <3> SUFFICES ASSUME NEW j \in at, j > i PROVE e =< j
        OBVIOUS
      <3>1. i \in Nat /\ j \in Nat /\ ~(j < e)
        BY <2>1
      <3> QED
        BY <3>1
    <2>3. e =< Len(b) + 1 /\ Len(b) + 1 \in Nat /\ i \in Nat
      BY <1>1, <2>1
    <2> QED
      BY <2>1, <2>2, <2>3
  <1>a. \A x \in Nat : \A y \in Nat : x =< y /\ y =< x => x = y
    OBVIOUS
  <1> HIDE DEF later
  <1>3. Min(later) \in later /\ \A j \in later : Min(later) =< j
    BY <1>2, MinFacts
  <1>4. Min(later) = e
    <2>1. Min(later) \in Nat /\ Min(later) =< e /\ e =< Min(later)
      BY <1>2, <1>3
    <2> QED
      BY <1>a, <2>1
  <1> QED
    BY <1>4 DEF NALUnit, later
-----------------------------------------------------------------------------
(* The inductive invariant of Encoder. *)

\* What the variables of the goroutines may be, apart from what is cut.
EncoderModes ==
  /\ ectx \in BOOLEAN
  /\ tab \in {"none", "open", "closed"}
  /\ attach \in {"idle", "launch", "encode", "live", "failed"}
  /\ poll \in {"none", "capture", "send", "gone"}
  /\ feeder \in {"none", "receive", "write", "gone"}
  /\ ffmpeg \in {"none", "up", "dead"}
  /\ stream \in Streams
  /\ reading \in {"none", "read", "split", "push", "send", "stop", "gone"}
  /\ reading = "gone" => ffmpeg = "dead"

\* ... and what is cut.
CutTypes ==
  /\ rd \in 0..Len(stream)
  /\ buf \in Seq(Byte)
  /\ nals \in Seq(Seq(Byte)) /\ cur \in Seq(Seq(Byte)) /\ au \in Seq(Seq(Byte))
  /\ sent \in Seq(Seq(Seq(Byte)))

\* Before Encode there is no process and no goroutine on its stdout, and after
\* it there is one until frames is closed.
EncoderStage ==
  /\ attach = "live" <=> reading # "none"
  /\ attach = "live" <=> ffmpeg # "none"
  /\ attach = "idle" => ~ectx

\* Every NAL unit cut off so far, and how far the cuts have come.
Units == FlattenSeq(sent) \o au \o cur \o nals
Base  == rd - Len(buf)

\* The units cut off are those of the boundaries up to Base, in order, buf is
\* what was read behind them, and it begins at a boundary.  When the loop is
\* over, no other start code has been read in full.
CutInv ==
  LET at == Boundaries(stream)
  IN  /\ Base \in 0..rd
      /\ buf = SubSeq(stream, Base + 1, rd)
      /\ Base + 1 \in at
      /\ Base > 0 => Base + codeAt(stream, Base + 1) =< rd
      /\ Len(Units) = Rank(at, Base)
      /\ \A i \in at : i =< Base => Units[Rank(at, i)] = NALUnit(stream, at, i)
      /\ \A k \in 1..Len(Units) : \E i \in at : i =< Base /\ Rank(at, i) = k
      /\ reading # "split" =>
           \A j \in at : j > Base + 1 => j + codeAt(stream, j) - 1 > rd

HasVCL(a) == \E i \in DOMAIN a : isVCL(a[i])

\* The access unit being put together is a whole picture so far, or has no
\* slice yet.  Behind another it opens with what starts an access unit.
AuInv ==
  /\ HasVCL(cur) => WholePicture(cur)
  /\ sent # <<>> \/ au # <<>> => cur # <<>> /\ startsNewAU(cur[1])
  /\ au # <<>> => WholePicture(au) /\ reading \in {"send", "stop", "gone"}
  /\ reading = "send" => au # <<>>
  /\ OnePicture

EncoderIInv == EncoderModes /\ EncoderStage /\ CutTypes /\ CutInv /\ AuInv

\* What a sequence of NAL units consists of.
LEMMA ElementsTyped ==
  ASSUME NEW s \in Seq(Seq(Byte))
  PROVE  \A x \in Range(s) : x \in Seq(0..255)
  BY RangeOfSeq DEF Byte

\* All but the four steps that read and cut leave the stream alone.
CuttingStep == (\E n \in 1..Len(stream) : Read(n)) \/ split \/ push \/ Sent

\* ... and the reader is not in the middle of it.
LEMMA OtherSteps ==
  ASSUME EncoderModes, EncoderStage, [EncoderNext]_encoderVars, ~CuttingStep
  PROVE  /\ UNCHANGED <<stream, rd, buf, nals, cur, au, sent>>
         /\ \/ reading' = reading
            \/ reading = "none" /\ reading' = "read"
            \/ reading \in {"read", "send", "stop"} /\ reading' \in {"stop", "gone"}
  <1> USE DEF EncoderModes, EncoderStage, source, cutting, encoderVars
  <1>1. CASE Launched \/ AttachFails \/ CancelFeed \/ TabEnds
    BY <1>1 DEF Launched, AttachFails, CancelFeed, TabEnds
  <1>2. CASE Encode
    BY <1>2 DEF Encode
  <1>3. CASE Capture \/ PollEnds \/ Picture
    BY <1>3 DEF Capture, PollEnds, Picture, PollTo
  <1>4. CASE Fed \/ FeederEnds \/ FfmpegEnds
    BY <1>4 DEF Fed, FeederEnds, FeederTo, FfmpegEnds
  <1>5. CASE ReaderStops \/ ReaderGone
    BY <1>5 DEF ReaderStops, ReaderGone, ReaderTo
  <1>6. CASE UNCHANGED encoderVars
    BY <1>6
  <1> QED
    BY <1>1, <1>2, <1>3, <1>4, <1>5, <1>6 DEF EncoderNext, CuttingStep

\* The two halves make up the type invariant.
LEMMA EncoderTypes ==
  ASSUME EncoderModes, CutTypes
  PROVE  EncoderTypeOK
  <1>1. buf \in Seq(0..255)
    BY DEF CutTypes, Byte
  <1>2. \A s \in Range(nals) : s \in Seq(0..255)
    BY ElementsTyped DEF CutTypes
  <1>3. \A s \in Range(cur) : s \in Seq(0..255)
    BY ElementsTyped DEF CutTypes
  <1>4. \A s \in Range(au) : s \in Seq(0..255)
    BY ElementsTyped DEF CutTypes
  <1>5. \A s \in {buf} \cup Range(nals) \cup Range(cur) \cup Range(au) : s \in Seq(0..255)
    BY <1>1, <1>2, <1>3, <1>4
  <1> QED
    BY <1>5 DEF EncoderTypeOK, EncoderModes, CutTypes, Byte

\* Every step of the goroutines keeps their part of the invariant.
LEMMA EncoderModesStep ==
  ASSUME EncoderModes, EncoderStage, [EncoderNext]_encoderVars
  PROVE  EncoderModes' /\ EncoderStage'
  <1> USE DEF EncoderModes, EncoderStage, source, cutting, encoderVars
  <1>1. CASE Launched
    BY <1>1 DEF Launched
  <1>11. CASE AttachFails
    BY <1>11 DEF AttachFails
  <1>12. CASE CancelFeed
    <2>1. attach # "idle" /\ attach' = attach /\ ectx' \in BOOLEAN
      BY <1>12 DEF CancelFeed
    <2>2. EncoderModes'
      BY <1>12, <2>1 DEF CancelFeed
    <2> QED
      BY <1>12, <2>1, <2>2 DEF CancelFeed
  <1>13. CASE TabEnds
    BY <1>13 DEF TabEnds
  <1>2. CASE Encode
    BY <1>2 DEF Encode
  <1>3. CASE Capture \/ PollEnds \/ Picture
    BY <1>3 DEF Capture, PollEnds, Picture, PollTo
  <1>4. CASE Fed \/ FeederEnds \/ FfmpegEnds
    BY <1>4 DEF Fed, FeederEnds, FeederTo, FfmpegEnds
  <1>5. CASE ReaderStops \/ ReaderGone
    BY <1>5 DEF ReaderStops, ReaderGone, ReaderTo
  <1>6. CASE \E n \in 1..Len(stream) : Read(n)
    BY <1>6 DEF Read, ReaderTo
  <1>7. CASE split
    BY <1>7 DEF split, ReaderTo
  <1>8. CASE push
    BY <1>8 DEF push, ReaderTo
  <1>9. CASE Sent
    BY <1>9 DEF Sent, ReaderTo
  <1>10. CASE UNCHANGED encoderVars
    BY <1>10
  <1> QED
    BY <1>1, <1>2, <1>3, <1>4, <1>5, <1>6, <1>7, <1>8, <1>9, <1>10, <1>11, <1>12, <1>13 DEF EncoderNext

\* What EncoderAssumption says of the stream.
LEMMA StreamFacts ==
  ASSUME EncoderModes
  PROVE  /\ stream \in Seq(Byte) /\ Len(stream) \in Nat /\ WellFormed(stream)
         /\ 1 \in Boundaries(stream) /\ codeAt(stream, 1) \in {3, 4}
  <1>1. stream \in Seq(Byte) /\ WellFormed(stream) /\ codeAt(stream, 1) # 0
    BY EncoderAssumption DEF EncoderModes, WellFormed, Byte, startCodeLen
  <1>2. codeAt(stream, 1) \in {3, 4} /\ Len(stream) \in Nat /\ 1 \in 1..Len(stream)
    BY <1>1, CodeRange, LenProperties
  <1>3. 1 \in Boundaries(stream)
    BY <1>1, <1>2, BoundaryFacts
  <1> QED
    BY <1>1, <1>2, <1>3

\* What was cut off is a sequence of NAL units.
LEMMA UnitsTyped ==
  ASSUME CutTypes
  PROVE  /\ FlattenSeq(sent) \in Seq(Seq(Byte)) /\ Units \in Seq(Seq(Byte))
         /\ FlattenSeq(sent) \o au \in Seq(Seq(Byte)) /\ FlattenSeq(sent) \o au \o cur \in Seq(Seq(Byte))
  BY FlattenType, ConcatProperties DEF CutTypes, Units

\* What was read or handed on changes nothing about the units.
LEMMA CutKept ==
  ASSUME CutInv, UNCHANGED <<stream, rd, buf>>, Units' = Units,
         reading # "split" \/ reading' = "split"
  PROVE  CutInv'
  BY DEF CutInv, Base

\* Read: there is more behind what was held, and no unit is cut yet.
LEMMA CutRead ==
  ASSUME EncoderModes, CutTypes, CutInv, NEW n \in 1..Len(stream), Read(n)
  PROVE  CutTypes' /\ CutInv'
  <1> DEFINE more == SubSeq(stream, rd + 1, rd + n)
  <1>1. /\ stream \in Seq(Byte) /\ Len(stream) \in Nat /\ rd \in Nat /\ n \in Nat /\ Len(buf) \in Nat
        /\ rd =< Len(stream) /\ n =< Len(stream) - rd /\ rd + n \in 0..Len(stream)
        /\ Base \in Nat /\ Base =< rd /\ Base + Len(buf) = rd /\ 1 =< n
    BY StreamFacts, LenProperties DEF CutTypes, CutInv, Base, Read
  <1>2. /\ buf' = buf \o more /\ rd' = rd + n /\ reading' = "split"
        /\ UNCHANGED <<stream, nals, cur, au, sent>>
    BY DEF Read, ReaderTo
  <1>3. more \in Seq(Byte) /\ Len(more) = n
    <2>1. PICK q \in Nat : q = rd + n
      BY <1>1
    <2>2. rd \in 0..q /\ q - rd = n /\ q \in 0..Len(stream)
      BY <1>1, <2>1
    <2>3. SubSeq(stream, rd + 1, q) \in Seq(Byte) /\ Len(SubSeq(stream, rd + 1, q)) = q - rd
      BY <1>1, <2>2, Window
    <2> QED
      BY <2>1, <2>2, <2>3
  <1>4. buf \o more = SubSeq(stream, Base + 1, rd + n)
    <2>1. Base + 1 \in 1..(Len(stream) + 1) /\ rd \in (Base + 1 - 1)..Len(stream) /\ rd + n \in rd..Len(stream)
      BY <1>1
    <2> QED
      BY <1>1, <2>1, ConcatAdjacentSubSeq DEF CutInv
  <1>5. buf' \in Seq(Byte) /\ Len(buf') = Len(buf) + n
    BY <1>2, <1>3, ConcatProperties DEF CutTypes
  <1>6. CutTypes'
    BY <1>1, <1>2, <1>5 DEF CutTypes
  <1>7. Base' = Base /\ Base \in 0..rd'
    BY <1>1, <1>2, <1>5 DEF Base
  <1>8. Units' = Units
    BY <1>2 DEF Units
  <1>9. Base > 0 => Base + codeAt(stream, Base + 1) =< rd + n
    <2>1. codeAt(stream, Base + 1) \in {0, 3, 4}
      BY <1>1, CodeRange
    <2> QED
      BY <1>1, <2>1 DEF CutInv
  <1> QED
    BY <1>2, <1>4, <1>6, <1>7, <1>8, <1>9 DEF CutInv

\* The loop ends: no other start code of what was read is complete.
LEMMA CutOver ==
  ASSUME EncoderModes, CutTypes, CutInv, split, UNCHANGED buf
  PROVE  CutTypes' /\ CutInv'
  <1> DEFINE at == Boundaries(stream)
  <1>1. /\ stream \in Seq(Byte) /\ Len(stream) \in Nat /\ rd \in Nat /\ Len(buf) \in Nat
        /\ Base \in Nat /\ Base =< rd /\ Base + Len(buf) = rd /\ rd =< Len(stream) /\ buf \in Seq(Byte)
    BY StreamFacts, LenProperties DEF CutTypes, CutInv, Base
  <1>2. skipped(buf) = codeAt(buf, 1)
    BY DEF skipped, startCodeLen
  <1>3. /\ reading = "split" /\ UNCHANGED <<stream, rd, cur, au, sent>>
        /\ \/ /\ codeAt(buf, 1) = 0 \/ indexStartCode(buf, codeAt(buf, 1)) = 0
              /\ reading' = "push" /\ nals' = nals
           \/ /\ codeAt(buf, 1) # 0 /\ indexStartCode(buf, codeAt(buf, 1)) # 0
              /\ buf' = SubSeq(buf, indexStartCode(buf, codeAt(buf, 1)), Len(buf))
    BY <1>2 DEF split, ReaderTo
  <1>4. codeAt(buf, 1) # 0 =>
          LET next == indexStartCode(buf, codeAt(buf, 1))
          IN  /\ next = 0 => \A j \in at : j > Base + 1 => j + codeAt(stream, j) - 1 > rd
              /\ next # 0 => next \in 2..(rd - Base)
    BY <1>1, NextCode DEF CutInv, CutTypes
  <1>5. codeAt(buf, 1) # 0 /\ indexStartCode(buf, codeAt(buf, 1)) # 0 => FALSE
    <2> SUFFICES ASSUME codeAt(buf, 1) # 0, indexStartCode(buf, codeAt(buf, 1)) # 0 PROVE FALSE
      OBVIOUS
    <2>1. PICK next : next = indexStartCode(buf, codeAt(buf, 1))
      OBVIOUS
    <2>2. next \in 2..Len(buf) /\ buf = SubSeq(buf, next, Len(buf))
      BY <1>1, <1>3, <1>4, <2>1
    <2>3. \A i \in next..Len(buf) : buf[i] \in Byte
      BY <1>1, <2>2, ElementOfSeq
    <2>4. Len(SubSeq(buf, next, Len(buf))) = IF next =< Len(buf) THEN Len(buf) - next + 1 ELSE 0
      BY <1>1, <2>2, <2>3, SubSeqProperties
    <2> QED
      BY <1>1, <2>2, <2>4
  <1>6. \A j \in at : j > Base + 1 => j + codeAt(stream, j) - 1 > rd
    <2>1. CASE codeAt(buf, 1) # 0
      BY <1>3, <1>4, <1>5, <2>1
    <2>2. CASE codeAt(buf, 1) = 0
      <3> SUFFICES ASSUME NEW j \in at, j > Base + 1 PROVE j + codeAt(stream, j) - 1 > rd
        OBVIOUS
      <3>1. /\ Base + 1 \in at /\ codeAt(stream, Base + 1) \in {3, 4}
            /\ j \in Nat /\ codeAt(stream, j) \in {3, 4} /\ Base + 1 + codeAt(stream, Base + 1) =< j
        BY <1>1, BoundaryFacts, Apart DEF CutInv
      <3>2. Base + 1 + codeAt(stream, Base + 1) - 1 > rd
        <4>1. CASE Len(buf) = 0
          BY <1>1, <3>1, <4>1
        <4>2. CASE Len(buf) # 0
          <5>1. 1 \in 1..(rd - Base) /\ Base \in 0..rd /\ rd \in 0..Len(stream)
            BY <1>1, <4>2
          <5>2. Len(buf) = rd - Base /\ \A i \in 1..(rd - Base) : buf[i] = stream[Base + i]
            BY <1>1, <5>1, Window DEF CutInv
          <5>3. codeAt(buf, 1) =
                  IF Base + 1 + codeAt(stream, Base + 1) - 1 =< rd THEN codeAt(stream, Base + 1) ELSE 0
            BY <1>1, <5>1, <5>2, CodeSeen
          <5> QED
            BY <1>1, <2>2, <3>1, <5>3
        <4> QED
          BY <4>1, <4>2
      <3> QED
        BY <1>1, <3>1, <3>2
    <2> QED
      BY <2>1, <2>2
  <1>7. nals' = nals
    BY <1>3, <1>5
  <1>8. Units' = Units /\ Base' = Base
    BY <1>3, <1>7 DEF Units, Base
  <1>9. CutTypes'
    BY <1>3, <1>7 DEF CutTypes
  <1> QED
    BY <1>3, <1>6, <1>8, <1>9 DEF CutInv

\* The loop cuts off one more unit.
LEMMA CutOff ==
  ASSUME EncoderModes, CutTypes, CutInv, split, buf' # buf
  PROVE  CutTypes' /\ CutInv'
  <1> DEFINE at == Boundaries(stream)
  <1>1. /\ stream \in Seq(Byte) /\ Len(stream) \in Nat /\ rd \in Nat /\ Len(buf) \in Nat
        /\ Base \in Nat /\ Base =< rd /\ Base + Len(buf) = rd /\ rd =< Len(stream) /\ buf \in Seq(Byte)
        /\ Len(buf) = rd - Base
    BY StreamFacts, LenProperties DEF CutTypes, CutInv, Base
  <1>2. skipped(buf) = codeAt(buf, 1)
    BY DEF skipped, startCodeLen
  <1>3. PICK next : next = indexStartCode(buf, codeAt(buf, 1))
    OBVIOUS
  <1>4. /\ UNCHANGED <<stream, rd, cur, au, sent>> /\ reading' = "split"
        /\ codeAt(buf, 1) # 0 /\ next # 0
        /\ nals' = Append(nals, SubSeq(buf, 1, next - 1))
        /\ buf' = SubSeq(buf, next, Len(buf))
    BY <1>2, <1>3 DEF split, ReaderTo
  <1>5. /\ next \in 2..(rd - Base)
        /\ Base + next \in at
        /\ Base + next + codeAt(stream, Base + next) - 1 =< rd
        /\ \A j \in at : ~(Base + 1 < j /\ j < Base + next)
    BY <1>1, <1>3, <1>4, NextCode DEF CutInv, CutTypes
  <1>6. PICK to \in Nat : to = Base + next - 1
    BY <1>1, <1>5
  <1>7. /\ next \in Nat /\ to + 1 = Base + next /\ Base < to /\ to < rd
        /\ Base + 1 \in at /\ to + 1 \in at /\ Base + 1 =< to
        /\ to + 1 + codeAt(stream, to + 1) - 1 =< rd
        /\ \A j \in at : ~(Base + 1 < j /\ j < to + 1)
    BY <1>1, <1>5, <1>6 DEF CutInv
  \* The bytes that were cut, and those that are left.
  <1>8. SubSeq(buf, 1, next - 1) = SubSeq(stream, Base + 1, to) /\ SubSeq(stream, Base + 1, to) \in Seq(Byte)
    <2>1. /\ Base + 1 \in 1..Len(stream) /\ rd \in 1..Len(stream)
          /\ 1 \in 1..(rd - (Base + 1) + 1) /\ next - 1 \in 1..(rd - (Base + 1) + 1)
          /\ Base + 1 + 1 - 1 = Base + 1 /\ Base + 1 + (next - 1) - 1 = to
      BY <1>1, <1>5, <1>6
    <2>2. SubSeq(SubSeq(stream, Base + 1, rd), 1, next - 1) =
            SubSeq(stream, Base + 1 + 1 - 1, Base + 1 + (next - 1) - 1)
      BY <1>1, <2>1, SubSeqOfSubSeq
    <2>3. to \in 0..Len(stream) /\ Base \in 0..to
      BY <1>1, <1>7
    <2>4. SubSeq(stream, Base + 1, to) \in Seq(Byte)
      BY <1>1, <2>3, Window
    <2> QED
      BY <2>1, <2>2, <2>4 DEF CutInv
  <1>9. SubSeq(buf, next, Len(buf)) = SubSeq(stream, to + 1, rd)
    <2>1. /\ Base + 1 \in 1..Len(stream) /\ rd \in 1..Len(stream)
          /\ next \in 1..(rd - (Base + 1) + 1) /\ Len(buf) \in 1..(rd - (Base + 1) + 1)
          /\ Base + 1 + next - 1 = to + 1 /\ Base + 1 + Len(buf) - 1 = rd
      BY <1>1, <1>5, <1>6
    <2>2. SubSeq(SubSeq(stream, Base + 1, rd), next, Len(buf)) =
            SubSeq(stream, Base + 1 + next - 1, Base + 1 + Len(buf) - 1)
      BY <1>1, <2>1, SubSeqOfSubSeq
    <2> QED
      BY <2>1, <2>2 DEF CutInv
  <1>10. buf' \in Seq(Byte) /\ Len(buf') = rd - to /\ Base' = to /\ Base' \in 0..rd'
    <2>1. rd \in 0..Len(stream) /\ to \in 0..rd
      BY <1>1, <1>7
    <2>2. SubSeq(stream, to + 1, rd) \in Seq(Byte) /\ Len(SubSeq(stream, to + 1, rd)) = rd - to
      BY <1>1, <2>1, Window
    <2> QED
      BY <1>1, <1>4, <1>9, <2>1, <2>2 DEF Base
  <1>11. CutTypes'
    <2>1. nals' \in Seq(Seq(Byte))
      BY <1>4, <1>8, AppendProperties DEF CutTypes
    <2> QED
      BY <1>4, <1>10, <2>1 DEF CutTypes
  \* The unit that was cut is the next one of the stream.
  <1>u. PICK u \in Seq(Byte) : u = SubSeq(stream, Base + 1, to)
    BY <1>8
  <1>12. NALUnit(stream, at, Base + 1) = u
    <2>1. at \in SUBSET (1..Len(stream)) /\ to + 1 \in Nat /\ Base + 1 < to + 1 /\ to + 1 - 1 = to
      BY <1>1, <1>7 DEF Boundaries
    <2>2. \A j \in at : ~(Base + 1 < j /\ j < to + 1)
      BY <1>7
    <2>3. PICK e \in Nat : e = to + 1
      BY <2>1
    <2>4. PICK i \in at : i = Base + 1
      BY <1>7
    <2> HIDE DEF at
    <2>5. NALUnit(stream, at, i) = SubSeq(stream, i, e - 1)
      BY <1>1, <1>7, <2>1, <2>2, <2>3, <2>4, UnitAt
    <2> QED
      BY <1>u, <2>1, <2>3, <2>4, <2>5
  <1>13. Units' = Append(Units, u)
    <2>1. Append(nals, u) = nals \o <<u>> /\ <<u>> \in Seq(Seq(Byte))
      BY AppendIsConcat DEF CutTypes
    <2>2. FlattenSeq(sent) \o au \o cur \o (nals \o <<u>>) = Units \o <<u>>
      <3>1. PICK v \in Seq(Seq(Byte)) : v = FlattenSeq(sent) \o au \o cur
        BY UnitsTyped
      <3>2. nals \in Seq(Seq(Byte))
        BY DEF CutTypes
      <3>3. (v \o nals) \o <<u>> = v \o (nals \o <<u>>)
        BY <2>1, <3>2, ConcatAssociative
      <3> QED
        BY <3>1, <3>3 DEF Units
    <2>3. Append(Units, u) = Units \o <<u>>
      BY UnitsTyped, AppendIsConcat
    <2>4. Units' = FlattenSeq(sent) \o au \o cur \o Append(nals, u)
      BY <1>4, <1>8, <1>u DEF Units
    <2> QED
      BY <2>1, <2>2, <2>3, <2>4
  <1>14. PICK n \in Nat : n = Len(Units)
    BY UnitsTyped, LenProperties
  <1>15. /\ Len(Append(Units, u)) = n + 1
         /\ \A k \in 1..n : Append(Units, u)[k] = Units[k]
         /\ Append(Units, u)[n + 1] = u
    BY <1>14, UnitsTyped, AppendProperties
  <1>16. Rank(at, Base) = n /\ Rank(at, to) = n + 1 /\ Rank(at, Base + 1) = n + 1
    <2>1. \A j \in at : j =< to => j =< Base \/ j = Base + 1
      <3> SUFFICES ASSUME NEW j \in at, j =< to PROVE j =< Base \/ j = Base + 1
        OBVIOUS
      <3>1. j \in Nat /\ ~(Base + 1 < j /\ j < to + 1)
        BY <1>1, <1>7, BoundaryFacts
      <3> QED
        BY <1>1, <3>1
    <2>2. at \in SUBSET Nat /\ IsFiniteSet(at) /\ Base < Base + 1
      BY <1>1, BoundaryFacts
    <2>3. Rank(at, Base) = n
      BY <1>14 DEF CutInv
    <2>4. PICK i \in at : i = Base + 1
      BY <1>7
    <2>5. PICK lo \in Nat : lo = Base
      BY <1>1
    <2>6. PICK set : set = at
      OBVIOUS
    <2> HIDE DEF at
    <2>7. Rank(set, to) = Rank(set, lo) + 1 /\ Rank(set, i) = Rank(set, lo) + 1
      BY <1>7, <2>1, <2>2, <2>4, <2>5, <2>6, RankNext
    <2> QED
      BY <2>3, <2>4, <2>5, <2>6, <2>7
  <1>17. \A i \in at : i =< to => Append(Units, u)[Rank(at, i)] = NALUnit(stream, at, i)
    <2> SUFFICES ASSUME NEW i \in at, i =< to
                 PROVE  Append(Units, u)[Rank(at, i)] = NALUnit(stream, at, i)
      OBVIOUS
    <2>1. i \in Nat /\ (i =< Base \/ i = Base + 1)
      <3>1. i \in Nat /\ ~(Base + 1 < i /\ i < to + 1)
        BY <1>1, <1>7, BoundaryFacts
      <3> QED
        BY <1>1, <3>1
    <2>2. CASE i = Base + 1
      BY <1>12, <1>15, <1>16, <2>2
    <2>3. CASE i =< Base
      <3>1. Rank(at, i) \in 1..n
        <4>1. at \in SUBSET Nat /\ IsFiniteSet(at)
          BY <1>1, BoundaryFacts
        <4>2. Rank(at, i) \in Nat /\ Rank(at, i) =< Rank(at, Base) /\ Rank(at, i) # 0
          <5> HIDE DEF at
          <5> QED
            BY <1>1, <2>1, <2>3, <4>1, RankMonotone
        <4> QED
          BY <1>16, <4>2
      <3>2. Units[Rank(at, i)] = NALUnit(stream, at, i)
        BY <2>3 DEF CutInv
      <3> QED
        BY <1>15, <3>1, <3>2
    <2> QED
      BY <2>1, <2>2, <2>3
  <1>18. \A k \in 1..(n + 1) : \E i \in at : i =< to /\ Rank(at, i) = k
    <2> SUFFICES ASSUME NEW k \in 1..(n + 1) PROVE \E i \in at : i =< to /\ Rank(at, i) = k
      OBVIOUS
    <2>1. CASE k = n + 1
      BY <1>7, <1>16, <2>1
    <2>2. CASE k # n + 1
      <3>1. k \in 1..Len(Units)
        BY <1>14, <2>2
      <3>2. PICK i \in at : i =< Base /\ Rank(at, i) = k
        BY <3>1 DEF CutInv
      <3>3. i \in Nat /\ i =< to
        BY <1>1, <1>7, <3>2, BoundaryFacts
      <3> QED
        BY <3>2, <3>3
    <2> QED
      BY <2>1, <2>2
  <1>19. to + codeAt(stream, to + 1) =< rd
    <2>1. codeAt(stream, to + 1) \in {3, 4}
      BY <1>1, <1>7, BoundaryFacts
    <2> QED
      BY <1>1, <1>7, <2>1
  <1>20. Boundaries(stream') = at /\ stream' = stream /\ rd' = rd /\ reading' = "split"
    BY <1>4
  <1> QED
    BY <1>4, <1>7, <1>9, <1>10, <1>11, <1>13, <1>14, <1>15, <1>16, <1>17, <1>18, <1>19, <1>20 DEF CutInv

\* What push does with the unit at the head.
PushedOn == cur' = Append(cur, Head(nals)) /\ au' = au /\ reading' = "push"
Flushed  == au' = cur /\ cur' = <<Head(nals)>> /\ reading' = "send"

\* push, by its outcomes.
LEMMA PushIs ==
  ASSUME push
  PROVE  /\ reading = "push" /\ UNCHANGED <<stream, rd, buf, sent>>
         /\ nals = <<>> => UNCHANGED <<nals, cur, au>> /\ reading' = "read"
         /\ nals # <<>> =>
              /\ nals' = Tail(nals)
              /\ IF HasVCL(cur) /\ startsNewAU(Head(nals)) THEN Flushed ELSE PushedOn
  <1>1. CASE nals = <<>>
    BY <1>1 DEF push, ReaderTo
  <1>2. CASE nals # <<>>
    BY <1>2 DEF push, ReaderTo, HasVCL, Flushed, PushedOn
  <1> QED
    BY <1>1, <1>2

\* A sequence is its head, then its tail.
LEMMA HeadFirst ==
  ASSUME NEW S, NEW ns \in Seq(S), ns # <<>>
  PROVE  /\ Head(ns) \in S /\ Tail(ns) \in Seq(S) /\ <<Head(ns)>> \in Seq(S)
         /\ ns = <<Head(ns)>> \o Tail(ns)
  <1>1. Head(ns) \in S /\ Tail(ns) \in Seq(S) /\ Head(ns) = ns[1]
    BY HeadTailProperties
  <1>2. <<Head(ns)>> \in Seq(S)
    BY <1>1
  <1>3. Len(ns) \in 1..Len(ns) /\ 1 \in 1..Len(ns)
    BY EmptySeq
  <1>4. SubSeq(ns, 1, Len(ns)) = <<ns[1]>> \o SubSeq(ns, 1 + 1, Len(ns))
    BY <1>3, SubSeqRecursiveFirst
  <1> QED
    BY <1>1, <1>2, <1>3, <1>4, SubSeqFull, TailIsSubSeq

\* Which parts are put together first makes no difference.
LEMMA Associative ==
  ASSUME NEW S, NEW s \in Seq(S), NEW t \in Seq(S), NEW u \in Seq(S)
  PROVE  s \o (t \o u) = (s \o t) \o u
  BY ConcatAssociative

\* The parts the units are spread over, put together one way or another.
LEMMA Regroup ==
  ASSUME NEW S, NEW f \in Seq(S), NEW c \in Seq(S), NEW ns \in Seq(S), ns # <<>>
  PROVE  /\ (f \o c) \o ns = ((f \o c) \o <<Head(ns)>>) \o Tail(ns)
         /\ (f \o c) \o ns = (f \o Append(c, Head(ns))) \o Tail(ns)
  <1>1. /\ Head(ns) \in S /\ <<Head(ns)>> \in Seq(S) /\ Tail(ns) \in Seq(S)
        /\ ns = <<Head(ns)>> \o Tail(ns)
    BY HeadFirst
  <1>2. f \o c \in Seq(S)
    BY ConcatProperties
  <1>3. (f \o c) \o (<<Head(ns)>> \o Tail(ns)) = ((f \o c) \o <<Head(ns)>>) \o Tail(ns)
    BY ONLY <1>1, <1>2, Associative
  <1>4. f \o (c \o <<Head(ns)>>) = (f \o c) \o <<Head(ns)>>
    BY ONLY <1>1, f \in Seq(S), c \in Seq(S), Associative
  <1>5. Append(c, Head(ns)) = c \o <<Head(ns)>>
    BY <1>1, AppendIsConcat
  <1> QED
    BY ONLY <1>1, <1>3, <1>4, <1>5, Zenon

\* push: the unit at the head moves into cur, or cur into au before it.
LEMMA CutPush ==
  ASSUME EncoderModes, CutTypes, CutInv, AuInv, push
  PROVE  CutTypes' /\ CutInv'
  <1>1. au = <<>>
    BY PushIs DEF AuInv
  <1>2. PICK F \in Seq(Seq(Byte)) : F = FlattenSeq(sent)
    BY UnitsTyped
  <1>3. /\ nals \in Seq(Seq(Byte)) /\ cur \in Seq(Seq(Byte)) /\ au \in Seq(Seq(Byte))
        /\ F \o au = F
    BY <1>1, ConcatEmptySeq DEF CutTypes
  <1>4. CASE nals = <<>>
    <2>1. UNCHANGED <<stream, rd, buf, sent, nals, cur, au>> /\ reading = "push"
      BY <1>4, PushIs
    <2>2. Units' = Units
      BY <2>1 DEF Units
    <2>3. CutTypes'
      BY <2>1 DEF CutTypes
    <2> QED
      BY <2>1, <2>2, <2>3, CutKept
  <1>5. CASE nals # <<>>
    <2>1. Head(nals) \in Seq(Byte) /\ Tail(nals) \in Seq(Seq(Byte))
      BY <1>3, <1>5, HeadTailProperties
    <2>2. UNCHANGED <<stream, rd, buf, sent>> /\ nals' = Tail(nals) /\ reading = "push"
      BY <1>5, PushIs
    <2>3. Flushed \/ PushedOn
      BY <1>5, PushIs
    <2>4. cur' \in Seq(Seq(Byte)) /\ au' \in Seq(Seq(Byte))
      <3>1. CASE Flushed
        BY <1>3, <2>1, <3>1 DEF Flushed
      <3>2. CASE PushedOn
        BY <1>3, <2>1, <3>2, AppendProperties DEF PushedOn
      <3> QED
        BY <2>3, <3>1, <3>2
    <2>5. CutTypes'
      BY <2>1, <2>2, <2>4 DEF CutTypes
    <2>6. /\ (F \o cur) \o nals = ((F \o cur) \o <<Head(nals)>>) \o Tail(nals)
          /\ (F \o cur) \o nals = (F \o Append(cur, Head(nals))) \o Tail(nals)
      <3>1. PICK c \in Seq(Seq(Byte)) : c = cur
        BY <1>3
      <3>2. PICK ns \in Seq(Seq(Byte)) : ns = nals
        BY <1>3
      <3>3. ns # <<>>
        BY <1>5, <3>2
      <3>4. (F \o c) \o ns = ((F \o c) \o <<Head(ns)>>) \o Tail(ns)
        BY ONLY <3>3, Regroup
      <3>5. (F \o c) \o ns = (F \o Append(c, Head(ns))) \o Tail(ns)
        BY ONLY <3>3, Regroup
      <3> QED
        BY <3>1, <3>2, <3>4, <3>5
    <2>7. Units = (F \o cur) \o nals
      BY <1>2, <1>3 DEF Units
    <2>8. Units' = ((F \o au') \o cur') \o Tail(nals)
      BY <1>2, <2>2 DEF Units
    <2>9. Units' = Units
      <3>1. CASE Flushed
        BY <2>6, <2>7, <2>8, <3>1 DEF Flushed
      <3>2. CASE PushedOn
        BY <1>3, <2>6, <2>7, <2>8, <3>2 DEF PushedOn
      <3> QED
        BY <2>3, <3>1, <3>2
    <2> QED
      BY <2>2, <2>5, <2>9, CutKept
  <1> QED
    BY <1>4, <1>5

\* Sent: au moves into sent.
LEMMA CutSent ==
  ASSUME EncoderModes, CutTypes, CutInv, Sent
  PROVE  CutTypes' /\ CutInv'
  <1>1. /\ reading = "send" /\ UNCHANGED <<stream, rd, buf, nals, cur>>
        /\ sent' = Append(sent, au) /\ au' = <<>>
    BY DEF Sent, ReaderTo
  <1>2. sent \in Seq(Seq(Seq(Byte))) /\ au \in Seq(Seq(Byte))
    BY DEF CutTypes
  <1>3. sent' \in Seq(Seq(Seq(Byte))) /\ au' \in Seq(Seq(Byte))
    BY <1>1, <1>2, AppendProperties
  <1>4. CutTypes'
    BY <1>1, <1>3 DEF CutTypes
  <1>5. FlattenSeq(sent') = FlattenSeq(sent) \o au
    BY <1>1, <1>2, FlattenAppend
  <1>6. FlattenSeq(sent') \o <<>> = FlattenSeq(sent) \o au
    BY <1>5, UnitsTyped, ConcatEmptySeq
  <1>7. Units' = Units
    BY <1>1, <1>6 DEF Units
  <1> QED
    BY <1>1, <1>4, <1>7, CutKept

\* The other steps touch nothing of it.
LEMMA CutOther ==
  ASSUME EncoderModes, EncoderStage, CutTypes, CutInv, [EncoderNext]_encoderVars, ~CuttingStep
  PROVE  CutTypes' /\ CutInv'
  <1>1. UNCHANGED <<stream, rd, buf, nals, cur, au, sent>> /\ (reading # "split" \/ reading' = "split")
    BY OtherSteps
  <1>2. Units' = Units
    BY <1>1 DEF Units
  <1>3. CutTypes'
    BY <1>1 DEF CutTypes
  <1> QED
    BY <1>1, <1>2, <1>3, CutKept

\* Every step keeps what was cut off in order.
LEMMA CutStep ==
  ASSUME EncoderModes, EncoderStage, CutTypes, CutInv, AuInv, [EncoderNext]_encoderVars
  PROVE  CutTypes' /\ CutInv'
  <1>1. CASE \E n \in 1..Len(stream) : Read(n)
    BY <1>1, CutRead
  <1>2. CASE split
    <2>1. CASE buf' = buf
      BY <1>2, <2>1, CutOver
    <2>2. CASE buf' # buf
      BY <1>2, <2>2, CutOff
    <2> QED
      BY <2>1, <2>2
  <1>3. CASE push
    BY <1>3, CutPush
  <1>4. CASE Sent
    BY <1>4, CutSent
  <1>5. CASE ~CuttingStep
    BY <1>5, CutOther
  <1> QED
    BY <1>1, <1>2, <1>3, <1>4, <1>5 DEF CuttingStep

\* Where the parts of a sequence are in it.
LEMMA Places ==
  ASSUME NEW S, NEW f \in Seq(S), NEW c \in Seq(S), NEW ns \in Seq(S), ns # <<>>
  PROVE  /\ Len(f) \in Nat /\ Len(c) \in Nat
         /\ Len(f) + Len(c) + 1 \in 1..Len((f \o c) \o ns)
         /\ ((f \o c) \o ns)[Len(f) + Len(c) + 1] = Head(ns)
         /\ \A m \in 1..Len(c) : ((f \o c) \o ns)[Len(f) + m] = c[m]
  <1>1. PICK l \in Nat : l = Len(f)
    BY LenProperties
  <1>2. PICK d \in Nat : d = Len(c)
    BY LenProperties
  <1>3. PICK e \in Nat \ {0} : e = Len(ns)
    BY EmptySeq
  <1>4. PICK fc \in Seq(S) : fc = f \o c
    BY ConcatProperties
  <1>5. Len(fc) = l + d /\ \A i \in 1..(l + d) : fc[i] = IF i =< l THEN f[i] ELSE c[i - l]
    BY <1>1, <1>2, <1>4, ConcatProperties
  <1>6. PICK u \in Seq(S) : u = fc \o ns
    BY ConcatProperties
  <1>7. Len(u) = l + d + e /\ \A i \in 1..(l + d + e) : u[i] = IF i =< l + d THEN fc[i] ELSE ns[i - (l + d)]
    <2>1. PICK n \in Nat : n = l + d
      OBVIOUS
    <2>2. Len(fc) = n
      BY <1>5, <2>1
    <2>3. Len(u) = n + e /\ \A i \in 1..(n + e) : u[i] = IF i =< n THEN fc[i] ELSE ns[i - n]
      BY ONLY <1>3, <1>6, <2>2, fc \in Seq(S), ns \in Seq(S), ConcatProperties
    <2> QED
      BY <2>1, <2>3
  <1>8. l + d + 1 \in 1..(l + d + e) /\ ~(l + d + 1 =< l + d) /\ l + d + 1 - (l + d) = 1
    BY <1>3
  <1>9. u[l + d + 1] = ns[1] /\ Head(ns) = ns[1]
    BY <1>7, <1>8, HeadTailProperties
  <1>10. \A m \in 1..d : l + m \in 1..(l + d) /\ l + m \in 1..(l + d + e) /\ l + m =< l + d /\ ~(l + m =< l) /\ l + m - l = m
    BY <1>3
  <1>11. \A m \in 1..d : u[l + m] = c[m]
    <2> SUFFICES ASSUME NEW m \in 1..d PROVE u[l + m] = c[m]
      OBVIOUS
    <2>1. PICK i \in Nat : i = l + m
      OBVIOUS
    <2>2. i \in 1..(l + d) /\ i \in 1..(l + d + e) /\ i =< l + d /\ ~(i =< l) /\ i - l = m
      BY <1>10, <2>1
    <2>3. u[i] = fc[i] /\ fc[i] = c[m]
      BY <1>5, <1>7, <2>2
    <2> QED
      BY <2>1, <2>3
  <1> QED
    BY <1>1, <1>2, <1>4, <1>6, <1>7, <1>8, <1>9, <1>11

\* The boundaries are numbered in the order of their places.
LEMMA RankOrder ==
  ASSUME NEW st \in Seq(Byte), NEW i \in Boundaries(st), NEW j \in Boundaries(st)
  PROVE  /\ Rank(Boundaries(st), i) \in Nat /\ Rank(Boundaries(st), j) \in Nat
         /\ Rank(Boundaries(st), i) < Rank(Boundaries(st), j) <=> i < j
         /\ Rank(Boundaries(st), i) # 0
  <1>1. Len(st) \in Nat /\ Boundaries(st) \in SUBSET (1..Len(st))
    BY LenProperties DEF Boundaries
  <1>2. Boundaries(st) \in SUBSET Nat /\ IsFiniteSet(Boundaries(st))
    BY <1>1, BoundaryFacts
  <1>3. i \in Nat /\ j \in Nat
    BY <1>2
  <1>4. PICK r : r = Rank(Boundaries(st), i)
    OBVIOUS
  <1>5. PICK t : t = Rank(Boundaries(st), j)
    OBVIOUS
  <1>6. CASE i =< j
    <2>1. r \in Nat /\ t \in Nat /\ r =< t /\ r # 0 /\ (i < j => r < t)
      BY <1>2, <1>3, <1>4, <1>5, <1>6, RankMonotone
    <2>2. i = j => r = t
      BY <1>4, <1>5
    <2> QED
      BY <1>3, <1>4, <1>5, <1>6, <2>1, <2>2
  <1>7. CASE ~(i =< j)
    <2>1. j =< i /\ j < i
      BY <1>3, <1>7
    <2>2. r \in Nat /\ t \in Nat /\ t < r /\ t # 0
      BY <1>2, <1>3, <1>4, <1>5, <2>1, RankMonotone
    <2> QED
      BY <1>3, <1>4, <1>5, <2>1, <2>2
  <1> QED
    BY <1>6, <1>7

\* A slice that continues a picture finds its beginning in cur: nothing that
\* starts an access unit came in between.
LEMMA HeadFits ==
  ASSUME EncoderModes, CutTypes, CutInv, au = <<>>, nals # <<>>,
         sent # <<>> => cur # <<>> /\ startsNewAU(cur[1]),
         isVCL(Head(nals))
  PROVE  /\ startCodeLen(Head(nals)) + 1 < Len(Head(nals))
         /\ ~FirstSlice(Head(nals)) => HasVCL(cur)
  <1> DEFINE at == Boundaries(stream)
             R(i) == Rank(at, i)
             unit(i) == NALUnit(stream, at, i)
  <1>1. PICK F \in Seq(Seq(Byte)) : F = FlattenSeq(sent)
    BY UnitsTyped
  <1>2. cur \in Seq(Seq(Byte)) /\ nals \in Seq(Seq(Byte)) /\ stream \in Seq(Byte) /\ WellFormed(stream)
    BY StreamFacts DEF CutTypes
  <1>3. Units = (F \o cur) \o nals
    BY <1>1, ConcatEmptySeq DEF Units
  <1>4. PICK l \in Nat : l = Len(F)
    BY LenProperties
  <1>5. PICK d \in Nat : d = Len(cur)
    BY <1>2, LenProperties
  <1>6. PICK k \in Nat : k = l + d + 1
    OBVIOUS
  <1>7. PICK U : U = Units
    OBVIOUS
  <1>8. k \in 1..Len(U) /\ U[k] = Head(nals) /\ \A m \in 1..d : U[l + m] = cur[m]
    BY <1>2, <1>3, <1>4, <1>5, <1>6, <1>7, Places
  <1>9. /\ \A i \in at : i =< Base => U[R(i)] = unit(i)
        /\ \A p \in 1..Len(U) : \E i \in at : i =< Base /\ R(i) = p
        /\ Len(U) = Rank(at, Base) /\ Base \in Nat
    BY <1>7 DEF CutInv, CutTypes
  <1>10. at \in SUBSET Nat
    BY <1>2, LenProperties DEF Boundaries
  <1>11. \A i, j \in at : R(i) \in Nat /\ R(j) \in Nat /\ R(i) # 0 /\ (R(i) < R(j) <=> i < j)
    BY <1>2, RankOrder
  <1>12. \A i \in at : isVCL(unit(i)) =>
           /\ startCodeLen(unit(i)) + 1 < Len(unit(i))
           /\ ~FirstSlice(unit(i)) =>
                \E j \in at :
                  /\ j < i /\ isVCL(unit(j))
                  /\ \A x \in at : j < x /\ x < i => nalType(unit(x)) \notin 6..9
    BY <1>2 DEF WellFormed
  <1> HIDE DEF at, R, unit
  <1>13. PICK i \in at : i =< Base /\ R(i) = k
    BY <1>8, <1>9
  <1>14. unit(i) = Head(nals)
    BY <1>8, <1>9, <1>13
  <1>15. startCodeLen(Head(nals)) + 1 < Len(Head(nals))
    BY <1>12, <1>14
  <1>16. ASSUME ~FirstSlice(Head(nals)) PROVE HasVCL(cur)
    <2>1. PICK j \in at : j < i /\ isVCL(unit(j)) /\ \A x \in at : j < x /\ x < i => nalType(unit(x)) \notin 6..9
      BY <1>12, <1>14, <1>16
    <2>2. PICK q \in Nat : q = R(j)
      BY <1>11
    <2>3. q < k /\ q # 0 /\ j =< Base
      BY <1>9, <1>10, <1>11, <1>13, <2>1, <2>2
    <2>4. U[q] = unit(j)
      BY <1>9, <2>2, <2>3
    <2>5. CASE l < q
      <3>1. PICK m \in 1..d : q = l + m
        <4>1. q - l \in 1..d /\ q = l + (q - l)
          BY <1>6, <2>3, <2>5
        <4> QED
          BY <4>1
      <3>2. cur[m] = unit(j) /\ m \in DOMAIN cur
        <4>1. cur[m] = U[l + m]
          BY <1>8
        <4> QED
          BY <1>2, <1>5, <2>4, <3>1, <4>1, LenProperties
      <3> QED
        BY <2>1, <3>2 DEF HasVCL
    <2>6. CASE ~(l < q)
      <3>1. sent # <<>>
        <4>1. sent = <<>> => F = <<>>
          BY <1>1 DEF FlattenSeq
        <4>2. l # 0
          BY <2>3, <2>6
        <4>3. F = <<>> => Len(F) = 0
          BY EmptySeq
        <4> QED
          BY <1>4, <4>1, <4>2, <4>3
      <3>2. cur # <<>> /\ startsNewAU(cur[1])
        BY <3>1
      <3>3. 1 \in 1..d /\ 1 \in DOMAIN cur
        BY <1>2, <1>5, <3>2, EmptySeq, LenProperties
      <3>4. PICK p \in Nat : p = l + 1
        OBVIOUS
      <3>5. p \in 1..Len(U) /\ q < p /\ p < k /\ U[p] = cur[1]
        BY <1>6, <1>8, <2>6, <3>3, <3>4
      <3>6. PICK x \in at : x =< Base /\ R(x) = p
        BY <1>9, <3>5
      <3>7. unit(x) = cur[1]
        BY <1>9, <3>5, <3>6
      <3>8. j < x /\ x < i
        BY <1>11, <1>13, <2>2, <3>5, <3>6
      <3>9. nalType(cur[1]) \notin 6..9
        BY <2>1, <3>7, <3>8
      <3>10. isVCL(cur[1])
        BY <3>2, <3>9 DEF startsNewAU
      <3> QED
        BY <3>3, <3>10 DEF HasVCL
    <2> QED
      BY <2>5, <2>6
  <1> QED
    BY <1>15, <1>16

\* What is handed on changes nothing about the access units.
LEMMA AuKept ==
  ASSUME AuInv, UNCHANGED <<cur, au, sent>>,
         au # <<>> => reading' \in {"send", "stop", "gone"},
         reading' = "send" => au # <<>>
  PROVE  AuInv'
  BY DEF AuInv, OnePicture

\* A slice ends what a picture may have before it, and begins it.
LEMMA WholeGrows ==
  ASSUME NEW c \in Seq(Seq(Byte)), NEW h \in Seq(Byte),
         HasVCL(c) => WholePicture(c) /\ ~startsNewAU(h),
         isVCL(h) /\ ~FirstSlice(h) => HasVCL(c)
  PROVE  HasVCL(Append(c, h)) => WholePicture(Append(c, h))
  <1>1. PICK d \in Nat : d = Len(c)
    BY LenProperties
  <1>2. PICK a : a = Append(c, h)
    OBVIOUS
  <1>3. /\ a \in Seq(Seq(Byte)) /\ Len(a) = d + 1 /\ a[d + 1] = h
        /\ \A i \in 1..d : a[i] = c[i]
    BY <1>1, <1>2, AppendProperties
  <1>4. DOMAIN a = 1..(d + 1) /\ DOMAIN c = 1..d
    BY <1>1, <1>3, LenProperties
  <1>5. CASE HasVCL(c)
    <2>1. PICK f \in 1..d :
            /\ FirstSlice(c[f])
            /\ \A i \in 1..(f - 1) : ~isVCL(c[i])
            /\ \A i \in (f + 1)..d : ~FirstSlice(c[i]) /\ nalType(c[i]) \notin 6..9
      BY <1>1, <1>4, <1>5 DEF WholePicture
    <2>2. f \in DOMAIN a /\ FirstSlice(a[f])
      BY <1>3, <1>4, <2>1
    <2>3. \A i \in 1..(f - 1) : ~isVCL(a[i])
      <3>1. \A i \in 1..(f - 1) : i \in 1..d
        OBVIOUS
      <3> QED
        BY <1>3, <2>1, <3>1
    <2>4. ~FirstSlice(h) /\ nalType(h) \notin 6..9
      BY <1>5 DEF startsNewAU, vclStartsPicture, FirstSlice
    <2>5. \A i \in (f + 1)..(d + 1) : ~FirstSlice(a[i]) /\ nalType(a[i]) \notin 6..9
      <3> SUFFICES ASSUME NEW i \in (f + 1)..(d + 1)
                   PROVE  ~FirstSlice(a[i]) /\ nalType(a[i]) \notin 6..9
        OBVIOUS
      <3>1. CASE i = d + 1
        BY <1>3, <2>4, <3>1
      <3>2. CASE i # d + 1
        <4>1. i \in (f + 1)..d /\ i \in 1..d
          BY <3>2
        <4> QED
          BY <1>3, <2>1, <4>1
      <3> QED
        BY <3>1, <3>2
    <2> QED
      BY <1>2, <1>3, <2>2, <2>3, <2>5 DEF WholePicture
  <1>6. CASE ~HasVCL(c)
    <2>1. \A i \in 1..d : ~isVCL(a[i])
      BY <1>3, <1>4, <1>6 DEF HasVCL
    <2>2. ASSUME isVCL(h) PROVE WholePicture(a)
      <3>1. PICK f \in 1..(d + 1) : f = d + 1
        OBVIOUS
      <3>2. f \in DOMAIN a /\ FirstSlice(a[f])
        BY <1>3, <1>4, <1>6, <2>2, <3>1
      <3>3. \A i \in 1..(f - 1) : ~isVCL(a[i])
        BY <2>1, <3>1
      <3>4. (f + 1)..Len(a) = {}
        BY <1>3, <3>1
      <3> QED
        BY <3>2, <3>3, <3>4 DEF WholePicture
    <2>3. ASSUME ~isVCL(h) PROVE ~HasVCL(a)
      <3>1. \A i \in 1..(d + 1) : i \in 1..d \/ i = d + 1
        OBVIOUS
      <3> QED
        BY <1>3, <1>4, <2>1, <2>3, <3>1 DEF HasVCL
    <2> QED
      BY <1>2, <2>2, <2>3
  <1> QED
    BY <1>5, <1>6

\* A first slice, alone or not yet followed, is a whole picture.
LEMMA WholeBegins ==
  ASSUME NEW h \in Seq(Byte), isVCL(h) => FirstSlice(h)
  PROVE  HasVCL(<<h>>) => WholePicture(<<h>>)
  <1>1. PICK e \in Seq(Seq(Byte)) : e = <<>>
    BY EmptySeq
  <1>2. ~HasVCL(e)
    BY <1>1 DEF HasVCL
  <1>3. HasVCL(Append(e, h)) => WholePicture(Append(e, h))
    BY <1>2, WholeGrows
  <1>4. Append(e, h) = <<h>>
    BY <1>1
  <1> QED
    BY <1>3, <1>4

\* push: whatever opens or continues an access unit, it stays whole.
LEMMA AuPush ==
  ASSUME EncoderModes, CutTypes, CutInv, AuInv, push
  PROVE  AuInv'
  <1>1. reading = "push" /\ au = <<>> /\ sent' = sent
    BY PushIs DEF AuInv
  <1>2. CASE nals = <<>>
    <2>1. UNCHANGED <<cur, au, sent>> /\ reading' = "read"
      BY <1>2, PushIs
    <2> QED
      BY <1>1, <2>1, AuKept
  <1>3. CASE nals # <<>>
    <2>1. PICK h \in Seq(Byte) : h = Head(nals)
      BY <1>3, HeadTailProperties DEF CutTypes
    <2>2. cur \in Seq(Seq(Byte)) /\ (sent # <<>> => cur # <<>> /\ startsNewAU(cur[1]))
      BY DEF CutTypes, AuInv
    <2>3. isVCL(h) => startCodeLen(h) + 1 < Len(h) /\ (~FirstSlice(h) => HasVCL(cur))
      BY <1>1, <1>3, <2>1, <2>2, HeadFits
    <2>4. OnePicture'
      BY <1>1 DEF AuInv, OnePicture
    <2>5. CASE HasVCL(cur) /\ startsNewAU(h)
      <3>1. Flushed
        BY <1>3, <2>1, <2>5, PushIs
      <3>2. isVCL(h) => FirstSlice(h)
        <4> SUFFICES ASSUME isVCL(h) PROVE FirstSlice(h)
          OBVIOUS
        <4>1. vclStartsPicture(h)
          BY <2>5 DEF startsNewAU, isVCL
        <4>2. startCodeLen(h) # 0
          BY DEF isVCL, nalType
        <4>3. startCodeLen(h) + 1 < Len(h) /\ Len(h) \in Nat /\ startCodeLen(h) \in Nat
          BY <2>3, LenProperties, CodeRange DEF startCodeLen
        <4>4. ~(startCodeLen(h) + 1 >= Len(h))
          BY <4>3
        <4> QED
          BY <4>1, <4>2, <4>4 DEF vclStartsPicture, FirstSlice
      <3>3. HasVCL(<<h>>) => WholePicture(<<h>>)
        BY <3>2, WholeBegins
      <3>4. cur' = <<h>> /\ au' = cur /\ reading' = "send"
        BY <2>1, <3>1 DEF Flushed
      <3>5. HasVCL(cur)' => WholePicture(cur)'
        BY <3>3, <3>4
      <3>6. cur' # <<>> /\ cur'[1] = h
        BY <3>4
      <3>7. WholePicture(cur) /\ cur # <<>>
        <4>1. cur = <<>> => ~HasVCL(cur)
          BY DEF HasVCL
        <4> QED
          BY <2>5, <4>1 DEF AuInv
      <3> QED
        BY <2>4, <2>5, <3>4, <3>5, <3>6, <3>7 DEF AuInv
    <2>6. CASE ~(HasVCL(cur) /\ startsNewAU(h))
      <3>1. PushedOn
        BY <1>3, <2>1, <2>6, PushIs
      <3>2. HasVCL(Append(cur, h)) => WholePicture(Append(cur, h))
        BY <2>2, <2>3, <2>6, WholeGrows DEF AuInv
      <3>3. cur' = Append(cur, h) /\ au' = <<>> /\ reading' = "push"
        BY <1>1, <2>1, <3>1 DEF PushedOn
      <3>4. HasVCL(cur)' => WholePicture(cur)'
        BY <3>2, <3>3
      <3>5. cur # <<>> => cur' # <<>> /\ cur'[1] = cur[1]
        <4>1. cur # <<>> => 1 \in 1..Len(cur)
          BY <2>2, EmptySeq
        <4> QED
          BY <2>2, <3>3, <4>1, AppendProperties
      <3> QED
        BY <1>1, <2>2, <2>4, <3>3, <3>4, <3>5 DEF AuInv
    <2> QED
      BY <2>5, <2>6
  <1> QED
    BY <1>2, <1>3

\* Sent: a whole picture more was handed on.
LEMMA AuSent ==
  ASSUME CutTypes, AuInv, Sent
  PROVE  AuInv'
  <1>1. /\ reading = "send" /\ cur' = cur /\ au' = <<>> /\ reading' = "push"
        /\ sent' = Append(sent, au)
    BY DEF Sent, ReaderTo
  <1>2. WholePicture(au) /\ cur # <<>> /\ startsNewAU(cur[1])
    BY <1>1 DEF AuInv
  <1>3. \A a \in Range(sent') : a \in Range(sent) \/ a = au
    <2>1. PICK s \in Seq(Seq(Seq(Byte))) : s = sent
      BY DEF CutTypes
    <2>2. PICK x \in Seq(Seq(Byte)) : x = au
      BY DEF CutTypes
    <2>3. PICK n \in Nat : n = Len(s)
      BY LenProperties
    <2>4. PICK t \in Seq(Seq(Seq(Byte))) : t = Append(s, x)
      BY AppendProperties
    <2>5. Len(t) = n + 1 /\ t[n + 1] = x /\ \A i \in 1..n : t[i] = s[i]
      BY <2>3, <2>4, AppendProperties
    <2>6. DOMAIN t = 1..(n + 1) /\ DOMAIN s = 1..n
      BY <2>3, <2>5, LenProperties
    <2>7. \A i \in 1..(n + 1) : i \in 1..n \/ i = n + 1
      OBVIOUS
    <2>8. \A a \in Range(t) : a \in Range(s) \/ a = x
      BY <2>5, <2>6, <2>7 DEF Range
    <2> QED
      BY <1>1, <2>1, <2>2, <2>4, <2>8
  <1>4. OnePicture'
    BY <1>2, <1>3 DEF AuInv, OnePicture
  <1> QED
    BY <1>1, <1>2, <1>4 DEF AuInv

\* Every step keeps access units whole.
LEMMA AuStep ==
  ASSUME EncoderModes, EncoderStage, CutTypes, CutInv, AuInv, [EncoderNext]_encoderVars
  PROVE  AuInv'
  <1>1. CASE (\E n \in 1..Len(stream) : Read(n)) \/ split
    <2>1. reading \in {"read", "split"} /\ UNCHANGED <<cur, au, sent>> /\ reading' \in {"split", "push"}
      BY <1>1 DEF Read, split, ReaderTo
    <2>2. au = <<>>
      BY <2>1 DEF AuInv
    <2> QED
      BY <2>1, <2>2, AuKept
  <1>2. CASE push
    BY <1>2, AuPush
  <1>3. CASE Sent
    BY <1>3, AuSent
  <1>4. CASE ~CuttingStep
    <2>1. /\ UNCHANGED <<cur, au, sent>>
          /\ \/ reading' = reading
             \/ reading = "none" /\ reading' = "read"
             \/ reading \in {"read", "send", "stop"} /\ reading' \in {"stop", "gone"}
      BY <1>4, OtherSteps
    <2>2. au # <<>> => reading' \in {"send", "stop", "gone"}
      BY <2>1 DEF AuInv
    <2>3. reading' = "send" => au # <<>>
      BY <2>1 DEF AuInv
    <2> QED
      BY <2>1, <2>2, <2>3, AuKept
  <1> QED
    BY <1>1, <1>2, <1>3, <1>4 DEF CuttingStep
-----------------------------------------------------------------------------
(* What StreamIntact says, of the bytes read so far. *)

\* What was read of a stream begins no unit that the stream does not.
LEMMA PrefixBoundaries ==
  ASSUME NEW st \in Seq(Byte), NEW n \in 0..Len(st), NEW b, b = SubSeq(st, 1, n)
  PROVE  /\ b \in Seq(Byte) /\ Len(b) = n
         /\ Boundaries(b) = {i \in Boundaries(st) : i + codeAt(st, i) - 1 =< n}
  <1>1. Len(st) \in Nat /\ n \in Nat /\ n =< Len(st)
    BY LenProperties
  <1>2. PICK zero \in 0..n : zero = 0
    BY <1>1
  <1>3. zero + 1 = 1 /\ n - zero = n /\ \A i \in 1..n : zero + i = i
    BY <1>1, <1>2
  <1>4. b \in Seq(Byte) /\ Len(b) = n - zero /\ \A i \in 1..(n - zero) : b[i] = st[zero + i]
    BY <1>3, Window
  <1>5. b \in Seq(Byte) /\ Len(b) = n /\ \A i \in 1..n : b[i] = st[i]
    BY <1>3, <1>4
  <1>6. \A i \in 1..n : codeAt(b, i) = IF i + codeAt(st, i) - 1 =< n THEN codeAt(st, i) ELSE 0
    <2>1. \A i \in 1..(n - zero) :
            codeAt(b, i) = IF zero + i + codeAt(st, zero + i) - 1 =< n THEN codeAt(st, zero + i) ELSE 0
      BY ONLY <1>4, st \in Seq(Byte), n \in 0..Len(st), CodeSeen
    <2> QED
      BY <1>3, <2>1
  <1>7. ASSUME NEW i \in Boundaries(b)
        PROVE  i \in Boundaries(st) /\ i + codeAt(st, i) - 1 =< n
    <2>0. i \in 1..Len(b) /\ codeAt(b, i) \in {3, 4}
      BY ONLY <1>5, i \in Boundaries(b), BoundaryFacts
    <2>1. i \in 1..n /\ i \in 1..Len(st) /\ codeAt(b, i) \in {3, 4}
      BY <1>1, <1>5, <2>0
    <2>2. codeAt(b, i) = codeAt(st, i) /\ i + codeAt(st, i) - 1 =< n
      BY <1>6, <2>1
    <2>3. i > 1 => i - 1 \in 1..n
      BY <1>1, <2>1
    <2>4. i > 1 => b[i - 1] = st[i - 1]
      BY <1>5, <2>3
    <2>5. codeAt(b, i) = 3 => ~(i > 1 /\ b[i - 1] = 0)
      BY <1>5, <2>1, BoundaryFacts
    <2> QED
      BY <2>1, <2>2, <2>4, <2>5, BoundaryFacts
  <1>8. ASSUME NEW i \in Boundaries(st), i + codeAt(st, i) - 1 =< n
        PROVE  i \in Boundaries(b)
    <2>1. i \in 1..Len(st) /\ codeAt(st, i) \in {3, 4}
      BY BoundaryFacts
    <2>2. i \in 1..n /\ i \in 1..Len(b)
      BY <1>1, <1>5, <1>8, <2>1
    <2>3. codeAt(b, i) = codeAt(st, i)
      BY <1>6, <1>8, <2>2
    <2>4. i > 1 => i - 1 \in 1..n
      BY <1>1, <2>2
    <2>5. i > 1 => b[i - 1] = st[i - 1]
      BY <1>5, <2>4
    <2>6. codeAt(st, i) = 3 => ~(i > 1 /\ st[i - 1] = 0)
      BY <2>1, BoundaryFacts
    <2> QED
      BY <1>5, <2>1, <2>2, <2>3, <2>5, <2>6, BoundaryFacts
  <1> QED
    BY <1>5, <1>7, <1>8

\* A part of what was read is a part of the stream.
LEMMA SubSeqOfPrefix ==
  ASSUME NEW st \in Seq(Byte), NEW n \in 0..Len(st), NEW b, b = SubSeq(st, 1, n),
         NEW i \in 1..n, NEW d \in 0..n
  PROVE  SubSeq(b, i, d) = SubSeq(st, i, d)
  <1>1. Len(st) \in Nat /\ n \in Nat /\ d \in Nat /\ i \in Nat /\ n =< Len(st)
    BY LenProperties
  <1>2. \A x \in 1..n : st[x] \in Byte
    BY <1>1, ElementOfSeq
  <1>5. SubSeq(SubSeq(st, 1, n), i, d) = SubSeq(st, 1 + i - 1, 1 + d - 1)
    BY <1>1, <1>2, SubSeqOfSubSeq
  <1>6. 1 + i - 1 = i /\ 1 + d - 1 = d
    BY <1>1
  <1> QED
    BY <1>5, <1>6

\* Of what was read, the last unit is what is held, and those before it are
\* the stream's.
LEMMA PrefixUnits ==
  ASSUME NEW st \in Seq(Byte), NEW n \in 0..Len(st), NEW base \in 0..n, NEW b, b = SubSeq(st, 1, n),
         base + 1 \in Boundaries(st),
         base > 0 => base + codeAt(st, base + 1) =< n,
         \A j \in Boundaries(st) : j > base + 1 => j + codeAt(st, j) - 1 > n
  PROVE  LET at  == Boundaries(st)
             was == Boundaries(b)
         IN  /\ was = {} => base = 0
             /\ was # {} =>
                  /\ Cardinality(was) = Rank(at, base) + 1
                  /\ \A i \in was : i =< base =>
                       i \in at /\ Rank(was, i) = Rank(at, i) /\ NALUnit(b, was, i) = NALUnit(st, at, i)
                  /\ \A i \in was : i =< base + 1
                  /\ Rank(was, base + 1) = Rank(at, base) + 1
                  /\ NALUnit(b, was, base + 1) = SubSeq(st, base + 1, n)
  <1> DEFINE at  == Boundaries(st)
             was == Boundaries(b)
             code(i) == codeAt(st, i)
  <1>1. Len(st) \in Nat /\ n \in Nat /\ base \in Nat /\ n =< Len(st) /\ base =< n
    BY LenProperties
  <1>2. PICK c \in Nat : c = base + 1
    BY <1>1
  <1>3. b \in Seq(Byte) /\ Len(b) = n /\ was = {i \in at : i + code(i) - 1 =< n}
    BY PrefixBoundaries
  <1>4. /\ at \in SUBSET Nat /\ IsFiniteSet(at) /\ \A i \in at : i \in 1..Len(st) /\ code(i) \in {3, 4}
        /\ was \in SUBSET (1..n)
    BY <1>3, BoundaryFacts
  <1>5. c \in at /\ (\A j \in at : j > c => j + code(j) - 1 > n) /\ (base > 0 => base + code(c) =< n)
    BY <1>2
  <1>6. \A i, j \in at : i < j => i + code(i) =< j
    BY Apart
  <1> HIDE DEF at, was, code
  <1>7. \A i \in was : i \in at /\ i =< c
    <2> SUFFICES ASSUME NEW i \in was PROVE i \in at /\ i =< c
      OBVIOUS
    <2>1. i \in at /\ i + code(i) - 1 =< n /\ i \in Nat /\ code(i) \in Nat
      BY <1>3, <1>4
    <2>2. ~(i > c)
      BY <1>1, <1>5, <2>1
    <2> QED
      BY <1>2, <2>1, <2>2
  <1>8. base > 0 => c \in was
    <2>1. base > 0 => c + code(c) - 1 =< n
      BY <1>1, <1>2, <1>4, <1>5
    <2> QED
      BY <1>3, <1>5, <2>1
  <1>9. was = {} => base = 0
    BY <1>1, <1>8
  <1>10. ASSUME was # {}
         PROVE  /\ Cardinality(was) = Rank(at, base) + 1
                /\ \A i \in was : i =< base =>
                     i \in at /\ Rank(was, i) = Rank(at, i) /\ NALUnit(b, was, i) = NALUnit(st, at, i)
                /\ \A i \in was : i =< c
                /\ Rank(was, c) = Rank(at, base) + 1
                /\ NALUnit(b, was, c) = SubSeq(st, c, n)
    <2>1. c \in was
      <3>1. CASE base = 0
        <4>1. PICK i \in was : i \in 1..n
          BY <1>4, <1>10
        <4>2. i = c
          BY <1>2, <1>7, <3>1, <4>1
        <4> QED
          BY <4>2
      <3> QED
        BY <1>1, <1>8, <3>1
    <2>2. c \in 1..n
      BY <1>4, <2>1
    <2>3. was = {i \in at : i =< c}
      <3>1. ASSUME NEW i \in at, i =< c PROVE i \in was
        <4>1. i \in Nat /\ code(i) \in Nat
          BY <1>4
        <4>2. i < c => i + code(i) =< c
          BY <1>5, <1>6
        <4>3. i < c => i + code(i) - 1 =< n
          BY <1>1, <2>2, <4>1, <4>2
        <4> QED
          BY <1>2, <1>3, <2>1, <3>1, <4>1, <4>3
      <3> QED
        BY <1>7, <3>1
    <2>4. \A i \in Nat : i =< c => Rank(was, i) = Rank(at, i)
      <3> SUFFICES ASSUME NEW i \in Nat, i =< c PROVE Rank(was, i) = Rank(at, i)
        OBVIOUS
      <3>1. \A j \in at : j \in Nat /\ (j =< i => j =< c)
        BY <1>2, <1>4
      <3>2. {j \in was : j =< i} = {j \in at : j =< i}
        BY <2>3, <3>1
      <3> QED
        BY <3>2 DEF Rank
    <2>5. Rank(at, c) = Rank(at, base) + 1
      <3>1. base < c /\ c =< c /\ \A j \in at : j =< c => j =< base \/ j = c
        BY <1>1, <1>2, <1>4
      <3> QED
        BY <1>1, <1>4, <1>5, <3>1, RankNext
    <2>6. Rank(was, c) = Rank(at, base) + 1
      BY <1>2, <2>4, <2>5
    <2>7. Cardinality(was) = Rank(was, c)
      <3>1. {j \in was : j =< c} = was
        BY <1>7
      <3> QED
        BY <3>1 DEF Rank
    <2>8. NALUnit(b, was, c) = SubSeq(st, c, n)
      <3>1. PICK e \in Nat : e = n + 1
        BY <1>1
      <3>2. c < e /\ e = Len(b) + 1 /\ e - 1 = n /\ \A j \in was : ~(c < j /\ j < e)
        <4>1. \A j \in was : j \in Nat /\ j =< c
          BY <1>4, <1>7
        <4> QED
          BY <1>1, <1>2, <1>3, <2>2, <3>1, <4>1
      <3>3. was \in SUBSET (1..Len(b))
        BY <1>3, <1>4
      <3>4. NALUnit(b, was, c) = SubSeq(b, c, e - 1)
        BY ONLY <1>3, <2>1, <3>2, <3>3, e \in Nat, UnitAt
      <3>5. SubSeq(b, c, n) = SubSeq(st, c, n)
        <4>1. \A i \in 1..n : i \in 1..Len(st)
          BY <1>1
        <4> QED
          BY <1>1, <2>2, SubSeqOfPrefix
      <3> QED
        BY <3>2, <3>4, <3>5
    <2>9. ASSUME NEW i \in was, i =< base PROVE NALUnit(b, was, i) = NALUnit(st, at, i)
      <3>1. i \in at /\ i \in 1..n /\ i < c
        BY <1>1, <1>2, <1>4, <1>7, <2>9
      <3> DEFINE later == {j \in at : i < j}
      <3>2. later \in SUBSET Nat /\ c \in later
        BY <1>4, <1>5, <3>1
      <3>3. PICK e \in later : \A j \in later : e =< j
        <4> HIDE DEF later
        <4> QED
          BY <3>2, MinFacts
      <3>4. e \in at /\ i < e /\ e =< c /\ e \in was /\ e \in Nat
        BY <1>4, <2>3, <3>2, <3>3
      <3>5. \A j \in at : ~(i < j /\ j < e)
        BY <1>4, <3>3
      <3>6. \A j \in was : ~(i < j /\ j < e)
        BY <1>7, <3>5
      <3> HIDE DEF later
      <3>7. at \in SUBSET (1..Len(st)) /\ was \in SUBSET (1..Len(b))
        BY <1>3, <1>4
      <3>8. NALUnit(st, at, i) = SubSeq(st, i, e - 1)
        BY ONLY <3>1, <3>4, <3>5, <3>7, st \in Seq(Byte), UnitAt
      <3>9. NALUnit(b, was, i) = SubSeq(b, i, e - 1)
        BY ONLY <1>3, <3>4, <3>6, <3>7, i \in was, UnitAt
      <3>10. SubSeq(b, i, e - 1) = SubSeq(st, i, e - 1)
        <4>1. PICK d \in Nat : d = e - 1
          BY <3>1, <3>4
        <4>2. d \in 0..n
          BY <1>2, <2>2, <3>4, <4>1
        <4> QED
          BY <1>1, <3>1, <4>1, <4>2, SubSeqOfPrefix
      <3> QED
        BY <3>8, <3>9, <3>10
    <2>10. \A i \in was : i =< base => i \in at /\ Rank(was, i) = Rank(at, i)
      <3>1. \A i \in was : i \in at /\ i \in Nat /\ i =< c
        BY <1>4, <1>7
      <3> QED
        BY <2>4, <3>1
    <2>11. \A i \in was : i =< base =>
             i \in at /\ Rank(was, i) = Rank(at, i) /\ NALUnit(b, was, i) = NALUnit(st, at, i)
      BY <2>9, <2>10, Zenon
    <2> QED
      BY <1>7, <2>6, <2>7, <2>8, <2>11
  <1> QED
    BY <1>2, <1>9, <1>10 DEF at, was

\* CutInv says it of the whole stream, StreamIntact of the part read.
LEMMA IntactFromCut ==
  ASSUME EncoderModes, CutTypes, CutInv
  PROVE  StreamIntact
  <1> DEFINE at  == Boundaries(stream)
             b   == SubSeq(stream, 1, rd)
             was == Boundaries(b)
             all == Append(Units, buf)
  <1>1. stream \in Seq(Byte) /\ rd \in 0..Len(stream) /\ rd \in Nat /\ Base \in 0..rd
    BY StreamFacts DEF CutTypes, CutInv
  <1>2. PICK u \in Seq(Seq(Byte)) : u = Units
    BY UnitsTyped
  <1>3. buf \in Seq(Byte) /\ buf = SubSeq(stream, Base + 1, rd)
    BY DEF CutTypes, CutInv
  <1>4. /\ Base + 1 \in at /\ (Base > 0 => Base + codeAt(stream, Base + 1) =< rd)
        /\ Len(u) = Rank(at, Base)
        /\ \A i \in at : i =< Base => u[Rank(at, i)] = NALUnit(stream, at, i)
        /\ \A k \in 1..Len(u) : \E i \in at : i =< Base /\ Rank(at, i) = k
    BY <1>2 DEF CutInv
  <1>5. /\ all = Append(u, buf) /\ Len(all) = Len(u) + 1 /\ all[Len(u) + 1] = buf
        /\ (\A k \in 1..Len(u) : all[k] = u[k]) /\ Len(u) \in Nat
    BY <1>2, <1>3, AppendProperties, LenProperties
  <1>6. SUFFICES ASSUME reading # "split"
                 PROVE  /\ was = {} => all = <<b>>
                        /\ was # {} =>
                             /\ Len(all) = Cardinality(was)
                             /\ \A i \in was : all[Rank(was, i)] = NALUnit(b, was, i)
    BY DEF StreamIntact, Units
  <1>7. \A j \in at : j > Base + 1 => j + codeAt(stream, j) - 1 > rd
    BY <1>6 DEF CutInv
  <1>8. /\ was = {} => Base = 0
        /\ was # {} =>
             /\ Cardinality(was) = Rank(at, Base) + 1
             /\ \A i \in was : i =< Base =>
                  i \in at /\ Rank(was, i) = Rank(at, i) /\ NALUnit(b, was, i) = NALUnit(stream, at, i)
             /\ \A i \in was : i =< Base + 1
             /\ Rank(was, Base + 1) = Rank(at, Base) + 1
             /\ NALUnit(b, was, Base + 1) = SubSeq(stream, Base + 1, rd)
    BY <1>1, <1>4, <1>7, PrefixUnits
  <1>9. at \in SUBSET Nat /\ IsFiniteSet(at) /\ was \in SUBSET Nat /\ \A i \in at : i \in Nat /\ i # 0
    <2>1. b \in Seq(Byte)
      BY <1>1, PrefixBoundaries
    <2>2. was \in SUBSET Nat
      BY ONLY <2>1, BoundaryFacts
    <2>3. at \in SUBSET Nat /\ IsFiniteSet(at) /\ \A i \in at : i \in 1..Len(stream)
      BY ONLY <1>1, BoundaryFacts
    <2> QED
      BY <2>2, <2>3
  <1> HIDE DEF at, b, was, all
  <1>10. ASSUME was = {} PROVE all = <<b>>
    <2>1. Base = 0 /\ Base + 1 = 1
      BY <1>8, <1>10
    <2>2. buf = b
      BY <1>3, <2>1 DEF b
    <2>3. Rank(at, 0) = 0
      <3>1. \A j \in at : ~(j =< 0)
        BY <1>9, SMT
      <3>2. {j \in at : j =< 0} = {}
        BY ONLY <3>1, Zenon
      <3> QED
        BY <3>2, FS_EmptySet DEF Rank
    <2>4. u = <<>>
      BY <1>2, <1>4, <2>1, <2>3, EmptySeq
    <2> QED
      BY <1>5, <2>2, <2>4
  <1>11. ASSUME was # {}
         PROVE  /\ Len(all) = Cardinality(was)
                /\ \A i \in was : all[Rank(was, i)] = NALUnit(b, was, i)
    <2>1. Len(all) = Cardinality(was)
      BY <1>4, <1>5, <1>8, <1>11
    <2>2. ASSUME NEW i \in was PROVE all[Rank(was, i)] = NALUnit(b, was, i)
      <3>1. CASE i =< Base
        <4>1. i \in at /\ Rank(was, i) = Rank(at, i) /\ NALUnit(b, was, i) = NALUnit(stream, at, i)
          BY <1>8, <1>11, <3>1
        <4>2. Rank(at, i) \in 1..Len(u)
          <5>1. i \in Nat /\ Base \in Nat
            BY <1>1, <1>9, <4>1
          <5>2. Rank(at, i) \in Nat /\ Rank(at, i) # 0 /\ Rank(at, i) =< Rank(at, Base)
            BY <1>9, <3>1, <4>1, <5>1, RankMonotone
          <5> QED
            BY <1>4, <1>5, <5>2
        <4>3. u[Rank(at, i)] = NALUnit(stream, at, i)
          BY <1>4, <3>1, <4>1
        <4> QED
          BY <1>5, <4>1, <4>2, <4>3
      <3>2. CASE ~(i =< Base)
        <4>1. i \in Nat /\ i =< Base + 1
          BY <1>8, <1>9, <1>11
        <4>2. i = Base + 1
          BY <1>1, <3>2, <4>1
        <4> QED
          BY <1>3, <1>4, <1>5, <1>8, <1>11, <4>2
      <3> QED
        BY <3>1, <3>2
    <2> QED
      BY <2>1, <2>2
  <1> QED
    BY <1>10, <1>11
-----------------------------------------------------------------------------
(* The theorems about both backends. *)

\* The invariant holds before anything was asked of the browser, ...
LEMMA EncoderInitIInv ==
  ASSUME NEW where \in {"idle", "launch"}, EncoderInit(where)
  PROVE  EncoderIInv
  <1> USE DEF EncoderInit
  <1>1. EncoderModes /\ EncoderStage
    BY DEF EncoderModes, EncoderStage
  <1>2. /\ stream \in Seq(Byte) /\ Len(stream) \in Nat /\ 1 \in Boundaries(stream)
        /\ codeAt(stream, 1) \in {3, 4}
    BY <1>1, StreamFacts
  <1>3. <<>> \in Seq(Byte) /\ <<>> \in Seq(Seq(Byte)) /\ <<>> \in Seq(Seq(Seq(Byte))) /\ 0 \in 0..Len(stream)
    BY <1>2
  <1>4. CutTypes
    BY <1>3 DEF CutTypes
  <1>5. Base = 0 /\ Base + 1 = 1
    <2>1. rd = 0 /\ Len(buf) = 0
      BY EmptySeq
    <2> QED
      BY ONLY <2>1 DEF Base
  <1>6. Units = <<>> /\ Len(Units) = 0
    <2>1. FlattenSeq(sent) = <<>>
      BY DEF FlattenSeq
    <2>2. Units = <<>>
      BY <2>1, <1>3, ConcatEmptySeq DEF Units
    <2> QED
      BY <2>2
  <1>7. \A i \in Boundaries(stream) : i \in Nat /\ i # 0 /\ codeAt(stream, i) \in {3, 4}
    <2>1. \A i \in Boundaries(stream) : i \in 1..Len(stream) /\ codeAt(stream, i) \in {3, 4}
      BY <1>2, BoundaryFacts
    <2> QED
      BY <2>1
  <1>8. Rank(Boundaries(stream), 0) = 0
    <2>1. {j \in Boundaries(stream) : j =< 0} = {}
      BY <1>7
    <2> QED
      BY <2>1, FS_EmptySet DEF Rank
  <1>9. buf = SubSeq(stream, 1, 0)
    BY <1>2, SubSeqEmpty
  <1>10. CutInv
    <2>1. \A i \in Boundaries(stream) : ~(i =< 0)
      BY <1>7
    <2>2. \A j \in Boundaries(stream) : j + codeAt(stream, j) - 1 > 0
      BY <1>7
    <2>3. \A k \in 1..Len(Units) : FALSE
      BY <1>6
    <2> QED
      BY <1>2, <1>5, <1>6, <1>8, <1>9, <2>1, <2>2, <2>3 DEF CutInv
  <1>11. AuInv
    <2>1. ~HasVCL(cur)
      BY DEF HasVCL
    <2>2. Range(sent) = {}
      BY DEF Range
    <2> QED
      BY <2>1, <2>2 DEF AuInv, OnePicture
  <1> QED
    BY <1>1, <1>4, <1>10, <1>11 DEF EncoderIInv

\* The simulator's process may not have been asked for at all.
LEMMA FeedsInitIInv ==
  ASSUME FeedsInit
  PROVE  IInv /\ EncoderIInv
  <1>1. CASE HelperInit("select") /\ EncoderInit("idle")
    BY <1>1, InitIInv, EncoderInitIInv
  <1>2. CASE HelperInit("idle") /\ EncoderInit("launch")
    BY <1>2, InitIInv, EncoderInitIInv
  <1> QED
    BY <1>1, <1>2 DEF FeedsInit

\* ... and every step keeps it.
LEMMA EncoderInductive ==
  ASSUME EncoderIInv, [EncoderNext]_encoderVars
  PROVE  EncoderIInv'
  BY EncoderModesStep, CutStep, AuStep DEF EncoderIInv

\* Both backends keep their invariants, whichever of them runs.
LEMMA FeedsInductive == FeedsSpec => [](IInv /\ EncoderIInv)
  <1>1. FeedsInit => IInv /\ EncoderIInv
    BY FeedsInitIInv
  <1>2. [FeedsNext]_feedsVars => [HelperNext]_helperVars /\ [EncoderNext]_encoderVars
    BY DEF FeedsNext, feedsVars
  <1>3. IInv /\ [HelperNext]_helperVars => IInv'
    BY InductiveStep
  <1>4. EncoderIInv /\ [EncoderNext]_encoderVars => EncoderIInv'
    BY EncoderInductive
  <1> QED
    BY <1>1, <1>2, <1>3, <1>4, PTL DEF FeedsSpec

\* Both backends keep their types, for any process and any stream, and the
\* browser's frames is closed only after ffmpeg was waited for
\* (ffmpeg.go:210-213).
THEOREM FeedsTyped == FeedsSpec => []FeedsTypeOK
  <1>1. IInv /\ EncoderIInv => FeedsTypeOK
    BY EncoderTypes DEF IInv, EncoderIInv, FeedsTypeOK
  <1> QED
    BY <1>1, FeedsInductive, PTL

\* However read() cuts up the bytes, and whatever ends the feed, the NAL units
\* cut off are those of the stream (nal.go:43-65, ffmpeg.go:217-235).
THEOREM NothingTorn == FeedsSpec => []StreamIntact
  <1>1. EncoderIInv => StreamIntact
    BY IntactFromCut DEF EncoderIInv
  <1> QED
    BY <1>1, FeedsInductive, PTL

\* Every access unit the pump received is one whole picture, for any stream
\* that is H.264 (nal.go:80-110).
THEOREM PicturesWhole == FeedsSpec => []OnePicture
  <1>1. EncoderIInv => OnePicture
    BY DEF EncoderIInv, AuInv
  <1> QED
    BY <1>1, FeedsInductive, PTL

\* Every step of the browser's feed is one that Feed allows (backend.go:84-131).
LEMMA EncoderRefinesStep ==
  ASSUME EncoderIInv, [EncoderNext]_encoderVars
  PROVE  [EncoderFeed!Next]_(EncoderFeed!vars)
  <1>0. EncoderModes /\ EncoderStage /\ sent \in Seq(Seq(Seq(Byte)))
    BY DEF EncoderIInv, CutTypes
  <1> USE DEF EncoderModes, EncoderStage, source, cutting, EncoderFeed!Next, EncoderFeed!vars,
              EncoderFeed!Cancel, EncoderFeed!Die, EncoderFeed!Attached, EncoderFeed!AttachFailed,
              EncoderFeed!Receive, EncoderFeed!Over
  <1>1. CASE Launched
    BY <1>0, <1>1 DEF Launched
  <1>2. CASE Encode
    BY <1>0, <1>2 DEF Encode
  <1>3. CASE AttachFails
    BY <1>0, <1>3 DEF AttachFails
  <1>4. CASE CancelFeed
    BY <1>0, <1>4 DEF CancelFeed
  <1>5. CASE TabEnds \/ Capture \/ PollEnds \/ Picture \/ Fed \/ FeederEnds
    BY <1>0, <1>5 DEF TabEnds, Capture, PollEnds, Picture, PollTo, Fed, FeederEnds, FeederTo
  <1>6. CASE FfmpegEnds
    BY <1>0, <1>6 DEF FfmpegEnds
  <1>7. CASE (\E n \in 1..Len(stream) : Read(n)) \/ split \/ push
    <2>1. /\ UNCHANGED <<ectx, attach, ffmpeg, sent>>
          /\ reading # "gone" /\ reading' # "gone"
      BY <1>7 DEF Read, split, push, ReaderTo
    <2> QED
      BY <1>0, <2>1
  <1>8. CASE Sent
    <2>1. reading = "send" /\ reading' = "push" /\ UNCHANGED <<ectx, attach, ffmpeg>>
      BY <1>8 DEF Sent, ReaderTo
    <2>2. Len(sent') = Len(sent) + 1
      BY <1>8 DEF Sent, EncoderIInv, CutTypes
    <2> QED
      BY <1>0, <2>1, <2>2
  <1>9. CASE ReaderStops
    BY <1>0, <1>9 DEF ReaderStops, ReaderTo
  <1>10. CASE ReaderGone
    BY <1>0, <1>10 DEF ReaderGone, ReaderTo
  <1>11. CASE UNCHANGED encoderVars
    BY <1>11 DEF encoderVars
  <1> QED
    BY <1>1, <1>2, <1>3, <1>4, <1>5, <1>6, <1>7, <1>8, <1>9, <1>10, <1>11 DEF EncoderNext

\* Whichever backend the daemon was started with, both keep the safety half of
\* the contract of Feed (backend.go:84-131, main.go's choice).
THEOREM BothKeepContract ==
  FeedsSpec => /\ HelperFeed!Init /\ [][HelperFeed!Next]_(HelperFeed!vars)
               /\ EncoderFeed!Init /\ [][EncoderFeed!Next]_(EncoderFeed!vars)
  <1>1. FeedsInit => HelperFeed!Init
    BY DEF FeedsInit, HelperInit, HelperFeed!Init
  <1>2. FeedsInit => EncoderFeed!Init
    BY DEF FeedsInit, EncoderInit, EncoderFeed!Init
  <1>3. [FeedsNext]_feedsVars => [HelperNext]_helperVars /\ [EncoderNext]_encoderVars
    BY DEF FeedsNext, feedsVars
  <1>4. IInv /\ [HelperNext]_helperVars => [HelperFeed!Next]_(HelperFeed!vars)
    BY RefinesStep
  <1>5. EncoderIInv /\ [EncoderNext]_encoderVars => [EncoderFeed!Next]_(EncoderFeed!vars)
    BY EncoderRefinesStep
  <1> QED
    BY <1>1, <1>2, <1>3, <1>4, <1>5, FeedsInductive, PTL DEF FeedsSpec
=============================================================================
