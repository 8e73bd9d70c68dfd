----------------------------- MODULE RunsProofs -----------------------------
(***************************************************************************)
(* Proofs about Runs, for any bytes, marks and run lists.                  *)
(***************************************************************************)
EXTENDS Runs, TLAPS, WellFoundedInduction, FiniteSetTheorems, SequenceTheorems

-----------------------------------------------------------------------------
(* Least and greatest numbers. *)

LEMMA LeastIs ==
    ASSUME NEW S \in SUBSET Nat, S # {}
    PROVE  Min(S) \in S /\ \A x \in S : Min(S) <= x
<1> DEFINE Less == {pair \in Nat \X Nat : pair[1] < pair[2]}
<1>1. IsWellFoundedOn(Less, Nat)
  BY NatLessThanWellFounded DEF OpToRel
<1>2. \E m \in S : \A x \in S : ~ (<<x, m>> \in Less)
  <2> HIDE DEF Less
  <2> QED BY <1>1, WFMin, Zenon
<1>3. PICK m \in S : \A x \in S : ~ (<<x, m>> \in Less)
  BY <1>2
<1>4. \A x \in S : m <= x
  <2> SUFFICES ASSUME NEW x \in S PROVE m <= x
    OBVIOUS
  <2>1. <<x, m>> \notin Less
    BY <1>3
  <2> QED BY <2>1
<1> QED BY <1>4 DEF Min

LEMMA GreatestIs ==
    ASSUME NEW n \in Nat, NEW S \in SUBSET (0 .. n), S # {}
    PROVE  Max(S) \in S /\ Max(S) \in 0 .. n /\ \A x \in S : x <= Max(S)
<1> DEFINE T == {y \in 0 .. n : n - y \in S}
<1>1. PICK x \in S : TRUE
  OBVIOUS
<1>2. n - x \in 0 .. n /\ n - (n - x) = x
  OBVIOUS
<1>3. \E y \in 0 .. n : n - y = x
  BY <1>2
<1>4. T \in SUBSET Nat /\ T # {}
  <2>1. PICK y \in 0 .. n : n - y = x
    BY <1>3
  <2>2. y \in T
    BY <1>1, <2>1
  <2>3. T \subseteq Nat
    OBVIOUS
  <2> HIDE DEF T
  <2> QED BY <2>2, <2>3
<1>5. PICK m \in T : \A y \in T : m <= y
  <2> HIDE DEF T
  <2> QED BY <1>4, LeastIs
<1>6. n - m \in S /\ m \in 0 .. n
  BY <1>5
<1>7. ASSUME NEW y \in S PROVE y <= n - m
  <2>1. n - y \in T
    <3>1. n - y \in 0 .. n /\ n - (n - y) = y
      OBVIOUS
    <3> QED BY <3>1
  <2>2. m <= n - y
    BY <1>5, <2>1
  <2> QED BY <1>6, <2>2
<1>8. \E z \in S : \A y \in S : z >= y
  <2>1. \A y \in S : n - m >= y
    <3> TAKE y \in S
    <3>1. y <= n - m /\ y \in Nat
      BY <1>7
    <3> QED BY <1>6, <3>1
  <2> QED BY <1>6, <2>1
<1>9. Max(S) \in S /\ \A y \in S : Max(S) >= y
  BY <1>8 DEF Max
<1> QED BY <1>9

-----------------------------------------------------------------------------
(* Joining a list of sequences. *)

Joins(s, n, f) ==
    f = [i \in 1 .. n |-> IF i = 1 THEN s[i] ELSE f[i - 1] \o s[i]]

LEMMA JoinsExist ==
    ASSUME NEW s, NEW count \in Nat
    PROVE  \E f : Joins(s, count, f)
<1> DEFINE S == {n \in Nat : ~ \E f : Joins(s, n, f)}
<1> SUFFICES ASSUME S # {} PROVE FALSE
  OBVIOUS
<1>1. S \in SUBSET Nat
  OBVIOUS
<1>2. PICK m \in S : \A x \in S : m <= x
  <2> HIDE DEF S
  <2> QED BY <1>1, LeastIs
<1>3. m \in Nat /\ ~ \E f : Joins(s, m, f)
  BY <1>2
<1>4. CASE m = 0
  <2> DEFINE g == [i \in 1 .. 0 |-> s]
  <2>1. 1 .. 0 = {}
    OBVIOUS
  <2>2. g = [i \in 1 .. 0 |-> IF i = 1 THEN s[i] ELSE g[i - 1] \o s[i]]
    BY <2>1
  <2>3. Joins(s, 0, g)
    BY <2>2 DEF Joins
  <2> QED BY <2>3, <1>3, <1>4
<1>5. CASE m # 0
  <2>1. m - 1 \in Nat /\ m - 1 \notin S
    <3>1. m - 1 \in Nat /\ ~ (m <= m - 1)
      BY <1>3, <1>5
    <3> HIDE DEF S
    <3> QED BY <3>1, <1>2
  <2>2. PICK k : Joins(s, m - 1, k)
    BY <2>1
  <2> DEFINE g == [i \in 1 .. m |-> IF i <= m - 1 THEN k[i]
                                    ELSE IF i = 1 THEN s[i] ELSE k[i - 1] \o s[i]]
  <2>3. \A i \in 1 .. m - 1 : k[i] = IF i = 1 THEN s[i] ELSE k[i - 1] \o s[i]
    BY <2>2 DEF Joins
  <2>4. ASSUME NEW i \in 1 .. m
        PROVE  g[i] = IF i = 1 THEN s[i] ELSE g[i - 1] \o s[i]
    <3>1. g[i] = IF i = 1 THEN s[i] ELSE k[i - 1] \o s[i]
      <4>1. CASE i <= m - 1
        <5>1. i \in 1 .. m - 1 /\ g[i] = k[i]
          BY <4>1, <1>3
        <5> HIDE DEF g
        <5> QED BY <5>1, <2>3
      <4>2. CASE ~ (i <= m - 1)
        BY <4>2
      <4> QED BY <4>1, <4>2
    <3>2. i # 1 => g[i - 1] = k[i - 1]
      <4> SUFFICES ASSUME i # 1 PROVE g[i - 1] = k[i - 1]
        OBVIOUS
      <4>1. i - 1 \in 1 .. m /\ i - 1 <= m - 1
        BY <1>3
      <4> QED BY <4>1
    <3> HIDE DEF g
    <3> QED BY <3>1, <3>2
  <2>5. DOMAIN g = 1 .. m /\ g = [i \in 1 .. m |-> g[i]]
    OBVIOUS
  <2> HIDE DEF g
  <2>6. Joins(s, m, g)
    BY <2>4, <2>5 DEF Joins
  <2> QED BY <2>6, <1>3
<1> QED BY <1>4, <1>5

Alike(s, t, k) == \A i \in 1 .. k : s[i] = t[i]

\* What is joined up to a place depends on the sequences up to there.
LEMMA SameJoins ==
    ASSUME NEW s, NEW t, NEW m \in Nat, NEW n \in Nat, NEW f, NEW g,
           Joins(s, m, f), Joins(t, n, g), NEW k \in Nat, k <= m, k <= n,
           Alike(s, t, k)
    PROVE  Alike(f, g, k)
<1> USE DEF Alike
<1> DEFINE S == {i \in 1 .. k : f[i] # g[i]}
<1> SUFFICES ASSUME S # {} PROVE FALSE
  OBVIOUS
<1>1. S \in SUBSET Nat
  OBVIOUS
<1>2. PICK a \in S : \A x \in S : a <= x
  <2> HIDE DEF S
  <2> QED BY <1>1, LeastIs
<1>3. a \in 1 .. k /\ a \in 1 .. m /\ a \in 1 .. n /\ f[a] # g[a] /\ s[a] = t[a]
  BY <1>2
<1>4. /\ f[a] = IF a = 1 THEN s[a] ELSE f[a - 1] \o s[a]
      /\ g[a] = IF a = 1 THEN t[a] ELSE g[a - 1] \o t[a]
  BY <1>3 DEF Joins
<1>5. a # 1
  BY <1>3, <1>4
<1>6. a - 1 \in 1 .. k /\ ~ (a <= a - 1)
  BY <1>3, <1>5
<1>7. f[a - 1] = g[a - 1]
  BY <1>2, <1>6
<1> QED BY <1>3, <1>4, <1>7

LEMMA FlattenIs ==
    ASSUME NEW s, NEW n \in Nat, Len(s) = n, n # 0
    PROVE  \E f : Joins(s, n, f) /\ FlattenSeq(s) = f[n]
<1> DEFINE g == CHOOSE f : Joins(s, n, f)
<1>1. Joins(s, n, g)
  BY JoinsExist
<1>2. FlattenSeq(s) = g[n]
  BY DEF FlattenSeq, Joins
<1> QED BY <1>1, <1>2

LEMMA FlattenType ==
    ASSUME NEW B, NEW s \in Seq(Seq(B))
    PROVE  FlattenSeq(s) \in Seq(B)
<1> DEFINE n == Len(s)
<1>1. n \in Nat /\ \A i \in 1 .. n : s[i] \in Seq(B)
  OBVIOUS
<1>2. CASE n = 0
  BY <1>2 DEF FlattenSeq
<1>3. CASE n # 0
  <2>1. PICK f : Joins(s, n, f) /\ FlattenSeq(s) = f[n]
    BY <1>1, <1>3, FlattenIs
  <2> HIDE DEF n
  <2> DEFINE S == {i \in 1 .. n : f[i] \notin Seq(B)}
  <2>2. ASSUME S # {} PROVE FALSE
    <3>1. S \in SUBSET Nat
      BY <1>1
    <3>2. PICK a \in S : \A x \in S : a <= x
      <4> HIDE DEF S
      <4> QED BY <2>2, <3>1, LeastIs
    <3>3. a \in 1 .. n /\ f[a] \notin Seq(B) /\ s[a] \in Seq(B)
      BY <1>1, <3>2
    <3>4. f[a] = IF a = 1 THEN s[a] ELSE f[a - 1] \o s[a]
      BY <2>1, <3>3 DEF Joins
    <3>5. a # 1
      BY <3>3, <3>4
    <3>6. a - 1 \in 1 .. n /\ ~ (a <= a - 1)
      BY <1>1, <3>3, <3>5
    <3>7. f[a - 1] \in Seq(B)
      BY <3>2, <3>6
    <3> HIDE DEF S
    <3> QED BY <3>3, <3>4, <3>5, <3>7
  <2>3. n \in 1 .. n
    BY <1>1, <1>3
  <2> QED BY <2>1, <2>2, <2>3
<1> QED BY <1>2, <1>3

LEMMA FlattenAppend ==
    ASSUME NEW B, NEW s \in Seq(Seq(B)), NEW x \in Seq(B)
    PROVE  FlattenSeq(Append(s, x)) = FlattenSeq(s) \o x
<1> DEFINE n == Len(s)
           t == Append(s, x)
<1>1. n \in Nat
  OBVIOUS
<1>2. /\ Len(t) = n + 1 /\ t[n + 1] = x
      /\ \A i \in 1 .. n : t[i] = s[i]
  OBVIOUS
<1>3. n = 0 => s = <<>>
  OBVIOUS
<1> HIDE DEF n, t
<1>4. PICK g : Joins(t, n + 1, g) /\ FlattenSeq(t) = g[n + 1]
  <2>1. n + 1 \in Nat /\ n + 1 # 0
    BY <1>1
  <2> QED BY <1>2, <2>1, FlattenIs
<1>5. n + 1 \in 1 .. n + 1 /\ (n + 1) - 1 = n
  BY <1>1
<1>6. g[n + 1] = IF n + 1 = 1 THEN t[n + 1] ELSE g[n] \o t[n + 1]
  BY <1>4, <1>5 DEF Joins
<1>7. CASE n = 0
  <2>1. FlattenSeq(t) = x
    <3>1. n + 1 = 1
      BY <1>7
    <3>2. g[n + 1] = t[n + 1]
      BY <1>6, <3>1
    <3> QED BY <1>2, <1>4, <3>2
  <2>2. FlattenSeq(<<>>) = <<>>
    BY DEF FlattenSeq
  <2> QED BY <1>3, <1>7, <2>1, <2>2 DEF t
<1>8. CASE n # 0
  <2>1. PICK f : Joins(s, n, f) /\ FlattenSeq(s) = f[n]
    BY <1>1, <1>8, FlattenIs DEF n
  <2>2. n \in 1 .. n /\ n <= n /\ n <= n + 1 /\ n + 1 \in Nat /\ n + 1 # 1
    BY <1>1, <1>8
  <2>3. Alike(t, s, n)
    BY <1>2 DEF Alike
  <2>4. Alike(g, f, n)
    BY <1>1, <1>4, <2>1, <2>2, <2>3, SameJoins
  <2>5. g[n] = f[n]
    BY <2>2, <2>4 DEF Alike
  <2> QED BY <1>2, <1>4, <1>6, <2>1, <2>2, <2>5 DEF t
<1> QED BY <1>7, <1>8

\* The prefixes of a sequence, each one element longer than the one before.
LEMMA PrefixFacts ==
    ASSUME NEW B, NEW s \in Seq(B)
    PROVE  /\ Len(s) \in Nat /\ SubSeq(s, 1, 0) = <<>> /\ SubSeq(s, 1, Len(s)) = s
           /\ \A n \in 0 .. Len(s) : SubSeq(s, 1, n) \in Seq(B) /\ Len(SubSeq(s, 1, n)) = n
           /\ \A n \in 1 .. Len(s) :
                 s[n] \in B /\ SubSeq(s, 1, n) = Append(SubSeq(s, 1, n - 1), s[n])
<1>1. Len(s) \in Nat /\ SubSeq(s, 1, 0) = <<>> /\ SubSeq(s, 1, Len(s)) = s
  BY SubSeqFull, SubSeqEmpty
<1>2. ASSUME NEW n \in 0 .. Len(s)
      PROVE  SubSeq(s, 1, n) \in Seq(B) /\ Len(SubSeq(s, 1, n)) = n
  OBVIOUS
<1>3. ASSUME NEW n \in 1 .. Len(s)
      PROVE  s[n] \in B /\ SubSeq(s, 1, n) = Append(SubSeq(s, 1, n - 1), s[n])
  <2>1. n - 1 \in 0 .. Len(s) /\ s[n] \in B
    BY <1>1
  <2>2. SubSeq(s, 1, n) = SubSeq(s, 1, n - 1) \o <<s[n]>>
    <3>1. 1 \in 1 .. Len(s) /\ n \in 1 .. Len(s)
      BY <1>1
    <3> QED BY <3>1, SubSeqRecursiveSecond
  <2>3. SubSeq(s, 1, n - 1) \in Seq(B)
    BY <1>2, <2>1
  <2> QED BY <2>1, <2>2, <2>3, AppendIsConcat
<1> QED BY <1>1, <1>2, <1>3

LEMMA FlattenConcat ==
    ASSUME NEW B, NEW s \in Seq(Seq(B)), NEW t \in Seq(Seq(B))
    PROVE  FlattenSeq(s \o t) = FlattenSeq(s) \o FlattenSeq(t)
<1> DEFINE D == Seq(B)
<1>0. s \in Seq(D) /\ t \in Seq(D)
  OBVIOUS
<1> HIDE DEF D
<1> DEFINE S == {n \in 0 .. Len(t) :
                    FlattenSeq(s \o SubSeq(t, 1, n)) # FlattenSeq(s) \o FlattenSeq(SubSeq(t, 1, n))}
<1>1. Len(t) \in Nat /\ SubSeq(t, 1, Len(t)) = t /\ Len(t) \in 0 .. Len(t)
  BY <1>0, PrefixFacts
<1>2. ASSUME S # {} PROVE FALSE
  <2>1. S \in SUBSET Nat
    BY <1>1
  <2>2. PICK n \in S : \A x \in S : n <= x
    <3> HIDE DEF S
    <3> QED BY <1>2, <2>1, LeastIs
  <2>3. n \in 0 .. Len(t)
        /\ FlattenSeq(s \o SubSeq(t, 1, n)) # FlattenSeq(s) \o FlattenSeq(SubSeq(t, 1, n))
    BY <2>2
  <2>4. CASE n = 0
    <3>1. SubSeq(t, 1, n) = <<>>
      BY <1>0, <2>4, PrefixFacts
    <3>2. s \o <<>> = s
      BY ConcatEmptySeq
    <3>3. FlattenSeq(<<>>) = <<>>
      BY DEF FlattenSeq
    <3>4. FlattenSeq(s) \o <<>> = FlattenSeq(s)
      BY FlattenType, ConcatEmptySeq
    <3> QED BY <2>3, <3>1, <3>2, <3>3, <3>4
  <2>5. CASE n # 0
    <3> DEFINE u == SubSeq(t, 1, n - 1)
    <3>1. n \in 1 .. Len(t) /\ n - 1 \in 0 .. Len(t) /\ ~ (n <= n - 1)
      BY <1>1, <2>3, <2>5
    <3>2. t[n] \in Seq(B) /\ SubSeq(t, 1, n) = Append(u, t[n])
      BY <1>0, <3>1, PrefixFacts DEF D
    <3>3. u \in Seq(Seq(B))
      <4>1. u \in Seq(D)
        BY <1>0, <3>1, PrefixFacts
      <4> QED BY <4>1 DEF D
    <3>4. FlattenSeq(s \o u) = FlattenSeq(s) \o FlattenSeq(u)
      <4>1. n - 1 \notin S
        <5> HIDE DEF S
        <5> QED BY <2>2, <3>1
      <4> QED BY <3>1, <4>1
    <3> HIDE DEF u, S
    <3>5. s \o Append(u, t[n]) = Append(s \o u, t[n])
      BY <3>2, <3>3, SMTT(30)
    <3>6. s \o u \in Seq(Seq(B))
      BY <3>3
    <3>7. FlattenSeq(Append(s \o u, t[n])) = FlattenSeq(s \o u) \o t[n]
      BY <3>2, <3>6, FlattenAppend
    <3>8. FlattenSeq(Append(u, t[n])) = FlattenSeq(u) \o t[n]
      BY <3>2, <3>3, FlattenAppend
    <3>9. (FlattenSeq(s) \o FlattenSeq(u)) \o t[n] = FlattenSeq(s) \o (FlattenSeq(u) \o t[n])
      <4>1. /\ FlattenSeq(s) \in Seq(B) /\ FlattenSeq(u) \in Seq(B)
            /\ t[n] \in Seq(B)
        BY <3>2, <3>3, FlattenType
      <4> DEFINE x == FlattenSeq(s)
                 y == FlattenSeq(u)
                 z == t[n]
      <4>2. x \in Seq(B) /\ y \in Seq(B) /\ z \in Seq(B)
        BY <4>1
      <4> HIDE DEF x, y, z
      <4>3. (x \o y) \o z = x \o (y \o z)
        BY <4>2, SMTT(30)
      <4> QED BY <4>3 DEF x, y, z
    <3> QED BY <2>3, <3>2, <3>4, <3>5, <3>7, <3>8, <3>9
  <2> QED BY <2>3, <2>4, <2>5
<1>3. Len(t) \notin S
  BY <1>2
<1> QED BY <1>1, <1>3

-----------------------------------------------------------------------------
(* The marked bytes of a list of runs. *)

Letters == Bytes \X SUBSET Marks
MarkedRun(run) == [j \in DOMAIN run.text |-> <<run.text[j], run.marks>>]

LEMMA MarkedRunFacts ==
    ASSUME NEW run \in TextRun
    PROVE  /\ run.text \in Seq(Bytes) /\ run.marks \in SUBSET Marks
           /\ MarkedRun(run) \in Seq(Letters)
           /\ Len(MarkedRun(run)) = Len(run.text)
           /\ \A j \in 1 .. Len(run.text) : MarkedRun(run)[j] = <<run.text[j], run.marks>>
<1>1. run.text \in Seq(Bytes) /\ run.marks \in SUBSET Marks
  BY DEF TextRun
<1> QED BY <1>1 DEF MarkedRun, Letters

LEMMA MarkedType ==
    ASSUME NEW runs \in Seq(TextRun)
    PROVE  Marked(runs) \in Seq(Letters)
<1> DEFINE s == [i \in DOMAIN runs |-> MarkedRun(runs[i])]
<1>1. Marked(runs) = FlattenSeq(s)
  BY DEF Marked, MarkedRun
<1>2. \A i \in DOMAIN runs : MarkedRun(runs[i]) \in Seq(Letters)
  BY MarkedRunFacts
<1>3. s \in Seq(Seq(Letters))
  BY <1>2
<1> QED BY <1>1, <1>3, FlattenType

LEMMA MarkedConcat ==
    ASSUME NEW a \in Seq(TextRun), NEW b \in Seq(TextRun)
    PROVE  Marked(a \o b) = Marked(a) \o Marked(b)
<1> DEFINE Parts(runs) == [i \in DOMAIN runs |-> MarkedRun(runs[i])]
<1>1. \A runs \in Seq(TextRun) : Parts(runs) \in Seq(Seq(Letters)) /\ Len(Parts(runs)) = Len(runs)
  <2> TAKE runs \in Seq(TextRun)
  <2>1. \A i \in DOMAIN runs : MarkedRun(runs[i]) \in Seq(Letters)
    BY MarkedRunFacts
  <2>2. Parts(runs) = [i \in 1 .. Len(runs) |-> MarkedRun(runs[i])]
    OBVIOUS
  <2>3. Len(runs) \in Nat /\ \A i \in 1 .. Len(runs) : MarkedRun(runs[i]) \in Seq(Letters)
    BY <2>1
  <2> DEFINE p == Parts(runs)
             D == Seq(Letters)
             n == Len(runs)
  <2>4. p \in [1 .. n -> D] /\ n \in Nat
    BY <2>2, <2>3
  <2> HIDE DEF p, D, n
  <2>5. p \in Seq(D) /\ Len(p) = n
    BY <2>4
  <2> QED BY <2>5 DEF p, D, n
<1>2. \A runs : Marked(runs) = FlattenSeq(Parts(runs))
  BY DEF Marked, MarkedRun
<1>3. Parts(a \o b) = Parts(a) \o Parts(b)
  OBVIOUS
<1> HIDE DEF Parts
<1>4. FlattenSeq(Parts(a) \o Parts(b)) = FlattenSeq(Parts(a)) \o FlattenSeq(Parts(b))
  BY <1>1, FlattenConcat
<1> QED BY <1>2, <1>3, <1>4

LEMMA MarkedSmall ==
    /\ Marked(<<>>) = <<>>
    /\ \A run \in TextRun : Marked(<<run>>) = MarkedRun(run)
<1>1. Marked(<<>>) = <<>>
  BY DEF Marked, FlattenSeq
<1>2. ASSUME NEW run \in TextRun PROVE Marked(<<run>>) = MarkedRun(run)
  <2>1. Marked(<<run>>) = FlattenSeq([i \in DOMAIN <<run>> |-> MarkedRun(<<run>>[i])])
    BY DEF Marked, MarkedRun
  <2>2. [i \in DOMAIN <<run>> |-> MarkedRun(<<run>>[i])] = Append(<<>>, MarkedRun(run))
    <3>1. DOMAIN <<run>> = 1 .. 1 /\ <<run>>[1] = run
      OBVIOUS
    <3>2. [i \in 1 .. 1 |-> MarkedRun(<<run>>[i])] = <<MarkedRun(run)>>
      BY <3>1
    <3> QED BY <3>1, <3>2
  <2>3. FlattenSeq(Append(<<>>, MarkedRun(run))) = FlattenSeq(<<>>) \o MarkedRun(run)
    <3>1. <<>> \in Seq(Seq(Letters)) /\ MarkedRun(run) \in Seq(Letters)
      BY MarkedRunFacts
    <3> QED BY <3>1, FlattenAppend
  <2>4. FlattenSeq(<<>>) = <<>>
    BY DEF FlattenSeq
  <2>5. <<>> \o MarkedRun(run) = MarkedRun(run)
    BY MarkedRunFacts, ConcatEmptySeq
  <2> QED BY <2>1, <2>2, <2>3, <2>4, <2>5
<1> QED BY <1>1, <1>2

LEMMA MarkedAppend ==
    ASSUME NEW runs \in Seq(TextRun), NEW run \in TextRun
    PROVE  Marked(Append(runs, run)) = Marked(runs) \o MarkedRun(run)
<1>1. Append(runs, run) = runs \o <<run>> /\ <<run>> \in Seq(TextRun)
  BY AppendIsConcat
<1> QED BY <1>1, MarkedConcat, MarkedSmall

-----------------------------------------------------------------------------
(* The text of a list of runs, and where its runs begin. *)

LEMMA UnmarkedFacts ==
    ASSUME NEW a \in Seq(Letters)
    PROVE  /\ Unmarked(a) \in Seq(Bytes) /\ Len(Unmarked(a)) = Len(a)
           /\ \A k \in 1 .. Len(a) : Unmarked(a)[k] = a[k][1]
<1>1. Len(a) \in Nat /\ \A k \in 1 .. Len(a) : a[k][1] \in Bytes
  BY DEF Letters
<1>2. Unmarked(a) = [k \in 1 .. Len(a) |-> a[k][1]]
  BY DEF Unmarked
<1> DEFINE n == Len(a)
           u == Unmarked(a)
<1>3. u \in [1 .. n -> Bytes] /\ n \in Nat
  BY <1>1, <1>2
<1> HIDE DEF u, n
<1>4. u \in Seq(Bytes) /\ Len(u) = n
  BY <1>3
<1> QED BY <1>2, <1>4 DEF u, n

LEMMA UnmarkedConcat ==
    ASSUME NEW a \in Seq(Letters), NEW b \in Seq(Letters)
    PROVE  Unmarked(a \o b) = Unmarked(a) \o Unmarked(b)
<1>1. a \o b \in Seq(Letters) /\ Len(a \o b) = Len(a) + Len(b)
      /\ \A i \in 1 .. Len(a) + Len(b) : (a \o b)[i] = IF i <= Len(a) THEN a[i] ELSE b[i - Len(a)]
  BY ConcatProperties
<1> DEFINE x == Unmarked(a \o b)
           y == Unmarked(a) \o Unmarked(b)
           m == Len(a)
           n == Len(b)
<1>2. m \in Nat /\ n \in Nat
  OBVIOUS
<1>3. /\ x \in Seq(Bytes) /\ Len(x) = m + n
      /\ \A i \in 1 .. m + n : x[i] = (a \o b)[i][1]
  <2>1. Len(a \o b) = m + n /\ a \o b \in Seq(Letters)
    BY <1>1
  <2> QED BY <2>1, UnmarkedFacts
<1>4. /\ Unmarked(a) \in Seq(Bytes) /\ Len(Unmarked(a)) = m
      /\ Unmarked(b) \in Seq(Bytes) /\ Len(Unmarked(b)) = n
      /\ \A i \in 1 .. m : Unmarked(a)[i] = a[i][1]
      /\ \A i \in 1 .. n : Unmarked(b)[i] = b[i][1]
  BY UnmarkedFacts
<1>5. /\ y \in Seq(Bytes) /\ Len(y) = m + n
      /\ \A i \in 1 .. m + n : y[i] = IF i <= m THEN Unmarked(a)[i] ELSE Unmarked(b)[i - m]
  <2> DEFINE ua == Unmarked(a)
             ub == Unmarked(b)
  <2>1. ua \in Seq(Bytes) /\ ub \in Seq(Bytes) /\ Len(ua) = m /\ Len(ub) = n
    BY <1>4
  <2>2. y = ua \o ub
    OBVIOUS
  <2> HIDE DEF ua, ub, m, n, y
  <2>3. /\ y \in Seq(Bytes) /\ Len(y) = Len(ua) + Len(ub)
        /\ \A i \in 1 .. Len(ua) + Len(ub) : y[i] = IF i <= Len(ua) THEN ua[i] ELSE ub[i - Len(ua)]
    BY <2>1, <2>2, ConcatProperties
  <2> QED BY <2>1, <2>3 DEF ua, ub
<1>6. \A i \in 1 .. m + n : (a \o b)[i] = IF i <= m THEN a[i] ELSE b[i - m]
  BY <1>1
<1> HIDE DEF x, y, m, n
<1>7. ASSUME NEW i \in 1 .. m + n PROVE x[i] = y[i]
  <2>1. CASE i <= m
    <3>1. i \in 1 .. m
      BY <1>2, <2>1
    <3>2. x[i] = a[i][1]
      BY <1>3, <1>6, <2>1
    <3>3. y[i] = Unmarked(a)[i] /\ Unmarked(a)[i] = a[i][1]
      BY <1>4, <1>5, <2>1, <3>1
    <3> QED BY <3>2, <3>3
  <2>2. CASE ~ (i <= m)
    <3>1. i - m \in 1 .. n
      BY <1>2, <2>2
    <3>2. x[i] = b[i - m][1]
      BY <1>3, <1>6, <2>2
    <3>3. y[i] = Unmarked(b)[i - m] /\ Unmarked(b)[i - m] = b[i - m][1]
      BY <1>4, <1>5, <2>2, <3>1
    <3> QED BY <3>2, <3>3
  <2> QED BY <2>1, <2>2
<1>8. x = y
  BY <1>3, <1>5, <1>7, SeqEqual
<1> QED BY <1>8 DEF x, y

LEMMA RunsTextAppend ==
    ASSUME NEW runs \in Seq(TextRun), NEW run \in TextRun
    PROVE  RunsText(Append(runs, run)) = RunsText(runs) \o run.text
<1> DEFINE s == [i \in DOMAIN runs |-> runs[i].text]
           t == [i \in DOMAIN Append(runs, run) |-> Append(runs, run)[i].text]
           n == Len(runs)
<1>1. n \in Nat /\ \A i \in 1 .. n : runs[i].text \in Seq(Bytes)
  <2>1. n \in Nat /\ \A i \in 1 .. n : runs[i] \in TextRun
    OBVIOUS
  <2> HIDE DEF n
  <2> QED BY <2>1 DEF TextRun
<1>2. run.text \in Seq(Bytes)
  BY DEF TextRun
<1>3. s = [i \in 1 .. n |-> runs[i].text]
  OBVIOUS
<1>4. t = [i \in 1 .. n + 1 |-> IF i <= n THEN runs[i].text ELSE run.text]
  <2>1. DOMAIN Append(runs, run) = 1 .. n + 1
    OBVIOUS
  <2>2. \A i \in 1 .. n + 1 : Append(runs, run)[i] = IF i <= n THEN runs[i] ELSE run
    OBVIOUS
  <2> QED BY <2>1, <2>2
<1> DEFINE D == Seq(Bytes)
<1>5. s \in [1 .. n -> D]
  BY <1>1, <1>3
<1>6. RunsText(runs) = FlattenSeq(s) /\ RunsText(Append(runs, run)) = FlattenSeq(t)
  BY DEF RunsText
<1> HIDE DEF s, t, n, D
<1>7. s \in Seq(D) /\ Len(s) = n
  BY <1>1, <1>5
<1>8. t = Append(s, run.text)
  BY <1>1, <1>3, <1>4, <1>7
<1>9. s \in Seq(Seq(Bytes))
  BY <1>7 DEF D
<1> QED BY <1>2, <1>6, <1>8, <1>9, FlattenAppend

LEMMA RunsTextEmpty == RunsText(<<>>) = <<>>
BY DEF RunsText, FlattenSeq

\* The text is what the marked bytes are without their marks.
LEMMA TextOfMarked ==
    ASSUME NEW runs \in Seq(TextRun)
    PROVE  /\ RunsText(runs) = Unmarked(Marked(runs))
           /\ RunsText(runs) \in Seq(Bytes)
           /\ Len(RunsText(runs)) = Len(Marked(runs))
           /\ Len(RunsText(runs)) \in Nat
<1> DEFINE S == {n \in 0 .. Len(runs) :
                    RunsText(SubSeq(runs, 1, n)) # Unmarked(Marked(SubSeq(runs, 1, n)))}
<1>1. Len(runs) \in Nat /\ SubSeq(runs, 1, Len(runs)) = runs /\ Len(runs) \in 0 .. Len(runs)
  BY PrefixFacts
<1>2. ASSUME S # {} PROVE FALSE
  <2>1. S \in SUBSET Nat
    BY <1>1
  <2>2. PICK n \in S : \A x \in S : n <= x
    <3> HIDE DEF S
    <3> QED BY <1>2, <2>1, LeastIs
  <2>3. n \in 0 .. Len(runs)
        /\ RunsText(SubSeq(runs, 1, n)) # Unmarked(Marked(SubSeq(runs, 1, n)))
    BY <2>2
  <2>4. CASE n = 0
    <3>1. SubSeq(runs, 1, n) = <<>>
      BY <2>4, PrefixFacts
    <3>2. Unmarked(<<>>) = <<>>
      BY DEF Unmarked
    <3> QED BY <2>3, <3>1, <3>2, RunsTextEmpty, MarkedSmall
  <2>5. CASE n # 0
    <3> DEFINE u == SubSeq(runs, 1, n - 1)
    <3>1. n \in 1 .. Len(runs) /\ n - 1 \in 0 .. Len(runs) /\ ~ (n <= n - 1)
      BY <1>1, <2>3, <2>5
    <3>2. runs[n] \in TextRun /\ SubSeq(runs, 1, n) = Append(u, runs[n])
      BY <3>1, PrefixFacts
    <3>3. u \in Seq(TextRun)
      BY <3>1, PrefixFacts
    <3>4. RunsText(u) = Unmarked(Marked(u))
      <4>1. n - 1 \notin S
        <5> HIDE DEF S
        <5> QED BY <2>2, <3>1
      <4> QED BY <3>1, <4>1
    <3> HIDE DEF u, S
    <3>5. RunsText(Append(u, runs[n])) = RunsText(u) \o runs[n].text
      BY <3>2, <3>3, RunsTextAppend
    <3>6. Marked(Append(u, runs[n])) = Marked(u) \o MarkedRun(runs[n])
      BY <3>2, <3>3, MarkedAppend
    <3>7. Unmarked(Marked(u) \o MarkedRun(runs[n])) = Unmarked(Marked(u)) \o Unmarked(MarkedRun(runs[n]))
      BY <3>2, <3>3, MarkedType, MarkedRunFacts, UnmarkedConcat
    <3>8. Unmarked(MarkedRun(runs[n])) = runs[n].text
      <4> DEFINE x == Unmarked(MarkedRun(runs[n]))
                 y == runs[n].text
      <4>1. /\ y \in Seq(Bytes) /\ x \in Seq(Bytes) /\ Len(x) = Len(y)
            /\ \A j \in 1 .. Len(y) : x[j] = y[j]
        <5>1. /\ y \in Seq(Bytes) /\ MarkedRun(runs[n]) \in Seq(Letters)
              /\ Len(MarkedRun(runs[n])) = Len(y)
              /\ \A j \in 1 .. Len(y) : MarkedRun(runs[n])[j] = <<y[j], runs[n].marks>>
          BY <3>2, MarkedRunFacts
        <5>2. /\ x \in Seq(Bytes) /\ Len(x) = Len(y)
              /\ \A j \in 1 .. Len(y) : x[j] = MarkedRun(runs[n])[j][1]
          BY <5>1, UnmarkedFacts
        <5> QED BY <5>1, <5>2
      <4> HIDE DEF x, y
      <4>2. x = y
        BY <4>1, SeqEqual
      <4> QED BY <4>2 DEF x, y
    <3> QED BY <2>3, <3>2, <3>4, <3>5, <3>6, <3>7, <3>8
  <2> QED BY <2>3, <2>4, <2>5
<1>3. Len(runs) \notin S
  BY <1>2
<1>4. RunsText(runs) = Unmarked(Marked(runs))
  BY <1>1, <1>3
<1>5. Marked(runs) \in Seq(Letters)
  BY MarkedType
<1> QED BY <1>4, <1>5, UnmarkedFacts

LEMMA StartFacts ==
    ASSUME NEW runs \in Seq(TextRun)
    PROVE  /\ Len(runs) \in Nat
           /\ StartOf(runs, 1) = 0
           /\ \A i \in 1 .. Len(runs) + 1 : StartOf(runs, i) \in Nat
           /\ \A i \in 1 .. Len(runs) :
                 StartOf(runs, i + 1) = StartOf(runs, i) + Len(runs[i].text)
           /\ StartOf(runs, Len(runs) + 1) = Len(RunsText(runs))
<1> DEFINE n == Len(runs)
<1>1. n \in Nat /\ SubSeq(runs, 1, 0) = <<>> /\ SubSeq(runs, 1, n) = runs
  BY PrefixFacts
<1>2. StartOf(runs, 1) = 0
  <2>1. StartOf(runs, 1) = Len(RunsText(SubSeq(runs, 1, 0)))
    BY DEF StartOf
  <2>2. Len(RunsText(<<>>)) = 0
    BY RunsTextEmpty
  <2> QED BY <1>1, <2>1, <2>2
<1>3. ASSUME NEW i \in 1 .. n + 1 PROVE StartOf(runs, i) \in Nat
  <2>1. i - 1 \in 0 .. n
    BY <1>1
  <2>2. SubSeq(runs, 1, i - 1) \in Seq(TextRun)
    BY <2>1, PrefixFacts
  <2> QED BY <2>2, TextOfMarked DEF StartOf
<1>4. ASSUME NEW i \in 1 .. n
      PROVE  StartOf(runs, i + 1) = StartOf(runs, i) + Len(runs[i].text)
  <2>1. i - 1 \in 0 .. n /\ (i + 1) - 1 = i
    BY <1>1
  <2> DEFINE u == SubSeq(runs, 1, i - 1)
  <2>2. u \in Seq(TextRun) /\ runs[i] \in TextRun /\ SubSeq(runs, 1, i) = Append(u, runs[i])
    BY <2>1, PrefixFacts
  <2>3. StartOf(runs, i) = Len(RunsText(u)) /\ StartOf(runs, i + 1) = Len(RunsText(SubSeq(runs, 1, i)))
    BY <2>1 DEF StartOf
  <2> HIDE DEF u
  <2>4. RunsText(SubSeq(runs, 1, i)) = RunsText(u) \o runs[i].text
    BY <2>2, RunsTextAppend
  <2>5. RunsText(u) \in Seq(Bytes) /\ runs[i].text \in Seq(Bytes)
    BY <2>2, TextOfMarked DEF TextRun
  <2>6. Len(RunsText(u) \o runs[i].text) = Len(RunsText(u)) + Len(runs[i].text)
    BY <2>5
  <2> QED BY <2>3, <2>4, <2>6
<1>5. StartOf(runs, n + 1) = Len(RunsText(runs))
  <2>1. (n + 1) - 1 = n
    BY <1>1
  <2> QED BY <1>1, <2>1 DEF StartOf
<1> QED BY <1>1, <1>2, <1>3, <1>4, <1>5

LEMMA StartsRise ==
    ASSUME NEW runs \in Seq(TextRun), NEW i \in 1 .. Len(runs) + 1, NEW j \in 1 .. Len(runs) + 1, i <= j
    PROVE  StartOf(runs, i) <= StartOf(runs, j)
<1> DEFINE n == Len(runs)
           S == {k \in 1 .. n + 1 : i <= k /\ ~ (StartOf(runs, i) <= StartOf(runs, k))}
<1>1. n \in Nat /\ \A k \in 1 .. n + 1 : StartOf(runs, k) \in Nat
  BY StartFacts
<1>2. ASSUME S # {} PROVE FALSE
  <2>1. S \in SUBSET Nat
    BY <1>1
  <2>2. PICK k \in S : \A x \in S : k <= x
    <3> HIDE DEF S
    <3> QED BY <1>2, <2>1, LeastIs
  <2>3. k \in 1 .. n + 1 /\ i <= k /\ ~ (StartOf(runs, i) <= StartOf(runs, k))
    BY <2>2
  <2>4. i # k
    BY <1>1, <2>3
  <2> DEFINE m == k - 1
  <2>5. m \in 1 .. n /\ m \in 1 .. n + 1 /\ i <= m /\ m + 1 = k /\ ~ (k <= m)
    BY <1>1, <2>3, <2>4
  <2>6. runs[m].text \in Seq(Bytes) /\ Len(runs[m].text) \in Nat
    <3>1. runs[m] \in TextRun
      BY <2>5
    <3> QED BY <3>1, MarkedRunFacts
  <2> HIDE DEF m
  <2>7. StartOf(runs, i) <= StartOf(runs, m)
    BY <2>2, <2>5
  <2>8. StartOf(runs, m + 1) = StartOf(runs, m) + Len(runs[m].text)
    BY <2>5, StartFacts
  <2>9. StartOf(runs, i) \in Nat /\ StartOf(runs, m) \in Nat
    BY <1>1, <2>5
  <2> DEFINE a == StartOf(runs, i)
             b == StartOf(runs, m)
             c == Len(runs[m].text)
  <2>10. a \in Nat /\ b \in Nat /\ c \in Nat /\ a <= b /\ StartOf(runs, k) = b + c
    BY <2>5, <2>6, <2>7, <2>8, <2>9
  <2> HIDE DEF S, n, a, b, c
  <2>11. a <= StartOf(runs, k)
    BY <2>10
  <2> QED BY <2>3, <2>11 DEF a
<1>3. j \notin S
  BY <1>2
<1> QED BY <1>3

-----------------------------------------------------------------------------
(* Cutting a list of runs at an offset. *)

\* The first `k` runs begin before the offset.
CutAt(runs, at, k) ==
    /\ k \in 0 .. Len(runs)
    /\ {i \in DOMAIN runs : StartOf(runs, i) < at} = 1 .. k

LEMMA CutExists ==
    ASSUME NEW runs \in Seq(TextRun), NEW at \in Nat
    PROVE  \E k : CutAt(runs, at, k)
<1> DEFINE n == Len(runs)
           S == {i \in 1 .. n : StartOf(runs, i) < at}
<1>1. n \in Nat /\ \A i \in 1 .. n : StartOf(runs, i) \in Nat
  BY StartFacts
<1>2. DOMAIN runs = 1 .. n
  OBVIOUS
<1>3. CASE S = {}
  <2>1. 1 .. 0 = {} /\ 0 \in 0 .. n
    BY <1>1
  <2>2. CutAt(runs, at, 0)
    BY <1>2, <1>3, <2>1 DEF CutAt
  <2> QED BY <2>2
<1>4. CASE S # {}
  <2>1. S \in SUBSET (0 .. n)
    BY <1>1
  <2> DEFINE k == Max(S)
  <2>2. k \in S /\ \A x \in S : x <= k
    <3> HIDE DEF S, n
    <3> QED BY <1>1, <1>4, <2>1, GreatestIs
  <2> HIDE DEF k
  <2>3. k \in 1 .. n /\ StartOf(runs, k) < at
    BY <2>2
  <2>4. ASSUME NEW i \in 1 .. k PROVE i \in S
    <3>1. i \in 1 .. n /\ i \in 1 .. n + 1 /\ k \in 1 .. n + 1 /\ i <= k
      BY <1>1, <2>3
    <3>2. StartOf(runs, i) <= StartOf(runs, k)
      BY <3>1, StartsRise
    <3> QED BY <1>1, <2>3, <3>1, <3>2
  <2>5. S = 1 .. k
    <3>1. S \subseteq 1 .. k
      BY <1>1, <2>2, <2>3
    <3> HIDE DEF S
    <3> QED BY <2>4, <3>1
  <2>6. k \in 0 .. n
    BY <1>1, <2>3
  <2>7. {i \in DOMAIN runs : StartOf(runs, i) < at} = 1 .. k
    BY <1>2, <2>5
  <2>8. CutAt(runs, at, k)
    BY <2>6, <2>7 DEF CutAt
  <2> QED BY <2>8
<1> QED BY <1>3, <1>4

\* Where the offset lies, seen from the last of these runs.
LEMMA CutFacts ==
    ASSUME NEW runs \in Seq(TextRun), NEW at \in 0 .. Len(RunsText(runs)), NEW k, CutAt(runs, at, k)
    PROVE  /\ k \in 0 .. Len(runs) /\ Cardinality(1 .. k) = k
           /\ k = 0 => at = 0
           /\ k # 0 => /\ k \in 1 .. Len(runs)
                       /\ StartOf(runs, k) \in Nat
                       /\ at - StartOf(runs, k) \in 1 .. Len(runs[k].text)
                       /\ \A i \in 1 .. k - 1 : StartOf(runs, i) + Len(runs[i].text) < at
<1> DEFINE n == Len(runs)
<1>1. /\ n \in Nat /\ StartOf(runs, 1) = 0
      /\ \A i \in 1 .. n + 1 : StartOf(runs, i) \in Nat
      /\ \A i \in 1 .. n : StartOf(runs, i + 1) = StartOf(runs, i) + Len(runs[i].text)
      /\ StartOf(runs, n + 1) = Len(RunsText(runs))
  BY StartFacts
<1>2. /\ k \in 0 .. n
      /\ \A i \in 1 .. n : StartOf(runs, i) < at <=> i \in 1 .. k
  BY DEF CutAt
<1>3. at \in Nat /\ Len(RunsText(runs)) \in Nat /\ at <= Len(RunsText(runs))
  BY TextOfMarked
<1> HIDE DEF n
<1>4. Cardinality(1 .. k) = k
  <2>1. k \in Nat
    BY <1>1, <1>2
  <2>2. Cardinality(1 .. k) = IF 1 > k THEN 0 ELSE k - 1 + 1
    BY <2>1, FS_Interval
  <2> QED BY <2>1, <2>2
<1>5. ASSUME NEW i \in 1 .. n + 1, ~ (i <= k) PROVE at <= StartOf(runs, i)
  <2>1. CASE i = n + 1
    BY <1>1, <1>3, <2>1
  <2>2. CASE i # n + 1
    <3>1. i \in 1 .. n /\ i \notin 1 .. k
      BY <1>1, <1>2, <1>5, <2>2
    <3>2. ~ (StartOf(runs, i) < at) /\ StartOf(runs, i) \in Nat
      BY <1>1, <1>2, <3>1
    <3> QED BY <1>3, <3>2
  <2> QED BY <2>1, <2>2
<1>6. CASE k = 0
  <2>1. 1 \in 1 .. n + 1 /\ ~ (1 <= k)
    BY <1>1, <1>6
  <2>2. at <= 0
    BY <1>1, <1>5, <2>1
  <2> QED BY <1>2, <1>3, <1>4, <1>6, <2>2 DEF n
<1>7. CASE k # 0
  <2>1. k \in 1 .. n /\ k \in 1 .. k /\ k + 1 \in 1 .. n + 1 /\ k \in 1 .. n + 1 /\ ~ (k + 1 <= k)
    BY <1>1, <1>2, <1>7
  <2>2. StartOf(runs, k) < at /\ StartOf(runs, k) \in Nat
    BY <1>1, <1>2, <2>1
  <2>3. at <= StartOf(runs, k + 1)
    BY <1>5, <2>1
  <2>4. StartOf(runs, k + 1) = StartOf(runs, k) + Len(runs[k].text)
    BY <1>1, <2>1
  <2>5. Len(runs[k].text) \in Nat
    <3>1. runs[k] \in TextRun
      BY <2>1 DEF n
    <3> QED BY <3>1, MarkedRunFacts
  <2>6. at - StartOf(runs, k) \in 1 .. Len(runs[k].text)
    BY <1>3, <2>2, <2>3, <2>4, <2>5
  <2>7. ASSUME NEW i \in 1 .. k - 1 PROVE StartOf(runs, i) + Len(runs[i].text) < at
    <3>1. i \in 1 .. n /\ i + 1 \in 1 .. k /\ i + 1 \in 1 .. n
      BY <1>1, <2>1
    <3>2. StartOf(runs, i + 1) < at
      BY <1>2, <3>1
    <3> QED BY <1>1, <3>1, <3>2
  <2> QED BY <1>2, <1>4, <1>7, <2>1, <2>2, <2>6, <2>7 DEF n
<1> QED BY <1>6, <1>7

\* The runs before the offset: all but the last as they are, the last one cut.
LEMMA LeftIs ==
    ASSUME NEW runs \in Seq(TextRun), NEW at \in 0 .. Len(RunsText(runs)), NEW k, CutAt(runs, at, k)
    PROVE  /\ k = 0 => LeftOf(runs, at) = <<>>
           /\ k # 0 =>
                LET c == at - StartOf(runs, k)
                IN  LeftOf(runs, at) =
                      Append(SubSeq(runs, 1, k - 1), Run(SubSeq(runs[k].text, 1, c), runs[k].marks))
<1> DEFINE left == LeftOf(runs, at)
           n == Len(runs)
           Piece(i) == [runs[i] EXCEPT !.text = SubSeq(@, 1, Min({Len(@), at - StartOf(runs, i)}))]
<1>1. left = [i \in 1 .. k |-> Piece(i)]
  BY DEF LeftOf, CutAt
<1>2. n \in Nat /\ k \in 0 .. n /\ at \in Nat
  BY DEF CutAt
<1>3. CASE k = 0
  <2>1. 1 .. k = {}
    BY <1>3
  <2>2. left = <<>>
    BY <1>1, <2>1
  <2> QED BY <1>3, <2>2
<1>4. CASE k # 0
  <2> DEFINE c == at - StartOf(runs, k)
             last == Run(SubSeq(runs[k].text, 1, c), runs[k].marks)
             front == SubSeq(runs, 1, k - 1)
  <2>1. /\ k \in 1 .. n /\ c \in 1 .. Len(runs[k].text)
        /\ \A i \in 1 .. k - 1 : StartOf(runs, i) + Len(runs[i].text) < at
    BY <1>4, CutFacts
  <2>2. ASSUME NEW i \in 1 .. k - 1 PROVE Piece(i) = runs[i]
    <3> DEFINE t == runs[i].text
               m == Len(t)
               x == at - StartOf(runs, i)
    <3>1. i \in 1 .. n /\ i \in 1 .. n + 1
      BY <1>2, <2>1
    <3>2. runs[i] \in TextRun
      BY <3>1
    <3>3. t \in Seq(Bytes) /\ m \in Nat /\ SubSeq(t, 1, m) = t
      BY <3>2, MarkedRunFacts, PrefixFacts
    <3>4. StartOf(runs, i) \in Nat /\ StartOf(runs, i) + m < at
      BY <2>1, <3>1, StartFacts
    <3>5. m <= x /\ x \in Nat
      BY <1>2, <3>3, <3>4
    <3>6. Min({m, x}) = m
      <4> HIDE DEF m, x
      <4> QED BY <3>3, <3>5 DEF Min
    <3>7. Piece(i) = [runs[i] EXCEPT !.text = SubSeq(t, 1, Min({m, x}))]
      OBVIOUS
    <3>8. [runs[i] EXCEPT !.text = t] = runs[i]
      BY <3>2 DEF TextRun
    <3> HIDE DEF Piece, m, x
    <3> QED BY <3>3, <3>6, <3>7, <3>8
  <2>3. Piece(k) = last
    <3> DEFINE t == runs[k].text
               m == Len(t)
    <3>1. runs[k] \in TextRun
      BY <2>1
    <3>2. t \in Seq(Bytes) /\ m \in Nat /\ c \in 1 .. m
      BY <2>1, <3>1, MarkedRunFacts
    <3>3. Min({m, c}) = c
      <4> HIDE DEF m, c
      <4> QED BY <3>2 DEF Min
    <3>4. Piece(k) = [runs[k] EXCEPT !.text = SubSeq(t, 1, Min({m, c}))]
      OBVIOUS
    <3>5. \A u : [runs[k] EXCEPT !.text = u] = Run(u, runs[k].marks)
      BY <3>1, SMTT(30) DEF TextRun, Run
    <3>6. [runs[k] EXCEPT !.text = SubSeq(t, 1, c)] = last
      BY <3>5
    <3> HIDE DEF Piece, m, c, last
    <3> QED BY <3>3, <3>4, <3>6
  <2>4. last \in TextRun
    <3>1. runs[k] \in TextRun
      BY <2>1
    <3>2. runs[k].text \in Seq(Bytes) /\ runs[k].marks \in SUBSET Marks
      BY <3>1, MarkedRunFacts
    <3>3. SubSeq(runs[k].text, 1, c) \in Seq(Bytes)
      <4>1. c \in 0 .. Len(runs[k].text)
        BY <2>1
      <4> HIDE DEF c
      <4> QED BY <3>2, <4>1, PrefixFacts
    <3> HIDE DEF c
    <3> QED BY <3>2, <3>3 DEF Run, TextRun
  <2>5. /\ front \in Seq(TextRun) /\ Len(front) = k - 1
        /\ \A i \in 1 .. k - 1 : front[i] = runs[i]
    <3>1. k - 1 \in 0 .. n
      BY <1>2, <2>1
    <3>2. front \in Seq(TextRun) /\ Len(front) = k - 1
      BY <3>1, PrefixFacts
    <3>3. \A i \in 1 .. k - 1 : front[i] = runs[i]
      BY <1>2, <2>1
    <3> QED BY <3>2, <3>3
  <2> DEFINE joined == Append(front, last)
  <2>6. /\ joined \in Seq(TextRun) /\ Len(joined) = k /\ joined[k] = last
        /\ \A i \in 1 .. k - 1 : joined[i] = runs[i]
    <3> HIDE DEF front, last
    <3>1. k = (k - 1) + 1
      BY <1>2
    <3> QED BY <1>2, <2>4, <2>5, <3>1, AppendProperties
  <2>7. DOMAIN left = 1 .. k
    BY <1>1
  <2>8. ASSUME NEW i \in 1 .. k PROVE left[i] = joined[i]
    <3>1. left[i] = Piece(i)
      BY <1>1
    <3>2. i = k \/ i \in 1 .. k - 1
      BY <1>2
    <3> HIDE DEF left, Piece, joined
    <3> QED BY <2>2, <2>3, <2>6, <3>1, <3>2
  <2>9. left = [i \in 1 .. k |-> left[i]]
    BY <1>1
  <2>10. joined = [i \in 1 .. k |-> joined[i]]
    <3> HIDE DEF joined
    <3> QED BY <2>6
  <2> HIDE DEF left, joined
  <2>11. left = joined
    BY <2>8, <2>9, <2>10
  <2> QED BY <1>4, <2>11 DEF left, joined
<1> QED BY <1>3, <1>4

\* The runs after the offset: what is left of the cut run, and the others.
LEMMA RightIs ==
    ASSUME NEW runs \in Seq(TextRun), NEW at \in 0 .. Len(RunsText(runs)), NEW k, CutAt(runs, at, k)
    PROVE  /\ k = 0 => RightOf(runs, at) = runs
           /\ k # 0 =>
                LET c == at - StartOf(runs, k)
                    cut == SubSeq(runs[k].text, c + 1, Len(runs[k].text))
                    rest == SubSeq(runs, k + 1, Len(runs))
                IN  RightOf(runs, at) = IF cut = <<>> THEN rest ELSE <<Run(cut, runs[k].marks)>> \o rest
<1>1. Cardinality({i \in DOMAIN runs : StartOf(runs, i) < at}) = k
  BY CutFacts DEF CutAt
<1>2. CASE k = 0
  <2>1. RightOf(runs, at) = SubSeq(runs, 0 + 1, Len(runs))
    BY <1>1, <1>2 DEF RightOf
  <2>2. SubSeq(runs, 1, Len(runs)) = runs
    BY PrefixFacts
  <2> QED BY <1>2, <2>1, <2>2
<1>3. CASE k # 0
  BY <1>1, <1>3 DEF RightOf
<1> QED BY <1>2, <1>3

\* A sequence cut in two.
Halves(whole, at, a, b) == SubSeq(whole, 1, at) = a /\ SubSeq(whole, at + 1, Len(whole)) = b

\* Cutting a sequence inside the middle one of three parts.
LEMMA CutJoin ==
    ASSUME NEW B, NEW p \in Seq(B), NEW r \in Seq(B), NEW q \in Seq(B), NEW c \in 0 .. Len(r)
    PROVE  Halves((p \o r) \o q, Len(p) + c, p \o SubSeq(r, 1, c), SubSeq(r, c + 1, Len(r)) \o q)
<1> DEFINE whole == (p \o r) \o q
           r1 == SubSeq(r, 1, c)
           r2 == SubSeq(r, c + 1, Len(r))
           a == p \o r1
           b == r2 \o q
<1>1. Len(p) \in Nat /\ Len(r) \in Nat /\ c \in Nat /\ Len(q) \in Nat
  OBVIOUS
<1>2. r1 \in Seq(B) /\ Len(r1) = c
  BY PrefixFacts
<1>3. r2 \in Seq(B)
  OBVIOUS
<1>4. r1 \o r2 = r
  <2>1. 1 \in 1 .. Len(r) + 1 /\ c \in 1 - 1 .. Len(r) /\ Len(r) \in c .. Len(r)
    BY <1>1
  <2>2. r1 \o r2 = SubSeq(r, 1, Len(r))
    BY <2>1, ConcatAdjacentSubSeq
  <2> QED BY <2>2, PrefixFacts
<1> HIDE DEF r1, r2
<1>5. a \in Seq(B) /\ Len(a) = Len(p) + c /\ b \in Seq(B) /\ Len(b) \in Nat
  <2>1. a \in Seq(B) /\ Len(a) = Len(p) + c
    BY <1>2, ConcatProperties
  <2>2. b \in Seq(B)
    BY <1>3, ConcatProperties
  <2> HIDE DEF b
  <2> QED BY <2>1, <2>2
<1>6. whole = a \o b
  <2>1. (p \o r1) \o r2 = p \o (r1 \o r2)
    BY <1>2, <1>3, SMTT(30)
  <2>2. a \o r2 = p \o r
    BY <1>4, <2>1
  <2> HIDE DEF a
  <2>3. (a \o r2) \o q = a \o (r2 \o q)
    BY <1>3, <1>5, SMTT(30)
  <2> QED BY <2>2, <2>3
<1> HIDE DEF a, b
<1>7. SubSeq(a \o b, 1, Len(a)) = a /\ SubSeq(a \o b, Len(a) + 1, Len(a \o b)) = b
  <2> DEFINE m == Len(a)
             n == Len(b)
             x == SubSeq(a \o b, 1, m)
             y == SubSeq(a \o b, m + 1, m + n)
  <2>1. m \in Nat /\ n \in Nat
    BY <1>5
  <2>2. /\ a \o b \in Seq(B) /\ Len(a \o b) = m + n
        /\ \A i \in 1 .. m + n : (a \o b)[i] = IF i <= m THEN a[i] ELSE b[i - m]
    BY <1>5, ConcatProperties
  <2> DEFINE w == a \o b
  <2> HIDE DEF w, m, n
  <2>3. w \in Seq(B) /\ Len(w) = m + n
        /\ \A i \in 1 .. m + n : w[i] = IF i <= m THEN a[i] ELSE b[i - m]
    BY <2>2 DEF w
  <2>4. SubSeq(w, 1, m) = a
    <3> DEFINE u == SubSeq(w, 1, m)
    <3>1. u \in Seq(B) /\ Len(u) = m /\ \A i \in 1 .. m : u[i] = w[i]
      BY <2>1, <2>3
    <3>2. \A i \in 1 .. m : u[i] = a[i]
      <4> HIDE DEF u
      <4> QED BY <2>1, <2>3, <3>1
    <3> HIDE DEF u
    <3>3. u = a
      BY <1>5, <3>1, <3>2, SeqEqual DEF m
    <3> QED BY <3>3 DEF u
  <2>5. SubSeq(w, m + 1, m + n) = b
    <3> DEFINE u == SubSeq(w, m + 1, m + n)
    <3>1. u \in Seq(B) /\ Len(u) = n /\ \A i \in 1 .. n : u[i] = w[m + i]
      <4>1. m + 1 \in Int /\ m + n \in Int /\ \A i \in m + 1 .. m + n : w[i] \in B
        BY <2>1, <2>3
      <4>2. /\ u \in Seq(B) /\ Len(u) = (IF m + 1 <= m + n THEN (m + n) - (m + 1) + 1 ELSE 0)
            /\ \A i \in 1 .. (m + n) - (m + 1) + 1 : u[i] = w[(m + 1) + i - 1]
        BY <4>1, SubSeqProperties
      <4> HIDE DEF u
      <4> QED BY <2>1, <4>2
    <3>2. ASSUME NEW i \in 1 .. n PROVE u[i] = b[i]
      <4>1. m + i \in 1 .. m + n /\ ~ (m + i <= m) /\ (m + i) - m = i
        BY <2>1
      <4> HIDE DEF u
      <4> QED BY <2>3, <3>1, <4>1
    <3> HIDE DEF u
    <3>3. u = b
      BY <1>5, <3>1, <3>2, SeqEqual DEF n
    <3> QED BY <3>3 DEF u
  <2> QED BY <2>3, <2>4, <2>5 DEF w, m
<1>8. SubSeq(whole, 1, Len(p) + c) = a /\ SubSeq(whole, Len(p) + c + 1, Len(whole)) = b
  BY <1>5, <1>6, <1>7
<1> QED BY <1>8 DEF Halves, a, b, r1, r2, whole

LEMMA RunFacts ==
    ASSUME NEW text \in Seq(Bytes), NEW marks \in SUBSET Marks
    PROVE  /\ Run(text, marks) \in TextRun /\ <<Run(text, marks)>> \in Seq(TextRun)
           /\ Run(text, marks).text = text /\ Run(text, marks).marks = marks
           /\ Marked(<<Run(text, marks)>>) = [j \in 1 .. Len(text) |-> <<text[j], marks>>]
<1>1. /\ Run(text, marks) \in TextRun
      /\ Run(text, marks).text = text /\ Run(text, marks).marks = marks
  BY DEF Run, TextRun
<1>2. Marked(<<Run(text, marks)>>) = MarkedRun(Run(text, marks))
  BY <1>1, MarkedSmall
<1>3. DOMAIN text = 1 .. Len(text)
  OBVIOUS
<1> QED BY <1>1, <1>2, <1>3 DEF MarkedRun

\* A part of a run has the part of its marked bytes.
LEMMA PartOfRun ==
    ASSUME NEW run \in TextRun, NEW from \in Nat, NEW to \in 0 .. Len(run.text), from >= 1,
           NEW part, part = SubSeq(run.text, from, to)
    PROVE  /\ part \in Seq(Bytes) /\ Run(part, run.marks) \in TextRun
           /\ MarkedRun(Run(part, run.marks)) = SubSeq(MarkedRun(run), from, to)
<1> DEFINE t == run.text
           m == run.marks
           w == MarkedRun(run)
           new == MarkedRun(Run(part, m))
           n == Len(t)
<1>1. /\ t \in Seq(Bytes) /\ m \in SUBSET Marks /\ n \in Nat
      /\ w = [j \in 1 .. n |-> <<t[j], m>>] /\ w \in Seq(Letters) /\ Len(w) = n
  <2>1. t \in Seq(Bytes) /\ m \in SUBSET Marks /\ w \in Seq(Letters) /\ Len(w) = n
    BY MarkedRunFacts
  <2>2. DOMAIN t = 1 .. n /\ n \in Nat
    BY <2>1
  <2> QED BY <2>1, <2>2 DEF MarkedRun
<1>2. part \in Seq(Bytes) /\ Len(part) = (IF from <= to THEN to - from + 1 ELSE 0)
      /\ \A j \in 1 .. Len(part) : part[j] = t[from + j - 1]
  BY <1>1
<1> DEFINE x == SubSeq(w, from, to)
<1>3. x \in Seq(Letters) /\ Len(x) = (IF from <= to THEN to - from + 1 ELSE 0)
      /\ \A j \in 1 .. to - from + 1 : x[j] = w[from + j - 1]
  <2>1. from \in Int /\ to \in Int /\ from >= 1 /\ to <= Len(w) /\ Len(w) \in Nat
    BY <1>1
  <2> HIDE DEF w
  <2>2. \A j \in from .. to : j \in 1 .. Len(w)
    BY <2>1
  <2>3. \A j \in from .. to : w[j] \in Letters
    BY <1>1, <2>2
  <2> QED BY <2>1, <2>3, SubSeqProperties
<1>4. Run(part, m) \in TextRun /\ Run(part, m).text = part /\ Run(part, m).marks = m
  BY <1>1, <1>2, RunFacts
<1>5. new \in Seq(Letters) /\ Len(new) = Len(part)
      /\ \A j \in 1 .. Len(part) : new[j] = <<part[j], m>>
  BY <1>4, MarkedRunFacts
<1> DEFINE size == Len(part)
<1>6. size \in Nat /\ size = IF from <= to THEN to - from + 1 ELSE 0
  BY <1>2
<1> HIDE DEF new, w, x, t, m, n, size
<1>7. ASSUME NEW j \in 1 .. size PROVE new[j] = x[j]
  <2>1. from + j - 1 \in 1 .. n /\ to \in 0 .. n /\ j \in 1 .. to - from + 1
    BY <1>1, <1>6 DEF n, t
  <2>2. x[j] = w[from + j - 1]
    BY <1>3, <2>1
  <2>4. w[from + j - 1] = <<t[from + j - 1], m>>
    BY <1>1, <2>1
  <2>3. new[j] = <<t[from + j - 1], m>>
    BY <1>2, <1>5 DEF size
  <2> QED BY <2>2, <2>3, <2>4
<1>8. new = x
  BY <1>3, <1>5, <1>6, <1>7, SeqEqual DEF size
<1> QED BY <1>2, <1>4, <1>8 DEF new, x, w, m

\* The two halves of a cut list are the two halves of its marked bytes.
LEMMA SplitFacts ==
    ASSUME NEW runs \in Seq(TextRun), NEW at \in 0 .. Len(RunsText(runs))
    PROVE  /\ LeftOf(runs, at) \in Seq(TextRun) /\ RightOf(runs, at) \in Seq(TextRun)
           /\ Marked(LeftOf(runs, at)) = SubSeq(Marked(runs), 1, at)
           /\ Marked(RightOf(runs, at)) = SubSeq(Marked(runs), at + 1, Len(Marked(runs)))
<1> DEFINE n == Len(runs)
           M == Marked(runs)
<1>1. /\ n \in Nat /\ M \in Seq(Letters) /\ Len(M) = Len(RunsText(runs)) /\ Len(M) \in Nat
      /\ at \in Nat
  BY MarkedType, TextOfMarked
<1>2. PICK k : CutAt(runs, at, k)
  BY <1>1, CutExists
<1>3. CASE k = 0
  <2>1. LeftOf(runs, at) = <<>> /\ RightOf(runs, at) = runs /\ at = 0
    BY <1>2, <1>3, LeftIs, RightIs, CutFacts
  <2>2. SubSeq(M, 1, 0) = <<>> /\ SubSeq(M, 1, Len(M)) = M
    <3> HIDE DEF M
    <3> QED BY <1>1, PrefixFacts
  <2>3. at + 1 = 1 /\ <<>> \in Seq(TextRun)
    BY <2>1
  <2> HIDE DEF M
  <2>4. SubSeq(M, 1, at) = <<>> /\ SubSeq(M, at + 1, Len(M)) = M
    BY <2>1, <2>2, <2>3
  <2> QED BY <2>1, <2>3, <2>4, MarkedSmall DEF M
<1>4. CASE k # 0
  <2> DEFINE run == runs[k]
             c == at - StartOf(runs, k)
             head == SubSeq(run.text, 1, c)
             cut == SubSeq(run.text, c + 1, Len(run.text))
             front == SubSeq(runs, 1, k - 1)
             rest == SubSeq(runs, k + 1, n)
             P == Marked(front)
             R == MarkedRun(run)
             Q == Marked(rest)
  <2>1. k \in 1 .. n /\ c \in 1 .. Len(run.text) /\ StartOf(runs, k) \in Nat
    BY <1>2, <1>4, CutFacts
  <2>2. run \in TextRun /\ Len(run.text) \in Nat /\ run.marks \in SUBSET Marks
    BY <2>1, MarkedRunFacts
  <2>3. front \in Seq(TextRun) /\ rest \in Seq(TextRun) /\ runs = Append(front, run) \o rest
    <3>1. k - 1 \in 0 .. n /\ k \in 0 .. n
      BY <1>1, <2>1
    <3>2. front \in Seq(TextRun) /\ SubSeq(runs, 1, k) = Append(front, run)
      BY <2>1, <3>1, PrefixFacts
    <3>3. SubSeq(runs, 1, k) \o SubSeq(runs, k + 1, n) = SubSeq(runs, 1, n)
      <4>1. 1 \in 1 .. n + 1 /\ k \in 1 - 1 .. n /\ n \in k .. n
        BY <1>1, <2>1
      <4> QED BY <4>1, ConcatAdjacentSubSeq
    <3>4. SubSeq(runs, 1, n) = runs
      BY PrefixFacts
    <3>5. rest \in Seq(TextRun)
      <4>1. k + 1 \in Int /\ n \in Int /\ \A i \in k + 1 .. n : i \in 1 .. n
        BY <1>1, <2>1
      <4>2. \A i \in k + 1 .. n : runs[i] \in TextRun
        BY <4>1
      <4> HIDE DEF n
      <4> QED BY <4>1, <4>2, SubSeqProperties
    <3> QED BY <3>2, <3>3, <3>4, <3>5
  <2>4. P \in Seq(Letters) /\ R \in Seq(Letters) /\ Q \in Seq(Letters) /\ Len(R) = Len(run.text)
    BY <2>2, <2>3, MarkedType, MarkedRunFacts
  <2>5. Len(P) = StartOf(runs, k) /\ Len(P) \in Nat
    BY <2>3, TextOfMarked DEF StartOf
  <2>6. M = (P \o R) \o Q
    <3> HIDE DEF front, rest
    <3>1. Append(front, run) \in Seq(TextRun)
      BY <2>2, <2>3
    <3>2. Marked(Append(front, run) \o rest) = Marked(Append(front, run)) \o Marked(rest)
      BY <2>3, <3>1, MarkedConcat
    <3>3. Marked(Append(front, run)) = P \o R
      BY <2>2, <2>3, MarkedAppend
    <3> QED BY <2>3, <3>2, <3>3
  <2>7. /\ LeftOf(runs, at) = Append(front, Run(head, run.marks))
        /\ RightOf(runs, at) = IF cut = <<>> THEN rest ELSE <<Run(cut, run.marks)>> \o rest
    BY <1>2, <1>4, LeftIs, RightIs
  <2>8. /\ Run(head, run.marks) \in TextRun
        /\ MarkedRun(Run(head, run.marks)) = SubSeq(R, 1, c)
    <3>1. c \in 0 .. Len(run.text)
      BY <2>1, <2>2
    <3> DEFINE from == 1
    <3>2. from \in Nat /\ from >= 1 /\ head = SubSeq(run.text, from, c)
      OBVIOUS
    <3> HIDE DEF run, c, head, from
    <3>3. /\ Run(head, run.marks) \in TextRun
          /\ MarkedRun(Run(head, run.marks)) = SubSeq(MarkedRun(run), from, c)
      BY <2>2, <3>1, <3>2, PartOfRun
    <3> QED BY <3>3 DEF from
  <2>9. /\ cut \in Seq(Bytes) /\ Run(cut, run.marks) \in TextRun
        /\ MarkedRun(Run(cut, run.marks)) = SubSeq(R, c + 1, Len(R))
    <3> DEFINE l == Len(run.text)
               from == c + 1
    <3>1. from \in Nat /\ from >= 1 /\ l \in 0 .. l
      BY <2>1, <2>2
    <3>2. cut = SubSeq(run.text, from, l)
      OBVIOUS
    <3> HIDE DEF run, c, cut, from
    <3>3. /\ cut \in Seq(Bytes) /\ Run(cut, run.marks) \in TextRun
          /\ MarkedRun(Run(cut, run.marks)) = SubSeq(MarkedRun(run), from, l)
      BY <2>2, <3>1, <3>2, PartOfRun
    <3> QED BY <2>4, <3>3 DEF from
  <2>10. /\ at = Len(P) + c /\ c \in 0 .. Len(R)
    BY <1>1, <2>1, <2>2, <2>4, <2>5
  <2> HIDE DEF P, R, Q, M, c, head, cut, front, rest, run
  <2>11. /\ SubSeq(M, 1, at) = P \o SubSeq(R, 1, c)
         /\ SubSeq(M, at + 1, Len(M)) = SubSeq(R, c + 1, Len(R)) \o Q
    <3>1. Halves((P \o R) \o Q, Len(P) + c, P \o SubSeq(R, 1, c), SubSeq(R, c + 1, Len(R)) \o Q)
      BY <2>4, <2>10, CutJoin, Zenon
    <3>2. Halves(M, at, P \o SubSeq(R, 1, c), SubSeq(R, c + 1, Len(R)) \o Q)
      BY <2>6, <2>10, <3>1, Zenon
    <3> QED BY <3>2 DEF Halves
  <2>12. /\ LeftOf(runs, at) \in Seq(TextRun)
         /\ Marked(LeftOf(runs, at)) = P \o SubSeq(R, 1, c)
    <3> DEFINE new == Run(head, run.marks)
    <3> HIDE DEF new
    <3>1. new \in TextRun /\ MarkedRun(new) = SubSeq(R, 1, c) /\ LeftOf(runs, at) = Append(front, new)
      BY <2>7, <2>8 DEF new
    <3>2. Append(front, new) \in Seq(TextRun)
      BY <2>3, <3>1
    <3>3. Marked(Append(front, new)) = P \o MarkedRun(new)
      BY <2>3, <3>1, MarkedAppend DEF P
    <3> QED BY <3>1, <3>2, <3>3
  <2>13. /\ RightOf(runs, at) \in Seq(TextRun)
         /\ Marked(RightOf(runs, at)) = SubSeq(R, c + 1, Len(R)) \o Q
    <3> DEFINE new == Run(cut, run.marks)
    <3>1. MarkedRun(new) \in Seq(Letters) /\ Marked(<<new>>) = MarkedRun(new) /\ <<new>> \in Seq(TextRun)
      <4> HIDE DEF new
      <4>1. new \in TextRun
        BY <2>9 DEF new
      <4> QED BY <4>1, MarkedRunFacts, MarkedSmall
    <3>2. CASE cut = <<>>
      <4>1. MarkedRun(new) = <<>>
        <5>1. Len(cut) = 0 /\ new.text = cut
          BY <2>2, <2>9, <3>2, RunFacts
        <5>2. Len(MarkedRun(new)) = 0
          BY <2>9, <5>1, MarkedRunFacts
        <5> HIDE DEF new
        <5> QED BY <3>1, <5>2
      <4>2. <<>> \o Q = Q
        BY <2>4, ConcatEmptySeq
      <4> QED BY <2>3, <2>7, <2>9, <3>2, <4>1, <4>2 DEF Q
    <3>3. CASE cut # <<>>
      <4> HIDE DEF new
      <4>1. RightOf(runs, at) = <<new>> \o rest
        BY <2>7, <3>3 DEF new
      <4>2. Marked(<<new>> \o rest) = Marked(<<new>>) \o Q
        BY <2>3, <3>1, MarkedConcat DEF Q
      <4>3. <<new>> \o rest \in Seq(TextRun)
        BY <2>3, <3>1
      <4> QED BY <2>9, <3>1, <4>1, <4>2, <4>3 DEF new
    <3> QED BY <3>2, <3>3
  <2> QED BY <2>11, <2>12, <2>13 DEF M
<1> QED BY <1>3, <1>4

-----------------------------------------------------------------------------
(* Coalesce: the same marked bytes, in normal runs. *)

Join(out, run) ==
    IF run.text = <<>> THEN out
    ELSE IF out # <<>> /\ Last(out).marks = run.marks
      THEN [out EXCEPT ![Len(out)].text = @ \o run.text]
    ELSE Append(out, run)

JoinsUpto(runs, n, f) == f = [i \in 0 .. n |-> IF i = 0 THEN <<>> ELSE Join(f[i - 1], runs[i])]

LEMMA UptoExists ==
    ASSUME NEW runs, NEW count \in Nat
    PROVE  \E f : JoinsUpto(runs, count, f)
<1> DEFINE S == {n \in Nat : ~ \E f : JoinsUpto(runs, n, f)}
<1> SUFFICES ASSUME S # {} PROVE FALSE
  OBVIOUS
<1>1. S \in SUBSET Nat
  OBVIOUS
<1>2. PICK m \in S : \A x \in S : m <= x
  <2> HIDE DEF S
  <2> QED BY <1>1, LeastIs
<1>3. m \in Nat /\ ~ \E f : JoinsUpto(runs, m, f)
  BY <1>2
<1>4. CASE m = 0
  <2> DEFINE g == [i \in 0 .. 0 |-> <<>>]
  <2>1. g = [i \in 0 .. 0 |-> IF i = 0 THEN <<>> ELSE Join(g[i - 1], runs[i])]
    OBVIOUS
  <2>2. JoinsUpto(runs, 0, g)
    BY <2>1 DEF JoinsUpto
  <2> QED BY <2>2, <1>3, <1>4
<1>5. CASE m # 0
  <2>1. m - 1 \in Nat /\ m - 1 \notin S
    <3>1. m - 1 \in Nat /\ ~ (m <= m - 1)
      BY <1>3, <1>5
    <3> HIDE DEF S
    <3> QED BY <3>1, <1>2
  <2>2. PICK k : JoinsUpto(runs, m - 1, k)
    BY <2>1
  <2> DEFINE g == [i \in 0 .. m |-> IF i <= m - 1 THEN k[i] ELSE Join(k[i - 1], runs[i])]
  <2>3. \A i \in 0 .. m - 1 : k[i] = IF i = 0 THEN <<>> ELSE Join(k[i - 1], runs[i])
    BY <2>2 DEF JoinsUpto
  <2>4. ASSUME NEW i \in 0 .. m
        PROVE  g[i] = IF i = 0 THEN <<>> ELSE Join(g[i - 1], runs[i])
    <3>1. g[i] = IF i = 0 THEN <<>> ELSE Join(k[i - 1], runs[i])
      <4>1. CASE i <= m - 1
        <5>1. i \in 0 .. m - 1 /\ g[i] = k[i]
          BY <4>1, <1>3
        <5> HIDE DEF g
        <5> QED BY <5>1, <2>3
      <4>2. CASE ~ (i <= m - 1)
        <5>1. i # 0
          BY <1>3, <1>5, <4>2
        <5> QED BY <4>2, <5>1
      <4> QED BY <4>1, <4>2
    <3>2. i # 0 => g[i - 1] = k[i - 1]
      <4> SUFFICES ASSUME i # 0 PROVE g[i - 1] = k[i - 1]
        OBVIOUS
      <4>1. i - 1 \in 0 .. m /\ i - 1 <= m - 1
        BY <1>3
      <4> QED BY <4>1
    <3> HIDE DEF g
    <3> QED BY <3>1, <3>2
  <2>5. DOMAIN g = 0 .. m /\ g = [i \in 0 .. m |-> g[i]]
    OBVIOUS
  <2> HIDE DEF g
  <2>6. JoinsUpto(runs, m, g)
    BY <2>4, <2>5 DEF JoinsUpto
  <2> QED BY <2>6, <1>3
<1> QED BY <1>4, <1>5

LEMMA NormalAppend ==
    ASSUME NEW out \in Seq(TextRun), NEW run \in TextRun,
           IsNormal(out), run.text # <<>>, out # <<>> => out[Len(out)].marks # run.marks
    PROVE  IsNormal(Append(out, run))
<1> DEFINE n == Len(out)
           new == Append(out, run)
<1>1. /\ n \in Nat /\ DOMAIN out = 1 .. n /\ DOMAIN new = 1 .. n + 1 /\ Len(new) = n + 1
      /\ \A i \in 1 .. n : new[i] = out[i]
      /\ new[n + 1] = run
  OBVIOUS
<1>2. /\ \A i \in 1 .. n : out[i].text # <<>>
      /\ \A i \in 1 .. n - 1 : out[i].marks # out[i + 1].marks
  BY <1>1 DEF IsNormal
<1>3. n # 0 => out[n].marks # run.marks
  OBVIOUS
<1> HIDE DEF n, new
<1>4. ASSUME NEW i \in 1 .. n + 1 PROVE new[i].text # <<>>
  <2>1. i \in 1 .. n \/ i = n + 1
    BY <1>1
  <2> QED BY <1>1, <1>2, <2>1
<1>5. ASSUME NEW i \in 1 .. n PROVE new[i].marks # new[i + 1].marks
  <2>1. CASE i = n
    <3>1. new[i] = out[n] /\ new[i + 1] = run /\ n # 0
      BY <1>1, <2>1
    <3> QED BY <1>3, <3>1
  <2>2. CASE i # n
    <3>1. i \in 1 .. n - 1 /\ i + 1 \in 1 .. n
      BY <1>1, <2>2
    <3> QED BY <1>1, <1>2, <3>1
  <2> QED BY <2>1, <2>2
<1>6. 1 .. Len(new) - 1 = 1 .. n
  BY <1>1
<1> QED BY <1>1, <1>4, <1>5, <1>6 DEF IsNormal, new

LEMMA NormalFront ==
    ASSUME NEW out \in Seq(TextRun), IsNormal(out), out # <<>>,
           NEW front, front = SubSeq(out, 1, Len(out) - 1)
    PROVE  /\ front \in Seq(TextRun) /\ IsNormal(front)
           /\ out[Len(out)] \in TextRun /\ out[Len(out)].text # <<>>
           /\ front # <<>> => front[Len(front)].marks # out[Len(out)].marks
           /\ out = Append(front, out[Len(out)]) /\ Len(out) = Len(front) + 1
<1> DEFINE n == Len(out)
<1>1. n \in Nat /\ n # 0
  OBVIOUS
<1>2. n \in 1 .. n /\ n - 1 \in 0 .. n
  BY <1>1
<1>3. /\ front \in Seq(TextRun) /\ Len(front) = n - 1
      /\ out[n] \in TextRun /\ out = Append(front, out[n])
  <2>1. SubSeq(out, 1, n) = out
    BY PrefixFacts
  <2>2. SubSeq(out, 1, n) = Append(SubSeq(out, 1, n - 1), out[n]) /\ out[n] \in TextRun
    BY <1>2, PrefixFacts
  <2>3. SubSeq(out, 1, n - 1) \in Seq(TextRun) /\ Len(SubSeq(out, 1, n - 1)) = n - 1
    BY <1>2, PrefixFacts
  <2> QED BY <2>1, <2>2, <2>3
<1>4. \A i \in 1 .. n - 1 : front[i] = out[i]
  <2>1. \A i \in 1 .. n : i \in 1 .. n
    OBVIOUS
  <2> QED BY <1>2
<1>5. DOMAIN out = 1 .. n /\ DOMAIN front = 1 .. n - 1
  BY <1>3
<1>6. /\ \A i \in 1 .. n : out[i].text # <<>>
      /\ \A i \in 1 .. n - 1 : out[i].marks # out[i + 1].marks
  BY <1>5 DEF IsNormal
<1> HIDE DEF n
<1>7. /\ \A i \in 1 .. n - 1 : front[i].text # <<>>
      /\ \A i \in 1 .. (n - 1) - 1 : front[i].marks # front[i + 1].marks
  <2>1. \A i \in 1 .. (n - 1) - 1 : i \in 1 .. n - 1 /\ i + 1 \in 1 .. n - 1
    BY <1>1
  <2>2. \A i \in 1 .. n - 1 : i \in 1 .. n
    BY <1>1
  <2> QED BY <1>4, <1>6, <2>1, <2>2
<1>8. IsNormal(front)
  BY <1>3, <1>5, <1>7 DEF IsNormal
<1>9. ASSUME front # <<>> PROVE front[n - 1].marks # out[n].marks
  <2>1. n - 1 # 0
    BY <1>3, <1>9
  <2>2. n - 1 \in 1 .. n - 1 /\ (n - 1) + 1 = n
    BY <1>1, <2>1
  <2> QED BY <1>4, <1>6, <2>2
<1> QED BY <1>1, <1>2, <1>3, <1>6, <1>8, <1>9 DEF n

\* Joining one run adds its marked bytes, and the list stays normal.
LEMMA JoinFacts ==
    ASSUME NEW out \in Seq(TextRun), NEW run \in TextRun, IsNormal(out)
    PROVE  /\ Join(out, run) \in Seq(TextRun) /\ IsNormal(Join(out, run))
           /\ Marked(Join(out, run)) = Marked(out) \o MarkedRun(run)
<1> DEFINE n == Len(out)
           last == out[n]
           front == SubSeq(out, 1, n - 1)
<1>1. run.text \in Seq(Bytes) /\ run.marks \in SUBSET Marks /\ n \in Nat
  BY MarkedRunFacts
<1>2. CASE run.text = <<>>
  <2>1. MarkedRun(run) = <<>>
    <3>1. Len(run.text) = 0
      BY <1>2
    <3>2. MarkedRun(run) \in Seq(Letters) /\ Len(MarkedRun(run)) = 0
      BY <3>1, MarkedRunFacts
    <3> QED BY <3>2
  <2>2. Marked(out) \o <<>> = Marked(out)
    BY MarkedType, ConcatEmptySeq
  <2>3. Join(out, run) = out
    BY <1>2 DEF Join
  <2> QED BY <2>1, <2>2, <2>3
<1>3. CASE run.text # <<>> /\ out # <<>> /\ last.marks = run.marks
  <2> DEFINE text == last.text \o run.text
             new == Run(text, last.marks)
  <2>0. front = SubSeq(out, 1, Len(out) - 1)
    OBVIOUS
  <2>1. /\ front \in Seq(TextRun) /\ IsNormal(front) /\ last \in TextRun
        /\ front # <<>> => front[Len(front)].marks # last.marks
        /\ out = Append(front, last)
    <3> HIDE DEF front
    <3> QED BY <1>3, <2>0, NormalFront
  <2>2. /\ last.text \in Seq(Bytes) /\ last.marks \in SUBSET Marks
        /\ MarkedRun(last) \in Seq(Letters) /\ MarkedRun(run) \in Seq(Letters)
    BY <2>1, MarkedRunFacts
  <2>3. text \in Seq(Bytes) /\ text # <<>>
    <3>1. text \in Seq(Bytes) /\ Len(text) = Len(last.text) + Len(run.text)
      BY <1>1, <2>2, ConcatProperties
    <3>2. Len(last.text) \in Nat /\ Len(run.text) \in Nat /\ Len(run.text) # 0
      BY <1>1, <1>3, <2>2
    <3> DEFINE l == Len(last.text)
               m == Len(run.text)
    <3>5. l \in Nat /\ m \in Nat /\ m # 0 /\ Len(text) = l + m
      BY <3>1, <3>2
    <3> HIDE DEF text, last, l, m
    <3>3. Len(text) # 0
      BY <3>5
    <3>4. Len(<<>>) = 0
      OBVIOUS
    <3> QED BY <3>1, <3>3, <3>4, Zenon
  <2>4. new \in TextRun /\ new.text = text /\ new.marks = last.marks
    <3> HIDE DEF text
    <3> QED BY <2>2, <2>3, RunFacts
  <2>5. Join(out, run) = Append(front, new)
    <3>1. Join(out, run) = [out EXCEPT ![n].text = @ \o run.text]
      BY <1>3 DEF Join, Last
    <3>2. n \in 1 .. n /\ DOMAIN out = 1 .. n
      BY <1>3
    <3>3. last = [text |-> last.text, marks |-> last.marks]
      BY <2>1 DEF TextRun
    <3>4. [out EXCEPT ![n].text = @ \o run.text] = [out EXCEPT ![n] = new]
      <4>1. [last EXCEPT !.text = last.text \o run.text] = new
        <5> DEFINE t == last.text \o run.text
        <5> HIDE DEF last, t
        <5>1. [last EXCEPT !.text = t] = [text |-> t, marks |-> last.marks]
          BY <3>3
        <5> QED BY <5>1 DEF Run, t
      <4>2. [out EXCEPT ![n].text = @ \o run.text]
            = [out EXCEPT ![n] = [last EXCEPT !.text = last.text \o run.text]]
        OBVIOUS
      <4> QED BY <4>1, <4>2, Zenon
    <3>5. [out EXCEPT ![n] = new] = Append(front, new)
      <4> DEFINE a == [out EXCEPT ![n] = new]
                 b == Append(front, new)
      <4>1. front \in Seq(TextRun) /\ Len(front) = n - 1 /\ \A i \in 1 .. n - 1 : front[i] = out[i]
        <5>1. n - 1 \in 0 .. n
          BY <3>2
        <5>2. Len(front) = n - 1
          BY <5>1, PrefixFacts
        <5>3. \A i \in 1 .. n - 1 : front[i] = out[i]
          BY <3>2
        <5> QED BY <2>1, <5>2, <5>3
      <4> HIDE DEF front, new
      <4>2. a \in Seq(TextRun) /\ Len(a) = n /\ a[n] = new /\ \A i \in 1 .. n - 1 : a[i] = out[i]
        <5>1. \A i \in 1 .. n : a[i] \in TextRun
          BY <2>4, <3>2
        <5>2. DOMAIN a = 1 .. n
          BY <3>2
        <5>3. a[n] = new /\ \A i \in 1 .. n - 1 : a[i] = out[i]
          BY <3>2
        <5> HIDE DEF a
        <5>4. a = [i \in 1 .. n |-> a[i]]
          <6>1. a = [i \in DOMAIN a |-> a[i]]
            BY DEF a
          <6> QED BY <5>2, <6>1
        <5>5. a \in Seq(TextRun) /\ Len(a) = n
          <6> HIDE DEF n
          <6> QED BY <1>1, <5>1, <5>2, <5>4
        <5> QED BY <5>3, <5>5
      <4>3. b \in Seq(TextRun) /\ Len(b) = n /\ b[n] = new /\ \A i \in 1 .. n - 1 : b[i] = front[i]
        <5>1. n - 1 \in Nat
          BY <3>2
        <5> DEFINE k == n - 1
        <5> HIDE DEF n
        <5>2. b \in Seq(TextRun) /\ Len(b) = k + 1 /\ b[k + 1] = new /\ \A i \in 1 .. k : b[i] = front[i]
          BY <2>4, <4>1, <5>1
        <5> HIDE DEF b
        <5> QED BY <1>1, <5>2
      <4> HIDE DEF a, b, n
      <4>4. ASSUME NEW i \in 1 .. n PROVE a[i] = b[i]
        <5>1. i = n \/ i \in 1 .. n - 1
          BY <1>1
        <5> QED BY <4>1, <4>2, <4>3, <5>1
      <4>5. a = b
        BY <4>2, <4>3, <4>4, SeqEqual
      <4> QED BY <4>5 DEF a, b
    <3> QED BY <3>1, <3>4, <3>5
  <2>6. MarkedRun(new) = MarkedRun(last) \o MarkedRun(run)
    <3> DEFINE a == MarkedRun(new)
               x == MarkedRun(last)
               y == MarkedRun(run)
               b == x \o y
               l == Len(last.text)
               m == Len(run.text)
    <3>1. l \in Nat /\ m \in Nat /\ Len(text) = l + m
      BY <1>1, <2>2, ConcatProperties
    <3>2. \A j \in 1 .. l + m : text[j] = IF j <= l THEN last.text[j] ELSE run.text[j - l]
      BY <1>1, <2>2, ConcatProperties
    <3>3. a \in Seq(Letters) /\ Len(a) = l + m /\ \A j \in 1 .. l + m : a[j] = <<text[j], last.marks>>
      <4> HIDE DEF new
      <4>1. a \in Seq(Letters) /\ Len(a) = Len(new.text)
            /\ \A j \in 1 .. Len(new.text) : a[j] = <<new.text[j], new.marks>>
        BY <2>4, MarkedRunFacts
      <4> HIDE DEF text
      <4> QED BY <2>4, <3>1, <4>1
    <3>4. /\ Len(x) = l /\ Len(y) = m
          /\ \A j \in 1 .. l : x[j] = <<last.text[j], last.marks>>
          /\ \A j \in 1 .. m : y[j] = <<run.text[j], last.marks>>
      BY <1>3, <2>1, MarkedRunFacts
    <3>5. b \in Seq(Letters) /\ Len(b) = l + m
          /\ \A j \in 1 .. l + m : b[j] = IF j <= l THEN x[j] ELSE y[j - l]
      <4>1. x \in Seq(Letters) /\ y \in Seq(Letters)
        BY <2>2
      <4> HIDE DEF x, y, l, m
      <4>2. b \in Seq(Letters) /\ Len(b) = Len(x) + Len(y)
            /\ \A j \in 1 .. Len(x) + Len(y) : b[j] = IF j <= Len(x) THEN x[j] ELSE y[j - Len(x)]
        BY <4>1, ConcatProperties
      <4>3. Len(x) = l /\ Len(y) = m
        BY <3>4
      <4> HIDE DEF b
      <4> QED BY <4>2, <4>3
    <3> HIDE DEF a, b, x, y, l, m, text, new, last
    <3>6. ASSUME NEW j \in 1 .. l + m PROVE a[j] = b[j]
      <4>1. CASE j <= l
        <5>1. j \in 1 .. l
          BY <3>1, <4>1
        <5>2. text[j] = last.text[j]
          BY <3>2, <4>1
        <5>3. a[j] = <<text[j], last.marks>> /\ b[j] = x[j] /\ x[j] = <<last.text[j], last.marks>>
          BY <3>3, <3>4, <3>5, <4>1, <5>1
        <5> QED BY <5>2, <5>3
      <4>2. CASE ~ (j <= l)
        <5>1. j - l \in 1 .. m
          BY <3>1, <4>2
        <5>2. text[j] = run.text[j - l]
          BY <3>2, <4>2
        <5>3. a[j] = <<text[j], last.marks>> /\ b[j] = y[j - l]
          BY <3>3, <3>5, <4>2
        <5>4. y[j - l] = <<run.text[j - l], last.marks>>
          BY <3>4, <5>1
        <5> QED BY <5>2, <5>3, <5>4
      <4> QED BY <4>1, <4>2
    <3>7. a = b
      BY <3>3, <3>5, <3>6, SeqEqual
    <3> QED BY <3>7 DEF a, b, x, y
  <2> HIDE DEF new, text, front, last
  <2>7. Append(front, new) \in Seq(TextRun) /\ IsNormal(Append(front, new))
    BY <2>1, <2>3, <2>4, NormalAppend
  <2>8. /\ Marked(Append(front, new)) = Marked(front) \o MarkedRun(new)
        /\ Marked(out) = Marked(front) \o MarkedRun(last)
    BY <2>1, <2>4, MarkedAppend
  <2>9. Marked(front) \o (MarkedRun(last) \o MarkedRun(run)) = (Marked(front) \o MarkedRun(last)) \o MarkedRun(run)
    <3> DEFINE x == Marked(front)
               y == MarkedRun(last)
               z == MarkedRun(run)
    <3>1. x \in Seq(Letters) /\ y \in Seq(Letters) /\ z \in Seq(Letters)
      BY <2>1, <2>2, MarkedType
    <3> HIDE DEF x, y, z
    <3>2. x \o (y \o z) = (x \o y) \o z
      BY <3>1, SMTT(30)
    <3> QED BY <3>2 DEF x, y, z
  <2> QED BY <2>5, <2>6, <2>7, <2>8, <2>9
<1>4. CASE run.text # <<>> /\ (out # <<>> => last.marks # run.marks)
  <2>1. Join(out, run) = Append(out, run)
    BY <1>4 DEF Join, Last
  <2>2. Append(out, run) \in Seq(TextRun) /\ IsNormal(Append(out, run))
    BY <1>4, NormalAppend
  <2> QED BY <2>1, <2>2, MarkedAppend
<1> QED BY <1>2, <1>3, <1>4

LEMMA CoalesceFacts ==
    ASSUME NEW runs \in Seq(TextRun)
    PROVE  /\ Coalesce(runs) \in Seq(TextRun) /\ IsNormal(Coalesce(runs))
           /\ Marked(Coalesce(runs)) = Marked(runs)
<1> DEFINE n == Len(runs)
           g == CHOOSE f : JoinsUpto(runs, n, f)
           Good(i) == /\ g[i] \in Seq(TextRun) /\ IsNormal(g[i])
                      /\ Marked(g[i]) = Marked(SubSeq(runs, 1, i))
           S == {i \in 0 .. n : ~ Good(i)}
<1>1. n \in Nat
  OBVIOUS
<1>2. JoinsUpto(runs, n, g)
  BY <1>1, UptoExists
<1>3. Coalesce(runs) = g[n]
  BY DEF Coalesce, JoinsUpto, Join
<1>4. \A i \in 0 .. n : g[i] = IF i = 0 THEN <<>> ELSE Join(g[i - 1], runs[i])
  BY <1>2 DEF JoinsUpto
<1> HIDE DEF g
<1>5. ASSUME S # {} PROVE FALSE
  <2>1. S \in SUBSET Nat
    BY <1>1
  <2>2. PICK i \in S : \A x \in S : i <= x
    <3> HIDE DEF S
    <3> QED BY <1>5, <2>1, LeastIs
  <2>3. i \in 0 .. n /\ ~ Good(i)
    BY <2>2
  <2>4. CASE i = 0
    <3>1. g[i] = <<>> /\ SubSeq(runs, 1, i) = <<>>
      BY <1>4, <2>3, <2>4, PrefixFacts
    <3>2. IsNormal(<<>>) /\ <<>> \in Seq(TextRun)
      BY DEF IsNormal
    <3> QED BY <2>3, <3>1, <3>2
  <2>5. CASE i # 0
    <3>1. i \in 1 .. n /\ i - 1 \in 0 .. n /\ ~ (i <= i - 1)
      BY <1>1, <2>3, <2>5
    <3>2. i - 1 \notin S
      <4> HIDE DEF S
      <4> QED BY <2>2, <3>1
    <3>3. Good(i - 1)
      BY <3>1, <3>2
    <3>4. g[i] = Join(g[i - 1], runs[i])
      BY <1>4, <2>3, <2>5
    <3>5. /\ runs[i] \in TextRun /\ SubSeq(runs, 1, i) = Append(SubSeq(runs, 1, i - 1), runs[i])
          /\ SubSeq(runs, 1, i - 1) \in Seq(TextRun)
      BY <3>1, PrefixFacts
    <3>6. Marked(SubSeq(runs, 1, i)) = Marked(SubSeq(runs, 1, i - 1)) \o MarkedRun(runs[i])
      BY <3>5, MarkedAppend
    <3>7. /\ g[i] \in Seq(TextRun) /\ IsNormal(g[i])
          /\ Marked(g[i]) = Marked(g[i - 1]) \o MarkedRun(runs[i])
      BY <3>3, <3>4, <3>5, JoinFacts
    <3> QED BY <2>3, <3>3, <3>6, <3>7
  <2> QED BY <2>4, <2>5
<1>6. n \in 0 .. n
  BY <1>1
<1>7. Good(n)
  BY <1>5, <1>6
<1>8. SubSeq(runs, 1, n) = runs
  BY PrefixFacts
<1> QED BY <1>3, <1>7, <1>8

-----------------------------------------------------------------------------
(* set_text and mark. *)

LEMMA MarksAtType ==
    ASSUME NEW runs \in Seq(TextRun), NEW at
    PROVE  MarksAt(runs, at) \in SUBSET Marks
<1> DEFINE reaching == {i \in DOMAIN runs : at < StartOf(runs, i + 1)}
           n == Len(runs)
<1>1. n \in Nat /\ DOMAIN runs = 1 .. n /\ \A i \in 1 .. n : runs[i].marks \in SUBSET Marks
  BY MarkedRunFacts
<1>2. CASE runs = <<>>
  BY <1>2 DEF MarksAt
<1>3. CASE runs # <<>> /\ reaching = {}
  <2>1. n \in 1 .. n
    BY <1>1, <1>3
  <2> QED BY <1>1, <1>3, <2>1 DEF MarksAt, Last
<1>4. CASE runs # <<>> /\ reaching # {}
  <2>1. reaching \in SUBSET Nat /\ reaching \subseteq 1 .. n
    BY <1>1
  <2>2. MarksAt(runs, at) = runs[Min(reaching)].marks
    BY <1>4 DEF MarksAt
  <2> HIDE DEF reaching
  <2>3. Min(reaching) \in reaching
    BY <1>4, <2>1, LeastIs
  <2> QED BY <1>1, <2>1, <2>2, <2>3
<1> QED BY <1>2, <1>3, <1>4

LEMMA PartFacts ==
    ASSUME NEW B, NEW s \in Seq(B), NEW m \in Nat, NEW n \in Nat, 1 <= m, n <= Len(s)
    PROVE  /\ SubSeq(s, m, n) \in Seq(B)
           /\ Len(SubSeq(s, m, n)) = IF m <= n THEN n - m + 1 ELSE 0
           /\ \A i \in 1 .. n - m + 1 : SubSeq(s, m, n)[i] = s[m + i - 1]
<1> DEFINE l == Len(s)
<1>1. l \in Nat /\ \A i \in 1 .. l : s[i] \in B
  OBVIOUS
<1> HIDE DEF l
<1>2. \A i \in m .. n : i \in 1 .. l
  BY <1>1 DEF l
<1>3. m \in Int /\ n \in Int /\ \A i \in m .. n : s[i] \in B
  BY <1>1, <1>2
<1> QED BY <1>3, SubSeqProperties

LEMMA UnmarkedPart ==
    ASSUME NEW a \in Seq(Letters), NEW m \in Nat, NEW n \in Nat, 1 <= m, n <= Len(a)
    PROVE  Unmarked(SubSeq(a, m, n)) = SubSeq(Unmarked(a), m, n)
<1> DEFINE l == Len(a)
           part == SubSeq(a, m, n)
           text == Unmarked(a)
           x == Unmarked(part)
           y == SubSeq(text, m, n)
           size == IF m <= n THEN n - m + 1 ELSE 0
<1>1. l \in Nat
  OBVIOUS
<1>2. /\ part \in Seq(Letters) /\ Len(part) = size
      /\ \A i \in 1 .. n - m + 1 : part[i] = a[m + i - 1]
  BY PartFacts
<1>3. text \in Seq(Bytes) /\ Len(text) = l /\ \A k \in 1 .. l : text[k] = a[k][1]
  BY UnmarkedFacts
<1> HIDE DEF part, text
<1>4. x \in Seq(Bytes) /\ Len(x) = size /\ \A i \in 1 .. size : x[i] = part[i][1]
  BY <1>2, UnmarkedFacts
<1>5. /\ y \in Seq(Bytes) /\ Len(y) = size
      /\ \A i \in 1 .. n - m + 1 : y[i] = text[m + i - 1]
  BY <1>3, PartFacts
<1> HIDE DEF x, y, l
<1>6. ASSUME NEW i \in 1 .. size PROVE x[i] = y[i]
  <2>1. i \in 1 .. n - m + 1 /\ m + i - 1 \in 1 .. l
    BY <1>1 DEF l
  <2>2. x[i] = a[m + i - 1][1]
    BY <1>2, <1>4, <2>1
  <2>3. y[i] = a[m + i - 1][1]
    BY <1>3, <1>5, <2>1
  <2> QED BY <2>2, <2>3
<1>7. x = y
  BY <1>4, <1>5, <1>6, SeqEqual
<1> QED BY <1>7 DEF x, y, part, text

LEMMA BoundaryFacts ==
    ASSUME NEW text \in Seq(Bytes)
    PROVE  /\ Boundaries(text) \in SUBSET (0 .. Len(text))
           /\ 0 \in Boundaries(text) /\ Len(text) \in Boundaries(text)
           /\ \A at \in Nat : Clamp(text, at) \in Boundaries(text) /\ Clamp(text, at) \in 0 .. Len(text)
                              /\ Clamp(text, at) <= at
<1> DEFINE n == Len(text)
<1>1. n \in Nat
  OBVIOUS
<1>2. Boundaries(text) \in SUBSET (0 .. n) /\ 0 \in Boundaries(text) /\ n \in Boundaries(text)
  BY <1>1 DEF Boundaries
<1>3. ASSUME NEW at \in Nat
      PROVE  Clamp(text, at) \in Boundaries(text) /\ Clamp(text, at) <= at
  <2> DEFINE S == {i \in Boundaries(text) : i <= at}
  <2>1. S \in SUBSET (0 .. n) /\ S # {}
    BY <1>2
  <2>2. Max(S) \in S
    <3> HIDE DEF S, n
    <3> QED BY <1>1, <2>1, GreatestIs
  <2>3. Max(S) \in Boundaries(text) /\ Max(S) <= at
    BY <2>2
  <2>4. Clamp(text, at) = IF at >= n THEN n ELSE Max(S)
    BY DEF Clamp
  <2> HIDE DEF S
  <2> QED BY <1>1, <1>2, <2>3, <2>4
<1> QED BY <1>2, <1>3

\* The number of bytes two texts may share.
LEMMA LesserIs ==
    ASSUME NEW m \in Nat, NEW n \in Nat
    PROVE  Min({m, n}) \in Nat /\ Min({m, n}) <= m /\ Min({m, n}) <= n
<1>1. Min({m, n}) \in {m, n} /\ \A x \in {m, n} : Min({m, n}) <= x
  BY LeastIs
<1> QED BY <1>1

LEMMA PrefixCloses ==
    ASSUME NEW B, NEW a \in Seq(B), NEW b \in Seq(B), NEW m \in Nat, NEW n \in Nat, m <= n,
           n <= Len(a), n <= Len(b), SamePrefix(a, b, n)
    PROVE  SamePrefix(a, b, m)
<1> DEFINE x == SubSeq(a, 1, m)
           y == SubSeq(b, 1, m)
           k == Len(a)
           l == Len(b)
<1>1. k \in Nat /\ l \in Nat
  OBVIOUS
<1>2. \A i \in 1 .. n : a[i] = b[i]
  <2> DEFINE u == SubSeq(a, 1, n)
             v == SubSeq(b, 1, n)
  <2>1. \A i \in 1 .. n : u[i] = a[i] /\ v[i] = b[i]
    OBVIOUS
  <2>2. u = v
    BY DEF SamePrefix
  <2> HIDE DEF u, v
  <2> QED BY <2>1, <2>2
<1>3. /\ x \in Seq(B) /\ Len(x) = m /\ \A i \in 1 .. m : x[i] = a[i]
      /\ y \in Seq(B) /\ Len(y) = m /\ \A i \in 1 .. m : y[i] = b[i]
  OBVIOUS
<1> HIDE DEF x, y
<1>4. \A i \in 1 .. m : x[i] = y[i]
  BY <1>2, <1>3
<1>5. x = y
  BY <1>3, <1>4, SeqEqual
<1> QED BY <1>5 DEF SamePrefix, x, y

LEMMA SuffixCloses ==
    ASSUME NEW B, NEW a \in Seq(B), NEW b \in Seq(B), NEW m \in Nat, NEW n \in Nat, m <= n,
           n <= Len(a), n <= Len(b), SameSuffix(a, b, n)
    PROVE  SameSuffix(a, b, m)
<1> DEFINE k == Len(a)
           l == Len(b)
           x == SubSeq(a, k - m + 1, k)
           y == SubSeq(b, l - m + 1, l)
           u == SubSeq(a, k - n + 1, k)
           v == SubSeq(b, l - n + 1, l)
<1>1. k \in Nat /\ l \in Nat /\ n <= k /\ n <= l
  OBVIOUS
<1>2. \A j \in 0 .. n :
         /\ k - j + 1 \in Nat /\ 1 <= k - j + 1 /\ l - j + 1 \in Nat /\ 1 <= l - j + 1
         /\ k - (k - j + 1) + 1 = j /\ l - (l - j + 1) + 1 = j
         /\ \A i \in 1 .. j : (k - j + 1) + i - 1 = k - j + i /\ (l - j + 1) + i - 1 = l - j + i
  <2> HIDE DEF k, l
  <2> QED BY <1>1
<1>3. \A j \in 0 .. n :
         /\ SubSeq(a, k - j + 1, k) \in Seq(B) /\ Len(SubSeq(a, k - j + 1, k)) = j
         /\ \A i \in 1 .. j : SubSeq(a, k - j + 1, k)[i] = a[k - j + i]
         /\ SubSeq(b, l - j + 1, l) \in Seq(B) /\ Len(SubSeq(b, l - j + 1, l)) = j
         /\ \A i \in 1 .. j : SubSeq(b, l - j + 1, l)[i] = b[l - j + i]
  <2> TAKE j \in 0 .. n
  <2> DEFINE from == k - j + 1
             start == l - j + 1
  <2>1. /\ from \in Nat /\ 1 <= from /\ start \in Nat /\ 1 <= start
        /\ k - from + 1 = j /\ l - start + 1 = j
        /\ (IF from <= k THEN k - from + 1 ELSE 0) = j
        /\ (IF start <= l THEN l - start + 1 ELSE 0) = j
        /\ \A i \in 1 .. j : from + i - 1 = k - j + i /\ start + i - 1 = l - j + i
    <3> HIDE DEF k, l
    <3> QED BY <1>1
  <2> HIDE DEF from, start
  <2>2. /\ SubSeq(a, from, k) \in Seq(B)
        /\ Len(SubSeq(a, from, k)) = IF from <= k THEN k - from + 1 ELSE 0
        /\ \A i \in 1 .. k - from + 1 : SubSeq(a, from, k)[i] = a[from + i - 1]
    BY <1>1, <2>1, PartFacts
  <2>3. /\ SubSeq(b, start, l) \in Seq(B)
        /\ Len(SubSeq(b, start, l)) = IF start <= l THEN l - start + 1 ELSE 0
        /\ \A i \in 1 .. l - start + 1 : SubSeq(b, start, l)[i] = b[start + i - 1]
    BY <1>1, <2>1, PartFacts
  <2> HIDE DEF k, l
  <2>4. /\ SubSeq(a, from, k) \in Seq(B) /\ Len(SubSeq(a, from, k)) = j
        /\ \A i \in 1 .. j : SubSeq(a, from, k)[i] = a[k - j + i]
    BY <2>1, <2>2
  <2>5. /\ SubSeq(b, start, l) \in Seq(B) /\ Len(SubSeq(b, start, l)) = j
        /\ \A i \in 1 .. j : SubSeq(b, start, l)[i] = b[l - j + i]
    BY <2>1, <2>3
  <2> QED BY <2>4, <2>5 DEF from, start
<1>4. m \in 0 .. n /\ n \in 0 .. n
  OBVIOUS
<1>5. u = v
  BY DEF SameSuffix
<1>6. /\ x \in Seq(B) /\ Len(x) = m /\ \A i \in 1 .. m : x[i] = a[k - m + i]
      /\ y \in Seq(B) /\ Len(y) = m /\ \A i \in 1 .. m : y[i] = b[l - m + i]
      /\ \A i \in 1 .. n : u[i] = a[k - n + i] /\ v[i] = b[l - n + i]
  BY <1>3, <1>4
<1> HIDE DEF x, y, u, v, k, l
<1>7. ASSUME NEW i \in 1 .. m PROVE x[i] = y[i]
  <2>1. (n - m) + i \in 1 .. n /\ k - n + ((n - m) + i) = k - m + i /\ l - n + ((n - m) + i) = l - m + i
    BY <1>1
  <2> QED BY <1>5, <1>6, <2>1
<1>8. x = y
  BY <1>6, <1>7, SeqEqual
<1> QED BY <1>8 DEF SameSuffix, x, y, k, l

\* The edges of two texts: as long as common_edges says, and apart.
LEMMA PrefixEdge ==
    ASSUME NEW old \in Seq(Bytes), NEW new \in Seq(Bytes)
    PROVE  /\ CommonPrefix(old, new) \in Nat
           /\ CommonPrefix(old, new) <= Len(old) /\ CommonPrefix(old, new) <= Len(new)
           /\ CommonPrefix(old, new) <= Min({Len(old), Len(new)})
           /\ SamePrefix(old, new, CommonPrefix(old, new))
           /\ CommonPrefix(old, new) \in Boundaries(old) /\ CommonPrefix(old, new) \in Boundaries(new)
<1> DEFINE max == Min({Len(old), Len(new)})
           S == {n \in 0 .. max : SamePrefix(old, new, n)}
           shared == Max(S)
           T == {n \in 0 .. shared : n \in Boundaries(old) /\ n \in Boundaries(new)}
           k == Len(old)
           l == Len(new)
<1>1. k \in Nat /\ l \in Nat
  OBVIOUS
<1>2. max \in Nat /\ max <= k /\ max <= l
  <2> HIDE DEF k, l
  <2> QED BY <1>1, LesserIs DEF k, l
<1>3. CommonPrefix(old, new) = Max(T)
  BY DEF CommonPrefix
<1> HIDE DEF max
<1>4. SamePrefix(old, new, 0)
  BY PrefixFacts DEF SamePrefix
<1>5. S \in SUBSET (0 .. max) /\ S # {}
  BY <1>2, <1>4
<1>6. shared \in S /\ shared \in 0 .. max
  <2> HIDE DEF S
  <2> QED BY <1>2, <1>5, GreatestIs
<1>7. shared \in Nat /\ shared <= max /\ SamePrefix(old, new, shared)
  BY <1>2, <1>6
<1> HIDE DEF shared
<1>8. T \in SUBSET (0 .. shared) /\ T # {}
  <2>1. 0 \in Boundaries(old) /\ 0 \in Boundaries(new)
    BY BoundaryFacts
  <2>2. 0 \in T
    BY <1>7, <2>1
  <2> QED BY <2>2
<1>9. Max(T) \in 0 .. shared /\ Max(T) \in T
  <2> HIDE DEF T
  <2> QED BY <1>7, <1>8, GreatestIs
<1> DEFINE m == Max(T)
<1>12. m \in Boundaries(old) /\ m \in Boundaries(new)
  BY <1>9
<1> HIDE DEF T
<1>10. m \in Nat /\ m <= shared /\ m <= max /\ m <= k /\ m <= l /\ shared <= k /\ shared <= l
  <2> HIDE DEF k, l
  <2> QED BY <1>1, <1>2, <1>7, <1>9
<1> HIDE DEF m
<1>11. SamePrefix(old, new, m)
  BY <1>7, <1>10, PrefixCloses
<1> QED BY <1>3, <1>10, <1>11, <1>12 DEF m, max

LEMMA SuffixEdge ==
    ASSUME NEW old \in Seq(Bytes), NEW new \in Seq(Bytes), NEW max \in Nat,
           max <= Len(old), max <= Len(new)
    PROVE  /\ SuffixWithin(old, new, max) \in Nat /\ SuffixWithin(old, new, max) <= max
           /\ SameSuffix(old, new, SuffixWithin(old, new, max))
           /\ Len(old) - SuffixWithin(old, new, max) \in Boundaries(old)
           /\ Len(new) - SuffixWithin(old, new, max) \in Boundaries(new)
<1> DEFINE k == Len(old)
           l == Len(new)
           S == {n \in 0 .. max : SameSuffix(old, new, n)}
           shared == Max(S)
           T == {n \in 0 .. shared : k - n \in Boundaries(old) /\ l - n \in Boundaries(new)}
<1>1. k \in Nat /\ l \in Nat /\ max <= k /\ max <= l
  OBVIOUS
<1>2. SuffixWithin(old, new, max) = Max(T)
  BY DEF SuffixWithin
<1>3. SameSuffix(old, new, 0)
  <2>1. k - 0 + 1 \in Int /\ k \in Int /\ k < k - 0 + 1 /\ l - 0 + 1 \in Int /\ l \in Int /\ l < l - 0 + 1
    <3> HIDE DEF k, l
    <3> QED BY <1>1
  <2>2. SubSeq(old, k - 0 + 1, k) = <<>> /\ SubSeq(new, l - 0 + 1, l) = <<>>
    <3> HIDE DEF k, l
    <3> QED BY <2>1, SubSeqEmpty
  <2> QED BY <2>2 DEF SameSuffix
<1>4. S \in SUBSET (0 .. max) /\ S # {}
  BY <1>3
<1>5. shared \in S /\ shared \in 0 .. max
  <2> HIDE DEF S
  <2> QED BY <1>4, GreatestIs
<1>6. shared \in Nat /\ shared <= max /\ SameSuffix(old, new, shared)
  BY <1>5
<1> HIDE DEF shared
<1>7. k - 0 = k /\ l - 0 = l
  <2> HIDE DEF k, l
  <2> QED BY <1>1
<1>8. T \in SUBSET (0 .. shared) /\ T # {}
  <2>1. k \in Boundaries(old) /\ l \in Boundaries(new)
    BY BoundaryFacts
  <2>2. 0 \in T
    <3> HIDE DEF k, l
    <3> QED BY <1>6, <1>7, <2>1
  <2> QED BY <2>2
<1>9. Max(T) \in 0 .. shared /\ Max(T) \in T
  <2> HIDE DEF T
  <2> QED BY <1>6, <1>8, GreatestIs
<1> DEFINE m == Max(T)
<1>12. k - m \in Boundaries(old) /\ l - m \in Boundaries(new)
  BY <1>9
<1> HIDE DEF T
<1>10. m \in Nat /\ m <= shared /\ m <= max /\ shared <= k /\ shared <= l
  <2> HIDE DEF k, l
  <2> QED BY <1>1, <1>6, <1>9
<1> HIDE DEF m
<1>11. SameSuffix(old, new, m)
  BY <1>6, <1>10, SuffixCloses
<1> QED BY <1>2, <1>10, <1>11, <1>12 DEF m, k, l

LEMMA EdgesApart ==
    ASSUME NEW old \in Seq(Bytes), NEW new \in Seq(Bytes)
    PROVE  LET p == CommonPrefix(old, new)
               s == CommonSuffix(old, new)
           IN  /\ p \in Nat /\ s \in Nat /\ p + s <= Len(old) /\ p + s <= Len(new)
               /\ SamePrefix(old, new, p) /\ SameSuffix(old, new, s)
               /\ p \in Boundaries(old) /\ p \in Boundaries(new)
               /\ Len(old) - s \in Boundaries(old) /\ Len(new) - s \in Boundaries(new)
<1> DEFINE p == CommonPrefix(old, new)
           s == CommonSuffix(old, new)
           m == Min({Len(old), Len(new)})
           k == Len(old)
           l == Len(new)
           max == m - p
<1>1. k \in Nat /\ l \in Nat
  OBVIOUS
<1>2. m \in Nat /\ m <= k /\ m <= l
  <2> HIDE DEF k, l
  <2> QED BY <1>1, LesserIs DEF k, l
<1>3. /\ p \in Nat /\ p <= m /\ SamePrefix(old, new, p)
      /\ p \in Boundaries(old) /\ p \in Boundaries(new)
  BY PrefixEdge
<1>4. s = SuffixWithin(old, new, max)
  BY DEF CommonSuffix
<1> HIDE DEF p, s, m
<1>5. max \in Nat /\ max <= k /\ max <= l
  <2> HIDE DEF k, l
  <2> QED BY <1>1, <1>2, <1>3
<1> HIDE DEF max
<1>6. /\ s \in Nat /\ s <= max /\ SameSuffix(old, new, s)
      /\ k - s \in Boundaries(old) /\ l - s \in Boundaries(new)
  BY <1>4, <1>5, SuffixEdge
<1>7. p + s <= k /\ p + s <= l
  <2> HIDE DEF k, l
  <2> QED BY <1>1, <1>2, <1>3, <1>6 DEF max
<1> QED BY <1>3, <1>6, <1>7 DEF p, s

LEMMA MarkedJoined ==
    ASSUME NEW a \in Seq(TextRun), NEW b \in Seq(TextRun)
    PROVE  a \o b \in Seq(TextRun) /\ Marked(a \o b) = Marked(a) \o Marked(b)
<1>1. a \o b \in Seq(TextRun)
  BY ConcatProperties
<1> QED BY <1>1, MarkedConcat

\* A splice keeps the marked bytes around it and writes the new text with
\* the marks at its place: the promise set_text is built on.
THEOREM SpliceKeepsAround ==
    ASSUME NEW runs \in Seq(TextRun), NEW from \in Nat, NEW to \in Nat, from <= to,
           to <= Len(RunsText(runs)), NEW text \in Seq(Bytes)
    PROVE  LET M == Marked(runs)
               new == Splice(runs, from, to, text)
           IN  /\ new \in Seq(TextRun) /\ IsNormal(new)
               /\ Marked(new) = (SubSeq(M, 1, from)
                                 \o [j \in 1 .. Len(text) |-> <<text[j], MarksAt(runs, from)>>])
                                \o SubSeq(M, to + 1, Len(M))
<1> DEFINE left == LeftOf(runs, from)
           right == RightOf(runs, to)
           marks == MarksAt(runs, from)
           mid == <<Run(text, marks)>>
           M == Marked(runs)
           size == Len(RunsText(runs))
<1>1. size \in Nat /\ from \in 0 .. size /\ to \in 0 .. size
  BY TextOfMarked
<1>2. left \in Seq(TextRun) /\ Marked(left) = SubSeq(M, 1, from)
  BY <1>1, SplitFacts
<1>3. right \in Seq(TextRun) /\ Marked(right) = SubSeq(M, to + 1, Len(M))
  BY <1>1, SplitFacts
<1>4. marks \in SUBSET Marks
  BY MarksAtType
<1>5. Splice(runs, from, to, text) = Coalesce((left \o mid) \o right)
  <2> DEFINE x == left
             y == mid
             z == right
  <2>1. y \in Seq(TextRun)
    <3> HIDE DEF marks
    <3> QED BY <1>4, RunFacts
  <2>2. x \in Seq(TextRun) /\ z \in Seq(TextRun)
    BY <1>2, <1>3
  <2> HIDE DEF x, y, z
  <2>3. (x \o y) \o z = x \o (y \o z)
    BY <2>1, <2>2, SMTT(30)
  <2> QED BY DEF Splice, x, y, z
<1> HIDE DEF left, right, marks, M, size
<1>6. mid \in Seq(TextRun) /\ Marked(mid) = [j \in 1 .. Len(text) |-> <<text[j], marks>>]
  BY <1>4, RunFacts
<1> HIDE DEF mid
<1>7. left \o mid \in Seq(TextRun) /\ Marked(left \o mid) = Marked(left) \o Marked(mid)
  BY <1>2, <1>6, MarkedJoined
<1> DEFINE both == left \o mid
<1> HIDE DEF both
<1>8. both \o right \in Seq(TextRun) /\ Marked(both \o right) = Marked(both) \o Marked(right)
  <2>1. both \in Seq(TextRun)
    BY <1>7 DEF both
  <2> QED BY <1>3, <2>1, MarkedJoined
<1> DEFINE all == both \o right
<1> HIDE DEF all
<1>9. /\ Coalesce(all) \in Seq(TextRun) /\ IsNormal(Coalesce(all))
      /\ Marked(Coalesce(all)) = Marked(all)
  BY <1>8, CoalesceFacts DEF all
<1> QED BY <1>2, <1>3, <1>5, <1>6, <1>7, <1>8, <1>9 DEF all, both, M, marks

\* Writing a text leaves normal runs that hold this text, whatever was there; only
\* writing the text that is there leaves the runs as they are, normal or not.
THEOREM SetTextWrites ==
    ASSUME NEW runs \in Seq(TextRun), NEW value \in Seq(Bytes)
    PROVE  /\ SetText(runs, value) \in Seq(TextRun)
           /\ IF RunsText(runs) = value THEN SetText(runs, value) = runs
              ELSE IsNormal(SetText(runs, value))
           /\ RunsText(SetText(runs, value)) = value
<1> DEFINE old == RunsText(runs)
           new == SetText(runs, value)
           M == Marked(runs)
           p == CommonPrefix(old, value)
           s == CommonSuffix(old, value)
           k == Len(old)
           l == Len(value)
           to == k - s
           text == SubSeq(value, p + 1, l - s)
           marks == MarksAt(runs, p)
           mid == [j \in 1 .. Len(text) |-> <<text[j], marks>>]
           front == SubSeq(M, 1, p)
           back == SubSeq(M, to + 1, Len(M))
<1>1. /\ old \in Seq(Bytes) /\ k \in Nat /\ l \in Nat /\ Len(M) = k /\ old = Unmarked(M)
      /\ M \in Seq(Letters)
  BY TextOfMarked, MarkedType
<1>2. CASE old = value
  <2>1. new = runs
    BY <1>2 DEF SetText
  <2> QED BY <1>2, <2>1
<1>3. CASE old # value
  <2>1. new = Splice(runs, p, to, text)
    BY <1>3 DEF SetText, Differing
  <2>2. /\ p \in Nat /\ s \in Nat /\ p + s <= k /\ p + s <= l
        /\ SamePrefix(old, value, p) /\ SameSuffix(old, value, s)
    <3> HIDE DEF p, s, old
    <3> QED BY <1>1, EdgesApart DEF p, s
  <2> HIDE DEF p, s, old, k, l, marks, M
  <2>3. /\ to \in Nat /\ p <= to /\ to <= k /\ l - s \in Nat /\ p <= l - s /\ l - s <= l
        /\ 1 <= p + 1 /\ p + 1 \in Nat /\ 1 <= to + 1 /\ to + 1 \in Nat /\ p <= k
    BY <1>1, <2>2
  <2>4. text \in Seq(Bytes) /\ marks \in SUBSET Marks
    <3>1. text \in Seq(Bytes)
      BY <2>3, PartFacts DEF l
    <3> QED BY <3>1, MarksAtType DEF marks
  <2> HIDE DEF to, text
  <2>5. /\ Splice(runs, p, to, text) \in Seq(TextRun) /\ IsNormal(Splice(runs, p, to, text))
        /\ Marked(Splice(runs, p, to, text)) = (front \o mid) \o back
    <3>1. to <= Len(RunsText(runs))
      BY <2>3 DEF k, old
    <3> QED BY <2>2, <2>3, <2>4, <3>1, SpliceKeepsAround, ZenonT(40) DEF M, marks
  <2>6. front \in Seq(Letters) /\ Unmarked(front) = SubSeq(value, 1, p)
    <3>1. front \in Seq(Letters)
      BY <1>1, <2>2, <2>3, PartFacts
    <3>2. Unmarked(front) = SubSeq(old, 1, p)
      <4> DEFINE one == 1
      <4>1. one \in Nat /\ 1 <= one /\ p <= Len(M)
        BY <1>1, <2>3
      <4> HIDE DEF one
      <4>2. Unmarked(SubSeq(M, one, p)) = SubSeq(Unmarked(M), one, p)
        BY <1>1, <2>2, <4>1, UnmarkedPart
      <4> QED BY <1>1, <4>2 DEF one
    <3> QED BY <2>2, <3>1, <3>2 DEF SamePrefix
  <2>7. back \in Seq(Letters) /\ Unmarked(back) = SubSeq(value, l - s + 1, l)
    <3> DEFINE start == to + 1
    <3>1. start \in Nat /\ 1 <= start /\ k <= Len(M)
      BY <1>1, <2>3
    <3> HIDE DEF start
    <3>2. SubSeq(M, start, k) \in Seq(Letters)
      BY <1>1, <3>1, PartFacts
    <3>3. Unmarked(SubSeq(M, start, k)) = SubSeq(old, start, k)
      BY <1>1, <3>1, UnmarkedPart
    <3>4. SubSeq(old, k - s + 1, k) = SubSeq(value, l - s + 1, l)
      BY <2>2 DEF SameSuffix, k, l
    <3> QED BY <1>1, <3>2, <3>3, <3>4 DEF start, to
  <2>8. mid \in Seq(Letters) /\ Unmarked(mid) = text
    <3> DEFINE n == Len(text)
               x == Unmarked(mid)
    <3>1. n \in Nat /\ \A j \in 1 .. n : text[j] \in Bytes
      BY <2>4
    <3> HIDE DEF n
    <3>2. mid = [j \in 1 .. n |-> <<text[j], marks>>]
      BY DEF n
    <3>3. mid \in Seq(Letters) /\ Len(mid) = n /\ \A j \in 1 .. n : mid[j] = <<text[j], marks>>
      BY <2>4, <3>1, <3>2 DEF Letters
    <3> HIDE DEF mid
    <3>4. x \in Seq(Bytes) /\ Len(x) = n /\ \A j \in 1 .. n : x[j] = mid[j][1]
      BY <3>3, UnmarkedFacts
    <3> HIDE DEF x
    <3>5. \A j \in 1 .. n : x[j] = text[j]
      BY <3>3, <3>4
    <3>6. x = text
      BY <2>4, <3>4, <3>5, SeqEqual DEF n
    <3> QED BY <3>3, <3>6 DEF x
  <2> HIDE DEF front, mid, back
  <2>9. Unmarked((front \o mid) \o back) = (SubSeq(value, 1, p) \o text) \o SubSeq(value, l - s + 1, l)
    <3>1. front \o mid \in Seq(Letters)
      BY <2>6, <2>8, ConcatProperties
    <3> DEFINE both == front \o mid
    <3>2. Unmarked(both) = SubSeq(value, 1, p) \o text
      BY <2>6, <2>8, UnmarkedConcat
    <3>3. both \in Seq(Letters)
      BY <3>1
    <3> HIDE DEF both
    <3>4. Unmarked(both \o back) = Unmarked(both) \o Unmarked(back)
      BY <2>7, <3>3, UnmarkedConcat
    <3> QED BY <2>7, <3>2, <3>4 DEF both
  <2>10. SubSeq(value, 1, p) \o text = SubSeq(value, 1, l - s)
    <3> DEFINE e == l - s
    <3>1. 1 \in 1 .. l + 1 /\ p \in 1 - 1 .. l /\ e \in p .. l
      BY <1>1, <2>2, <2>3
    <3> HIDE DEF e
    <3>2. SubSeq(value, 1, p) \o SubSeq(value, p + 1, e) = SubSeq(value, 1, e)
      BY <3>1, ConcatAdjacentSubSeq DEF l
    <3> QED BY <3>2 DEF text, e
  <2>11. SubSeq(value, 1, l - s) \o SubSeq(value, l - s + 1, l) = value
    <3> DEFINE e == l - s
    <3>1. 1 \in 1 .. l + 1 /\ e \in 1 - 1 .. l /\ l \in e .. l
      BY <1>1, <2>2, <2>3
    <3> HIDE DEF e
    <3>2. SubSeq(value, 1, e) \o SubSeq(value, e + 1, l) = SubSeq(value, 1, l)
      BY <3>1, ConcatAdjacentSubSeq DEF l
    <3>3. SubSeq(value, 1, l) = value
      BY PrefixFacts DEF l
    <3> QED BY <3>2, <3>3 DEF e
  <2>12. RunsText(new) = Unmarked(Marked(new))
    <3> HIDE DEF new
    <3> QED BY <2>1, <2>5, TextOfMarked
  <2> QED BY <1>3, <2>1, <2>5, <2>9, <2>10, <2>11, <2>12 DEF old
<1> QED BY <1>2, <1>3

\* A list is the runs before one of its runs, this run, and those after it.
LEMMA AroundRun ==
    ASSUME NEW runs \in Seq(TextRun), NEW k \in 1 .. Len(runs)
    PROVE  LET P == Marked(SubSeq(runs, 1, k - 1))
               R == MarkedRun(runs[k])
               Q == Marked(SubSeq(runs, k + 1, Len(runs)))
           IN  /\ P \in Seq(Letters) /\ R \in Seq(Letters) /\ Q \in Seq(Letters)
               /\ Len(P) = StartOf(runs, k) /\ Len(P) \in Nat
               /\ Marked(runs) = (P \o R) \o Q
<1> DEFINE n == Len(runs)
           run == runs[k]
           front == SubSeq(runs, 1, k - 1)
           rest == SubSeq(runs, k + 1, n)
           P == Marked(front)
           R == MarkedRun(run)
           Q == Marked(rest)
<1>1. n \in Nat /\ run \in TextRun
  OBVIOUS
<1>2. k - 1 \in 0 .. n /\ k \in 0 .. n /\ k + 1 \in Nat /\ 1 <= k + 1
  BY <1>1
<1>3. front \in Seq(TextRun) /\ rest \in Seq(TextRun)
  <2>1. front \in Seq(TextRun)
    BY <1>2, PrefixFacts
  <2>2. rest \in Seq(TextRun)
    BY <1>1, <1>2, PartFacts
  <2> QED BY <2>1, <2>2
<1>4. runs = Append(front, run) \o rest
  <2>1. SubSeq(runs, 1, k) = Append(front, run)
    BY PrefixFacts
  <2>2. SubSeq(runs, 1, k) \o SubSeq(runs, k + 1, n) = SubSeq(runs, 1, n)
    <3>1. 1 \in 1 .. n + 1 /\ k \in 1 - 1 .. n /\ n \in k .. n
      BY <1>1
    <3> QED BY <3>1, ConcatAdjacentSubSeq
  <2>3. SubSeq(runs, 1, n) = runs
    BY PrefixFacts
  <2> QED BY <2>1, <2>2, <2>3
<1>5. Len(P) = StartOf(runs, k) /\ Len(P) \in Nat
  BY <1>3, TextOfMarked DEF StartOf
<1>6. P \in Seq(Letters) /\ R \in Seq(Letters) /\ Q \in Seq(Letters)
  BY <1>1, <1>3, MarkedType, MarkedRunFacts
<1>7. Marked(runs) = (P \o R) \o Q
  <2> HIDE DEF front, rest
  <2>1. Append(front, run) \in Seq(TextRun)
    BY <1>1, <1>3
  <2>2. Marked(Append(front, run) \o rest) = Marked(Append(front, run)) \o Marked(rest)
    BY <1>3, <2>1, MarkedConcat
  <2>3. Marked(Append(front, run)) = P \o R
    BY <1>1, <1>3, MarkedAppend
  <2> QED BY <1>4, <2>2, <2>3
<1> QED BY <1>5, <1>6, <1>7

Has(s, at, x) == at \in 1 .. Len(s) /\ s[at] = x

LEMMA MiddlePart ==
    ASSUME NEW B, NEW p \in Seq(B), NEW r \in Seq(B), NEW q \in Seq(B), NEW j \in 1 .. Len(r)
    PROVE  Has((p \o r) \o q, Len(p) + j, r[j])
<1> DEFINE whole == (p \o r) \o q
           a == p \o r
           l == Len(p)
           m == Len(r)
           n == Len(q)
<1>1. l \in Nat /\ m \in Nat /\ n \in Nat
  OBVIOUS
<1>2. a \in Seq(B) /\ Len(a) = l + m /\ \A i \in 1 .. l + m : a[i] = IF i <= l THEN p[i] ELSE r[i - l]
  BY ConcatProperties
<1>3. whole = a \o q
  OBVIOUS
<1> HIDE DEF a
<1>4. Len(whole) = Len(a) + n /\ \A i \in 1 .. Len(a) + n : whole[i] = IF i <= Len(a) THEN a[i] ELSE q[i - Len(a)]
  <2>1. /\ Len(a \o q) = Len(a) + n
        /\ \A i \in 1 .. Len(a) + n : (a \o q)[i] = IF i <= Len(a) THEN a[i] ELSE q[i - Len(a)]
    <3>1. a \in Seq(B) /\ q \in Seq(B)
      BY <1>2
    <3> QED BY <3>1, ConcatProperties, Zenon
  <2> HIDE DEF whole
  <2> QED BY <1>3, <2>1, Zenon
<1> HIDE DEF l, m, n, whole
<1>5. l + j \in 1 .. l + m /\ l + j \in 1 .. (l + m) + n /\ ~ (l + j <= l) /\ (l + j) - l = j /\ l + j <= l + m
  BY <1>1 DEF m
<1>6. whole[l + j] = a[l + j] /\ a[l + j] = r[j]
  BY <1>2, <1>4, <1>5
<1> QED BY <1>2, <1>4, <1>5, <1>6 DEF l, whole, Has

\* Each marked byte is one of some run, at the place where the run begins and on.
LEMMA MarkedAt ==
    ASSUME NEW runs \in Seq(TextRun), NEW k \in 1 .. Len(runs), NEW j \in 1 .. Len(runs[k].text)
    PROVE  /\ StartOf(runs, k) + j \in 1 .. Len(Marked(runs))
           /\ Marked(runs)[StartOf(runs, k) + j] = <<runs[k].text[j], runs[k].marks>>
<1> DEFINE P == Marked(SubSeq(runs, 1, k - 1))
           R == MarkedRun(runs[k])
           Q == Marked(SubSeq(runs, k + 1, Len(runs)))
           M == Marked(runs)
<1>1. /\ P \in Seq(Letters) /\ R \in Seq(Letters) /\ Q \in Seq(Letters)
      /\ Len(P) = StartOf(runs, k) /\ M = (P \o R) \o Q
  BY AroundRun
<1>2. runs[k] \in TextRun
  OBVIOUS
<1>3. j \in 1 .. Len(R) /\ R[j] = <<runs[k].text[j], runs[k].marks>>
  BY <1>2, MarkedRunFacts
<1> HIDE DEF P, Q, R, M
<1>4. Len(P) + j \in 1 .. Len(M) /\ M[Len(P) + j] = R[j]
  <2>1. Has((P \o R) \o Q, Len(P) + j, R[j])
    BY <1>1, <1>3, MiddlePart
  <2> QED BY <1>1, <2>1, Zenon DEF Has
<1> QED BY <1>1, <1>3, <1>4 DEF M

LEMMA PlaceOf ==
    ASSUME NEW runs \in Seq(TextRun), NEW at \in 1 .. Len(Marked(runs))
    PROVE  \E k \in 1 .. Len(runs) : \E j \in 1 .. Len(runs[k].text) :
              at = StartOf(runs, k) + j /\ StartOf(runs, k) \in Nat
<1>1. at \in Nat /\ at # 0 /\ at \in 0 .. Len(RunsText(runs))
  BY TextOfMarked
<1>2. PICK k : CutAt(runs, at, k)
  BY <1>1, CutExists
<1>3. /\ k \in 1 .. Len(runs) /\ StartOf(runs, k) \in Nat
      /\ at - StartOf(runs, k) \in 1 .. Len(runs[k].text)
  BY <1>1, <1>2, CutFacts
<1> DEFINE start == StartOf(runs, k)
<1> HIDE DEF start
<1>4. at = start + (at - start)
  BY <1>1, <1>3 DEF start
<1> QED BY <1>3, <1>4 DEF start

\* Setting or clearing a mark on each run does so on each marked byte.
WithMark(marks, mark, on) == IF on THEN marks \cup {mark} ELSE marks \ {mark}

LEMMA RemarkedFacts ==
    ASSUME NEW runs \in Seq(TextRun), NEW mark \in Marks, NEW on
    PROVE  LET new == Remarked(runs, mark, on)
           IN  /\ new \in Seq(TextRun) /\ Len(Marked(new)) = Len(Marked(runs))
               /\ \A at \in 1 .. Len(Marked(runs)) :
                     Marked(new)[at] = <<Marked(runs)[at][1], WithMark(Marked(runs)[at][2], mark, on)>>
<1> DEFINE new == Remarked(runs, mark, on)
           n == Len(runs)
<1>1. /\ n \in Nat
      /\ \A i \in 1 .. n : /\ runs[i] \in TextRun
                           /\ runs[i].text \in Seq(Bytes) /\ runs[i].marks \in SUBSET Marks
  BY MarkedRunFacts
<1>2. new = [i \in 1 .. n |-> Run(runs[i].text, WithMark(runs[i].marks, mark, on))]
  <2>1. ASSUME NEW i \in 1 .. n
        PROVE  [runs[i] EXCEPT !.marks = IF on THEN @ \cup {mark} ELSE @ \ {mark}]
               = Run(runs[i].text, WithMark(runs[i].marks, mark, on))
    <3> DEFINE r == runs[i]
               m == WithMark(r.marks, mark, on)
    <3>1. r = [text |-> r.text, marks |-> r.marks]
      BY <1>1 DEF TextRun
    <3>2. [r EXCEPT !.marks = IF on THEN @ \cup {mark} ELSE @ \ {mark}] = [r EXCEPT !.marks = m]
      BY DEF WithMark
    <3> HIDE DEF r, m
    <3>3. [r EXCEPT !.marks = m] = Run(r.text, m)
      BY <3>1 DEF Run
    <3> QED BY <3>2, <3>3 DEF r, m
  <2>2. DOMAIN runs = 1 .. n
    OBVIOUS
  <2> QED BY <2>1, <2>2 DEF Remarked
<1> HIDE DEF new
<1>3. \A i \in 1 .. n : /\ new[i] \in TextRun /\ new[i].text = runs[i].text
                        /\ new[i].marks = WithMark(runs[i].marks, mark, on)
  <2> TAKE i \in 1 .. n
  <2> DEFINE m == WithMark(runs[i].marks, mark, on)
             t == runs[i].text
  <2>1. m \in SUBSET Marks /\ t \in Seq(Bytes)
    BY <1>1 DEF WithMark
  <2>2. new[i] = Run(t, m)
    BY <1>2
  <2> HIDE DEF m, t
  <2>3. Run(t, m) \in TextRun /\ Run(t, m).text = t /\ Run(t, m).marks = m
    BY <2>1, RunFacts
  <2> QED BY <2>2, <2>3 DEF m, t
<1>4. new \in Seq(TextRun) /\ Len(new) = n /\ DOMAIN new = 1 .. n
  BY <1>1, <1>2, <1>3
<1>5. \A i \in 1 .. n + 1 : StartOf(new, i) = StartOf(runs, i)
  <2> TAKE i \in 1 .. n + 1
  <2> DEFINE m == i - 1
             a == SubSeq(new, 1, m)
             b == SubSeq(runs, 1, m)
  <2>1. m \in 0 .. n /\ m \in Nat
    BY <1>1
  <2> HIDE DEF m
  <2>2. DOMAIN a = 1 .. m /\ \A j \in 1 .. m : a[j] = new[j] /\ j \in 1 .. n
    BY <1>4, <2>1
  <2>3. DOMAIN b = 1 .. m /\ \A j \in 1 .. m : b[j] = runs[j]
    BY <1>1, <2>1
  <2> HIDE DEF a, b
  <2>4. [j \in DOMAIN a |-> a[j].text] = [j \in DOMAIN b |-> b[j].text]
    BY <1>3, <2>2, <2>3
  <2>5. RunsText(a) = RunsText(b)
    BY <2>4 DEF RunsText
  <2> QED BY <2>5 DEF StartOf, a, b, m
<1>6. Len(Marked(new)) = Len(Marked(runs))
  <2>1. n + 1 \in 1 .. n + 1
    BY <1>1
  <2>2. StartOf(new, n + 1) = Len(RunsText(new)) /\ StartOf(runs, n + 1) = Len(RunsText(runs))
    BY <1>4, StartFacts
  <2> QED BY <1>4, <1>5, <2>1, <2>2, TextOfMarked
<1>7. ASSUME NEW at \in 1 .. Len(Marked(runs))
      PROVE  Marked(new)[at] = <<Marked(runs)[at][1], WithMark(Marked(runs)[at][2], mark, on)>>
  <2>0. PICK k \in 1 .. n : \E j \in 1 .. Len(runs[k].text) : at = StartOf(runs, k) + j
    BY PlaceOf
  <2>1. PICK j \in 1 .. Len(runs[k].text) : at = StartOf(runs, k) + j
    BY <2>0
  <2>2. StartOf(new, k) = StartOf(runs, k) /\ k \in 1 .. Len(new) /\ j \in 1 .. Len(new[k].text)
    BY <1>1, <1>3, <1>4, <1>5
  <2>3. Marked(runs)[at] = <<runs[k].text[j], runs[k].marks>>
    BY <2>1, MarkedAt
  <2>4. Marked(new)[at] = <<new[k].text[j], new[k].marks>>
    BY <1>4, <2>1, <2>2, MarkedAt
  <2> QED BY <1>3, <2>3, <2>4
<1> QED BY <1>4, <1>6, <1>7 DEF new

InThree(a, b, c) ==
    LET l == Len(a)
        m == Len(b)
        w == (a \o b) \o c
    IN  /\ Len(w) = (l + m) + Len(c)
        /\ \A i \in 1 .. (l + m) + Len(c) :
              w[i] = IF i <= l THEN a[i] ELSE IF i <= l + m THEN b[i - l] ELSE c[i - (l + m)]

LEMMA ThreeParts ==
    ASSUME NEW B, NEW a \in Seq(B), NEW b \in Seq(B), NEW c \in Seq(B)
    PROVE  InThree(a, b, c)
<1> DEFINE l == Len(a)
           m == Len(b)
           n == Len(c)
           d == a \o b
           w == d \o c
<1>1. l \in Nat /\ m \in Nat /\ n \in Nat
  OBVIOUS
<1>2. d \in Seq(B) /\ Len(d) = l + m /\ \A i \in 1 .. l + m : d[i] = IF i <= l THEN a[i] ELSE b[i - l]
  BY ConcatProperties, Zenon
<1> HIDE DEF d
<1>3. /\ w \in Seq(B) /\ Len(w) = Len(d) + n
      /\ \A i \in 1 .. Len(d) + n : w[i] = IF i <= Len(d) THEN d[i] ELSE c[i - Len(d)]
  <2>1. d \in Seq(B) /\ c \in Seq(B)
    BY <1>2
  <2> QED BY <2>1, ConcatProperties, Zenon
<1> HIDE DEF w, l, m, n
<1>4. /\ Len(w) = (l + m) + n
      /\ \A i \in 1 .. (l + m) + n : w[i] = IF i <= l + m THEN d[i] ELSE c[i - (l + m)]
  BY <1>2, <1>3
<1>5. ASSUME NEW i \in 1 .. (l + m) + n
      PROVE  w[i] = IF i <= l THEN a[i] ELSE IF i <= l + m THEN b[i - l] ELSE c[i - (l + m)]
  <2>1. CASE i <= l + m
    <3>1. i \in 1 .. l + m
      BY <1>1, <2>1
    <3>2. w[i] = d[i] /\ d[i] = IF i <= l THEN a[i] ELSE b[i - l]
      BY <1>2, <1>4, <2>1, <3>1
    <3> QED BY <2>1, <3>2
  <2>2. CASE ~ (i <= l + m)
    <3>1. w[i] = c[i - (l + m)] /\ ~ (i <= l)
      BY <1>1, <1>4, <2>2
    <3> QED BY <2>2, <3>1
  <2> QED BY <2>1, <2>2
<1> QED BY <1>4, <1>5 DEF InThree, w, d, l, m, n

\* mark: exactly the bytes of the range change, and of these only the one mark; the
\* text stays as it is, and the runs are normal unless the range is empty.
THEOREM MarkRangeMarks ==
    ASSUME NEW runs \in Seq(TextRun), NEW start \in Nat, NEW end \in Nat,
           NEW mark \in Marks, NEW on
    PROVE  LET M == Marked(runs)
               from == Clamp(RunsText(runs), start)
               to == Clamp(RunsText(runs), end)
               new == MarkRange(runs, start, end, mark, on)
           IN  /\ new \in Seq(TextRun) /\ Len(Marked(new)) = Len(M)
               /\ IF from >= to THEN new = runs ELSE IsNormal(new)
               /\ \A at \in 1 .. Len(M) :
                     Marked(new)[at] = IF from < at /\ at <= to
                                       THEN <<M[at][1], WithMark(M[at][2], mark, on)>> ELSE M[at]
<1> DEFINE M == Marked(runs)
           text == RunsText(runs)
           from == Clamp(text, start)
           to == Clamp(text, end)
           new == MarkRange(runs, start, end, mark, on)
           n == Len(M)
           x == Marked(new)
<1>1. M \in Seq(Letters) /\ n \in Nat /\ Len(text) = n /\ text \in Seq(Bytes)
  BY MarkedType, TextOfMarked
<1>2. from \in 0 .. n /\ to \in 0 .. n
  <2> HIDE DEF text, n
  <2> QED BY <1>1, BoundaryFacts
<1>3. new = MarkBetween(runs, from, to, mark, on)
  BY DEF MarkRange
<1> HIDE DEF from, to, new
<1>4. CASE from >= to
  <2>1. new = runs
    BY <1>3, <1>4 DEF MarkBetween
  <2>2. \A at \in 1 .. n : ~ (from < at /\ at <= to)
    BY <1>1, <1>2, <1>4
  <2> HIDE DEF n
  <2> QED BY <1>4, <2>1, <2>2 DEF from, to, new, n
<1>5. CASE ~ (from >= to)
  <2> DEFINE left == LeftOf(runs, from)
             right == RightOf(runs, from)
             size == to - from
             inner == LeftOf(right, size)
             marked == Remarked(inner, mark, on)
             outer == RightOf(runs, to)
             all == (left \o marked) \o outer
             A == Marked(left)
             I == Marked(marked)
             O == Marked(outer)
             N == Marked(inner)
             R == Marked(right)
  <2>1. /\ from \in Nat /\ to \in Nat /\ size \in Nat /\ from < to /\ size <= n - from
        /\ from \in 0 .. Len(text) /\ to \in 0 .. Len(text) /\ n - from \in Nat /\ n - to \in Nat
    BY <1>1, <1>2, <1>5
  <2>2. new = Coalesce(all)
    BY <1>3, <1>5 DEF MarkBetween
  <2> HIDE DEF n, size, M
  <2>3. left \in Seq(TextRun) /\ right \in Seq(TextRun) /\ A = SubSeq(M, 1, from) /\ R = SubSeq(M, from + 1, n)
    BY <2>1, SplitFacts DEF M, n
  <2>4. outer \in Seq(TextRun) /\ O = SubSeq(M, to + 1, n)
    BY <2>1, SplitFacts DEF M, n
  <2> HIDE DEF left, right, outer, A, O, R
  <2>5. A \in Seq(Letters) /\ Len(A) = from /\ \A i \in 1 .. from : A[i] = M[i]
    <3> DEFINE one == 1
    <3>1. one \in Nat /\ 1 <= one /\ from <= Len(M) /\ A = SubSeq(M, one, from)
      BY <1>1, <1>2, <2>3 DEF n
    <3> HIDE DEF one
    <3>2. /\ SubSeq(M, one, from) \in Seq(Letters)
          /\ Len(SubSeq(M, one, from)) = IF one <= from THEN from - one + 1 ELSE 0
          /\ \A i \in 1 .. from - one + 1 : SubSeq(M, one, from)[i] = M[one + i - 1]
      BY <1>1, <2>1, <3>1, PartFacts
    <3>3. /\ A \in Seq(Letters) /\ Len(A) = IF one <= from THEN from - one + 1 ELSE 0
          /\ \A i \in 1 .. from - one + 1 : A[i] = M[one + i - 1]
      BY <3>1, <3>2, Zenon
    <3>4. /\ (IF one <= from THEN from - one + 1 ELSE 0) = from
          /\ \A i \in 1 .. from : i \in 1 .. from - one + 1 /\ one + i - 1 = i
      BY <2>1 DEF one
    <3> QED BY <3>3, <3>4
  <2>6. /\ R \in Seq(Letters) /\ Len(R) = n - from /\ \A i \in 1 .. n - from : R[i] = M[from + i]
    <3> DEFINE first == from + 1
    <3>1. first \in Nat /\ 1 <= first /\ n <= Len(M)
      BY <1>1, <2>1 DEF n
    <3> HIDE DEF first
    <3>2. /\ SubSeq(M, first, n) \in Seq(Letters)
          /\ Len(SubSeq(M, first, n)) = IF first <= n THEN n - first + 1 ELSE 0
          /\ \A i \in 1 .. n - first + 1 : SubSeq(M, first, n)[i] = M[first + i - 1]
      BY <1>1, <3>1, PartFacts
    <3>3. /\ R \in Seq(Letters) /\ Len(R) = IF first <= n THEN n - first + 1 ELSE 0
          /\ \A i \in 1 .. n - first + 1 : R[i] = M[first + i - 1]
      BY <2>3, <3>2, Zenon DEF first
    <3>4. /\ (IF first <= n THEN n - first + 1 ELSE 0) = n - from
          /\ \A i \in 1 .. n - from : i \in 1 .. n - first + 1 /\ first + i - 1 = from + i
      BY <1>1, <1>2, <2>1 DEF first
    <3> QED BY <3>3, <3>4
  <2>7. /\ O \in Seq(Letters) /\ Len(O) = n - to /\ \A i \in 1 .. n - to : O[i] = M[to + i]
    <3> DEFINE first == to + 1
    <3>1. first \in Nat /\ 1 <= first /\ n <= Len(M)
      BY <1>1, <2>1 DEF n
    <3> HIDE DEF first
    <3>2. /\ SubSeq(M, first, n) \in Seq(Letters)
          /\ Len(SubSeq(M, first, n)) = IF first <= n THEN n - first + 1 ELSE 0
          /\ \A i \in 1 .. n - first + 1 : SubSeq(M, first, n)[i] = M[first + i - 1]
      BY <1>1, <3>1, PartFacts
    <3>3. /\ O \in Seq(Letters) /\ Len(O) = IF first <= n THEN n - first + 1 ELSE 0
          /\ \A i \in 1 .. n - first + 1 : O[i] = M[first + i - 1]
      BY <2>4, <3>2, Zenon DEF first
    <3>4. /\ (IF first <= n THEN n - first + 1 ELSE 0) = n - to
          /\ \A i \in 1 .. n - to : i \in 1 .. n - first + 1 /\ first + i - 1 = to + i
      BY <1>1, <1>2, <2>1 DEF first
    <3> QED BY <3>3, <3>4
  <2>8. size \in 0 .. Len(RunsText(right))
    <3>1. Len(RunsText(right)) = n - from
      BY <2>3, <2>6, TextOfMarked DEF R
    <3> QED BY <2>1, <3>1
  <2>9. inner \in Seq(TextRun) /\ N = SubSeq(R, 1, size)
    BY <2>3, <2>8, SplitFacts DEF R
  <2> HIDE DEF inner, N
  <2>10. Len(N) = size /\ \A i \in 1 .. size : N[i] = M[from + i]
    <3> DEFINE one == 1
    <3>1. one \in Nat /\ 1 <= one /\ size <= Len(R) /\ N = SubSeq(R, one, size)
      BY <2>1, <2>6, <2>9
    <3> HIDE DEF one
    <3>2. /\ Len(SubSeq(R, one, size)) = IF one <= size THEN size - one + 1 ELSE 0
          /\ \A i \in 1 .. size - one + 1 : SubSeq(R, one, size)[i] = R[one + i - 1]
      BY <2>1, <2>6, <3>1, PartFacts
    <3>3. /\ Len(N) = IF one <= size THEN size - one + 1 ELSE 0
          /\ \A i \in 1 .. size - one + 1 : N[i] = R[one + i - 1]
      BY <3>1, <3>2, Zenon
    <3>4. /\ (IF one <= size THEN size - one + 1 ELSE 0) = size
          /\ \A i \in 1 .. size : i \in 1 .. size - one + 1 /\ one + i - 1 = i /\ i \in 1 .. n - from
      BY <2>1 DEF one
    <3> QED BY <2>6, <3>3, <3>4
  <2>11. /\ marked \in Seq(TextRun) /\ Len(I) = size
         /\ \A i \in 1 .. size : I[i] = <<M[from + i][1], WithMark(M[from + i][2], mark, on)>>
    <3>1. /\ marked \in Seq(TextRun) /\ Len(I) = Len(N)
          /\ \A i \in 1 .. Len(N) : I[i] = <<N[i][1], WithMark(N[i][2], mark, on)>>
      BY <2>9, RemarkedFacts DEF N
    <3> HIDE DEF marked, I
    <3> QED BY <2>10, <3>1
  <2> HIDE DEF marked, I
  <2>12. I \in Seq(Letters)
    BY <2>11, MarkedType DEF I
  <2>13. all \in Seq(TextRun) /\ Marked(all) = (A \o I) \o O
    <3> DEFINE both == left \o marked
    <3>1. both \in Seq(TextRun) /\ Marked(both) = A \o I
      BY <2>3, <2>11, MarkedJoined DEF A, I
    <3> HIDE DEF both
    <3>2. both \o outer \in Seq(TextRun) /\ Marked(both \o outer) = Marked(both) \o O
      BY <2>4, <3>1, MarkedJoined DEF O
    <3> QED BY <3>1, <3>2 DEF both
  <2> HIDE DEF all
  <2>14. new \in Seq(TextRun) /\ IsNormal(new) /\ x = (A \o I) \o O
    BY <2>2, <2>13, CoalesceFacts
  <2> HIDE DEF x
  <2> DEFINE l == Len(A)
             m == Len(I)
             o == Len(O)
             w == (A \o I) \o O
  <2>15. /\ l = from /\ m = size /\ o = n - to
    BY <2>5, <2>7, <2>11
  <2>16. /\ Len(w) = (l + m) + o
         /\ \A i \in 1 .. (l + m) + o :
               w[i] = IF i <= l THEN A[i] ELSE IF i <= l + m THEN I[i - l] ELSE O[i - (l + m)]
    <3>1. A \in Seq(Letters) /\ I \in Seq(Letters) /\ O \in Seq(Letters)
      BY <2>5, <2>7, <2>12
    <3>2. InThree(A, I, O)
      BY <3>1, ThreeParts, Zenon
    <3> QED BY <3>2 DEF InThree
  <2> HIDE DEF l, m, o, w
  <2>17. l + m = to /\ (l + m) + o = n
    BY <1>1, <1>2, <2>1, <2>15 DEF size
  <2>18. ASSUME NEW at \in 1 .. n
         PROVE  w[at] = IF from < at /\ at <= to
                        THEN <<M[at][1], WithMark(M[at][2], mark, on)>> ELSE M[at]
    <3>1. w[at] = IF at <= from THEN A[at] ELSE IF at <= to THEN I[at - from] ELSE O[at - to]
      BY <2>15, <2>16, <2>17
    <3>2. CASE at <= from
      <4>1. at \in 1 .. from /\ ~ (from < at)
        BY <2>1, <3>2
      <4> QED BY <2>5, <3>1, <3>2, <4>1
    <3>3. CASE ~ (at <= from) /\ at <= to
      <4>1. at - from \in 1 .. size /\ from + (at - from) = at /\ from < at
        BY <2>1, <3>3 DEF size
      <4>2. I[at - from] = <<M[at][1], WithMark(M[at][2], mark, on)>>
        BY <2>11, <4>1
      <4> QED BY <3>1, <3>3, <4>1, <4>2
    <3>4. CASE ~ (at <= from) /\ ~ (at <= to)
      <4>1. at - to \in 1 .. n - to /\ to + (at - to) = at
        BY <1>1, <2>1, <3>4
      <4>2. O[at - to] = M[at]
        BY <2>7, <4>1
      <4> QED BY <3>1, <3>4, <4>2
    <3> QED BY <3>2, <3>3, <3>4
  <2>19. Len(w) = n /\ x = w
    BY <2>14, <2>16, <2>17 DEF w
  <2> HIDE DEF w
  <2>20. /\ Len(x) = n
         /\ \A at \in 1 .. n : x[at] = IF from < at /\ at <= to
                                       THEN <<M[at][1], WithMark(M[at][2], mark, on)>> ELSE M[at]
    BY <2>18, <2>19
  <2> QED BY <1>5, <2>14, <2>20 DEF x, n, M, from, to, new
<1> QED BY <1>4, <1>5

-----------------------------------------------------------------------------
(* Concatenations and parts of sequences. *)

\* Joining two sequences, and ways to group what is joined.
Cat(s, t) == s \o t

LEMMA CatFacts ==
    ASSUME NEW B, NEW s \in Seq(B), NEW t \in Seq(B)
    PROVE  Cat(s, t) \in Seq(B) /\ Len(Cat(s, t)) = Len(s) + Len(t)
BY ConcatProperties DEF Cat

LEMMA CatGroups ==
    ASSUME NEW B, NEW s \in Seq(B), NEW t \in Seq(B), NEW u \in Seq(B)
    PROVE  Cat(Cat(s, t), u) = Cat(s, Cat(t, u))
BY ConcatAssociative DEF Cat

LEMMA GroupFour ==
    ASSUME NEW B, NEW k \in Seq(B), NEW s \in Seq(B), NEW t \in Seq(B), NEW u \in Seq(B)
    PROVE  Cat(Cat(Cat(k, s), t), u) = Cat(k, Cat(Cat(s, t), u))
<1>1. Cat(s, t) \in Seq(B)
  BY CatFacts
<1>2. Cat(Cat(k, s), t) = Cat(k, Cat(s, t))
  BY CatGroups
<1>3. Cat(Cat(k, Cat(s, t)), u) = Cat(k, Cat(Cat(s, t), u))
  BY <1>1, CatGroups
<1> QED BY <1>2, <1>3

LEMMA GroupSix ==
    ASSUME NEW B, NEW p \in Seq(B), NEW k \in Seq(B), NEW u \in Seq(B), NEW w \in Seq(B),
           NEW v \in Seq(B), NEW q \in Seq(B)
    PROVE  Cat(Cat(p, Cat(k, Cat(Cat(u, w), v))), q) = Cat(Cat(Cat(p, Cat(k, u)), w), Cat(v, q))
<1>1. Cat(k, u) \in Seq(B) /\ Cat(p, Cat(k, u)) \in Seq(B) /\ Cat(Cat(p, Cat(k, u)), w) \in Seq(B)
  BY CatFacts
<1>2. Cat(k, Cat(Cat(u, w), v)) = Cat(Cat(Cat(k, u), w), v)
  BY GroupFour
<1>3. Cat(p, Cat(Cat(Cat(k, u), w), v)) = Cat(Cat(Cat(p, Cat(k, u)), w), v)
  BY <1>1, GroupFour
<1>4. Cat(Cat(Cat(Cat(p, Cat(k, u)), w), v), q) = Cat(Cat(Cat(p, Cat(k, u)), w), Cat(v, q))
  BY <1>1, CatGroups
<1> QED BY <1>2, <1>3, <1>4

LEMMA CatCancels ==
    ASSUME NEW B, NEW s \in Seq(B), NEW t \in Seq(B), NEW u \in Seq(B), Cat(s, t) = Cat(s, u)
    PROVE  t = u
<1>1. s \o t = s \o u
  BY DEF Cat
<1> QED BY <1>1, ConcatSimplifications

LEMMA CatNone ==
    ASSUME NEW B, NEW s \in Seq(B)
    PROVE  Cat(s, <<>>) = s /\ Cat(<<>>, s) = s
BY DEF Cat

\* What is inserted is at its place, and removing it gives back the sequence.
LEMMA InsertedAt ==
    ASSUME NEW S, NEW u \in Seq(S), NEW k \in 1 .. Len(u) + 1, NEW c \in S
    PROVE  LET new == InsertAt(u, k, c)
           IN  new \in Seq(S) /\ Len(new) = Len(u) + 1 /\ new[k] = c /\ RemoveAt(new, k) = u
<1> DEFINE n == Len(u)
           h == k - 1
           one == 1
           P == SubSeq(u, one, h)
           Q == SubSeq(u, k, n)
           new == InsertAt(u, k, c)
<1>1. /\ n \in Nat /\ h \in Nat /\ one \in Nat /\ k \in Nat /\ k = h + 1 /\ h <= n /\ one = 1
      /\ \A j \in 1 .. n : u[j] \in S
  OBVIOUS
<1>2. new = (P \o <<c>>) \o Q
  BY DEF InsertAt
<1> HIDE DEF n, h, one
<1>3. P \in Seq(S) /\ Len(P) = h /\ \A j \in 1 .. h : P[j] = u[j]
  <2>1. /\ P \in Seq(S) /\ Len(P) = IF one <= h THEN h - one + 1 ELSE 0
        /\ \A j \in 1 .. h - one + 1 : P[j] = u[one + j - 1]
    BY <1>1, PartFacts DEF n
  <2> HIDE DEF P
  <2> QED BY <1>1, <2>1
<1>4. Q \in Seq(S) /\ Len(Q) = n - h /\ \A j \in 1 .. n - h : Q[j] = u[h + j]
  <2>1. /\ Q \in Seq(S) /\ Len(Q) = IF k <= n THEN n - k + 1 ELSE 0
        /\ \A j \in 1 .. n - k + 1 : Q[j] = u[k + j - 1]
    BY <1>1, PartFacts DEF n
  <2> HIDE DEF Q
  <2> QED BY <1>1, <2>1
<1> HIDE DEF P, Q, new
<1>5. /\ new \in Seq(S) /\ Len(new) = n + 1 /\ new[k] = c
      /\ \A j \in 1 .. h : new[j] = u[j]
      /\ \A j \in 1 .. n - h : new[k + j] = u[h + j]
  <2>1. P \o <<c>> \in Seq(S) /\ Len(P \o <<c>>) = h + 1 /\ (P \o <<c>>)[h + 1] = c
        /\ \A j \in 1 .. h : (P \o <<c>>)[j] = u[j]
    BY <1>1, <1>3
  <2> DEFINE R == P \o <<c>>
  <2> HIDE DEF R
  <2>2. R \in Seq(S) /\ Len(R) = h + 1 /\ R[h + 1] = c /\ \A j \in 1 .. h : R[j] = u[j]
    BY <2>1 DEF R
  <2>3. new = R \o Q
    BY <1>2 DEF R
  <2>4. new \in Seq(S) /\ Len(new) = n + 1
    <3>1. new \in Seq(S) /\ Len(new) = Len(R) + Len(Q)
      BY <1>4, <2>2, <2>3, ConcatProperties
    <3>2. (h + 1) + (n - h) = n + 1
      BY <1>1
    <3> HIDE DEF Q
    <3> QED BY <1>4, <2>2, <3>1, <3>2
  <2>5. \A j \in 1 .. h + 1 : new[j] = R[j]
    BY <1>1, <1>4, <2>2, <2>3
  <2>6. ASSUME NEW j \in 1 .. n - h PROVE new[k + j] = u[h + j]
    <3>1. new[h + 1 + j] = Q[j]
      BY <1>1, <1>4, <2>2, <2>3
    <3> QED BY <1>1, <1>4, <3>1
  <2> HIDE DEF Q
  <2>7. h + 1 \in 1 .. h + 1 /\ \A j \in 1 .. h : j \in 1 .. h + 1
    BY <1>1
  <2> QED BY <1>1, <2>2, <2>4, <2>5, <2>6, <2>7
<1> DEFINE A == SubSeq(new, one, h)
           B == SubSeq(new, k + 1, Len(new))
<1>6. A \in Seq(S) /\ Len(A) = h /\ \A j \in 1 .. h : A[j] = u[j]
  <2>1. one <= h + 1 /\ h <= Len(new)
    BY <1>1, <1>5
  <2>2. /\ A \in Seq(S) /\ Len(A) = IF one <= h THEN h - one + 1 ELSE 0
        /\ \A j \in 1 .. h - one + 1 : A[j] = new[one + j - 1]
    BY <1>1, <1>5, <2>1, PartFacts
  <2> HIDE DEF A
  <2> QED BY <1>1, <1>5, <2>2
<1>7. B \in Seq(S) /\ Len(B) = n - h /\ \A j \in 1 .. n - h : B[j] = u[h + j]
  <2> DEFINE a == k + 1
             z == Len(new)
  <2>1. a \in Nat /\ 1 <= a /\ z \in Nat /\ z <= Len(new) /\ a = k + 1 /\ z = n + 1
    BY <1>1, <1>5
  <2> HIDE DEF a, z
  <2>2. /\ SubSeq(new, a, z) \in Seq(S) /\ Len(SubSeq(new, a, z)) = IF a <= z THEN z - a + 1 ELSE 0
        /\ \A j \in 1 .. z - a + 1 : SubSeq(new, a, z)[j] = new[a + j - 1]
    BY <1>5, <2>1, PartFacts
  <2>3. B = SubSeq(new, a, z)
    BY DEF a, z
  <2> HIDE DEF B
  <2>4. /\ (IF a <= z THEN z - a + 1 ELSE 0) = n - h
        /\ \A j \in 1 .. n - h : j \in 1 .. z - a + 1 /\ a + j - 1 = k + j
    BY <1>1, <2>1
  <2> QED BY <1>5, <2>2, <2>3, <2>4
<1>8. RemoveAt(new, k) = A \o B
  <2>1. k - 1 = h
    BY <1>1
  <2> QED BY <2>1, Zenon DEF RemoveAt, one
<1> HIDE DEF A, B
<1>9. A \o B = u
  <2> DEFINE w == A \o B
  <2>0. /\ w \in Seq(S) /\ Len(w) = Len(A) + Len(B)
        /\ \A j \in 1 .. Len(A) + Len(B) : w[j] = IF j <= Len(A) THEN A[j] ELSE B[j - Len(A)]
    BY <1>6, <1>7, ConcatProperties
  <2> HIDE DEF w
  <2>1. /\ w \in Seq(S) /\ Len(w) = n
        /\ \A j \in 1 .. n : w[j] = IF j <= h THEN A[j] ELSE B[j - h]
    <3>1. Len(A) = h /\ Len(A) + Len(B) = n
      BY <1>1, <1>6, <1>7
    <3> QED BY <2>0, <3>1
  <2>2. ASSUME NEW j \in 1 .. n PROVE w[j] = u[j]
    <3>1. CASE j <= h
      <4>1. j \in 1 .. h
        BY <1>1, <3>1
      <4> QED BY <1>6, <2>1, <3>1, <4>1
    <3>2. CASE ~ (j <= h)
      <4>1. j - h \in 1 .. n - h /\ h + (j - h) = j
        BY <1>1, <3>2
      <4>2. w[j] = B[j - h]
        BY <2>1, <3>2
      <4> QED BY <1>7, <4>1, <4>2
    <3> QED BY <3>1, <3>2
  <2>3. w = u
    BY <2>1, <2>2, SeqEqual DEF n
  <2> QED BY <2>3 DEF w
<1> QED BY <1>5, <1>8, <1>9 DEF new, n

-----------------------------------------------------------------------------
(* Offsets, whole characters and edges, for the proofs about the editor. *)

LEMMA MinMaxOf ==
    ASSUME NEW x \in Nat, NEW y \in Nat, x <= y
    PROVE  Min({x, y}) = x /\ Max({x, y}) = y
<1>1. Min({x, y}) \in {x, y} /\ \A z \in {x, y} : Min({x, y}) <= z
  BY LeastIs
<1>2. Max({x, y}) \in {x, y} /\ \A z \in {x, y} : z <= Max({x, y})
  <2>1. {x, y} \in SUBSET (0 .. y) /\ {x, y} # {}
    OBVIOUS
  <2> QED BY <2>1, GreatestIs
<1> QED BY <1>1, <1>2

LEMMA MaxOfTwo ==
    ASSUME NEW x \in Nat, NEW y \in Nat
    PROVE  Max({x, y}) \in {x, y} /\ \A z \in {x, y} : z <= Max({x, y})
<1>1. {x, y} \in SUBSET (0 .. x + y) /\ {x, y} # {} /\ x + y \in Nat
  OBVIOUS
<1> QED BY <1>1, GreatestIs

LEMMA ClampFacts ==
    ASSUME NEW text \in Seq(Bytes)
    PROVE  /\ \A at \in Boundaries(text) : at \in Nat /\ Clamp(text, at) = at
           /\ \A x, y \in Nat : x <= y => Clamp(text, x) <= Clamp(text, y)
<1> DEFINE n == Len(text)
           B == Boundaries(text)
           Upper(at) == {i \in B : i <= at}
<1>1. n \in Nat /\ B \in SUBSET (0 .. n) /\ 0 \in B /\ n \in B
  BY BoundaryFacts
<1>2. \A at \in Nat : Clamp(text, at) = IF at >= n THEN n ELSE Max(Upper(at))
  BY DEF Clamp
<1>3. \A at \in Nat : Clamp(text, at) \in B /\ Clamp(text, at) \in 0 .. n /\ Clamp(text, at) <= at
  BY BoundaryFacts
<1> HIDE DEF n, B
<1>4. \A at \in Nat : Max(Upper(at)) \in Upper(at) /\ \A x \in Upper(at) : x <= Max(Upper(at))
  <2> TAKE at \in Nat
  <2>1. Upper(at) \in SUBSET (0 .. n) /\ 0 \in Upper(at)
    <3>1. 0 <= at
      OBVIOUS
    <3>2. \A x \in B : x \in 0 .. n
      BY <1>1
    <3>3. \A x \in Upper(at) : x \in 0 .. n
      BY <3>2
    <3> QED BY <1>1, <3>1, <3>3
  <2> DEFINE U == Upper(at)
  <2> HIDE DEF U
  <2>2. U \in SUBSET (0 .. n) /\ U # {}
    BY <2>1 DEF U
  <2>3. Max(U) \in U /\ \A x \in U : x <= Max(U)
    BY <1>1, <2>2, GreatestIs
  <2> QED BY <2>3 DEF U
<1>5. ASSUME NEW at \in B PROVE at \in Nat /\ Clamp(text, at) = at
  <2>1. at \in Nat /\ at <= n
    BY <1>1
  <2>2. CASE at >= n
    <3>1. at = n
      BY <1>1, <2>1, <2>2
    <3>2. Clamp(text, at) = n
      BY <1>2, <2>1, <2>2
    <3> QED BY <2>1, <3>1, <3>2
  <2>3. CASE ~ (at >= n)
    <3>1. at \in Upper(at)
      BY <2>1
    <3>2. Clamp(text, at) = Max(Upper(at))
      BY <1>2, <2>1, <2>3
    <3>3. at <= Clamp(text, at)
      BY <1>4, <2>1, <3>1, <3>2
    <3>4. Clamp(text, at) \in 0 .. n /\ Clamp(text, at) <= at
      BY <1>3, <2>1
    <3> QED BY <1>1, <2>1, <3>3, <3>4
  <2> QED BY <2>1, <2>2, <2>3
<1>6. ASSUME NEW x \in Nat, NEW y \in Nat, x <= y PROVE Clamp(text, x) <= Clamp(text, y)
  <2>1. CASE y >= n
    <3>1. Clamp(text, y) = n /\ Clamp(text, x) \in 0 .. n
      BY <1>2, <1>3, <2>1
    <3> QED BY <1>1, <3>1
  <2>2. CASE ~ (y >= n)
    <3>1. Clamp(text, x) \in B /\ Clamp(text, x) \in 0 .. n /\ Clamp(text, x) <= x
      BY <1>3
    <3>2. Clamp(text, x) \in Upper(y)
      BY <1>1, <1>6, <3>1
    <3>3. Clamp(text, y) = Max(Upper(y))
      BY <1>2, <2>2
    <3> QED BY <1>4, <3>2, <3>3
  <2> QED BY <2>1, <2>2
<1> QED BY <1>5, <1>6 DEF B

LEMMA ClampIn ==
    ASSUME NEW text \in Seq(Bytes), NEW at \in Nat
    PROVE  Clamp(text, at) \in Boundaries(text) /\ Clamp(text, at) \in Nat
           /\ Clamp(text, at) <= Len(text) /\ Len(text) \in Nat
<1>1. Len(text) \in Nat
  OBVIOUS
<1>2. Clamp(text, at) \in Boundaries(text)
  BY BoundaryFacts
<1>3. Clamp(text, at) \in 0 .. Len(text)
  BY BoundaryFacts
<1> QED BY <1>1, <1>2, <1>3

\* Whether a character starts, or the sequence ends, after this many bytes.
Starts(a, at) == at = 0 \/ at = Len(a) \/ a[at + 1][1] \notin Continuations

\* Boundaries of a text, as places in what it is the text of.
LEMMA StartsAtBoundary ==
    ASSUME NEW a \in Seq(Letters), NEW at \in Boundaries(Unmarked(a))
    PROVE  at \in Nat /\ at <= Len(a) /\ Starts(a, at)
<1> DEFINE t == Unmarked(a)
<1>1. t \in Seq(Bytes) /\ Len(t) = Len(a) /\ Len(a) \in Nat /\ \A k \in 1 .. Len(a) : t[k] = a[k][1]
  BY UnmarkedFacts
<1> HIDE DEF t
<1>2. at \in 0 .. Len(t) /\ (at \in {0, Len(t)} \/ t[at + 1] \notin Continuations)
  BY DEF Boundaries, t
<1>3. at \in Nat /\ at <= Len(a)
  BY <1>1, <1>2
<1>4. Starts(a, at)
  <2>1. CASE at = 0 \/ at = Len(a)
    BY <2>1 DEF Starts
  <2>2. CASE at # 0 /\ at # Len(a)
    <3>1. at + 1 \in 1 .. Len(a) /\ t[at + 1] \notin Continuations
      BY <1>1, <1>2, <2>2
    <3> QED BY <1>1, <3>1 DEF Starts
  <2> QED BY <2>1, <2>2
<1> QED BY <1>3, <1>4

\* A text in which every byte has these marks.
Styled(text, marks) == [j \in 1 .. Len(text) |-> <<text[j], marks>>]

LEMMA StyledFacts ==
    ASSUME NEW text \in Seq(Bytes), NEW marks \in SUBSET Marks
    PROVE  /\ Styled(text, marks) \in Seq(Letters) /\ Len(Styled(text, marks)) = Len(text)
           /\ \A j \in 1 .. Len(text) :
                 Styled(text, marks)[j][1] = text[j] /\ Styled(text, marks)[j][2] = marks
<1> DEFINE n == Len(text)
<1>1. n \in Nat /\ \A j \in 1 .. n : text[j] \in Bytes
  OBVIOUS
<1> HIDE DEF n
<1>2. Styled(text, marks) = [j \in 1 .. n |-> <<text[j], marks>>]
  BY DEF Styled, n
<1>3. /\ Styled(text, marks) \in Seq(Letters) /\ Len(Styled(text, marks)) = n
      /\ \A j \in 1 .. n : Styled(text, marks)[j] = <<text[j], marks>>
  BY <1>1, <1>2 DEF Letters
<1> QED BY <1>3 DEF n

LEMMA StyledText ==
    ASSUME NEW text \in Seq(Bytes), NEW marks \in SUBSET Marks
    PROVE  Styled(text, marks) \in Seq(Letters) /\ Unmarked(Styled(text, marks)) = text
<1> DEFINE s == Styled(text, marks)
           u == Unmarked(s)
           n == Len(text)
<1>1. s \in Seq(Letters) /\ Len(s) = n /\ n \in Nat /\ \A j \in 1 .. n : s[j][1] = text[j]
  BY StyledFacts
<1> HIDE DEF s
<1>2. u \in Seq(Bytes) /\ Len(u) = n /\ \A j \in 1 .. n : u[j] = s[j][1]
  BY <1>1, UnmarkedFacts
<1> HIDE DEF u
<1>3. \A j \in 1 .. n : u[j] = text[j]
  BY <1>1, <1>2
<1>4. u = text
  BY <1>2, <1>3, SeqEqual
<1> QED BY <1>1, <1>4 DEF u, s

\* range_marked: whether all marked bytes of a range have the mark.
LEMMA RangeMarkedIs ==
    ASSUME NEW runs \in Seq(TextRun), NEW from \in Nat, NEW to \in Nat, from < to,
           to <= Len(RunsText(runs)), NEW mark
    PROVE  RangeMarked(runs, from, to, mark) <=>
              \A at \in from + 1 .. to : mark \in Marked(runs)[at][2]
<1> DEFINE M == Marked(runs)
           n == Len(runs)
           C == Covering(runs, from, to)
           Has2(at) == mark \in M[at][2]
<1>1. Len(M) \in Nat /\ to <= Len(M) /\ n \in Nat /\ DOMAIN runs = 1 .. n
  <2>1. Len(M) \in Nat /\ to <= Len(M)
    BY TextOfMarked
  <2> QED BY <2>1
<1>2. \A i \in 1 .. n : /\ StartOf(runs, i) \in Nat /\ StartOf(runs, i + 1) \in Nat
                        /\ StartOf(runs, i + 1) = StartOf(runs, i) + Len(runs[i].text)
                        /\ Len(runs[i].text) \in Nat
  <2> TAKE i \in 1 .. n
  <2>1. i \in 1 .. n + 1 /\ i + 1 \in 1 .. n + 1 /\ runs[i] \in TextRun
    BY <1>1
  <2>2. runs[i].text \in Seq(Bytes)
    BY <2>1, MarkedRunFacts
  <2>3. Len(runs[i].text) \in Nat
    BY <2>2
  <2> QED BY <2>1, <2>3, StartFacts
\* A run covers the range if a byte of the range is in it.
<1>3. ASSUME NEW i \in 1 .. n
      PROVE  i \in C <=> \E j \in 1 .. Len(runs[i].text) : StartOf(runs, i) + j \in from + 1 .. to
  <2> DEFINE a == StartOf(runs, i)
             c == StartOf(runs, i + 1)
             l == Len(runs[i].text)
  <2>1. a \in Nat /\ c = a + l /\ l \in Nat /\ c \in Nat
    BY <1>2
  <2>2. i \in C <=> Max({a, from}) < Min({c, to})
    BY <1>1 DEF Covering
  <2> HIDE DEF a, c, l
  <2>3. Max({a, from}) \in {a, from} /\ \A z \in {a, from} : z <= Max({a, from})
    BY <2>1, MaxOfTwo
  <2>4. Min({c, to}) \in {c, to} /\ \A z \in {c, to} : Min({c, to}) <= z
    BY <2>1, LeastIs
  <2> DEFINE x == Max({a, from})
             y == Min({c, to})
  <2>5. /\ x \in Nat /\ y \in Nat /\ a <= x /\ from <= x /\ y <= c /\ y <= to
        /\ (x = a \/ x = from) /\ (y = c \/ y = to)
    BY <2>1, <2>3, <2>4
  <2> HIDE DEF x, y
  <2>6. ASSUME x < y PROVE \E j \in 1 .. l : a + j \in from + 1 .. to
    <3>1. (x + 1) - a \in 1 .. l /\ a + ((x + 1) - a) \in from + 1 .. to
      BY <2>1, <2>5, <2>6
    <3> QED BY <3>1
  <2>7. ASSUME NEW j \in 1 .. l, a + j \in from + 1 .. to PROVE x < y
    BY <2>1, <2>5, <2>7
  <2> QED BY <2>2, <2>6, <2>7 DEF a, l, x, y
<1>4. \A i \in 1 .. n : \A j \in 1 .. Len(runs[i].text) :
         M[StartOf(runs, i) + j][2] = runs[i].marks
  <2> TAKE i \in 1 .. n
  <2> TAKE j \in 1 .. Len(runs[i].text)
  <2> DEFINE x == runs[i].text[j]
             y == runs[i].marks
             z == M[StartOf(runs, i) + j]
  <2>1. z = <<x, y>>
    BY MarkedAt
  <2> HIDE DEF x, y, z
  <2>2. z[2] = y
    BY <2>1
  <2> QED BY <2>2 DEF y, z
<1>5. \A at \in from + 1 .. to : \E i \in 1 .. n : \E j \in 1 .. Len(runs[i].text) :
         at = StartOf(runs, i) + j
  <2> TAKE at \in from + 1 .. to
  <2>1. at \in 1 .. Len(M)
    BY <1>1
  <2> QED BY <2>1, PlaceOf
<1>6. C \subseteq 1 .. n
  BY <1>1 DEF Covering
<1>7. RangeMarked(runs, from, to, mark) <=> C # {} /\ \A i \in C : mark \in runs[i].marks
  BY DEF RangeMarked
<1> HIDE DEF C, M, n
<1>8. C # {}
  <2>1. from + 1 \in from + 1 .. to
    OBVIOUS
  <2>2. PICK i \in 1 .. n : \E j \in 1 .. Len(runs[i].text) : from + 1 = StartOf(runs, i) + j
    BY <1>5, <2>1
  <2> QED BY <1>3, <2>1, <2>2
<1>9. ASSUME \A i \in C : mark \in runs[i].marks, NEW at \in from + 1 .. to PROVE Has2(at)
  <2>1. PICK i \in 1 .. n : \E j \in 1 .. Len(runs[i].text) : at = StartOf(runs, i) + j
    BY <1>5
  <2>2. PICK j \in 1 .. Len(runs[i].text) : at = StartOf(runs, i) + j
    BY <2>1
  <2>3. i \in C
    BY <1>3, <2>2
  <2>4. M[at][2] = runs[i].marks
    BY <1>4, <2>2
  <2> QED BY <1>9, <2>3, <2>4
<1>10. ASSUME \A at \in from + 1 .. to : Has2(at), NEW i \in C PROVE mark \in runs[i].marks
  <2>1. i \in 1 .. n
    BY <1>6
  <2>2. PICK j \in 1 .. Len(runs[i].text) : StartOf(runs, i) + j \in from + 1 .. to
    BY <1>3, <2>1
  <2>3. M[StartOf(runs, i) + j][2] = runs[i].marks
    BY <1>4, <2>1
  <2> QED BY <1>10, <2>2, <2>3
<1> QED BY <1>7, <1>8, <1>9, <1>10 DEF M

LEMMA SamePrefixIs ==
    ASSUME NEW B, NEW a \in Seq(B), NEW b \in Seq(B), NEW n \in Nat, n <= Len(a), n <= Len(b)
    PROVE  SamePrefix(a, b, n) <=> \A k \in 1 .. n : a[k] = b[k]
<1> DEFINE x == SubSeq(a, 1, n)
           y == SubSeq(b, 1, n)
<1>1. x \in Seq(B) /\ y \in Seq(B) /\ Len(x) = n /\ Len(y) = n
  BY PrefixFacts
<1>2. \A k \in 1 .. n : x[k] = a[k] /\ y[k] = b[k]
  OBVIOUS
<1> HIDE DEF x, y
<1>3. (\A k \in 1 .. n : x[k] = y[k]) => x = y
  BY <1>1, SeqEqual
<1>4. x = y <=> \A k \in 1 .. n : a[k] = b[k]
  BY <1>2, <1>3
<1> QED BY <1>4 DEF SamePrefix, x, y

\* The shared edges are the longest ones.
LEMMA PrefixLongest ==
    ASSUME NEW old \in Seq(Bytes), NEW new \in Seq(Bytes), NEW n \in Nat, n <= Len(old), n <= Len(new),
           SamePrefix(old, new, n), n \in Boundaries(old), n \in Boundaries(new)
    PROVE  n <= CommonPrefix(old, new)
<1> DEFINE k == Len(old)
           l == Len(new)
           max == Min({k, l})
           S == {x \in 0 .. max : SamePrefix(old, new, x)}
           shared == Max(S)
           T == {x \in 0 .. shared : x \in Boundaries(old) /\ x \in Boundaries(new)}
<1>1. k \in Nat /\ l \in Nat
  OBVIOUS
<1>2. max \in Nat /\ n <= max
  <2>1. max \in {k, l} /\ max \in Nat
    <3> HIDE DEF k, l
    <3>1. {k, l} \in SUBSET Nat /\ {k, l} # {}
      BY <1>1
    <3> DEFINE U == {k, l}
    <3> HIDE DEF U
    <3>2. Min(U) \in U
      BY <3>1, LeastIs DEF U
    <3> QED BY <1>1, <3>2 DEF U
  <2> HIDE DEF max
  <2> QED BY <2>1
<1>3. CommonPrefix(old, new) = Max(T)
  BY DEF CommonPrefix
<1> HIDE DEF max
<1>4. n \in S /\ S \in SUBSET (0 .. max)
  BY <1>2
<1>5. shared \in Nat /\ n <= shared
  <2> HIDE DEF S
  <2>1. shared \in 0 .. max /\ \A x \in S : x <= shared
    BY <1>2, <1>4, GreatestIs
  <2> QED BY <1>2, <1>4, <2>1
<1> HIDE DEF shared
<1>6. n \in T /\ T \in SUBSET (0 .. shared)
  BY <1>5
<1>7. n <= Max(T)
  <2> HIDE DEF T
  <2> QED BY <1>5, <1>6, GreatestIs
<1> QED BY <1>3, <1>7

LEMMA SuffixLongest ==
    ASSUME NEW old \in Seq(Bytes), NEW new \in Seq(Bytes), NEW max \in Nat, NEW n \in 0 .. max,
           SameSuffix(old, new, n), Len(old) - n \in Boundaries(old), Len(new) - n \in Boundaries(new)
    PROVE  n <= SuffixWithin(old, new, max)
<1> DEFINE S == {x \in 0 .. max : SameSuffix(old, new, x)}
           shared == Max(S)
           T == {x \in 0 .. shared : Len(old) - x \in Boundaries(old) /\ Len(new) - x \in Boundaries(new)}
<1>1. n \in S /\ S \in SUBSET (0 .. max)
  OBVIOUS
<1>2. shared \in Nat /\ n <= shared
  <2> HIDE DEF S
  <2>1. shared \in 0 .. max /\ \A x \in S : x <= shared
    BY <1>1, GreatestIs
  <2> QED BY <1>1, <2>1
<1>3. SuffixWithin(old, new, max) = Max(T)
  BY DEF SuffixWithin
<1> HIDE DEF shared
<1>4. n \in T /\ T \in SUBSET (0 .. shared)
  BY <1>2
<1>5. n <= Max(T)
  <2> HIDE DEF T
  <2> QED BY <1>2, <1>4, GreatestIs
<1> QED BY <1>3, <1>5

\* The marks at an offset are those of the character there, or of the last run.
LEMMA MarksAtIs ==
    ASSUME NEW runs \in Seq(TextRun), NEW M, M = Marked(runs), NEW at \in 0 .. Len(M)
    PROVE  MarksAt(runs, at) = IF at < Len(M) THEN M[at + 1][2]
                               ELSE IF runs # <<>> THEN Last(runs).marks ELSE {}
<1> DEFINE n == Len(runs)
           S(i) == StartOf(runs, i)
           reaching == {i \in DOMAIN runs : at < StartOf(runs, i + 1)}
           size == Len(M)
<1>1. runs \in Seq(TextRun) /\ n \in Nat /\ DOMAIN runs = 1 .. n
  OBVIOUS
<1>2. /\ S(1) = 0 /\ \A i \in 1 .. n + 1 : S(i) \in Nat
      /\ \A i \in 1 .. n : S(i + 1) = S(i) + Len(runs[i].text)
      /\ S(n + 1) = size /\ size \in Nat
  BY <1>1, StartFacts, TextOfMarked
<1>3. \A i \in 1 .. n : Len(runs[i].text) \in Nat
  <2> TAKE i \in 1 .. n
  <2>1. runs[i] \in TextRun
    BY <1>1
  <2>2. runs[i].text \in Seq(Bytes)
    BY <2>1, MarkedRunFacts
  <2> QED BY <2>2
<1>4. \A i, j \in 1 .. n + 1 : i <= j => S(i) <= S(j)
  BY <1>1, StartsRise
<1>5. CASE runs = <<>>
  BY <1>5, MarkedSmall DEF MarksAt
<1>6. CASE runs # <<>>
  <2>1. n # 0 /\ n \in 1 .. n /\ Last(runs) = runs[n]
    BY <1>1, <1>6 DEF Last
  <2>3. CASE at = size
    <3>1. reaching = {}
      <4> HIDE DEF S, size, n
      <4>1. \A i \in 1 .. n : S(i + 1) <= at
        BY <1>1, <1>2, <1>4, <2>3
      <4> QED BY <1>1, <1>2, <4>1 DEF S
    <3>2. MarksAt(runs, at) = Last(runs).marks
      BY <1>6, <3>1 DEF MarksAt
    <3>3. ~(at < Len(M))
      <4> HIDE DEF size
      <4>1. ~(at < size)
        BY <1>2, <2>3
      <4> QED BY <4>1 DEF size
    <3> QED BY <1>6, <3>2, <3>3
  <2>4. CASE at # size
    <3>1. at + 1 \in 1 .. size /\ at \in Nat
      <4> HIDE DEF n
      <4> QED BY <1>2, <2>4
    <3> DEFINE p == at + 1
    <3>2. PICK k \in 1 .. n : \E j \in 1 .. Len(runs[k].text) : p = S(k) + j /\ S(k) \in Nat
      <4> HIDE DEF p
      <4> QED BY <1>1, <3>1, PlaceOf DEF p
    <3>3. PICK j \in 1 .. Len(runs[k].text) : p = S(k) + j /\ S(k) \in Nat
      BY <3>2
    <3>4. M[p][2] = runs[k].marks
      <4>1. M[StartOf(runs, k) + j] = <<runs[k].text[j], runs[k].marks>>
        BY <1>1, MarkedAt
      <4> HIDE DEF p
      <4> QED BY <3>3, <4>1
    <3>5. k \in reaching /\ \A i \in reaching : k <= i
      <4>1. at < S(k + 1)
        <5>1. at + 1 = S(k) + j
          BY <3>3
        <5> HIDE DEF S, size, n, p, reaching
        <5>2. S(k + 1) = S(k) + Len(runs[k].text) /\ Len(runs[k].text) \in Nat /\ S(k) \in Nat
          BY <1>2, <1>3, <3>3
        <5>3. j \in Nat /\ j <= Len(runs[k].text) /\ at \in Nat
          BY <3>1, <5>2
        <5> QED BY <5>1, <5>2, <5>3
      <4>2. ASSUME NEW i \in reaching, i < k PROVE FALSE
        <5>1. i \in 1 .. n /\ at < S(i + 1)
          BY <1>1
        <5> HIDE DEF S, size, n, reaching
        <5>2. S(i + 1) <= S(k)
          <6>1. i + 1 \in 1 .. n + 1 /\ k \in 1 .. n + 1 /\ i + 1 <= k
            BY <1>1, <4>2, <5>1
          <6> QED BY <1>4, <6>1
        <5>3. at + 1 = S(k) + j
          BY <3>3
        <5> HIDE DEF p
        <5>4. S(k) \in Nat /\ S(i + 1) \in Nat /\ at \in Nat /\ j \in Nat /\ j # 0
          <6>1. i + 1 \in 1 .. n + 1 /\ Len(runs[k].text) \in Nat
            BY <1>1, <1>3, <5>1
          <6> QED BY <1>2, <3>1, <3>3, <6>1
        <5> QED BY <5>1, <5>2, <5>3, <5>4
      <4>3. \A i \in reaching : i \in Nat /\ k \in Nat
        BY <1>1
      <4> HIDE DEF reaching, n, S
      <4>4. \A i \in reaching : k <= i
        BY <4>2, <4>3
      <4> QED BY <1>1, <4>1, <4>4 DEF reaching, S
    <3>6. Min(reaching) = k
      <4>1. reaching \in SUBSET Nat /\ reaching # {} /\ k \in Nat
        BY <1>1, <3>5
      <4> HIDE DEF reaching
      <4>2. Min(reaching) \in reaching /\ Min(reaching) <= k /\ k <= Min(reaching) /\ Min(reaching) \in Nat
        BY <3>5, <4>1, LeastIs
      <4> QED BY <4>1, <4>2
    <3>7. MarksAt(runs, at) = runs[k].marks
      BY <1>6, <3>5, <3>6 DEF MarksAt
    <3>8. at < Len(M)
      BY <3>1
    <3> QED BY <3>4, <3>7, <3>8
  <2> QED BY <2>3, <2>4
<1> QED BY <1>5, <1>6
=============================================================================
