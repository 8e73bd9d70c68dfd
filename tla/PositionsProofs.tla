--------------------------- MODULE PositionsProofs ---------------------------
(***************************************************************************)
(* Proofs about Fractional and Positions, for every set of block ids,      *)
(* every batch size, every Terminator and TopByte, and keys of any length. *)
(* First the keys: Below is a strict total order of them, and the key made *)
(* for a gap is a key and lies strictly inside it.  Then the page.         *)
(***************************************************************************)
EXTENDS Positions, TLAPS, SequenceTheorems, WellFoundedInduction, FiniteSetTheorems

Keys == {k \in Seq(Bytes) : IsKey(k)}

-----------------------------------------------------------------------------
(* The order. *)

LEMMA LeastIs ==
    ASSUME NEW S \in SUBSET Nat, S # {}
    PROVE  Min(S) \in S /\ \A x \in S : Min(S) <= x
<1> DEFINE Less == {pair \in Nat \X Nat : pair[1] < pair[2]}
<1>1. IsWellFoundedOn(Less, Nat)
  BY NatLessThanWellFounded DEF OpToRel
<1>2. \E m \in S : \A x \in S : ~ (<<x, m>> \in Less)
  <2> HIDE DEF Less
  <2> QED BY <1>1, WFMin, Zenon
<1>3. PICK m \in S : \A x \in S : ~ (<<x, m>> \in Less)
  BY <1>2
<1>4. \A x \in S : m <= x
  <2> SUFFICES ASSUME NEW x \in S PROVE m <= x
    OBVIOUS
  <2>1. <<x, m>> \notin Less
    BY <1>3
  <2> QED BY <2>1
<1> QED BY <1>4 DEF Min

LEMMA BytesNat == /\ Bytes \subseteq Nat
                  /\ Terminator \in Bytes /\ Terminator \in Nat /\ Terminator > 0
                  /\ TopByte \in Nat /\ Terminator < TopByte
BY ByteAssumption DEF Bytes

LEMMA SeqFacts ==
    ASSUME NEW s \in Seq(Bytes)
    PROVE  /\ Len(s) \in Nat
           /\ DOMAIN s = 1 .. Len(s)
           /\ \A i \in 1 .. Len(s) : s[i] \in Bytes /\ s[i] \in Nat
<1>1. \A i \in 1 .. Len(s) : s[i] \in Bytes
  OBVIOUS
<1>2. \A x \in Bytes : x \in Nat
  BY BytesNat
<1>3. Len(s) \in Nat /\ DOMAIN s = 1 .. Len(s)
  OBVIOUS
<1> QED BY <1>1, <1>2, <1>3

LEMMA KeyFacts ==
    ASSUME NEW k \in Keys
    PROVE  /\ k \in Seq(Bytes) /\ Len(k) \in Nat \ {0}
           /\ k[Len(k)] = Terminator /\ Len(k) \in 1 .. Len(k)
           /\ k # NoKey
BY DEF Keys, IsKey, NoKey

\* a is less at byte i, or ends there; before it they are the same.
LessAt(a, b, i) ==
    /\ i \in 1 .. Len(b) /\ i <= Len(a) + 1
    /\ \A j \in 1 .. i - 1 : a[j] = b[j]
    /\ i <= Len(a) => a[i] < b[i]

LEMMA BelowIs ==
    ASSUME NEW a \in Seq(Bytes), NEW b \in Seq(Bytes)
    PROVE  Below(a, b) <=> \E i \in Nat : LessAt(a, b, i)
<1>1. /\ Len(a) \in Nat /\ Len(b) \in Nat
      /\ DOMAIN a = 1 .. Len(a) /\ DOMAIN b = 1 .. Len(b)
  BY SeqFacts
<1>2. ASSUME Below(a, b) PROVE \E i \in Nat : LessAt(a, b, i)
  <2>1. ASSUME NEW i \in DOMAIN a \cap DOMAIN b,
               a[i] < b[i] /\ \A j \in 1 .. i - 1 : a[j] = b[j]
        PROVE  \E m \in Nat : LessAt(a, b, m)
    <3>1. i \in Nat /\ i \in 1 .. Len(b) /\ i <= Len(a) + 1
      BY <1>1
    <3>2. LessAt(a, b, i)
      BY <2>1, <3>1 DEF LessAt
    <3> QED BY <3>1, <3>2
  <2>2. ASSUME Len(a) < Len(b), \A i \in DOMAIN a : a[i] = b[i]
        PROVE  \E m \in Nat : LessAt(a, b, m)
    <3> DEFINE m == Len(a) + 1
    <3>1. m \in Nat /\ m \in 1 .. Len(b) /\ m <= Len(a) + 1 /\ ~ (m <= Len(a))
      BY <1>1, <2>2
    <3>2. \A j \in 1 .. m - 1 : a[j] = b[j]
      BY <1>1, <2>2
    <3>3. LessAt(a, b, m)
      BY <3>1, <3>2 DEF LessAt
    <3> QED BY <3>1, <3>3
  <2> QED BY <1>2, <2>1, <2>2 DEF Below
<1>3. ASSUME NEW i \in Nat, LessAt(a, b, i) PROVE Below(a, b)
  <2>1. /\ i \in 1 .. Len(b) /\ i <= Len(a) + 1
        /\ \A j \in 1 .. i - 1 : a[j] = b[j]
        /\ i <= Len(a) => a[i] < b[i]
    BY <1>3 DEF LessAt
  <2>2. CASE i <= Len(a)
    <3>1. i \in DOMAIN a \cap DOMAIN b
      BY <1>1, <2>1, <2>2
    <3> QED BY <3>1, <2>1, <2>2 DEF Below
  <2>3. CASE ~ (i <= Len(a))
    <3>1. i = Len(a) + 1
      BY <1>1, <2>1, <2>3
    <3>2. Len(a) < Len(b)
      BY <1>1, <2>1, <3>1
    <3>3. \A j \in DOMAIN a : j \in 1 .. i - 1
      BY <1>1, <3>1
    <3> QED BY <2>1, <3>2, <3>3 DEF Below
  <2> QED BY <2>2, <2>3
<1> QED BY <1>2, <1>3

LEMMA BelowIrreflexive ==
    ASSUME NEW a \in Seq(Bytes)
    PROVE  ~ Below(a, a)
<1> SUFFICES ASSUME NEW i \in Nat, LessAt(a, a, i) PROVE FALSE
  BY BelowIs
<1>1. i \in 1 .. Len(a) /\ Len(a) \in Nat
  BY SeqFacts DEF LessAt
<1>2. a[i] < a[i] /\ a[i] \in Nat
  BY <1>1, SeqFacts DEF LessAt
<1> QED BY <1>2

LEMMA BelowTransitive ==
    ASSUME NEW a \in Seq(Bytes), NEW b \in Seq(Bytes), NEW c \in Seq(Bytes),
           Below(a, b), Below(b, c)
    PROVE  Below(a, c)
<1>1. PICK i \in Nat : LessAt(a, b, i)
  BY BelowIs
<1>2. PICK j \in Nat : LessAt(b, c, j)
  BY BelowIs
<1>3. Len(a) \in Nat /\ Len(b) \in Nat /\ Len(c) \in Nat
  BY SeqFacts
<1>4. /\ i \in 1 .. Len(b) /\ i <= Len(a) + 1
      /\ \A m \in 1 .. i - 1 : a[m] = b[m]
      /\ i <= Len(a) => a[i] < b[i]
  BY <1>1 DEF LessAt
<1>5. /\ j \in 1 .. Len(c) /\ j <= Len(b) + 1
      /\ \A m \in 1 .. j - 1 : b[m] = c[m]
      /\ j <= Len(b) => b[j] < c[j]
  BY <1>2 DEF LessAt
<1>6. CASE i < j
  <2>1. i \in 1 .. Len(c) /\ i \in 1 .. j - 1
    BY <1>3, <1>4, <1>5, <1>6
  <2>2. \A m \in 1 .. i - 1 : a[m] = c[m]
    BY <1>3, <1>4, <1>5, <1>6
  <2>3. i <= Len(a) => a[i] < c[i]
    BY <2>1, <1>4, <1>5
  <2>4. LessAt(a, c, i)
    BY <2>1, <2>2, <2>3, <1>4 DEF LessAt
  <2> QED BY <2>4, BelowIs
<1>7. CASE j < i
  <2>1. j \in 1 .. i - 1 /\ j <= Len(b) /\ j <= Len(a) + 1
    BY <1>3, <1>4, <1>5, <1>7
  <2>2. \A m \in 1 .. j - 1 : a[m] = c[m]
    BY <1>3, <1>4, <1>5, <1>7
  <2>3. a[j] < c[j]
    BY <2>1, <1>4, <1>5
  <2>4. LessAt(a, c, j)
    BY <2>1, <2>2, <2>3, <1>5 DEF LessAt
  <2> QED BY <2>4, BelowIs
<1>8. CASE i = j
  <2>1. \A m \in 1 .. i - 1 : a[m] = c[m]
    BY <1>4, <1>5, <1>8
  <2>2. i <= Len(a) => a[i] < c[i]
    <3> SUFFICES ASSUME i <= Len(a) PROVE a[i] < c[i]
      OBVIOUS
    <3>1. i <= Len(b) /\ i \in 1 .. Len(a) /\ i \in 1 .. Len(b) /\ i \in 1 .. Len(c)
      BY <1>3, <1>4, <1>5, <1>8
    <3>2. a[i] \in Nat /\ b[i] \in Nat /\ c[i] \in Nat
      BY <3>1, SeqFacts
    <3>3. a[i] < b[i] /\ b[i] < c[i]
      BY <3>1, <1>4, <1>5, <1>8
    <3> QED BY <3>2, <3>3
  <2>3. LessAt(a, c, i)
    BY <2>1, <2>2, <1>4, <1>5, <1>8 DEF LessAt
  <2> QED BY <2>3, BelowIs
<1> QED BY <1>6, <1>7, <1>8

LEMMA BelowTotal ==
    ASSUME NEW a \in Seq(Bytes), NEW b \in Seq(Bytes), a # b
    PROVE  Below(a, b) \/ Below(b, a)
<1> DEFINE differing == {i \in 1 .. Len(a) : i <= Len(b) /\ a[i] # b[i]}
<1>1. Len(a) \in Nat /\ Len(b) \in Nat
  BY SeqFacts
<1>2. CASE differing # {}
  <2>1. differing \subseteq Nat
    BY <1>1
  <2>2. PICK i \in differing : \A x \in differing : i <= x
    BY <1>2, <2>1, LeastIs
  <2>3. i \in 1 .. Len(a) /\ i \in 1 .. Len(b) /\ i \in Nat /\ a[i] # b[i]
    BY <1>1
  <2>4. \A j \in 1 .. i - 1 : a[j] = b[j]
    <3> TAKE j \in 1 .. i - 1
    <3>1. j \in 1 .. Len(a) /\ j <= Len(b) /\ ~ (i <= j)
      BY <1>1, <2>3
    <3> QED BY <2>2, <3>1
  <2>5. a[i] \in Nat /\ b[i] \in Nat
    BY <2>3, SeqFacts
  <2>6. a[i] < b[i] \/ b[i] < a[i]
    BY <2>3, <2>5
  <2>7. i <= Len(a) + 1 /\ i <= Len(b) + 1
    BY <1>1, <2>3
  <2>8. LessAt(a, b, i) \/ LessAt(b, a, i)
    <3> HIDE DEF differing
    <3> QED BY <2>3, <2>4, <2>6, <2>7 DEF LessAt
  <2> QED BY <2>3, <2>8, BelowIs
<1>3. CASE differing = {}
  <2>1. \A i \in 1 .. Len(a) : i <= Len(b) => a[i] = b[i]
    BY <1>3
  <2>2. CASE Len(a) < Len(b)
    <3>1. \A i \in DOMAIN a : a[i] = b[i]
      BY <2>1, <2>2, SeqFacts
    <3> QED BY <3>1, <2>2 DEF Below
  <2>3. CASE Len(b) < Len(a)
    <3>1. \A i \in DOMAIN b : b[i] = a[i]
      <4> TAKE i \in DOMAIN b
      <4>1. i \in 1 .. Len(a) /\ i <= Len(b)
        BY <1>1, <2>3
      <4> QED BY <4>1, <2>1
    <3> QED BY <3>1, <2>3 DEF Below
  <2>4. CASE Len(a) = Len(b)
    <3>1. \A i \in 1 .. Len(a) : a[i] = b[i]
      BY <2>1, <2>4, <1>1
    <3>2. a = b
      BY <2>4, <3>1, SeqEqual
    <3> QED BY <3>2
  <2> QED BY <1>1, <2>2, <2>3, <2>4
<1> QED BY <1>2, <1>3

-----------------------------------------------------------------------------
(* Keys after and before a key. *)

LEMMA UptoFacts ==
    ASSUME NEW s \in Seq(Bytes), NEW i \in 0 .. Len(s)
    PROVE  /\ Upto(s, i) \in Seq(Bytes)
           /\ Len(Upto(s, i)) = i
           /\ \A m \in 1 .. i : Upto(s, i)[m] = s[m]
<1>1. Len(s) \in Nat /\ i \in Nat /\ i <= Len(s)
  BY SeqFacts
<1> QED BY <1>1 DEF Upto

LEMMA FromFacts ==
    ASSUME NEW s \in Keys, NEW i \in 1 .. Len(s)
    PROVE  /\ From(s, i) \in Keys
           /\ Len(From(s, i)) = Len(s) - i + 1
           /\ \A m \in 1 .. Len(From(s, i)) : From(s, i)[m] = s[i + m - 1]
<1> DEFINE f == From(s, i)
           n == Len(s)
<1>1. n \in Nat /\ i \in Nat /\ 1 <= i /\ i <= n /\ s \in Seq(Bytes) /\ s[n] = Terminator
  BY KeyFacts
<1>2. /\ f \in Seq(Bytes) /\ Len(f) = n - i + 1
      /\ \A m \in 1 .. Len(f) : f[m] = s[i + m - 1]
  BY <1>1 DEF From
<1> HIDE DEF f, n
<1>3. Len(f) \in 1 .. Len(f) /\ i + Len(f) - 1 = n
  BY <1>1, <1>2
<1>4. f[Len(f)] = Terminator
  BY <1>1, <1>2, <1>3
<1>5. f # <<>>
  BY <1>2, <1>3
<1>6. f \in Keys
  BY <1>2, <1>4, <1>5 DEF Keys, IsKey
<1> QED BY <1>2, <1>6 DEF f, n

LEMMA TerminatedFacts ==
    ASSUME NEW s \in Seq(Bytes)
    PROVE  /\ Terminated(s) \in Keys
           /\ Len(Terminated(s)) = Len(s) + 1
           /\ \A m \in 1 .. Len(s) : Terminated(s)[m] = s[m]
           /\ Terminated(s)[Len(s) + 1] = Terminator
<1> DEFINE t == Terminated(s)
<1>1. Terminator \in Bytes
  BY BytesNat
<1>2. /\ t \in Seq(Bytes) /\ Len(t) = Len(s) + 1 /\ t[Len(s) + 1] = Terminator
      /\ \A m \in 1 .. Len(s) : t[m] = s[m]
      /\ t # <<>>
  BY <1>1 DEF Terminated
<1> HIDE DEF t
<1>3. t \in Keys
  BY <1>2 DEF Keys, IsKey
<1> QED BY <1>2, <1>3 DEF t

\* A key that starts like s up to byte i and goes up, or down, at a later byte.
RaisedAfter(s, t, i) ==
    /\ t \in Keys
    /\ \E j \in i + 1 .. Len(s) :
         j <= Len(t) /\ s[j] < t[j] /\ \A m \in 1 .. j - 1 : t[m] = s[m]
LoweredAfter(s, t, i) ==
    /\ t \in Keys
    /\ \E j \in i + 1 .. Len(s) :
         j <= Len(t) /\ t[j] < s[j] /\ \A m \in 1 .. j - 1 : t[m] = s[m]

LEMMA AfterFacts ==
    ASSUME NEW x \in Keys
    PROVE  AfterBytes(x) \in Seq(Bytes) /\ RaisedAfter(x, Terminated(AfterBytes(x)), 0)
<1> DEFINE S == {j \in DOMAIN x : x[j] < TopByte}
           i == Min(S)
           n == Len(x)
           a == AfterBytes(x)
           t == Terminated(a)
<1>1. n \in Nat /\ DOMAIN x = 1 .. n /\ n \in 1 .. n /\ x[n] = Terminator /\ x \in Seq(Bytes)
  BY KeyFacts
<1>2. S \subseteq Nat /\ n \in S
  BY <1>1, BytesNat
<1>3. i \in S
  BY <1>2, LeastIs
<1>4. i \in 1 .. n /\ i \in Nat /\ x[i] < TopByte /\ x[i] \in Nat
  BY <1>1, <1>3, SeqFacts
<1> HIDE DEF S, n
<1>5. CASE x[i] < Terminator
  <2>1. a = Upto(x, i - 1)
    BY <1>5 DEF AfterBytes, S
  <2> HIDE DEF a, i
  <2>2. i - 1 \in 0 .. n /\ (i - 1) + 1 = i
    BY <1>1, <1>4
  <2>3. /\ a \in Seq(Bytes) /\ Len(a) = i - 1
        /\ \A m \in 1 .. i - 1 : a[m] = x[m]
    BY <1>1, <2>1, <2>2, UptoFacts DEF n
  <2>4. t \in Keys /\ Len(t) = i /\ t[i] = Terminator /\ \A m \in 1 .. i - 1 : t[m] = x[m]
    BY <2>2, <2>3, TerminatedFacts
  <2> HIDE DEF t
  <2>5. i \in 0 + 1 .. n /\ i <= Len(t)
    BY <1>4, <2>4
  <2>6. RaisedAfter(x, t, 0)
    BY <1>5, <2>4, <2>5 DEF RaisedAfter, n
  <2> QED BY <2>3, <2>6 DEF a, t
<1>6. CASE ~ (x[i] < Terminator)
  <2> DEFINE u == Upto(x, i)
             v == x[i] + 1
  <2>1. a = [u EXCEPT ![i] = @ + 1]
    BY <1>6 DEF AfterBytes, S
  <2> HIDE DEF a, i
  <2>2. i \in 0 .. n
    BY <1>1, <1>4
  <2>3. u \in Seq(Bytes) /\ Len(u) = i /\ \A m \in 1 .. i : u[m] = x[m]
    BY <1>1, <2>2, UptoFacts DEF n
  <2> HIDE DEF u
  <2>4. i \in 1 .. i /\ u[i] = x[i]
    BY <1>4, <2>3
  <2>5. v \in Bytes
    BY <1>4, ByteAssumption DEF Bytes
  <2>6. a = [u EXCEPT ![i] = v]
    BY <2>1, <2>4
  <2> HIDE DEF v
  <2>7. /\ a \in Seq(Bytes) /\ Len(a) = i
        /\ \A m \in 1 .. i : a[m] = IF m = i THEN v ELSE u[m]
    BY <2>3, <2>4, <2>5, <2>6, ExceptSeq
  <2>8. a[i] = v /\ \A m \in 1 .. i - 1 : m \in 1 .. i /\ a[m] = x[m]
    BY <1>4, <2>3, <2>4, <2>7
  <2>9. /\ t \in Keys /\ Len(t) = i + 1 /\ \A m \in 1 .. i : t[m] = a[m]
    BY <2>7, TerminatedFacts
  <2> HIDE DEF t
  <2>10. i \in 0 + 1 .. n /\ i <= Len(t)
    BY <1>4, <2>9
  <2>11. x[i] < t[i]
    <3>1. t[i] = x[i] + 1
      BY <2>4, <2>8, <2>9 DEF v
    <3> QED BY <3>1, <1>4
  <2>12. \A m \in 1 .. i - 1 : t[m] = x[m]
    BY <2>8, <2>9
  <2>13. RaisedAfter(x, t, 0)
    BY <2>9, <2>10, <2>11, <2>12 DEF RaisedAfter, n
  <2> QED BY <2>7, <2>13 DEF a, t
<1> QED BY <1>5, <1>6

LEMMA BeforeFacts ==
    ASSUME NEW x \in Keys
    PROVE  BeforeBytes(x) \in Seq(Bytes) /\ LoweredAfter(x, Terminated(BeforeBytes(x)), 0)
<1> DEFINE S == {j \in DOMAIN x : x[j] > 0}
           i == Min(S)
           n == Len(x)
           b == BeforeBytes(x)
           t == Terminated(b)
<1>1. n \in Nat /\ DOMAIN x = 1 .. n /\ n \in 1 .. n /\ x[n] = Terminator /\ x \in Seq(Bytes)
  BY KeyFacts
<1>2. S \subseteq Nat /\ n \in S
  BY <1>1, BytesNat
<1>3. i \in S
  BY <1>2, LeastIs
<1>4. i \in 1 .. n /\ i \in Nat /\ x[i] > 0 /\ x[i] \in Nat /\ x[i] \in Bytes
  BY <1>1, <1>3, SeqFacts
<1> HIDE DEF S, n
<1>5. CASE x[i] > Terminator
  <2>1. b = Upto(x, i - 1)
    BY <1>5 DEF BeforeBytes, S
  <2> HIDE DEF b, i
  <2>2. i - 1 \in 0 .. n /\ (i - 1) + 1 = i
    BY <1>1, <1>4
  <2>3. /\ b \in Seq(Bytes) /\ Len(b) = i - 1
        /\ \A m \in 1 .. i - 1 : b[m] = x[m]
    BY <1>1, <2>1, <2>2, UptoFacts DEF n
  <2>4. t \in Keys /\ Len(t) = i /\ t[i] = Terminator /\ \A m \in 1 .. i - 1 : t[m] = x[m]
    BY <2>2, <2>3, TerminatedFacts
  <2> HIDE DEF t
  <2>5. i \in 0 + 1 .. n /\ i <= Len(t) /\ t[i] < x[i]
    BY <1>4, <1>5, <2>4, BytesNat
  <2>6. LoweredAfter(x, t, 0)
    BY <2>4, <2>5 DEF LoweredAfter, n
  <2> QED BY <2>3, <2>6 DEF b, t
<1>6. CASE ~ (x[i] > Terminator)
  <2> DEFINE u == Upto(x, i)
             v == x[i] - 1
  <2>1. b = [u EXCEPT ![i] = @ - 1]
    BY <1>6 DEF BeforeBytes, S
  <2> HIDE DEF b, i
  <2>2. i \in 0 .. n
    BY <1>1, <1>4
  <2>3. u \in Seq(Bytes) /\ Len(u) = i /\ \A m \in 1 .. i : u[m] = x[m]
    BY <1>1, <2>2, UptoFacts DEF n
  <2> HIDE DEF u
  <2>4. i \in 1 .. i /\ u[i] = x[i]
    BY <1>4, <2>3
  <2>5. v \in Bytes
    BY <1>4, ByteAssumption DEF Bytes
  <2>6. b = [u EXCEPT ![i] = v]
    BY <2>1, <2>4
  <2> HIDE DEF v
  <2>7. /\ b \in Seq(Bytes) /\ Len(b) = i
        /\ \A m \in 1 .. i : b[m] = IF m = i THEN v ELSE u[m]
    BY <2>3, <2>4, <2>5, <2>6, ExceptSeq
  <2>8. b[i] = v /\ \A m \in 1 .. i - 1 : m \in 1 .. i /\ b[m] = x[m]
    BY <1>4, <2>3, <2>4, <2>7
  <2>9. /\ t \in Keys /\ Len(t) = i + 1 /\ \A m \in 1 .. i : t[m] = b[m]
    BY <2>7, TerminatedFacts
  <2> HIDE DEF t
  <2>10. i \in 0 + 1 .. n /\ i <= Len(t)
    BY <1>4, <2>9
  <2>11. t[i] < x[i]
    <3>1. t[i] = x[i] - 1
      BY <2>4, <2>8, <2>9 DEF v
    <3> QED BY <3>1, <1>4
  <2>12. \A m \in 1 .. i - 1 : t[m] = x[m]
    BY <2>8, <2>9
  <2>13. LoweredAfter(x, t, 0)
    BY <2>9, <2>10, <2>11, <2>12 DEF LoweredAfter, n
  <2> QED BY <2>7, <2>13 DEF b, t
<1> QED BY <1>5, <1>6

LEMMA Spliced ==
    ASSUME NEW s \in Keys, NEW i \in 0 .. Len(s), NEW y \in Seq(Bytes),
           NEW t, t = Terminated(Upto(s, i) \o y),
           NEW ty, ty = Terminated(y)
    PROVE  /\ t \in Keys /\ ty \in Keys
           /\ Len(t) = i + Len(ty)
           /\ \A m \in 1 .. i : t[m] = s[m]
           /\ \A m \in 1 .. Len(ty) : t[i + m] = ty[m]
<1> DEFINE u == Upto(s, i)
           c == u \o y
           n == Len(y)
<1>1. i \in Nat /\ i <= Len(s) /\ s \in Seq(Bytes) /\ n \in Nat
  BY KeyFacts
<1>2. u \in Seq(Bytes) /\ Len(u) = i /\ \A m \in 1 .. i : u[m] = s[m]
  BY <1>1, UptoFacts
<1> HIDE DEF u
<1>3. /\ c \in Seq(Bytes) /\ Len(c) = i + n
      /\ \A m \in 1 .. i + n : c[m] = IF m <= i THEN u[m] ELSE y[m - i]
  BY <1>1, <1>2, ConcatProperties
<1>4. t = Terminated(c)
  BY DEF u
<1> HIDE DEF c
<1>5. /\ t \in Keys /\ Len(t) = i + n + 1
      /\ \A m \in 1 .. i + n : t[m] = c[m]
      /\ t[i + n + 1] = Terminator
  BY <1>3, <1>4, TerminatedFacts
<1>6. /\ ty \in Keys /\ Len(ty) = n + 1
      /\ \A m \in 1 .. n : ty[m] = y[m]
      /\ ty[n + 1] = Terminator
  BY TerminatedFacts
<1> HIDE DEF n
<1>7. Len(t) = i + Len(ty)
  BY <1>1, <1>5, <1>6
<1>8. \A m \in 1 .. i : t[m] = s[m]
  <2> TAKE m \in 1 .. i
  <2>1. m \in 1 .. i + n /\ m <= i
    BY <1>1
  <2> QED BY <2>1, <1>2, <1>3, <1>5
<1>9. \A m \in 1 .. Len(ty) : t[i + m] = ty[m]
  <2> TAKE m \in 1 .. Len(ty)
  <2>1. m \in 1 .. n \/ m = n + 1
    BY <1>1, <1>6
  <2>2. CASE m \in 1 .. n
    <3>1. i + m \in 1 .. i + n /\ ~ (i + m <= i) /\ (i + m) - i = m
      BY <2>2, <1>1
    <3>2. t[i + m] = y[m]
      BY <3>1, <1>3, <1>5
    <3> QED BY <3>2, <2>2, <1>6
  <2>3. CASE m = n + 1
    <3>1. i + m = i + n + 1
      BY <2>3, <1>1
    <3> QED BY <3>1, <2>3, <1>5, <1>6
  <2> QED BY <2>1, <2>2, <2>3
<1> QED BY <1>5, <1>6, <1>7, <1>8, <1>9

\* The rest of the key raised, or lowered, moves the key the same way.
LEMMA SplicedAfter ==
    ASSUME NEW s \in Keys, NEW i \in 0 .. Len(s) - 1,
           NEW t, t = Terminated(Upto(s, i) \o AfterBytes(From(s, i + 1)))
    PROVE  RaisedAfter(s, t, i)
<1> DEFINE f == From(s, i + 1)
           y == AfterBytes(f)
           ty == Terminated(y)
           n == Len(s)
<1>1. n \in Nat /\ i \in Nat /\ i \in 0 .. n /\ i + 1 \in 1 .. n
  BY KeyFacts
<1>2. /\ f \in Keys /\ Len(f) = n - (i + 1) + 1
      /\ \A m \in 1 .. Len(f) : f[m] = s[(i + 1) + m - 1]
  BY <1>1, FromFacts
<1> HIDE DEF f, n
<1>3. Len(f) = n - i /\ \A m \in 1 .. Len(f) : f[m] = s[i + m]
  <2>1. Len(f) = n - i
    BY <1>1, <1>2
  <2>2. \A m \in 1 .. Len(f) : (i + 1) + m - 1 = i + m
    BY <1>1, <2>1
  <2> QED BY <2>1, <2>2, <1>2
<1>4. y \in Seq(Bytes) /\ RaisedAfter(f, ty, 0)
  BY <1>2, AfterFacts
<1> HIDE DEF y
<1>5. /\ t \in Keys /\ ty \in Keys /\ Len(t) = i + Len(ty)
      /\ \A m \in 1 .. i : t[m] = s[m]
      /\ \A m \in 1 .. Len(ty) : t[i + m] = ty[m]
  <2>1. t = Terminated(Upto(s, i) \o y)
    BY DEF y, f
  <2> QED BY <2>1, <1>1, <1>4, Spliced DEF n
<1> HIDE DEF ty
<1>6. PICK j \in 1 .. Len(f) :
        j <= Len(ty) /\ f[j] < ty[j] /\ \A m \in 1 .. j - 1 : ty[m] = f[m]
  BY <1>4 DEF RaisedAfter
<1>7. j \in Nat /\ Len(ty) \in Nat /\ j \in 1 .. Len(ty)
  BY <1>5, <1>6, KeyFacts
<1> DEFINE k == i + j
<1>8. k \in i + 1 .. n /\ k <= Len(t)
  BY <1>1, <1>3, <1>5, <1>7
<1>9. s[k] = f[j] /\ t[k] = ty[j]
  BY <1>3, <1>5, <1>7
<1>10. \A m \in 1 .. k - 1 : t[m] = s[m]
  <2> TAKE m \in 1 .. k - 1
  <2>1. CASE m <= i
    <3>1. m \in 1 .. i
      BY <2>1, <1>1
    <3> QED BY <3>1, <1>5
  <2>2. CASE ~ (m <= i)
    <3>1. /\ m - i \in 1 .. j - 1 /\ m - i \in 1 .. Len(f) /\ m - i \in 1 .. Len(ty)
          /\ i + (m - i) = m
      BY <2>2, <1>1, <1>3, <1>7
    <3>2. t[m] = ty[m - i] /\ f[m - i] = s[m]
      BY <3>1, <1>3, <1>5
    <3> QED BY <3>1, <3>2, <1>6
  <2> QED BY <2>1, <2>2
<1> HIDE DEF k
<1> QED BY <1>5, <1>6, <1>8, <1>9, <1>10 DEF RaisedAfter, n

LEMMA SplicedBefore ==
    ASSUME NEW s \in Keys, NEW i \in 0 .. Len(s) - 1,
           NEW t, t = Terminated(Upto(s, i) \o BeforeBytes(From(s, i + 1)))
    PROVE  LoweredAfter(s, t, i)
<1> DEFINE f == From(s, i + 1)
           y == BeforeBytes(f)
           ty == Terminated(y)
           n == Len(s)
<1>1. n \in Nat /\ i \in Nat /\ i \in 0 .. n /\ i + 1 \in 1 .. n
  BY KeyFacts
<1>2. /\ f \in Keys /\ Len(f) = n - (i + 1) + 1
      /\ \A m \in 1 .. Len(f) : f[m] = s[(i + 1) + m - 1]
  BY <1>1, FromFacts
<1> HIDE DEF f, n
<1>3. Len(f) = n - i /\ \A m \in 1 .. Len(f) : f[m] = s[i + m]
  <2>1. Len(f) = n - i
    BY <1>1, <1>2
  <2>2. \A m \in 1 .. Len(f) : (i + 1) + m - 1 = i + m
    BY <1>1, <2>1
  <2> QED BY <2>1, <2>2, <1>2
<1>4. y \in Seq(Bytes) /\ LoweredAfter(f, ty, 0)
  BY <1>2, BeforeFacts
<1> HIDE DEF y
<1>5. /\ t \in Keys /\ ty \in Keys /\ Len(t) = i + Len(ty)
      /\ \A m \in 1 .. i : t[m] = s[m]
      /\ \A m \in 1 .. Len(ty) : t[i + m] = ty[m]
  <2>1. t = Terminated(Upto(s, i) \o y)
    BY DEF y, f
  <2> QED BY <2>1, <1>1, <1>4, Spliced DEF n
<1> HIDE DEF ty
<1>6. PICK j \in 1 .. Len(f) :
        j <= Len(ty) /\ ty[j] < f[j] /\ \A m \in 1 .. j - 1 : ty[m] = f[m]
  BY <1>4 DEF LoweredAfter
<1>7. j \in Nat /\ Len(ty) \in Nat /\ j \in 1 .. Len(ty)
  BY <1>5, <1>6, KeyFacts
<1> DEFINE k == i + j
<1>8. k \in i + 1 .. n /\ k <= Len(t)
  BY <1>1, <1>3, <1>5, <1>7
<1>9. s[k] = f[j] /\ t[k] = ty[j]
  BY <1>3, <1>5, <1>7
<1>10. \A m \in 1 .. k - 1 : t[m] = s[m]
  <2> TAKE m \in 1 .. k - 1
  <2>1. CASE m <= i
    <3>1. m \in 1 .. i
      BY <2>1, <1>1
    <3> QED BY <3>1, <1>5
  <2>2. CASE ~ (m <= i)
    <3>1. /\ m - i \in 1 .. j - 1 /\ m - i \in 1 .. Len(f) /\ m - i \in 1 .. Len(ty)
          /\ i + (m - i) = m
      BY <2>2, <1>1, <1>3, <1>7
    <3>2. t[m] = ty[m - i] /\ f[m - i] = s[m]
      BY <3>1, <1>3, <1>5
    <3> QED BY <3>1, <3>2, <1>6
  <2> QED BY <2>1, <2>2
<1> HIDE DEF k
<1> QED BY <1>5, <1>6, <1>8, <1>9, <1>10 DEF LoweredAfter, n

LEMMA RaisedIs ==
    ASSUME NEW s \in Keys, NEW i \in 0 .. Len(s) - 1, NEW t, RaisedAfter(s, t, i)
    PROVE  /\ t \in Keys /\ Below(s, t) /\ i < Len(t)
           /\ \A m \in 1 .. i : t[m] = s[m]
<1>1. /\ t \in Keys /\ s \in Seq(Bytes) /\ t \in Seq(Bytes)
      /\ Len(s) \in Nat /\ Len(t) \in Nat /\ i \in Nat
  BY KeyFacts DEF RaisedAfter
<1>2. PICK j \in i + 1 .. Len(s) :
        j <= Len(t) /\ s[j] < t[j] /\ \A m \in 1 .. j - 1 : t[m] = s[m]
  BY DEF RaisedAfter
<1>3. j \in Nat /\ j \in 1 .. Len(t) /\ j <= Len(s) + 1 /\ i < Len(t)
  BY <1>1, <1>2
<1>4. LessAt(s, t, j)
  BY <1>2, <1>3 DEF LessAt
<1>5. Below(s, t)
  BY <1>1, <1>3, <1>4, BelowIs
<1>6. \A m \in 1 .. i : m \in 1 .. j - 1
  BY <1>1, <1>2
<1> QED BY <1>1, <1>2, <1>3, <1>5, <1>6

LEMMA LoweredIs ==
    ASSUME NEW s \in Keys, NEW i \in 0 .. Len(s) - 1, NEW t, LoweredAfter(s, t, i)
    PROVE  /\ t \in Keys /\ Below(t, s) /\ i < Len(t)
           /\ \A m \in 1 .. i : t[m] = s[m]
<1>1. /\ t \in Keys /\ s \in Seq(Bytes) /\ t \in Seq(Bytes)
      /\ Len(s) \in Nat /\ Len(t) \in Nat /\ i \in Nat
  BY KeyFacts DEF LoweredAfter
<1>2. PICK j \in i + 1 .. Len(s) :
        j <= Len(t) /\ t[j] < s[j] /\ \A m \in 1 .. j - 1 : t[m] = s[m]
  BY DEF LoweredAfter
<1>3. j \in Nat /\ j \in 1 .. Len(s) /\ j <= Len(t) + 1 /\ i < Len(t)
  BY <1>1, <1>2
<1>4. LessAt(t, s, j)
  BY <1>2, <1>3 DEF LessAt
<1>5. Below(t, s)
  BY <1>1, <1>3, <1>4, BelowIs
<1>6. \A m \in 1 .. i : m \in 1 .. j - 1
  BY <1>1, <1>2
<1> QED BY <1>1, <1>2, <1>3, <1>5, <1>6

\* A key after, and one before, a key.
THEOREM AfterAndBefore ==
    ASSUME NEW k \in Keys
    PROVE  /\ NewAfter(k) \in Keys /\ Below(k, NewAfter(k))
           /\ NewBefore(k) \in Keys /\ Below(NewBefore(k), k)
<1>1. 0 \in 0 .. Len(k) - 1
  BY KeyFacts
<1>2. RaisedAfter(k, NewAfter(k), 0) /\ LoweredAfter(k, NewBefore(k), 0)
  BY AfterFacts, BeforeFacts DEF NewAfter, NewBefore
<1> QED BY <1>1, <1>2, RaisedIs, LoweredIs

-----------------------------------------------------------------------------
(* Keys between two keys. *)

Strictly(left, t, right) == t \in Keys /\ Below(left, t) /\ Below(t, right)

\* Both keys have a byte i, the left one's is smaller, and before it they agree.
Parted(left, right, i) ==
    /\ i \in 1 .. Len(left) - 1 /\ i \in 1 .. Len(right) - 1
    /\ \A j \in 1 .. i - 1 : left[j] = right[j]
    /\ left[i] < right[i]

LEMMA Half ==
    ASSUME NEW a \in Nat, NEW b \in Nat, a + 1 < b
    PROVE  /\ a + (b - a) \div 2 \in Nat
           /\ a < a + (b - a) \div 2
           /\ a + (b - a) \div 2 < b
<1> DEFINE h == (b - a) \div 2
<1>1. h \in Int /\ 2 * h <= b - a /\ b - a < 2 * h + 2
  OBVIOUS
<1> HIDE DEF h
<1>2. 1 <= h /\ a + h < b
  BY <1>1
<1>3. a + h \in Nat /\ a < a + h /\ a + h < b
  BY <1>1, <1>2
<1> QED BY <1>3 DEF h

LEMMA Halved ==
    ASSUME NEW left \in Keys, NEW right \in Keys, NEW i \in Nat, Parted(left, right, i),
           left[i] + 1 < right[i],
           NEW t, t = Terminated([Upto(left, i) EXCEPT ![i] = @ + (right[i] - left[i]) \div 2])
    PROVE  Strictly(left, t, right)
<1> DEFINE u == Upto(left, i)
           v == left[i] + (right[i] - left[i]) \div 2
           c == [u EXCEPT ![i] = v]
           p == Len(left)
           q == Len(right)
<1>1. /\ left \in Seq(Bytes) /\ right \in Seq(Bytes) /\ p \in Nat /\ q \in Nat
      /\ i \in 0 .. p /\ i \in 1 .. p /\ i \in 1 .. q /\ i <= p + 1
      /\ \A j \in 1 .. i - 1 : left[j] = right[j]
  BY KeyFacts DEF Parted
<1>2. left[i] \in Nat /\ right[i] \in Nat /\ right[i] \in Bytes
  BY <1>1, SeqFacts
<1>3. v \in Nat /\ left[i] < v /\ v < right[i]
  BY <1>2, Half
<1> HIDE DEF v
<1>4. v \in Bytes
  BY <1>2, <1>3, ByteAssumption DEF Bytes
<1>5. u \in Seq(Bytes) /\ Len(u) = i /\ \A m \in 1 .. i : u[m] = left[m]
  BY <1>1, UptoFacts
<1> HIDE DEF u
<1>6. i \in 1 .. i
  BY <1>1
<1>7. t = Terminated(c)
  <2>1. u[i] = left[i]
    BY <1>5, <1>6
  <2>2. t = Terminated([u EXCEPT ![i] = u[i] + (right[i] - left[i]) \div 2])
    BY DEF u
  <2>3. u[i] + (right[i] - left[i]) \div 2 = v
    BY <2>1 DEF v
  <2> QED BY <2>2, <2>3, Zenon
<1>8. /\ c \in Seq(Bytes) /\ Len(c) = i
      /\ \A m \in 1 .. i : c[m] = IF m = i THEN v ELSE u[m]
  BY <1>4, <1>5, <1>6, ExceptSeq
<1> HIDE DEF c
<1>9. /\ t \in Keys /\ t \in Seq(Bytes) /\ Len(t) = i + 1
      /\ \A m \in 1 .. i : t[m] = c[m]
  <2>1. /\ t \in Keys /\ Len(t) = Len(c) + 1
        /\ \A m \in 1 .. Len(c) : t[m] = c[m]
    <3>1. c \in Seq(Bytes)
      BY <1>8
    <3> QED BY <3>1, <1>7, TerminatedFacts
  <2>2. t \in Seq(Bytes)
    BY <2>1, KeyFacts
  <2> QED BY <2>1, <2>2, <1>8
<1>10. t[i] = v
  BY <1>6, <1>8, <1>9
<1>11. \A m \in 1 .. i - 1 : t[m] = left[m]
  <2> TAKE m \in 1 .. i - 1
  <2>1. m \in 1 .. i /\ m # i
    OBVIOUS
  <2> QED BY <2>1, <1>5, <1>8, <1>9
<1>12. LessAt(left, t, i)
  <2>1. i \in 1 .. Len(t)
    BY <1>1, <1>9
  <2>2. \A j \in 1 .. i - 1 : left[j] = t[j]
    BY <1>11
  <2>3. left[i] < t[i]
    BY <1>3, <1>10
  <2> QED BY <2>1, <2>2, <2>3, <1>1 DEF LessAt
<1>13. LessAt(t, right, i)
  <2>1. i <= Len(t) + 1
    BY <1>1, <1>9
  <2>2. \A j \in 1 .. i - 1 : t[j] = right[j]
    BY <1>1, <1>11
  <2>3. t[i] < right[i]
    BY <1>3, <1>10
  <2> QED BY <2>1, <2>2, <2>3, <1>1 DEF LessAt
<1> HIDE DEF p, q
<1> QED BY <1>1, <1>9, <1>12, <1>13, BelowIs DEF Strictly

LEMMA WentAfter ==
    ASSUME NEW left \in Keys, NEW right \in Keys, NEW i \in Nat, Parted(left, right, i),
           NEW t, t = Terminated(Upto(left, i) \o AfterBytes(From(left, i + 1)))
    PROVE  Strictly(left, t, right)
<1>1. /\ left \in Seq(Bytes) /\ right \in Seq(Bytes) /\ Len(left) \in Nat
      /\ i \in 0 .. Len(left) - 1 /\ i \in 1 .. Len(right) /\ i \in 1 .. i
      /\ \A j \in 1 .. i - 1 : left[j] = right[j]
      /\ left[i] < right[i]
  BY KeyFacts DEF Parted
<1>2. RaisedAfter(left, t, i)
  BY <1>1, SplicedAfter
<1>3. /\ t \in Keys /\ Below(left, t) /\ i < Len(t)
      /\ \A m \in 1 .. i : t[m] = left[m]
  BY <1>1, <1>2, RaisedIs
<1>4. t \in Seq(Bytes) /\ Len(t) \in Nat
  BY <1>3, KeyFacts
<1>5. LessAt(t, right, i)
  <2>1. i <= Len(t) + 1
    BY <1>3, <1>4
  <2>2. \A j \in 1 .. i - 1 : t[j] = right[j]
    <3> TAKE j \in 1 .. i - 1
    <3>1. j \in 1 .. i
      OBVIOUS
    <3> QED BY <3>1, <1>1, <1>3
  <2>3. t[i] < right[i]
    BY <1>1, <1>3
  <2> QED BY <2>1, <2>2, <2>3, <1>1 DEF LessAt
<1> QED BY <1>1, <1>3, <1>4, <1>5, BelowIs DEF Strictly

LEMMA BetweenAtStrict ==
    ASSUME NEW left \in Keys, NEW right \in Keys, NEW i \in Nat, Parted(left, right, i)
    PROVE  Strictly(left, BetweenAt(left, right, i), right)
<1>1. left[i] < right[i]
  BY DEF Parted
<1>2. left[i] \in Nat /\ right[i] \in Nat
  <2>1. i \in 1 .. Len(left) /\ i \in 1 .. Len(right)
    BY KeyFacts DEF Parted
  <2> QED BY <2>1, KeyFacts, SeqFacts
<1>3. CASE left[i] + 1 < right[i]
  <2>1. left[i] + 1 # right[i]
    BY <1>2, <1>3
  <2>2. BetweenAt(left, right, i)
          = Terminated([Upto(left, i) EXCEPT ![i] = @ + (right[i] - left[i]) \div 2])
    BY <1>3, <2>1 DEF BetweenAt
  <2> QED BY <2>2, <1>3, Halved
<1>4. CASE left[i] + 1 = right[i]
  <2>1. ~ (left[i] + 1 < right[i])
    BY <1>2, <1>4
  <2>2. BetweenAt(left, right, i) = Terminated(Upto(left, i) \o AfterBytes(From(left, i + 1)))
    BY <1>4, <2>1 DEF BetweenAt
  <2> QED BY <2>2, WentAfter
<1> QED BY <1>1, <1>2, <1>3, <1>4

\* One key, without its terminator, begins the other.
LEMMA UnderRight ==
    ASSUME NEW left \in Keys, NEW right \in Keys, NEW n \in Nat,
           n = Len(left), n < Len(right),
           \A j \in 1 .. n - 1 : left[j] = right[j],
           Terminator <= right[n],
           NEW t, t = Terminated(Upto(right, n) \o BeforeBytes(From(right, n + 1)))
    PROVE  Strictly(left, t, right)
<1>1. /\ left \in Seq(Bytes) /\ right \in Seq(Bytes) /\ Len(right) \in Nat
      /\ n \in 0 .. Len(right) - 1 /\ n \in 1 .. n /\ left[n] = Terminator
  BY KeyFacts
<1>2. LoweredAfter(right, t, n)
  BY <1>1, SplicedBefore
<1>3. /\ t \in Keys /\ Below(t, right) /\ n < Len(t)
      /\ \A m \in 1 .. n : t[m] = right[m]
  BY <1>1, <1>2, LoweredIs
<1>4. t \in Seq(Bytes) /\ Len(t) \in Nat
  BY <1>3, KeyFacts
<1>5. right[n] \in Nat /\ Terminator \in Nat
  <2>1. n \in 1 .. Len(right)
    BY <1>1
  <2> QED BY <2>1, <1>1, SeqFacts, BytesNat
<1>6. \A j \in 1 .. n - 1 : left[j] = t[j]
  <2> TAKE j \in 1 .. n - 1
  <2>1. j \in 1 .. n
    OBVIOUS
  <2> QED BY <2>1, <1>3
<1>7. CASE Terminator < right[n]
  <2>1. n \in 1 .. Len(t) /\ n <= Len(left) + 1
    BY <1>1, <1>3, <1>4
  <2>2. left[n] < t[n]
    BY <1>1, <1>3, <1>7
  <2>3. LessAt(left, t, n)
    BY <2>1, <2>2, <1>6 DEF LessAt
  <2> QED BY <2>3, <1>1, <1>3, <1>4, BelowIs DEF Strictly
<1>8. CASE Terminator = right[n]
  <2>1. n + 1 \in 1 .. Len(t) /\ n + 1 <= Len(left) + 1 /\ ~ (n + 1 <= Len(left)) /\ n + 1 \in Nat
    BY <1>1, <1>3, <1>4
  <2>2. \A j \in 1 .. (n + 1) - 1 : left[j] = t[j]
    <3> TAKE j \in 1 .. (n + 1) - 1
    <3>1. j \in 1 .. n - 1 \/ j = n
      OBVIOUS
    <3> QED BY <3>1, <1>1, <1>3, <1>6, <1>8
  <2>3. LessAt(left, t, n + 1)
    BY <2>1, <2>2 DEF LessAt
  <2> QED BY <2>1, <2>3, <1>1, <1>3, <1>4, BelowIs DEF Strictly
<1> QED BY <1>5, <1>7, <1>8

LEMMA OverLeft ==
    ASSUME NEW left \in Keys, NEW right \in Keys, NEW n \in Nat,
           n = Len(right), n < Len(left),
           \A j \in 1 .. n - 1 : left[j] = right[j],
           left[n] < Terminator,
           NEW t, t = Terminated(Upto(left, n) \o AfterBytes(From(left, n + 1)))
    PROVE  Strictly(left, t, right)
<1>1. /\ left \in Seq(Bytes) /\ right \in Seq(Bytes) /\ Len(left) \in Nat
      /\ n \in 0 .. Len(left) - 1 /\ n \in 1 .. n /\ right[n] = Terminator
  BY KeyFacts
<1>2. RaisedAfter(left, t, n)
  BY <1>1, SplicedAfter
<1>3. /\ t \in Keys /\ Below(left, t) /\ n < Len(t)
      /\ \A m \in 1 .. n : t[m] = left[m]
  BY <1>1, <1>2, RaisedIs
<1>4. t \in Seq(Bytes) /\ Len(t) \in Nat
  BY <1>3, KeyFacts
<1>5. LessAt(t, right, n)
  <2>1. n \in 1 .. Len(right) /\ n <= Len(t) + 1
    BY <1>1, <1>3, <1>4
  <2>2. \A j \in 1 .. n - 1 : t[j] = right[j]
    <3> TAKE j \in 1 .. n - 1
    <3>1. j \in 1 .. n
      OBVIOUS
    <3> QED BY <3>1, <1>3
  <2>3. t[n] < right[n]
    BY <1>1, <1>3
  <2> QED BY <2>1, <2>2, <2>3 DEF LessAt
<1> QED BY <1>1, <1>3, <1>4, <1>5, BelowIs DEF Strictly

\* Between two keys in order there is always another.
THEOREM AlwaysBetween ==
    ASSUME NEW left \in Keys, NEW right \in Keys, Below(left, right)
    PROVE  Strictly(left, BetweenKeys(left, right), right)
<1> DEFINE p == Len(left)
           q == Len(right)
           shorter == Min({p, q}) - 1
           differing == {i \in 1 .. shorter : left[i] # right[i]}
           t == BetweenKeys(left, right)
<1>1. /\ left \in Seq(Bytes) /\ right \in Seq(Bytes)
      /\ p \in Nat /\ q \in Nat /\ p > 0 /\ q > 0
      /\ left[p] = Terminator /\ right[q] = Terminator
  BY KeyFacts
<1>2. shorter \in Nat /\ shorter + 1 <= p /\ shorter + 1 <= q
      /\ (shorter + 1 = p \/ shorter + 1 = q)
  <2> DEFINE least == Min({p, q})
  <2> HIDE DEF p, q
  <2>1. {p, q} \subseteq Nat /\ {p, q} # {}
    BY <1>1
  <2>2. least \in {p, q} /\ \A x \in {p, q} : least <= x
    BY <2>1, LeastIs
  <2> HIDE DEF least
  <2>3. /\ least - 1 \in Nat /\ (least - 1) + 1 <= p /\ (least - 1) + 1 <= q
        /\ ((least - 1) + 1 = p \/ (least - 1) + 1 = q)
    BY <1>1, <2>2
  <2> QED BY <2>3 DEF least
<1>3. PICK i \in Nat : LessAt(left, right, i)
  BY <1>1, BelowIs
<1>4. /\ i \in 1 .. q /\ i <= p + 1
      /\ \A j \in 1 .. i - 1 : left[j] = right[j]
      /\ i <= p => left[i] < right[i]
  BY <1>3 DEF LessAt
<1>5. i <= p => left[i] \in Nat /\ right[i] \in Nat /\ left[i] # right[i]
  <2> SUFFICES ASSUME i <= p PROVE left[i] \in Nat /\ right[i] \in Nat /\ left[i] # right[i]
    OBVIOUS
  <2>1. i \in 1 .. p
    BY <1>1, <1>4
  <2>2. left[i] \in Nat /\ right[i] \in Nat
    BY <2>1, <1>1, <1>4, SeqFacts
  <2> QED BY <2>2, <1>4
<1>6. t = IF differing # {} THEN BetweenAt(left, right, Min(differing))
          ELSE BetweenPrefix(left, right, shorter + 1)
  BY DEF BetweenKeys
<1> HIDE DEF shorter, t
<1>7. CASE i <= shorter
  <2>1. i \in differing
    BY <1>1, <1>2, <1>4, <1>5, <1>7
  <2>2. \A x \in differing : i <= x
    BY <1>2, <1>4
  <2>3. differing \subseteq Nat
    BY <1>2
  <2>4. Min(differing) = i
    <3> HIDE DEF differing
    <3>1. Min(differing) \in differing /\ Min(differing) <= i
      BY <2>1, <2>3, LeastIs
    <3>2. i <= Min(differing) /\ Min(differing) \in Nat
      BY <2>2, <2>3, <3>1
    <3> QED BY <3>1, <3>2
  <2>5. t = BetweenAt(left, right, i)
    <3> HIDE DEF differing
    <3> QED BY <1>6, <2>1, <2>4
  <2>6. Parted(left, right, i)
    BY <1>1, <1>2, <1>4, <1>7 DEF Parted
  <2> QED BY <2>5, <2>6, BetweenAtStrict DEF t
<1>8. CASE ~ (i <= shorter)
  <2> DEFINE n == shorter + 1
  <2>1. n \in Nat /\ n <= i /\ n <= p /\ n <= q /\ (n = p \/ n = q)
    BY <1>1, <1>2, <1>4, <1>8
  <2>2. \A j \in 1 .. n - 1 : j \in 1 .. i - 1 /\ j \in 1 .. shorter
    BY <1>2, <1>4, <2>1
  <2>3. \A j \in 1 .. n - 1 : left[j] = right[j]
    BY <2>2, <1>4
  <2>4. differing = {}
    <3>1. \A j \in 1 .. shorter : j \in 1 .. i - 1
      BY <1>2, <1>4, <2>1
    <3> QED BY <3>1, <1>4
  <2>5. t = BetweenPrefix(left, right, n)
    <3> HIDE DEF differing
    <3> QED BY <1>6, <2>4
  <2>6. left[n] \in Nat /\ right[n] \in Nat /\ Terminator \in Nat
    <3>1. n \in 1 .. p /\ n \in 1 .. q
      BY <1>1, <1>2, <2>1
    <3> HIDE DEF n
    <3> QED BY <3>1, <1>1, SeqFacts, BytesNat
  <2> HIDE DEF n
  <2>7. n = i => left[n] < right[n]
    BY <1>1, <1>4, <2>1
  <2>8. n # i => left[n] = right[n] /\ p < i
    <3> SUFFICES ASSUME n # i PROVE left[n] = right[n] /\ p < i
      OBVIOUS
    <3>1. n \in 1 .. i - 1
      BY <1>2, <1>4, <2>1 DEF n
    <3>2. left[n] = right[n]
      BY <3>1, <1>4
    <3>3. p < i
      <4> SUFFICES ASSUME i <= p PROVE FALSE
        BY <1>1, <1>4
      <4>1. n = q
        BY <1>1, <1>4, <2>1, <3>1
      <4> QED BY <4>1, <1>1, <1>4, <3>1
    <3> QED BY <3>2, <3>3
  <2>9. CASE p < q
    <3>1. n = p
      BY <1>1, <2>1, <2>9
    <3>2. right[n] >= Terminator
      BY <1>1, <2>6, <2>7, <2>8, <3>1
    <3>3. t = Terminated(Upto(right, n) \o BeforeBytes(From(right, n + 1)))
      BY <2>5, <2>9, <3>2 DEF BetweenPrefix
    <3>4. Terminator <= right[n]
      BY <2>6, <3>2
    <3> QED BY <3>1, <3>3, <3>4, <2>1, <2>3, <2>9, UnderRight DEF t
  <2>10. CASE q < p
    <3>1. n = q
      BY <1>1, <2>1, <2>10
    <3>2. n = i
      BY <1>1, <1>4, <2>1, <3>1
    <3>3. left[n] < Terminator
      BY <1>1, <2>7, <3>1, <3>2
    <3>4. ~ (p < q)
      BY <1>1, <2>10
    <3>5. t = Terminated(Upto(left, n) \o AfterBytes(From(left, n + 1)))
      BY <2>5, <2>10, <3>3, <3>4 DEF BetweenPrefix
    <3> QED BY <3>1, <3>3, <3>5, <2>1, <2>3, <2>10, OverLeft DEF t
  <2>11. CASE p = q
    <3>1. n = p /\ n = q /\ n = i
      BY <1>1, <1>4, <2>1, <2>11
    <3> QED BY <3>1, <1>1, <2>6, <2>7
  <2> QED BY <1>1, <2>9, <2>10, <2>11
<1> QED BY <1>1, <1>2, <1>4, <1>7, <1>8

\* Between a key and itself there is none.
LEMMA BetweenSame ==
    ASSUME NEW k \in Keys
    PROVE  BetweenKeys(k, k) = NoKey
<1> DEFINE n == Len(k)
           shorter == Min({n, n}) - 1
           differing == {i \in 1 .. shorter : k[i] # k[i]}
<1>1. n \in Nat
  BY KeyFacts
<1>2. differing = {}
  OBVIOUS
<1>3. BetweenKeys(k, k) = BetweenPrefix(k, k, shorter + 1)
  BY <1>2 DEF BetweenKeys
<1>4. ~ (n < n) /\ ~ (n > n)
  BY <1>1
<1> HIDE DEF shorter
<1> QED BY <1>3, <1>4 DEF BetweenPrefix

-----------------------------------------------------------------------------
(* Blocks in the order of their positions. *)

\* Finitely many blocks, each at a key.
Placed(at, S) ==
    /\ IsFiniteSet(S) /\ S \subseteq Nat
    /\ \A b \in S : at[b] \in Keys

\* All of S, in order.
Lists(at, S, list) ==
    /\ list \in Seq(S)
    /\ \A i, j \in 1 .. Len(list) : i < j => Precedes(at, list[i], list[j])
    /\ \A b \in S : \E i \in 1 .. Len(list) : list[i] = b

LEMMA PrecedesOrder ==
    ASSUME NEW at, NEW S, Placed(at, S), NEW a \in S, NEW b \in S
    PROVE  /\ ~ Precedes(at, a, a)
           /\ Precedes(at, a, b) => ~ Precedes(at, b, a)
           /\ a # b => (Precedes(at, a, b) \/ Precedes(at, b, a))
           /\ \A c \in S : (Precedes(at, a, b) /\ Precedes(at, b, c)) => Precedes(at, a, c)
<1>1. /\ a \in Nat /\ b \in Nat /\ at[a] \in Seq(Bytes) /\ at[b] \in Seq(Bytes)
      /\ \A c \in S : c \in Nat /\ at[c] \in Seq(Bytes)
  BY KeyFacts DEF Placed
<1>2. ~ Precedes(at, a, a)
  BY <1>1, BelowIrreflexive DEF Precedes
<1>3. a # b => (Precedes(at, a, b) \/ Precedes(at, b, a))
  <2> SUFFICES ASSUME a # b PROVE Precedes(at, a, b) \/ Precedes(at, b, a)
    OBVIOUS
  <2>1. CASE at[a] = at[b]
    BY <1>1, <2>1 DEF Precedes
  <2>2. CASE at[a] # at[b]
    <3>1. Below(at[a], at[b]) \/ Below(at[b], at[a])
      BY <1>1, <2>2, BelowTotal
    <3> QED BY <3>1 DEF Precedes
  <2> QED BY <2>1, <2>2
<1>4. ASSUME NEW c \in S, Precedes(at, a, b), Precedes(at, b, c) PROVE Precedes(at, a, c)
  <2>1. c \in Nat /\ at[c] \in Seq(Bytes)
    BY <1>1
  <2>2. CASE Below(at[a], at[b]) /\ Below(at[b], at[c])
    <3>1. Below(at[a], at[c])
      BY <1>1, <2>1, <2>2, BelowTransitive
    <3> QED BY <3>1 DEF Precedes
  <2>3. CASE Below(at[a], at[b]) /\ at[b] = at[c]
    BY <2>3 DEF Precedes
  <2>4. CASE at[a] = at[b] /\ Below(at[b], at[c])
    BY <2>4 DEF Precedes
  <2>5. CASE at[a] = at[b] /\ at[b] = at[c] /\ a < b /\ b < c
    BY <1>1, <2>1, <2>5 DEF Precedes
  <2> QED BY <1>4, <2>2, <2>3, <2>4, <2>5 DEF Precedes
<1>5. Precedes(at, a, b) => ~ Precedes(at, b, a)
  BY <1>2, <1>4
<1> QED BY <1>2, <1>3, <1>4, <1>5

\* The places of the blocks are all the numbers up to how many there are.
LEMMA PlaceFacts ==
    ASSUME NEW at, NEW S, Placed(at, S)
    PROVE  /\ Cardinality(S) \in Nat
           /\ \A b \in S : Place(at, S, b) \in 1 .. Cardinality(S)
           /\ \A a, b \in S : Precedes(at, a, b) => Place(at, S, a) < Place(at, S, b)
           /\ \A a, b \in S : Place(at, S, a) = Place(at, S, b) => a = b
           /\ \A n \in 1 .. Cardinality(S) : \E b \in S : Place(at, S, b) = n
<1> DEFINE N == Cardinality(S)
           Upon(b) == {c \in S : c = b \/ Precedes(at, c, b)}
           f == [b \in S |-> Place(at, S, b)]
<1>1. IsFiniteSet(S) /\ N \in Nat
  BY FS_CardinalityType DEF Placed
<1>2. \A b : Place(at, S, b) = Cardinality(Upon(b))
  BY DEF Place
<1>3. ASSUME NEW b \in S
      PROVE  IsFiniteSet(Upon(b)) /\ Cardinality(Upon(b)) \in Nat /\ Cardinality(Upon(b)) \in 1 .. N
  <2>1. Upon(b) \in SUBSET S /\ b \in Upon(b)
    OBVIOUS
  <2>2. IsFiniteSet(Upon(b)) /\ Cardinality(Upon(b)) <= N
    BY <2>1, <1>1, FS_Subset
  <2>3. Cardinality(Upon(b)) \in Nat /\ Cardinality(Upon(b)) # 0
    BY <2>1, <2>2, FS_CardinalityType, FS_EmptySet
  <2> HIDE DEF Upon, N
  <2> QED BY <2>2, <2>3, <1>1
<1>4. ASSUME NEW a \in S, NEW b \in S, Precedes(at, a, b)
      PROVE  Cardinality(Upon(a)) < Cardinality(Upon(b))
  <2>1. Upon(a) \in SUBSET Upon(b)
    BY <1>4, PrecedesOrder
  <2>2. b \in Upon(b) /\ b \notin Upon(a)
    BY <1>4, PrecedesOrder
  <2>3. IsFiniteSet(Upon(b)) /\ Upon(a) # Upon(b)
    BY <2>2, <1>3
  <2>4. Cardinality(Upon(a)) \in Nat /\ Cardinality(Upon(b)) \in Nat
    BY <1>3
  <2> HIDE DEF Upon
  <2>5. /\ Cardinality(Upon(a)) <= Cardinality(Upon(b))
        /\ Cardinality(Upon(a)) # Cardinality(Upon(b))
    BY <2>1, <2>3, FS_Subset
  <2> QED BY <2>4, <2>5
<1> HIDE DEF Upon
<1>5. \A b \in S : Place(at, S, b) \in 1 .. N /\ Place(at, S, b) \in Nat
  BY <1>2, <1>3
<1>6. \A a, b \in S : Precedes(at, a, b) => Place(at, S, a) < Place(at, S, b)
  BY <1>2, <1>4
<1>7. ASSUME NEW a \in S, NEW b \in S, Place(at, S, a) = Place(at, S, b) PROVE a = b
  <2>1. ~ (Place(at, S, a) < Place(at, S, b)) /\ ~ (Place(at, S, b) < Place(at, S, a))
    BY <1>5, <1>7
  <2> QED BY <2>1, <1>6, PrecedesOrder
<1>8. f \in [S -> 1 .. N]
  BY <1>5
<1>9. IsFiniteSet(1 .. N) /\ Cardinality(1 .. N) = N
  <2>1. N \in Int /\ 1 \in Int
    BY <1>1
  <2> HIDE DEF N
  <2>2. IsFiniteSet(1 .. N) /\ Cardinality(1 .. N) = IF 1 > N THEN 0 ELSE N - 1 + 1
    BY <2>1, FS_Interval
  <2> QED BY <2>2, <1>1
<1>10. \A b \in S : f[b] = Place(at, S, b)
  OBVIOUS
<1> HIDE DEF f
<1>11. f \in Injection(S, 1 .. N)
  BY <1>7, <1>8, <1>10 DEF Injection, IsInjective
<1>12. f \in Surjection(S, 1 .. N)
  BY <1>9, <1>11, FS_Injection
<1>13. \A n \in 1 .. N : \E b \in S : Place(at, S, b) = n
  BY <1>10, <1>12 DEF Surjection
<1> QED BY <1>1, <1>5, <1>6, <1>7, <1>13

LEMMA ListedFacts ==
    ASSUME NEW at, NEW S, Placed(at, S)
    PROVE  /\ Lists(at, S, Listed(at, S))
           /\ Len(Listed(at, S)) = Cardinality(S) /\ Cardinality(S) \in Nat
<1> DEFINE N == Cardinality(S)
           list == Listed(at, S)
<1>1. N \in Nat
  BY PlaceFacts
<1>2. list = [n \in 1 .. N |-> CHOOSE b \in S : Place(at, S, b) = n]
  BY DEF Listed
<1> HIDE DEF list
<1>3. ASSUME NEW n \in 1 .. N PROVE list[n] \in S /\ Place(at, S, list[n]) = n
  <2>1. \E b \in S : Place(at, S, b) = n
    BY PlaceFacts
  <2>2. list[n] = CHOOSE b \in S : Place(at, S, b) = n
    BY <1>2
  <2> QED BY <2>1, <2>2
<1> HIDE DEF N
<1>4. list \in [1 .. N -> S]
  BY <1>2, <1>3
<1>5. list \in Seq(S) /\ Len(list) = N
  BY <1>1, <1>4
<1>6. ASSUME NEW i \in 1 .. N, NEW j \in 1 .. N, i < j PROVE Precedes(at, list[i], list[j])
  <2>1. list[i] # list[j]
    BY <1>1, <1>3, <1>6
  <2>2. ~ Precedes(at, list[j], list[i])
    <3> SUFFICES ASSUME Precedes(at, list[j], list[i]) PROVE FALSE
      OBVIOUS
    <3>1. Place(at, S, list[j]) < Place(at, S, list[i])
      BY <1>3, PlaceFacts
    <3> QED BY <3>1, <1>1, <1>3, <1>6
  <2> QED BY <2>1, <2>2, <1>3, PrecedesOrder
<1>7. ASSUME NEW b \in S PROVE \E i \in 1 .. N : list[i] = b
  <2>1. Place(at, S, b) \in 1 .. N
    BY PlaceFacts DEF N
  <2>2. list[Place(at, S, b)] = b
    BY <2>1, <1>3, PlaceFacts
  <2> QED BY <2>1, <2>2
<1> QED BY <1>1, <1>5, <1>6, <1>7 DEF Lists, list, N

\* There is only one such list.
LEMMA OneListing ==
    ASSUME NEW at, NEW S, Placed(at, S), NEW list, Lists(at, S, list)
    PROVE  list = Listed(at, S)
<1> DEFINE n == Len(list)
           N == Cardinality(S)
<1>1. /\ list \in Seq(S) /\ n \in Nat
      /\ \A i \in 1 .. n : list[i] \in S
      /\ \A i, j \in 1 .. n : i < j => Precedes(at, list[i], list[j])
      /\ \A b \in S : \E i \in 1 .. n : list[i] = b
  BY DEF Lists
<1> HIDE DEF n
<1>2. ASSUME NEW i \in 1 .. n, NEW j \in 1 .. n, list[i] = list[j] PROVE i = j
  <2>1. ~ (i < j) /\ ~ (j < i)
    BY <1>1, <1>2, PrecedesOrder
  <2> QED BY <2>1, <1>1
<1>3. ASSUME NEW m \in 1 .. n
      PROVE  Place(at, S, list[m]) = m
  <2> DEFINE U == {c \in S : c = list[m] \/ Precedes(at, c, list[m])}
             f == [i \in 1 .. m |-> list[i]]
  <2>1. m \in Nat /\ \A i \in 1 .. m : i \in 1 .. n
    BY <1>1
  <2>2. \A i \in 1 .. m : list[i] \in U
    <3> TAKE i \in 1 .. m
    <3>1. i \in 1 .. n /\ (i = m \/ i < m)
      BY <2>1
    <3> QED BY <3>1, <1>1
  <2>3. \A c \in U : \E i \in 1 .. m : list[i] = c
    <3> TAKE c \in U
    <3>1. PICK i \in 1 .. n : list[i] = c
      BY <1>1
    <3>2. ~ (m < i)
      <4> SUFFICES ASSUME m < i PROVE FALSE
        OBVIOUS
      <4>1. Precedes(at, list[m], c) /\ c # list[m]
        BY <3>1, <1>1, <1>2
      <4>2. Precedes(at, c, list[m])
        BY <4>1
      <4> QED BY <4>1, <4>2, <1>1, PrecedesOrder
    <3>3. i \in 1 .. m
      BY <3>2, <1>1, <2>1
    <3> QED BY <3>1, <3>3
  <2> HIDE DEF U
  <2>4. f \in [1 .. m -> U] /\ \A i \in 1 .. m : f[i] = list[i]
    BY <2>2
  <2> HIDE DEF f
  <2>5. f \in Surjection(1 .. m, U)
    BY <2>3, <2>4 DEF Surjection
  <2>6. f \in Injection(1 .. m, U)
    BY <2>1, <2>4, <1>2 DEF Injection, IsInjective
  <2>7. IsFiniteSet(1 .. m) /\ Cardinality(1 .. m) = m
    <3>1. IsFiniteSet(1 .. m) /\ Cardinality(1 .. m) = IF 1 > m THEN 0 ELSE m - 1 + 1
      BY <2>1, FS_Interval
    <3> QED BY <3>1, <2>1
  <2>8. Cardinality(U) = m
    BY <2>5, <2>6, <2>7, FS_Surjection
  <2> QED BY <2>8 DEF Place, U
<1>4. n = N
  <2> DEFINE f == [i \in 1 .. n |-> list[i]]
  <2>1. f \in [1 .. n -> S] /\ \A i \in 1 .. n : f[i] = list[i]
    BY <1>1
  <2> HIDE DEF f
  <2>2. f \in Surjection(1 .. n, S)
    BY <2>1, <1>1 DEF Surjection
  <2>3. f \in Injection(1 .. n, S)
    BY <2>1, <1>2 DEF Injection, IsInjective
  <2>4. IsFiniteSet(1 .. n) /\ Cardinality(1 .. n) = n
    <3>1. IsFiniteSet(1 .. n) /\ Cardinality(1 .. n) = IF 1 > n THEN 0 ELSE n - 1 + 1
      BY <1>1, FS_Interval
    <3> QED BY <3>1, <1>1
  <2> QED BY <2>2, <2>3, <2>4, FS_Surjection
<1> DEFINE other == Listed(at, S)
<1>5. other = [m \in 1 .. N |-> CHOOSE b \in S : Place(at, S, b) = m]
  BY DEF Listed
<1> HIDE DEF N, other
<1>6. ASSUME NEW m \in 1 .. N PROVE other[m] = list[m]
  <2>1. list[m] \in S /\ Place(at, S, list[m]) = m
    BY <1>1, <1>3, <1>4
  <2>2. other[m] = CHOOSE b \in S : Place(at, S, b) = m
    BY <1>5
  <2>3. other[m] \in S /\ Place(at, S, other[m]) = m
    BY <2>1, <2>2
  <2> QED BY <2>1, <2>3, PlaceFacts
<1>7. other \in Seq(S) /\ Len(other) = N
  BY ListedFacts DEF Lists, other, N
<1> QED BY <1>1, <1>4, <1>6, <1>7, SeqEqual DEF other, n

-----------------------------------------------------------------------------
(* The keys of a batch. *)

\* n keys, each after the one before.
Chain(start, n, key) ==
    key = [i \in 1 .. n |-> IF i = 1 THEN start ELSE NewAfter(key[i - 1])]

LEMMA ChainExists ==
    ASSUME NEW start, NEW count \in Nat
    PROVE  \E key : Chain(start, count, key)
<1> DEFINE S == {n \in Nat : ~ \E key : Chain(start, n, key)}
<1> SUFFICES ASSUME S # {} PROVE FALSE
  OBVIOUS
<1>1. S \in SUBSET Nat
  OBVIOUS
<1>2. PICK m \in S : \A x \in S : m <= x
  <2> HIDE DEF S
  <2> QED BY <1>1, LeastIs
<1>3. m \in Nat /\ ~ \E key : Chain(start, m, key)
  BY <1>2
<1>4. CASE m = 0
  <2> DEFINE g == [i \in 1 .. 0 |-> start]
  <2>1. 1 .. 0 = {}
    OBVIOUS
  <2>2. g = [i \in 1 .. 0 |-> IF i = 1 THEN start ELSE NewAfter(g[i - 1])]
    BY <2>1
  <2>3. Chain(start, 0, g)
    BY <2>2 DEF Chain
  <2> QED BY <2>3, <1>3, <1>4
<1>5. CASE m # 0
  <2>1. m - 1 \in Nat /\ m - 1 \notin S
    <3>1. m - 1 \in Nat /\ ~ (m <= m - 1)
      BY <1>3, <1>5
    <3> HIDE DEF S
    <3> QED BY <3>1, <1>2
  <2>2. PICK k : Chain(start, m - 1, k)
    BY <2>1
  <2> DEFINE g == [i \in 1 .. m |-> IF i <= m - 1 THEN k[i]
                                    ELSE IF i = 1 THEN start ELSE NewAfter(k[i - 1])]
  <2>3. \A i \in 1 .. m - 1 : k[i] = IF i = 1 THEN start ELSE NewAfter(k[i - 1])
    BY <2>2 DEF Chain
  <2>4. ASSUME NEW i \in 1 .. m
        PROVE  g[i] = IF i = 1 THEN start ELSE NewAfter(g[i - 1])
    <3>1. g[i] = IF i = 1 THEN start ELSE NewAfter(k[i - 1])
      <4>1. CASE i <= m - 1
        <5>1. i \in 1 .. m - 1 /\ g[i] = k[i]
          BY <4>1, <1>3
        <5> HIDE DEF g
        <5> QED BY <5>1, <2>3
      <4>2. CASE ~ (i <= m - 1)
        BY <4>2
      <4> QED BY <4>1, <4>2
    <3>2. i # 1 => g[i - 1] = k[i - 1]
      <4> SUFFICES ASSUME i # 1 PROVE g[i - 1] = k[i - 1]
        OBVIOUS
      <4>1. i - 1 \in 1 .. m /\ i - 1 <= m - 1
        BY <1>3
      <4> QED BY <4>1
    <3> HIDE DEF g
    <3> QED BY <3>1, <3>2
  <2>5. DOMAIN g = 1 .. m /\ g = [i \in 1 .. m |-> g[i]]
    OBVIOUS
  <2> HIDE DEF g
  <2>6. Chain(start, m, g)
    BY <2>4, <2>5 DEF Chain
  <2> QED BY <2>6, <1>3
<1> QED BY <1>4, <1>5

LEMMA KeysFromFacts ==
    ASSUME NEW start \in Keys, NEW count \in Nat, NEW key, key = KeysFrom(start, count)
    PROVE  /\ key \in [1 .. count -> Keys]
           /\ 0 < count => key[1] = start
           /\ \A i, j \in 1 .. count : i < j => Below(key[i], key[j])
           /\ \A i \in 1 .. count : key[i] = start \/ Below(start, key[i])
<1>1. key = CHOOSE k : Chain(start, count, k)
  BY DEF KeysFrom, Chain
<1>2. Chain(start, count, key)
  BY <1>1, ChainExists
<1>3. /\ DOMAIN key = 1 .. count
      /\ \A i \in 1 .. count : key[i] = IF i = 1 THEN start ELSE NewAfter(key[i - 1])
  BY <1>2 DEF Chain
<1>4. key = [i \in 1 .. count |-> key[i]]
  BY <1>2 DEF Chain
<1>5. \A i \in 1 .. count : key[i] \in Keys
  <2> DEFINE S == {i \in 1 .. count : key[i] \notin Keys}
  <2> SUFFICES ASSUME S # {} PROVE FALSE
    OBVIOUS
  <2>1. S \in SUBSET Nat
    OBVIOUS
  <2>2. PICK m \in S : \A x \in S : m <= x
    <3> HIDE DEF S
    <3> QED BY <2>1, LeastIs
  <2>3. m \in 1 .. count /\ key[m] \notin Keys /\ m # 1
    BY <1>3, <2>2
  <2>4. m - 1 \in 1 .. count /\ ~ (m <= m - 1)
    BY <2>3
  <2>5. key[m - 1] \in Keys
    BY <2>2, <2>4
  <2>6. key[m] = NewAfter(key[m - 1])
    BY <1>3, <2>3
  <2> HIDE DEF S
  <2> QED BY <2>3, <2>5, <2>6, AfterAndBefore
<1>6. \A i, j \in 1 .. count : i < j => Below(key[i], key[j])
  <2> TAKE i \in 1 .. count
  <2> DEFINE S == {j \in 1 .. count : i < j /\ ~ Below(key[i], key[j])}
  <2> SUFFICES ASSUME S # {} PROVE FALSE
    OBVIOUS
  <2>1. S \in SUBSET Nat
    OBVIOUS
  <2>2. PICK m \in S : \A x \in S : m <= x
    <3> HIDE DEF S
    <3> QED BY <2>1, LeastIs
  <2>3. m \in 1 .. count /\ i < m /\ ~ Below(key[i], key[m]) /\ m # 1
    BY <2>2
  <2>4. m - 1 \in 1 .. count /\ ~ (m <= m - 1) /\ (i = m - 1 \/ i < m - 1)
    BY <2>3
  <2>5. key[m] = NewAfter(key[m - 1])
    BY <1>3, <2>3
  <2>6. key[i] \in Keys /\ key[m - 1] \in Keys
    BY <1>5, <2>4
  <2>7. Below(key[m - 1], key[m]) /\ key[m] \in Keys
    BY <2>5, <2>6, AfterAndBefore
  <2>8. CASE i = m - 1
    BY <2>3, <2>7, <2>8
  <2>9. CASE i < m - 1
    <3>1. Below(key[i], key[m - 1])
      BY <2>2, <2>4, <2>9
    <3>2. key[i] \in Seq(Bytes) /\ key[m - 1] \in Seq(Bytes) /\ key[m] \in Seq(Bytes)
      BY <2>6, <2>7, KeyFacts
    <3> HIDE DEF S
    <3> QED BY <3>1, <3>2, <2>3, <2>7, BelowTransitive
  <2> QED BY <2>4, <2>8, <2>9
<1>7. 0 < count => key[1] = start
  BY <1>3
<1>8. \A i \in 1 .. count : key[i] = start \/ Below(start, key[i])
  <2> TAKE i \in 1 .. count
  <2>1. 1 \in 1 .. count /\ 0 < count /\ (i = 1 \/ 1 < i)
    OBVIOUS
  <2> QED BY <2>1, <1>6, <1>7
<1>9. key \in [1 .. count -> Keys]
  BY <1>4, <1>5
<1> QED BY <1>6, <1>7, <1>8, <1>9

-----------------------------------------------------------------------------
(* The position at an index. *)

LEMMA DefaultIsKey == DefaultKey \in Keys
<1>1. Terminator \in Bytes
  BY BytesNat
<1>2. /\ DefaultKey \in Seq(Bytes) /\ Len(DefaultKey) = 1 /\ DefaultKey[1] = Terminator
      /\ DefaultKey # <<>>
  BY <1>1 DEF DefaultKey
<1> QED BY <1>2 DEF Keys, IsKey

LEMMA InOrderOf ==
    ASSUME NEW at, NEW S, Placed(at, S), NEW list, Lists(at, S, list),
           NEW i \in 1 .. Len(list), NEW j \in 1 .. Len(list), i <= j
    PROVE  /\ at[list[i]] \in Keys /\ at[list[j]] \in Keys
           /\ at[list[i]] = at[list[j]] \/ Below(at[list[i]], at[list[j]])
<1>1. list[i] \in S /\ list[j] \in S
  <2>1. list \in Seq(S)
    BY DEF Lists
  <2> QED BY <2>1
<1>2. at[list[i]] \in Keys /\ at[list[j]] \in Keys
  BY <1>1 DEF Placed
<1>3. Len(list) \in Nat
  BY DEF Lists
<1>4. i = j \/ i < j
  OBVIOUS
<1>5. i < j => Precedes(at, list[i], list[j])
  BY DEF Lists
<1> QED BY <1>2, <1>4, <1>5 DEF Precedes

\* A key k is above the first n blocks of a list and below the others.
Splits(at, list, n, k) ==
    /\ \A i \in 1 .. n : Below(at[list[i]], k)
    /\ \A i \in n + 1 .. Len(list) : Below(k, at[list[i]])

LEMMA RoomAt ==
    ASSUME NEW S, Placed(pos, S), NEW list, Lists(pos, S, list), NEW n \in 0 .. Len(list),
           NEW key, key = PositionAt(list, n)
    PROVE  /\ key \in Keys
           /\ ~ Twins(list, n) => Splits(pos, list, n, key)
<1> DEFINE lower == IF n > 0 THEN pos[list[n]] ELSE NoKey
           upper == IF n < Len(list) THEN pos[list[n + 1]] ELSE NoKey
           mid == Between(lower, upper)
<1>1. key = IF mid # NoKey THEN mid ELSE IF lower # NoKey THEN NewAfter(lower) ELSE DefaultKey
  BY DEF PositionAt
<1>2. Len(list) \in Nat /\ n \in Nat /\ n <= Len(list)
  BY DEF Lists
<1>3. n > 0 => /\ lower \in Keys /\ lower # NoKey
               /\ \A i \in 1 .. n : /\ i \in 1 .. Len(list)
                                    /\ pos[list[i]] \in Keys
                                    /\ pos[list[i]] = lower \/ Below(pos[list[i]], lower)
  <2> SUFFICES ASSUME n > 0
               PROVE  /\ lower \in Keys /\ lower # NoKey
                      /\ \A i \in 1 .. n : /\ i \in 1 .. Len(list)
                                           /\ pos[list[i]] \in Keys
                                           /\ pos[list[i]] = lower \/ Below(pos[list[i]], lower)
    OBVIOUS
  <2>1. n \in 1 .. Len(list) /\ n <= n /\ lower = pos[list[n]]
    BY <1>2
  <2> HIDE DEF lower
  <2>2. lower \in Keys
    BY <2>1, InOrderOf
  <2>3. ASSUME NEW i \in 1 .. n
        PROVE  /\ i \in 1 .. Len(list)
               /\ pos[list[i]] \in Keys
               /\ pos[list[i]] = lower \/ Below(pos[list[i]], lower)
    <3>1. i \in 1 .. Len(list) /\ i <= n
      BY <1>2
    <3> QED BY <3>1, <2>1, InOrderOf
  <2> QED BY <2>2, <2>3, KeyFacts
<1>4. n < Len(list) => /\ upper \in Keys /\ upper # NoKey
                       /\ \A i \in n + 1 .. Len(list) :
                             /\ pos[list[i]] \in Keys
                             /\ pos[list[i]] = upper \/ Below(upper, pos[list[i]])
  <2> SUFFICES ASSUME n < Len(list)
               PROVE  /\ upper \in Keys /\ upper # NoKey
                      /\ \A i \in n + 1 .. Len(list) :
                            /\ pos[list[i]] \in Keys
                            /\ pos[list[i]] = upper \/ Below(upper, pos[list[i]])
    OBVIOUS
  <2>1. n + 1 \in 1 .. Len(list) /\ n + 1 <= n + 1 /\ upper = pos[list[n + 1]]
    BY <1>2
  <2> HIDE DEF upper
  <2>2. upper \in Keys
    BY <2>1, InOrderOf
  <2>3. ASSUME NEW i \in n + 1 .. Len(list)
        PROVE  /\ pos[list[i]] \in Keys
               /\ pos[list[i]] = upper \/ Below(upper, pos[list[i]])
    <3>1. i \in 1 .. Len(list) /\ n + 1 <= i
      BY <1>2
    <3> QED BY <3>1, <2>1, InOrderOf
  <2> QED BY <2>2, <2>3, KeyFacts
<1>5. n = 0 => lower = NoKey
  OBVIOUS
<1>6. n = Len(list) => upper = NoKey
  BY <1>2
<1>7. (0 < n /\ n < Len(list)) =>
         (lower = upper \/ Below(lower, upper)) /\ (Twins(list, n) <=> lower = upper)
  <2> SUFFICES ASSUME 0 < n, n < Len(list)
               PROVE  (lower = upper \/ Below(lower, upper)) /\ (Twins(list, n) <=> lower = upper)
    OBVIOUS
  <2>1. n \in 1 .. Len(list) /\ n + 1 \in 1 .. Len(list) /\ n <= n + 1
    BY <1>2
  <2>2. lower = pos[list[n]] /\ upper = pos[list[n + 1]]
    BY <1>2
  <2> HIDE DEF lower, upper
  <2>3. lower = upper \/ Below(lower, upper)
    BY <2>1, <2>2, InOrderOf
  <2> QED BY <2>2, <2>3 DEF Twins
<1> HIDE DEF lower, upper
\* What is below lower and above upper.
<1>8. ASSUME key \in Keys, n > 0 => Below(lower, key), n < Len(list) => Below(key, upper)
      PROVE  Splits(pos, list, n, key)
  <2>1. key \in Seq(Bytes)
    BY <1>8, KeyFacts
  <2>2. ASSUME NEW i \in 1 .. n PROVE Below(pos[list[i]], key)
    <3>1. n > 0
      BY <1>2
    <3>2. /\ lower \in Seq(Bytes) /\ pos[list[i]] \in Seq(Bytes) /\ Below(lower, key)
          /\ pos[list[i]] = lower \/ Below(pos[list[i]], lower)
      BY <3>1, <1>3, <1>8, KeyFacts
    <3> QED BY <3>2, <2>1, BelowTransitive
  <2>3. ASSUME NEW i \in n + 1 .. Len(list) PROVE Below(key, pos[list[i]])
    <3>1. n < Len(list)
      BY <1>2
    <3>2. /\ upper \in Seq(Bytes) /\ pos[list[i]] \in Seq(Bytes) /\ Below(key, upper)
          /\ pos[list[i]] = upper \/ Below(upper, pos[list[i]])
      BY <3>1, <1>4, <1>8, KeyFacts
    <3> QED BY <3>2, <2>1, BelowTransitive
  <2> QED BY <2>2, <2>3 DEF Splits
<1>9. CASE 0 < n /\ n < Len(list)
  <2>1. lower \in Keys /\ upper \in Keys /\ lower # NoKey /\ upper # NoKey
    BY <1>3, <1>4, <1>9
  <2>2. mid = BetweenKeys(lower, upper)
    BY <2>1 DEF Between
  <2> HIDE DEF mid
  <2>3. CASE lower = upper
    <3>1. mid = NoKey
      BY <2>1, <2>2, <2>3, BetweenSame
    <3>2. key = NewAfter(lower) /\ Twins(list, n)
      BY <3>1, <2>1, <2>3, <1>1, <1>7, <1>9
    <3> QED BY <3>2, <2>1, AfterAndBefore
  <2>4. CASE Below(lower, upper)
    <3>1. Strictly(lower, mid, upper)
      BY <2>1, <2>2, <2>4, AlwaysBetween
    <3>2. mid \in Keys /\ mid # NoKey /\ Below(lower, mid) /\ Below(mid, upper)
      BY <3>1, KeyFacts DEF Strictly
    <3>3. key = mid
      BY <3>2, <1>1
    <3> QED BY <3>2, <3>3, <1>8
  <2> QED BY <2>3, <2>4, <1>7, <1>9
<1>10. CASE n = 0 /\ n < Len(list)
  <2>1. upper \in Keys /\ lower = NoKey /\ upper # NoKey
    BY <1>4, <1>5, <1>10
  <2>2. mid = NewBefore(upper)
    BY <2>1 DEF Between
  <2>3. mid \in Keys /\ mid # NoKey /\ Below(mid, upper)
    BY <2>1, <2>2, AfterAndBefore, KeyFacts
  <2>4. key = mid
    BY <2>3, <1>1
  <2> HIDE DEF mid
  <2> QED BY <2>3, <2>4, <1>8, <1>10
<1>11. CASE 0 < n /\ n = Len(list)
  <2>1. lower \in Keys /\ upper = NoKey /\ lower # NoKey
    BY <1>3, <1>6, <1>11
  <2>2. mid = NewAfter(lower)
    BY <2>1 DEF Between
  <2>3. mid \in Keys /\ mid # NoKey /\ Below(lower, mid)
    BY <2>1, <2>2, AfterAndBefore, KeyFacts
  <2>4. key = mid
    BY <2>3, <1>1
  <2> HIDE DEF mid
  <2> QED BY <2>3, <2>4, <1>8, <1>11
<1>12. CASE n = 0 /\ n = Len(list)
  <2>1. lower = NoKey /\ upper = NoKey
    BY <1>5, <1>6, <1>12
  <2>2. mid = DefaultKey
    BY <2>1 DEF Between
  <2>3. mid \in Keys /\ mid # NoKey
    BY <2>2, DefaultIsKey, KeyFacts
  <2>4. key = mid
    BY <2>3, <1>1
  <2> HIDE DEF mid
  <2> QED BY <2>3, <2>4, <1>8, <1>12
<1> QED BY <1>2, <1>9, <1>10, <1>11, <1>12

-----------------------------------------------------------------------------
(* The inductive invariant: every block made has a key, and no copy knows a *)
(* block that was not made.                                                 *)

Inv ==
    /\ Made \subseteq Blocks /\ IsFiniteSet(Made)
    /\ pos \in [Made -> Keys]
    /\ known \in [Writers -> SUBSET Made]
    /\ gone \in [Writers -> SUBSET Made]
    /\ \A w \in Writers : gone[w] \subseteq known[w]

LEMMA PlacedLive ==
    ASSUME Inv, NEW w \in Writers
    PROVE  /\ Placed(pos, Live(w)) /\ Lists(pos, Live(w), Order(w))
           /\ Live(w) \subseteq Made
           /\ Len(Order(w)) = Cardinality(Live(w)) /\ Len(Order(w)) \in Nat
<1>1. Live(w) \subseteq Made
  BY DEF Inv, Live
<1>2. IsFiniteSet(Live(w))
  BY <1>1, FS_Subset DEF Inv
<1>3. Placed(pos, Live(w))
  BY <1>1, <1>2, BoundsAssumption DEF Inv, Placed
<1> QED BY <1>1, <1>3, ListedFacts DEF Order

\* n new blocks get the given keys, in w's copy; every other block stays.
Makes(w, n, blocks, keys) ==
    /\ w \in Writers /\ n \in Nat
    /\ blocks \in [1 .. n -> Blocks \ Made] /\ IsInjective(blocks)
    /\ DOMAIN keys = 1 .. n /\ \A i \in 1 .. n : keys[i] \in Keys
    /\ Make(w, blocks, keys)

LEMMA MakeFacts ==
    ASSUME Inv, NEW w, NEW n, NEW blocks, NEW keys, Makes(w, n, blocks, keys)
    PROVE  /\ Made' = Made \cup ToSet(blocks) /\ Made' \subseteq Blocks /\ IsFiniteSet(Made')
           /\ pos' \in [Made' -> Keys]
           /\ \A b \in Made : pos'[b] = pos[b]
           /\ \A i \in 1 .. n : blocks[i] \in ToSet(blocks) /\ pos'[blocks[i]] = keys[i]
           /\ \A b \in ToSet(blocks) : b \notin Made /\ \E i \in 1 .. n : blocks[i] = b
           /\ known' \in [Writers -> SUBSET Made']
           /\ known'[w] = known[w] \cup ToSet(blocks)
           /\ \A v \in Writers : known[v] \subseteq known'[v]
<1> DEFINE New == ToSet(blocks)
           Index(b) == CHOOSE i \in DOMAIN blocks : blocks[i] = b
<1>1. /\ w \in Writers /\ n \in Nat /\ DOMAIN blocks = 1 .. n
      /\ blocks \in [1 .. n -> Blocks \ Made] /\ IsInjective(blocks)
      /\ \A i \in 1 .. n : keys[i] \in Keys
      /\ Make(w, blocks, keys)
  BY DEF Makes
<1>2. /\ pos' = [b \in Made \cup New |-> IF b \in Made THEN pos[b] ELSE keys[Index(b)]]
      /\ known' = [known EXCEPT ![w] = @ \cup New]
  BY <1>1 DEF Make
<1>3. /\ \A i \in 1 .. n : blocks[i] \in New /\ blocks[i] \notin Made /\ blocks[i] \in Blocks
      /\ \A b \in New : \E i \in 1 .. n : blocks[i] = b
  BY <1>1 DEF ToSet
<1>4. \A i \in 1 .. n : Index(blocks[i]) = i
  BY <1>1 DEF IsInjective
<1>5. IsFiniteSet(New)
  <2> DEFINE f == [i \in 1 .. n |-> blocks[i]]
  <2> HIDE DEF New
  <2>1. f \in [1 .. n -> New] /\ \A i \in 1 .. n : f[i] = blocks[i]
    BY <1>3
  <2> HIDE DEF f
  <2>2. f \in Surjection(1 .. n, New)
    BY <2>1, <1>3 DEF Surjection
  <2>3. IsFiniteSet(1 .. n)
    BY <1>1, FS_Interval
  <2> QED BY <2>2, <2>3, FS_Surjection
<1> HIDE DEF New, Index
<1>6. Made' = Made \cup New
  BY <1>2 DEF Made
<1>7. IsFiniteSet(Made \cup New)
  BY <1>5, FS_Union DEF Inv
<1>8. Made' \subseteq Blocks /\ IsFiniteSet(Made')
  <2>1. New \subseteq Blocks
    BY <1>3
  <2> QED BY <2>1, <1>6, <1>7 DEF Inv
<1>9. \A b \in Made : pos'[b] = pos[b]
  BY <1>2
<1>10. \A i \in 1 .. n : pos'[blocks[i]] = keys[i]
  BY <1>2, <1>3, <1>4
<1>11. pos' \in [Made' -> Keys]
  <2>1. \A b \in Made : pos'[b] \in Keys
    BY <1>9 DEF Inv
  <2>2. \A b \in New : pos'[b] \in Keys
    BY <1>1, <1>3, <1>10
  <2>3. pos' = [b \in Made' |-> pos'[b]]
    BY <1>2, <1>6
  <2> QED BY <2>1, <2>2, <2>3, <1>6
<1>12. /\ known' \in [Writers -> SUBSET Made']
       /\ known'[w] = known[w] \cup New
       /\ \A v \in Writers : known[v] \subseteq known'[v]
  BY <1>1, <1>2, <1>6 DEF Inv
<1> QED BY <1>3, <1>6, <1>8, <1>9, <1>10, <1>11, <1>12 DEF New

\* A single block.
LEMMA InsertMakes ==
    ASSUME Inv, NEW w \in Writers, NEW b \in Blocks \ Made, NEW index \in Indices(w),
           InsertBlock(w, index, b),
           NEW n, n = Bounded(Order(w), index),
           NEW key, key = PositionAt(Order(w), n)
    PROVE  /\ n \in 0 .. Len(Order(w))
           /\ index < Len(Order(w)) => n = index
           /\ Makes(w, 1, <<b>>, <<key>>) /\ gone' = gone
<1>1. Len(Order(w)) \in Nat /\ Len(Order(w)) = Cardinality(Live(w))
  BY PlacedLive
<1>2. index \in Nat /\ index \in Int
  BY <1>1 DEF Indices
<1>3. n \in 0 .. Len(Order(w)) /\ (index < Len(Order(w)) => n = index)
  BY <1>1, <1>2 DEF Bounded
<1>4. key \in Keys
  BY <1>3, PlacedLive, RoomAt
<1>5. Make(w, <<b>>, <<key>>) /\ gone' = gone
  BY DEF InsertBlock
<1>6. <<b>> \in [1 .. 1 -> Blocks \ Made] /\ IsInjective(<<b>>)
  BY DEF IsInjective
<1>7. DOMAIN <<key>> = 1 .. 1 /\ \A i \in 1 .. 1 : <<key>>[i] \in Keys
  BY <1>4
<1> QED BY <1>3, <1>5, <1>6, <1>7 DEF Makes

\* The start of what an agent appends: after every block of the page.
LEMMA AppendStartFacts ==
    ASSUME Inv, Agent \in Writers, NEW start, start = AppendStart(Agent)
    PROVE  start \in Keys /\ \A b \in Live(Agent) : Below(pos[b], start)
<1> DEFINE S == Live(Agent)
           list == Order(Agent)
           n == Len(list)
<1>1. Placed(pos, S) /\ Lists(pos, S, list) /\ n = Cardinality(S) /\ n \in Nat /\ IsFiniteSet(S)
  BY PlacedLive DEF Placed
<1>2. CASE S = {}
  BY <1>2, DefaultIsKey DEF AppendStart
<1>3. CASE S # {}
  <2>1. n # 0
    BY <1>1, <1>3, FS_EmptySet
  <2>2. start = NewAfter(pos[list[n]])
    BY <1>3 DEF AppendStart, Last
  <2>3. n \in 1 .. n
    BY <2>1, <1>1
  <2>4. pos[list[n]] \in Keys
    BY <2>3, <1>1, InOrderOf
  <2>5. start \in Keys /\ Below(pos[list[n]], start)
    BY <2>2, <2>4, AfterAndBefore
  <2>6. ASSUME NEW b \in S PROVE Below(pos[b], start)
    <3>1. PICK i \in 1 .. n : list[i] = b
      BY <1>1 DEF Lists
    <3>2. i <= n
      BY <1>1
    <3>3. pos[b] \in Keys /\ (pos[b] = pos[list[n]] \/ Below(pos[b], pos[list[n]]))
      BY <3>1, <3>2, <2>3, <1>1, InOrderOf
    <3>4. pos[b] \in Seq(Bytes) /\ pos[list[n]] \in Seq(Bytes) /\ start \in Seq(Bytes)
      BY <3>3, <2>4, <2>5, KeyFacts
    <3> QED BY <3>3, <3>4, <2>5, BelowTransitive
  <2> QED BY <2>5, <2>6
<1> QED BY <1>2, <1>3

LEMMA FreshFacts ==
    ASSUME NEW count \in Nat, NEW blocks \in FreshBlocks(count)
    PROVE  /\ blocks \in [1 .. count -> Blocks \ Made] /\ IsInjective(blocks)
           /\ Len(blocks) = count /\ blocks \in Seq(Blocks)
BY DEF FreshBlocks

LEMMA AppendMakes ==
    ASSUME Inv, NEW count \in Nat, NEW blocks \in FreshBlocks(count), AppendBlocks(blocks),
           NEW keys, keys = KeysFrom(AppendStart(Agent), Len(blocks))
    PROVE  Makes(Agent, count, blocks, keys) /\ gone' = gone
<1>1. Agent \in Writers
  BY DEF Writers
<1>2. AppendStart(Agent) \in Keys
  BY <1>1, AppendStartFacts
<1>3. keys \in [1 .. count -> Keys]
  BY <1>2, FreshFacts, KeysFromFacts
<1> QED BY <1>1, <1>3, FreshFacts DEF AppendBlocks, Makes

LEMMA ReplaceMakes ==
    ASSUME Inv, NEW count \in Nat, NEW blocks \in FreshBlocks(count), ReplaceBlocks(blocks),
           NEW keys, keys = KeysFrom(DefaultKey, Len(blocks))
    PROVE  /\ Makes(Agent, count, blocks, keys)
           /\ gone' = [gone EXCEPT ![Agent] = known[Agent]]
<1>1. Agent \in Writers
  BY DEF Writers
<1>2. keys \in [1 .. count -> Keys]
  BY DefaultIsKey, FreshFacts, KeysFromFacts
<1> QED BY <1>1, <1>2, FreshFacts DEF ReplaceBlocks, Makes

-----------------------------------------------------------------------------
(* The invariant is inductive. *)

LEMMA InitInv == Init => Inv
<1> SUFFICES ASSUME Init PROVE Inv
  OBVIOUS
<1>1. Made = {} /\ pos \in [Made -> Keys]
  BY DEF Init, Made
<1>2. IsFiniteSet(Made)
  BY <1>1, FS_EmptySet
<1> QED BY <1>1, <1>2 DEF Init, Inv

\* Only tombstones change.
LEMMA GoneInv ==
    ASSUME Inv, UNCHANGED <<pos, known>>, NEW w \in Writers, NEW dead,
           dead \subseteq known[w], gone' = [gone EXCEPT ![w] = dead]
    PROVE  Inv'
<1>1. Made' = Made
  BY DEF Made
<1>2. /\ gone' \in [Writers -> SUBSET Made]
      /\ \A v \in Writers : gone'[v] \subseteq known[v]
  BY DEF Inv
<1> QED BY <1>1, <1>2 DEF Inv

LEMMA MakesInv ==
    ASSUME Inv, NEW w, NEW n, NEW blocks, NEW keys, Makes(w, n, blocks, keys),
           gone' \in [Writers -> SUBSET Made],
           \A v \in Writers : gone'[v] \subseteq known[v]
    PROVE  Inv'
<1>1. /\ Made' = Made \cup ToSet(blocks) /\ Made' \subseteq Blocks /\ IsFiniteSet(Made')
      /\ pos' \in [Made' -> Keys]
      /\ known' \in [Writers -> SUBSET Made']
      /\ \A v \in Writers : known[v] \subseteq known'[v]
  BY MakeFacts
<1> QED BY <1>1 DEF Inv

LEMMA ReplaceInv ==
    ASSUME Inv, NEW count \in Nat, NEW blocks \in FreshBlocks(count), ReplaceBlocks(blocks)
    PROVE  Inv'
<1> DEFINE keys == KeysFrom(DefaultKey, Len(blocks))
<1>1. Makes(Agent, count, blocks, keys) /\ gone' = [gone EXCEPT ![Agent] = known[Agent]]
  BY ReplaceMakes
<1> HIDE DEF keys
<1>2. /\ gone' \in [Writers -> SUBSET Made]
      /\ \A v \in Writers : gone'[v] \subseteq known[v]
  BY <1>1 DEF Inv, Writers
<1> QED BY <1>1, <1>2, MakesInv

LEMMA NextInv ==
    ASSUME Inv, [Next]_vars
    PROVE  Inv'
<1>1. Agent \in Writers /\ Editor \in Writers
  BY DEF Writers
<1>2. /\ gone \in [Writers -> SUBSET Made]
      /\ \A v \in Writers : gone[v] \subseteq known[v]
  BY DEF Inv
<1>3. ASSUME NEW w \in Writers, NEW b \in Blocks \ Made, NEW index \in Indices(w),
             InsertBlock(w, index, b)
      PROVE  Inv'
  <2> DEFINE key == PositionAt(Order(w), Bounded(Order(w), index))
  <2>1. Makes(w, 1, <<b>>, <<key>>) /\ gone' = gone
    BY <1>3, InsertMakes
  <2> HIDE DEF key
  <2> QED BY <2>1, <1>2, MakesInv
<1>4. ASSUME NEW count \in 1 .. MaxBatch, NEW blocks \in FreshBlocks(count),
             CreateDocument(blocks) \/ ReplaceDocument(blocks)
      PROVE  Inv'
  BY <1>4, ReplaceInv DEF CreateDocument, ReplaceDocument
<1>5. ASSUME NEW count \in 1 .. MaxBatch, NEW blocks \in FreshBlocks(count), AppendBlocks(blocks)
      PROVE  Inv'
  <2> DEFINE keys == KeysFrom(AppendStart(Agent), Len(blocks))
  <2>1. Makes(Agent, count, blocks, keys) /\ gone' = gone
    BY <1>5, AppendMakes
  <2> HIDE DEF keys
  <2> QED BY <2>1, <1>2, MakesInv
<1>6. ASSUME NEW w \in Writers, NEW b, RemoveBlock(w, b) PROVE Inv'
  <2>1. gone[w] \cup {b} \subseteq known[w]
    BY <1>6, <1>2 DEF RemoveBlock, Live
  <2> QED BY <2>1, <1>6, GoneInv DEF RemoveBlock
<1>7. ASSUME NEW b \in Blocks, DeleteBlock(b) PROVE Inv'
  BY <1>1, <1>6, <1>7 DEF DeleteBlock
<1>8. ASSUME NEW count \in 0 .. MaxBatch - 1, NEW blocks \in FreshBlocks(count),
             ReplaceCutOff(blocks)
      PROVE  Inv'
  <2>1. CASE ReplaceBlocks(blocks)
    <3>1. count \in Nat
      BY BoundsAssumption
    <3> QED BY <3>1, <2>1, ReplaceInv
  <2>2. ASSUME NEW stored \in 1 .. Len(Order(Agent)) - 1,
               gone' = [gone EXCEPT ![Agent] = @ \cup ToSet(SubSeq(Order(Agent), 1, stored))],
               UNCHANGED <<pos, known>>
        PROVE  Inv'
    <3> DEFINE list == Order(Agent)
               some == SubSeq(list, 1, stored)
    <3>1. list \in Seq(Live(Agent)) /\ Len(list) \in Nat
      BY <1>1, PlacedLive DEF Lists
    <3>2. some \in Seq(Live(Agent))
      BY <3>1
    <3> HIDE DEF some
    <3>3. ToSet(some) \subseteq Live(Agent)
      BY <3>2 DEF ToSet
    <3>4. gone[Agent] \cup ToSet(some) \subseteq known[Agent]
      BY <3>3, <1>1, <1>2 DEF Live
    <3>5. gone' = [gone EXCEPT ![Agent] = gone[Agent] \cup ToSet(some)]
      BY <2>2 DEF some
    <3> QED BY <3>4, <3>5, <2>2, <1>1, GoneInv
  <2> QED BY <1>8, <2>1, <2>2 DEF ReplaceCutOff
<1>9. ASSUME NEW b \in Blocks, RestoreBlock(b) PROVE Inv'
  <2>1. gone[Editor] \ {b} \subseteq known[Editor]
    BY <1>1, <1>2
  <2> QED BY <2>1, <1>1, <1>9, GoneInv DEF RestoreBlock
<1>10. ASSUME NEW w \in Writers, NEW v \in Writers, Exchange(w, v) PROVE Inv'
  <2>1. /\ known' = [known EXCEPT ![w] = known[w] \cup known[v]]
        /\ pos' = pos
        /\ \E alive : gone' = [gone EXCEPT ![w] = (gone[w] \cup gone[v]) \ alive]
    BY <1>10 DEF Exchange
  <2>2. PICK alive : gone' = [gone EXCEPT ![w] = (gone[w] \cup gone[v]) \ alive]
    BY <2>1
  <2>3. Made' = Made
    BY <2>1 DEF Made
  <2>4. known' \in [Writers -> SUBSET Made] /\ known'[w] = known[w] \cup known[v]
        /\ \A u \in Writers : u # w => known'[u] = known[u]
    BY <2>1 DEF Inv
  <2>5. gone' \in [Writers -> SUBSET Made] /\ gone'[w] \subseteq gone[w] \cup gone[v]
        /\ \A u \in Writers : u # w => gone'[u] = gone[u]
    BY <2>2, <1>2
  <2>6. \A u \in Writers : gone'[u] \subseteq known'[u]
    BY <2>4, <2>5, <1>2
  <2> QED BY <2>1, <2>3, <2>4, <2>5, <2>6 DEF Inv
<1>11. CASE UNCHANGED vars
  <2>1. Made' = Made
    BY <1>11 DEF vars, Made
  <2> QED BY <2>1, <1>11 DEF vars, Inv
<1> QED BY <1>1, <1>3, <1>4, <1>5, <1>6, <1>7, <1>8, <1>9, <1>10, <1>11 DEF Next

LEMMA Invariance == Spec => []Inv
BY InitInv, NextInv, PTL DEF Spec

\* Every variable has its type and every position, of both sides, is a key:
\* whatever was inserted, appended, replaced, cut off or restored in between.
THEOREM PositionsTypes == Spec => []TypeOK
<1>1. Inv => TypeOK
  BY DEF Inv, TypeOK, Keys
<1> QED BY <1>1, Invariance, PTL

\* No sequence of insertions uses up the keys between two blocks.
THEOREM PositionsRoom == Spec => []AlwaysRoom
<1>1. Inv => AlwaysRoom
  <2> SUFFICES ASSUME Inv, NEW a \in Made, NEW b \in Made, Below(pos[a], pos[b]),
                      NEW key, key = Between(pos[a], pos[b])
               PROVE  IsKey(key) /\ Below(pos[a], key) /\ Below(key, pos[b])
    BY DEF AlwaysRoom
  <2>1. pos[a] \in Keys /\ pos[b] \in Keys
    BY DEF Inv
  <2>2. key = BetweenKeys(pos[a], pos[b])
    BY <2>1, KeyFacts DEF Between
  <2>3. Strictly(pos[a], key, pos[b])
    BY <2>1, <2>2, AlwaysBetween
  <2> QED BY <2>3 DEF Strictly, Keys
<1> QED BY <1>1, Invariance, PTL

-----------------------------------------------------------------------------
(* What an insertion does to the order. *)

LEMMA SameLists ==
    ASSUME NEW at, NEW to, NEW S, NEW list, Lists(at, S, list),
           \A c \in S : to[c] = at[c]
    PROVE  Lists(to, S, list)
<1>1. \A i \in 1 .. Len(list) : list[i] \in S
  BY DEF Lists
<1>2. ASSUME NEW i \in 1 .. Len(list), NEW j \in 1 .. Len(list), i < j
      PROVE  Precedes(to, list[i], list[j])
  <2>1. Precedes(at, list[i], list[j])
    BY <1>2 DEF Lists
  <2>2. to[list[i]] = at[list[i]] /\ to[list[j]] = at[list[j]]
    BY <1>1
  <2> QED BY <2>1, <2>2 DEF Precedes
<1> QED BY <1>2 DEF Lists

\* new is list with b behind its first n elements.
Grown(T, list, n, b, new) ==
    /\ new \in Seq(T) /\ Len(new) = Len(list) + 1
    /\ \A i \in 1 .. n : new[i] = list[i]
    /\ new[n + 1] = b
    /\ \A i \in n + 1 .. Len(list) : new[i + 1] = list[i]

LEMMA InsertAtFacts ==
    ASSUME NEW T, NEW list \in Seq(T), NEW n \in 0 .. Len(list), NEW b \in T,
           NEW new, new = InsertAt(list, n + 1, b)
    PROVE  Grown(T, list, n, b, new)
<1> DEFINE m == Len(list)
           front == SubSeq(list, 1, n)
           back == SubSeq(list, n + 1, m)
           mid == front \o <<b>>
<1>1. m \in Nat /\ n \in Nat /\ n <= m
  OBVIOUS
<1>2. front \in Seq(T) /\ Len(front) = n /\ \A i \in 1 .. n : front[i] = list[i]
  BY <1>1
<1>3. back \in Seq(T) /\ Len(back) = m - n /\ \A i \in 1 .. m - n : back[i] = list[n + i]
  BY <1>1
<1>4. new = mid \o back
  <2>1. (n + 1) - 1 = n
    BY <1>1
  <2>2. new = SubSeq(list, 1, (n + 1) - 1) \o <<b>> \o SubSeq(list, n + 1, Len(list))
    BY DEF InsertAt
  <2> QED BY <2>1, <2>2, Zenon
<1> HIDE DEF front, back, m
<1>5. /\ mid \in Seq(T) /\ Len(mid) = n + 1
      /\ \A i \in 1 .. n : mid[i] = list[i]
      /\ mid[n + 1] = b
  BY <1>1, <1>2
<1> HIDE DEF mid
<1>6. /\ new \in Seq(T) /\ Len(new) = m + 1
      /\ \A i \in 1 .. m + 1 : new[i] = IF i <= n + 1 THEN mid[i] ELSE back[i - (n + 1)]
  <2>1. /\ mid \o back \in Seq(T) /\ Len(mid \o back) = Len(mid) + Len(back)
        /\ \A i \in 1 .. Len(mid) + Len(back) :
              (mid \o back)[i] = IF i <= Len(mid) THEN mid[i] ELSE back[i - Len(mid)]
    BY <1>3, <1>5, ConcatProperties
  <2>2. Len(mid) + Len(back) = m + 1
    BY <1>1, <1>3, <1>5
  <2> QED BY <2>1, <2>2, <1>4, <1>5
<1>7. ASSUME NEW i \in 1 .. n PROVE new[i] = list[i]
  <2>1. i \in 1 .. m + 1 /\ i <= n + 1
    BY <1>1
  <2> QED BY <2>1, <1>5, <1>6
<1>8. new[n + 1] = b
  <2>1. n + 1 \in 1 .. m + 1 /\ n + 1 <= n + 1
    BY <1>1
  <2> QED BY <2>1, <1>5, <1>6
<1>9. ASSUME NEW i \in n + 1 .. m PROVE new[i + 1] = list[i]
  <2>1. /\ i + 1 \in 1 .. m + 1 /\ ~ (i + 1 <= n + 1) /\ (i + 1) - (n + 1) = i - n
        /\ i - n \in 1 .. m - n /\ n + (i - n) = i
    BY <1>1
  <2>2. new[i + 1] = back[i - n]
    BY <2>1, <1>6
  <2> QED BY <2>1, <2>2, <1>3
<1> QED BY <1>6, <1>7, <1>8, <1>9 DEF m, Grown

LEMMA InsertedLists ==
    ASSUME NEW at, NEW S, NEW list, Lists(at, S, list), NEW n \in 0 .. Len(list),
           NEW b, Splits(at, list, n, at[b]),
           NEW new, new = InsertAt(list, n + 1, b)
    PROVE  Lists(at, S \cup {b}, new)
<1> DEFINE T == S \cup {b}
           m == Len(list)
<1>1. /\ list \in Seq(S) /\ list \in Seq(T) /\ m \in Nat /\ n \in Nat /\ n <= m
      /\ \A i \in 1 .. m : list[i] \in S
      /\ \A i, j \in 1 .. m : i < j => Precedes(at, list[i], list[j])
      /\ \A c \in S : \E i \in 1 .. m : list[i] = c
  BY DEF Lists
<1>2. /\ new \in Seq(T) /\ Len(new) = m + 1
      /\ \A i \in 1 .. n : new[i] = list[i]
      /\ new[n + 1] = b
      /\ \A i \in n + 1 .. m : new[i + 1] = list[i]
  <2>1. b \in T
    OBVIOUS
  <2>2. list \in Seq(T)
    BY <1>1
  <2> HIDE DEF T
  <2>3. Grown(T, list, n, b, new)
    BY <2>1, <2>2, InsertAtFacts
  <2> QED BY <2>3 DEF Grown
<1>3. /\ \A i \in 1 .. n : Precedes(at, list[i], b)
      /\ \A i \in n + 1 .. m : Precedes(at, b, list[i])
  BY DEF Splits, Precedes
<1> HIDE DEF T, m
<1>4. \A i \in 1 .. m + 1 : \/ i \in 1 .. n /\ new[i] = list[i]
                            \/ i = n + 1 /\ new[i] = b
                            \/ i - 1 \in n + 1 .. m /\ new[i] = list[i - 1]
  <2> TAKE i \in 1 .. m + 1
  <2>1. CASE i <= n
    <3>1. i \in 1 .. n
      BY <2>1, <1>1
    <3> QED BY <3>1, <1>2
  <2>2. CASE i = n + 1
    BY <2>2, <1>2
  <2>3. CASE i > n + 1
    <3>1. i - 1 \in n + 1 .. m /\ (i - 1) + 1 = i
      BY <2>3, <1>1
    <3> QED BY <3>1, <1>2
  <2> QED BY <1>1, <2>1, <2>2, <2>3
<1>5. ASSUME NEW i \in 1 .. m + 1, NEW j \in 1 .. m + 1, i < j
      PROVE  Precedes(at, new[i], new[j])
  <2>1. CASE i \in 1 .. n /\ new[i] = list[i]
    <3>1. CASE j \in 1 .. n /\ new[j] = list[j]
      <4>1. i \in 1 .. m /\ j \in 1 .. m
        BY <2>1, <3>1, <1>1
      <4> QED BY <4>1, <2>1, <3>1, <1>1, <1>5
    <3>2. CASE j = n + 1 /\ new[j] = b
      BY <2>1, <3>2, <1>3
    <3>3. CASE j - 1 \in n + 1 .. m /\ new[j] = list[j - 1]
      <4>1. i \in 1 .. m /\ j - 1 \in 1 .. m /\ i < j - 1
        BY <2>1, <3>3, <1>1
      <4> QED BY <4>1, <2>1, <3>3, <1>1
    <3> QED BY <3>1, <3>2, <3>3, <1>4
  <2>2. CASE i = n + 1 /\ new[i] = b
    <3>1. j - 1 \in n + 1 .. m /\ j \notin 1 .. n /\ j # n + 1
      BY <2>2, <1>1, <1>5
    <3>2. new[j] = list[j - 1]
      BY <3>1, <1>4
    <3> QED BY <3>1, <3>2, <2>2, <1>3
  <2>3. CASE i - 1 \in n + 1 .. m /\ new[i] = list[i - 1]
    <3>1. /\ j - 1 \in n + 1 .. m /\ j \notin 1 .. n /\ j # n + 1
          /\ i - 1 \in 1 .. m /\ j - 1 \in 1 .. m /\ i - 1 < j - 1
      BY <2>3, <1>1, <1>5
    <3>2. new[j] = list[j - 1]
      BY <3>1, <1>4
    <3> QED BY <3>1, <3>2, <2>3, <1>1
  <2> QED BY <2>1, <2>2, <2>3, <1>4
<1>6. ASSUME NEW c \in T PROVE \E i \in 1 .. m + 1 : new[i] = c
  <2>1. CASE c = b
    <3>1. n + 1 \in 1 .. m + 1
      BY <1>1
    <3> QED BY <3>1, <2>1, <1>2
  <2>2. CASE c \in S
    <3>1. PICK i \in 1 .. m : list[i] = c
      BY <2>2, <1>1
    <3>2. CASE i <= n
      <4>1. i \in 1 .. n /\ i \in 1 .. m + 1
        BY <3>2, <1>1
      <4> QED BY <4>1, <3>1, <1>2
    <3>3. CASE ~ (i <= n)
      <4>1. i \in n + 1 .. m /\ i + 1 \in 1 .. m + 1
        BY <3>3, <1>1
      <4> QED BY <4>1, <3>1, <1>2
    <3> QED BY <3>2, <3>3
  <2> QED BY <2>1, <2>2 DEF T
<1> QED BY <1>2, <1>5, <1>6 DEF Lists, T

\* A batch whose keys ascend, after a list whose keys are all below.
LEMMA AppendedLists ==
    ASSUME NEW at, NEW S, NEW list, Lists(at, S, list),
           NEW n \in Nat, NEW U, NEW blocks \in [1 .. n -> U],
           \A c \in S : \A i \in 1 .. n : Below(at[c], at[blocks[i]]),
           \A i, j \in 1 .. n : i < j => Below(at[blocks[i]], at[blocks[j]])
    PROVE  Lists(at, S \cup ToSet(blocks), list \o blocks)
<1> DEFINE New == ToSet(blocks)
           T == S \cup New
           m == Len(list)
           new == list \o blocks
<1>1. /\ \A i \in 1 .. n : blocks[i] \in New
      /\ \A c \in New : \E i \in 1 .. n : blocks[i] = c
  BY DEF ToSet
<1> HIDE DEF New
<1>2. /\ list \in Seq(S) /\ list \in Seq(T) /\ m \in Nat
      /\ \A i \in 1 .. m : list[i] \in S
      /\ \A i, j \in 1 .. m : i < j => Precedes(at, list[i], list[j])
      /\ \A c \in S : \E i \in 1 .. m : list[i] = c
  BY DEF Lists
<1>3. blocks \in Seq(T) /\ Len(blocks) = n
  <2>1. blocks \in [1 .. n -> T]
    BY <1>1
  <2> QED BY <2>1
<1> HIDE DEF T, m
<1>4. /\ new \in Seq(T) /\ Len(new) = m + n
      /\ \A i \in 1 .. m + n : new[i] = IF i <= m THEN list[i] ELSE blocks[i - m]
  BY <1>2, <1>3, ConcatProperties DEF m
<1> HIDE DEF new
<1>5. \A i \in 1 .. m + n : \/ i \in 1 .. m /\ new[i] = list[i] /\ new[i] \in S
                            \/ i - m \in 1 .. n /\ new[i] = blocks[i - m]
  <2> TAKE i \in 1 .. m + n
  <2>1. CASE i <= m
    <3>1. i \in 1 .. m
      BY <2>1, <1>2
    <3> QED BY <3>1, <2>1, <1>2, <1>4
  <2>2. CASE ~ (i <= m)
    <3>1. i - m \in 1 .. n
      BY <2>2, <1>2
    <3> QED BY <3>1, <2>2, <1>4
  <2> QED BY <2>1, <2>2
<1>6. ASSUME NEW i \in 1 .. m + n, NEW j \in 1 .. m + n, i < j
      PROVE  Precedes(at, new[i], new[j])
  <2>1. CASE i \in 1 .. m /\ new[i] = list[i] /\ new[i] \in S
    <3>1. CASE j \in 1 .. m /\ new[j] = list[j]
      BY <2>1, <3>1, <1>2, <1>6
    <3>2. CASE j - m \in 1 .. n /\ new[j] = blocks[j - m]
      BY <2>1, <3>2 DEF Precedes
    <3> QED BY <3>1, <3>2, <1>5
  <2>2. CASE i - m \in 1 .. n /\ new[i] = blocks[i - m]
    <3>1. j \notin 1 .. m /\ j - m \in 1 .. n /\ i - m < j - m
      BY <2>2, <1>2, <1>6
    <3>2. new[j] = blocks[j - m]
      BY <3>1, <1>5
    <3> QED BY <3>1, <3>2, <2>2 DEF Precedes
  <2> QED BY <2>1, <2>2, <1>5
<1>7. ASSUME NEW c \in T PROVE \E i \in 1 .. m + n : new[i] = c
  <2>1. CASE c \in S
    <3>1. PICK i \in 1 .. m : list[i] = c
      BY <2>1, <1>2
    <3>2. i \in 1 .. m + n /\ i <= m
      BY <1>2
    <3> QED BY <3>1, <3>2, <1>4
  <2>2. CASE c \in New
    <3>1. PICK i \in 1 .. n : blocks[i] = c
      BY <2>2, <1>1
    <3>2. m + i \in 1 .. m + n /\ ~ (m + i <= m) /\ (m + i) - m = i
      BY <1>2
    <3> QED BY <3>1, <3>2, <1>4
  <2> QED BY <2>1, <2>2 DEF T
<1> QED BY <1>4, <1>6, <1>7 DEF Lists, T, New, new

-----------------------------------------------------------------------------
(* The two action properties. *)

LEMMA InsertStep ==
    ASSUME Inv, NEW w \in Writers, NEW b \in Blocks \ Made, NEW index \in Indices(w),
           InsertBlock(w, index, b), ~ Twins(Order(w), index)
    PROVE  /\ Order(w)' = InsertAt(Order(w), Bounded(Order(w), index) + 1, b)
           /\ \A c \in Live(w) : pos'[c] # pos'[b]
<1> DEFINE list == Order(w)
           S == Live(w)
           n == Bounded(list, index)
           key == PositionAt(list, n)
           new == InsertAt(list, n + 1, b)
<1>1. /\ Placed(pos, S) /\ Lists(pos, S, list) /\ S \subseteq Made /\ Len(list) \in Nat
  BY PlacedLive
<1>2. /\ n \in 0 .. Len(list) /\ (index < Len(list) => n = index)
      /\ Makes(w, 1, <<b>>, <<key>>) /\ gone' = gone
  BY InsertMakes
<1>3. ~ Twins(list, n)
  <2>1. index < Len(list) => ~ Twins(list, n)
    BY <1>2
  <2>2. index \in Nat
    <3>1. Cardinality(Live(w)) \in Nat
      BY PlacedLive
    <3> QED BY <3>1 DEF Indices
  <2>3. ~ (index < Len(list)) => ~ (n < Len(list))
    BY <2>2, <1>1 DEF Bounded
  <2> QED BY <2>1, <2>3 DEF Twins
<1>4. key \in Keys /\ Splits(pos, list, n, key)
  <2> HIDE DEF S, list, n
  <2> QED BY <1>1, <1>2, <1>3, RoomAt
<1> HIDE DEF key
<1>5. ToSet(<<b>>) = {b} /\ <<b>>[1] = b /\ <<key>>[1] = key /\ 1 \in 1 .. 1
  BY DEF ToSet
<1>6. PICK at : at = pos'
  OBVIOUS
<1>7. /\ Made' = Made \cup {b} /\ IsFiniteSet(Made') /\ Made' \subseteq Blocks
      /\ at \in [Made' -> Keys]
      /\ \A c \in Made : at[c] = pos[c]
      /\ at[b] = key
      /\ known'[w] = known[w] \cup {b}
  BY <1>2, <1>5, <1>6, MakeFacts
<1>8. Live(w)' = S \cup {b}
  BY <1>2, <1>7 DEF Live, Inv
<1>9. Placed(at, S \cup {b})
  <2>1. S \cup {b} \subseteq Made'
    BY <1>1, <1>7
  <2>2. IsFiniteSet(S \cup {b})
    BY <2>1, <1>7, FS_Subset
  <2> HIDE DEF S
  <2> QED BY <2>1, <2>2, <1>7, BoundsAssumption DEF Placed
<1> HIDE DEF S, list, n
<1>10. Lists(at, S, list)
  <2>1. \A c \in S : at[c] = pos[c]
    BY <1>1, <1>7
  <2> QED BY <2>1, <1>1, SameLists
<1>11. Splits(at, list, n, key)
  <2>1. /\ \A i \in 1 .. n : list[i] \in S /\ Below(pos[list[i]], key)
        /\ \A i \in n + 1 .. Len(list) : list[i] \in S /\ Below(key, pos[list[i]])
    <3>1. \A i \in 1 .. Len(list) : list[i] \in S
      BY <1>1 DEF Lists
    <3>2. \A i \in 1 .. n : i \in 1 .. Len(list)
      BY <1>1, <1>2
    <3>3. \A i \in n + 1 .. Len(list) : i \in 1 .. Len(list)
      BY <1>1, <1>2
    <3> QED BY <3>1, <3>2, <3>3, <1>4 DEF Splits
  <2>2. \A c \in S : at[c] = pos[c]
    BY <1>1, <1>7
  <2> QED BY <2>1, <2>2 DEF Splits
<1>12. Lists(at, S \cup {b}, new)
  BY <1>2, <1>7, <1>10, <1>11, InsertedLists
<1> HIDE DEF new
<1>13. new = Listed(at, S \cup {b})
  BY <1>9, <1>12, OneListing
<1>14. Order(w)' = Listed(pos', Live(w)')
  BY DEF Order
<1>15. Order(w)' = new
  BY <1>6, <1>8, <1>13, <1>14
<1>16. ASSUME NEW c \in S PROVE at[c] # at[b]
  <2>1. PICK i \in 1 .. Len(list) : list[i] = c
    BY <1>1 DEF Lists
  <2>2. i \in 1 .. n \/ i \in n + 1 .. Len(list)
    BY <1>1, <1>2
  <2>3. Below(at[c], key) \/ Below(key, at[c])
    BY <2>1, <2>2, <1>11 DEF Splits
  <2>4. key \in Seq(Bytes)
    BY <1>4, KeyFacts
  <2> QED BY <2>3, <2>4, <1>7, BelowIrreflexive
<1> QED BY <1>6, <1>15, <1>16 DEF new, S, list, n

\* What is said of the blocks of a batch.
LEMMA BatchStep ==
    ASSUME Inv, NEW count \in Nat, NEW blocks, NEW keys, NEW start \in Keys,
           Makes(Agent, count, blocks, keys), keys = KeysFrom(start, count),
           NEW S, Lists(pos, S, Order(Agent)) \/ S = {}, S \subseteq Live(Agent),
           Live(Agent)' = S \cup ToSet(blocks),
           \A c \in S : Below(pos[c], start),
           NEW list, IF S = {} THEN list = <<>> ELSE list = Order(Agent)
    PROVE  Order(Agent)' = list \o blocks
<1>1. /\ blocks \in [1 .. count -> Blocks \ Made]
      /\ S \subseteq Made
  BY PlacedLive DEF Makes
<1>2. PICK at : at = pos'
  OBVIOUS
<1>3. /\ Made' = Made \cup ToSet(blocks) /\ IsFiniteSet(Made') /\ Made' \subseteq Blocks
      /\ at \in [Made' -> Keys]
      /\ \A c \in Made : at[c] = pos[c]
      /\ \A i \in 1 .. count : at[blocks[i]] = keys[i]
  BY <1>2, MakeFacts
<1>4. /\ \A i \in 1 .. count : keys[i] \in Keys
      /\ \A i, j \in 1 .. count : i < j => Below(keys[i], keys[j])
      /\ \A i \in 1 .. count : keys[i] = start \/ Below(start, keys[i])
  BY KeysFromFacts
<1>5. Lists(at, S, list)
  <2>1. CASE S = {}
    <3>1. list = <<>>
      BY <2>1
    <3>2. list \in Seq(S) /\ Len(list) = 0 /\ 1 .. 0 = {}
      BY <3>1
    <3> QED BY <2>1, <3>2 DEF Lists
  <2>2. CASE S # {}
    <3>1. Lists(pos, S, list) /\ \A c \in S : at[c] = pos[c]
      BY <2>2, <1>1, <1>3
    <3> QED BY <3>1, SameLists
  <2> QED BY <2>1, <2>2
<1>6. ASSUME NEW c \in S, NEW i \in 1 .. count PROVE Below(at[c], at[blocks[i]])
  <2>1. at[c] \in Keys /\ Below(at[c], start) /\ at[blocks[i]] = keys[i] /\ keys[i] \in Keys
    BY <1>1, <1>3, <1>4
  <2>2. at[c] \in Seq(Bytes) /\ start \in Seq(Bytes) /\ keys[i] \in Seq(Bytes)
    BY <2>1, KeyFacts
  <2>3. keys[i] = start \/ Below(start, keys[i])
    BY <1>4
  <2> QED BY <2>1, <2>2, <2>3, BelowTransitive
<1>7. \A i, j \in 1 .. count : i < j => Below(at[blocks[i]], at[blocks[j]])
  BY <1>3, <1>4
<1> DEFINE T == S \cup ToSet(blocks)
<1>8. Lists(at, T, list \o blocks)
  BY <1>1, <1>5, <1>6, <1>7, AppendedLists
<1>9. Placed(at, T)
  <2>1. T \subseteq Made'
    BY <1>1, <1>3
  <2> HIDE DEF T
  <2>2. IsFiniteSet(T)
    BY <2>1, <1>3, FS_Subset
  <2> QED BY <2>1, <2>2, <1>3, BoundsAssumption DEF Placed
<1> HIDE DEF T
<1>10. list \o blocks = Listed(at, T)
  BY <1>8, <1>9, OneListing
<1>11. Order(Agent)' = Listed(pos', Live(Agent)')
  BY DEF Order
<1> QED BY <1>2, <1>10, <1>11 DEF T

LEMMA AppendStep ==
    ASSUME Inv, NEW count \in Nat, NEW blocks \in FreshBlocks(count), AppendBlocks(blocks)
    PROVE  Order(Agent)' = Order(Agent) \o blocks
<1> DEFINE start == AppendStart(Agent)
           keys == KeysFrom(start, Len(blocks))
           S == Live(Agent)
           list == Order(Agent)
<1>1. Agent \in Writers
  BY DEF Writers
<1>2. Makes(Agent, count, blocks, keys) /\ gone' = gone /\ Len(blocks) = count
  BY AppendMakes, FreshFacts
<1>3. start \in Keys /\ \A c \in S : Below(pos[c], start)
  BY <1>1, AppendStartFacts
<1>4. Lists(pos, S, list) /\ Len(list) = Cardinality(S) /\ S \subseteq Made
  BY <1>1, PlacedLive
<1>5. Live(Agent)' = S \cup ToSet(blocks)
  <2>1. /\ known'[Agent] = known[Agent] \cup ToSet(blocks)
        /\ \A b \in ToSet(blocks) : b \notin Made
    BY <1>2, MakeFacts
  <2>2. gone[Agent] \subseteq Made
    BY <1>1 DEF Inv
  <2> QED BY <2>1, <2>2, <1>2 DEF Live
<1>6. IF S = {} THEN list = <<>> ELSE list = Order(Agent)
  <2>1. S = {} => list = <<>>
    <3> SUFFICES ASSUME S = {} PROVE list = <<>>
      OBVIOUS
    <3>1. Len(list) = 0 /\ list \in Seq(S)
      BY <1>4, FS_EmptySet DEF Lists
    <3> HIDE DEF list, S
    <3> QED BY <3>1, EmptySeq
  <2> QED BY <2>1
<1> HIDE DEF keys, start, S, list
<1>7. keys = KeysFrom(start, count)
  BY <1>2 DEF keys
<1>8. S \subseteq Live(Agent) /\ Lists(pos, S, Order(Agent))
  BY <1>4 DEF S, list
<1>9. Order(Agent)' = list \o blocks
  BY <1>2, <1>3, <1>5, <1>6, <1>7, <1>8, BatchStep
<1> QED BY <1>9 DEF list

LEMMA ReplaceStep ==
    ASSUME Inv, NEW count \in Nat, NEW blocks \in FreshBlocks(count), ReplaceBlocks(blocks)
    PROVE  Order(Agent)' = blocks
<1> DEFINE keys == KeysFrom(DefaultKey, Len(blocks))
<1>1. Agent \in Writers
  BY DEF Writers
<1>2. /\ Makes(Agent, count, blocks, keys)
      /\ gone' = [gone EXCEPT ![Agent] = known[Agent]] /\ Len(blocks) = count
      /\ blocks \in Seq(Blocks)
  BY ReplaceMakes, FreshFacts
<1>3. Live(Agent)' = {} \cup ToSet(blocks)
  <2>1. /\ known'[Agent] = known[Agent] \cup ToSet(blocks)
        /\ \A b \in ToSet(blocks) : b \notin Made
    BY <1>2, MakeFacts
  <2>2. known[Agent] \subseteq Made /\ gone'[Agent] = known[Agent]
    BY <1>1, <1>2 DEF Inv
  <2> QED BY <2>1, <2>2 DEF Live
<1> HIDE DEF keys
<1>4. keys = KeysFrom(DefaultKey, count)
  BY <1>2 DEF keys
<1>5. PICK S : S = {}
  OBVIOUS
<1>6. PICK list : list = <<>>
  OBVIOUS
<1>7. Order(Agent)' = list \o blocks
  BY <1>2, <1>3, <1>4, <1>5, <1>6, DefaultIsKey, BatchStep
<1>8. list \o blocks = blocks
  BY <1>2, <1>6
<1> QED BY <1>7, <1>8

\* A block inserted at an index stands at that index, and no live block of that
\* copy shares its position, unless the two blocks around the index share one.
THEOREM InsertionsLand == Spec => InsertLands
<1>1. ASSUME Inv, Inv', NEW w \in Writers, NEW b \in known'[w] \ Made, NEW index \in Indices(w),
             InsertBlock(w, index, b), ~ Twins(Order(w), index)
      PROVE  /\ Order(w)' = InsertAt(Order(w), Bounded(Order(w), index) + 1, b)
             /\ \A c \in Live(w) : pos'[c] # pos'[b]
  <2>1. b \in Blocks \ Made
    BY <1>1 DEF Inv
  <2> QED BY <2>1, <1>1, InsertStep
<1> DEFINE A == \A w \in Writers : \A b \in known'[w] \ Made, index \in Indices(w) :
                   LET list == Order(w)
                   IN  InsertBlock(w, index, b) /\ ~Twins(list, index) =>
                          /\ Order(w)' = InsertAt(list, Bounded(list, index) + 1, b)
                          /\ \A c \in Live(w) : pos'[c] # pos'[b]
<1>2. (Inv /\ Inv') => A
  BY <1>1
<1>3. (Inv /\ Inv') => [A]_vars
  BY <1>2
<1> HIDE DEF A
<1>4. [][A]_vars => InsertLands
  BY PTL DEF A, InsertLands
<1> QED BY <1>3, <1>4, Invariance, PTL

\* What an agent appends comes after the page's blocks in the order given, and
\* what it replaces the page with is then the whole page in that order.
THEOREM BatchesStayInOrder == Spec => BatchesInOrder
<1>1. ASSUME Inv, Inv', NEW blocks \in SetToSeqs(Made' \ Made)
      PROVE  /\ AppendBlocks(blocks) => Order(Agent)' = Order(Agent) \o blocks
             /\ ReplaceDocument(blocks) => Order(Agent)' = blocks
  <2> DEFINE count == Cardinality(Made' \ Made)
  <2>1. IsFiniteSet(Made' \ Made) /\ Made' \ Made \subseteq Blocks \ Made
    BY <1>1, FS_Subset DEF Inv
  <2>2. count \in Nat
    BY <2>1, FS_CardinalityType
  <2>3. /\ blocks \in [1 .. count -> Made' \ Made]
        /\ \A i, j \in 1 .. count : i # j => blocks[i] # blocks[j]
    BY DEF SetToSeqs
  <2> HIDE DEF count
  <2>4. blocks \in FreshBlocks(count)
    BY <2>1, <2>3 DEF FreshBlocks, IsInjective
  <2> QED BY <2>2, <2>4, <1>1, AppendStep, ReplaceStep DEF ReplaceDocument
<1> DEFINE A == Made' # Made => \A blocks \in SetToSeqs(Made' \ Made) :
                   /\ AppendBlocks(blocks) => Order(Agent)' = Order(Agent) \o blocks
                   /\ ReplaceDocument(blocks) => Order(Agent)' = blocks
<1>2. (Inv /\ Inv') => A
  BY <1>1
<1>3. (Inv /\ Inv') => [A]_vars
  BY <1>2
<1> HIDE DEF A
<1>4. [][A]_vars => BatchesInOrder
  BY PTL DEF A, BatchesInOrder
<1> QED BY <1>3, <1>4, Invariance, PTL
===============================================================================
