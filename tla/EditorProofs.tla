---------------------------- MODULE EditorProofs ----------------------------
(***************************************************************************)
(* Proofs about Editor, for any block ids, contents and documents.         *)
(***************************************************************************)
EXTENDS Editor, RunsProofs

-----------------------------------------------------------------------------
(* Documents: lists of blocks with distinct ids. *)

Document == {d \in Seq(Blocks) : Distinct(d)}

\* What the editor or anyone else wrote.
LEMMA ContentIs ==
    ASSUME NEW runs \in Contents
    PROVE  runs \in Seq(TextRun)
BY ContentsAssumption DEF Contents

LEMMA BlockFacts ==
    ASSUME NEW b \in Blocks
    PROVE  /\ b.id \in Ids /\ b.kind \in Kinds /\ b.runs \in Contents
           /\ b.runs \in Seq(TextRun)
           /\ TextOf(b) \in Seq(Bytes) /\ Len(TextOf(b)) \in Nat
           /\ \A at \in Nat : Clamp(TextOf(b), at) \in Nat /\ Clamp(TextOf(b), at) <= Len(TextOf(b))
<1>1. b.id \in Ids /\ b.kind \in Kinds /\ b.runs \in Contents
  BY DEF Blocks
<1>2. b.runs \in Seq(TextRun)
  BY <1>1, ContentIs
<1>3. TextOf(b) \in Seq(Bytes) /\ Len(TextOf(b)) \in Nat
  BY <1>2, TextOfMarked DEF TextOf
<1>4. \A at \in Nat : Clamp(TextOf(b), at) \in 0 .. Len(TextOf(b))
  BY <1>3, BoundaryFacts
<1>5. \A at \in Nat : Clamp(TextOf(b), at) \in Nat /\ Clamp(TextOf(b), at) <= Len(TextOf(b))
  BY <1>3, <1>4
<1> QED BY <1>1, <1>2, <1>3, <1>5

LEMMA MakeBlock ==
    ASSUME NEW id \in Ids, NEW kind \in Kinds, NEW runs \in Contents
    PROVE  /\ Block(id, kind, runs) \in Blocks /\ Block(id, kind, runs).id = id
           /\ Block(id, kind, runs).kind = kind /\ Block(id, kind, runs).runs = runs
BY DEF Block, Blocks

LEMMA NoContent == <<>> \in Contents
BY DEF Contents, IsNormal

LEMMA WrittenContent ==
    ASSUME NEW runs \in Contents, NEW value \in Seq(Bytes)
    PROVE  SetText(runs, value) \in Contents
<1>1. /\ SetText(runs, value) \in Seq(TextRun)
      /\ SetText(runs, value) = runs \/ IsNormal(SetText(runs, value))
  BY ContentIs, SetTextWrites
<1> QED BY <1>1 DEF Contents

LEMMA DocumentFacts ==
    ASSUME NEW d \in Document
    PROVE  /\ d \in Seq(Blocks) /\ Len(d) \in Nat /\ DOMAIN d = 1 .. Len(d)
           /\ \A i \in 1 .. Len(d) : d[i] \in Blocks /\ d[i].id \in IdsOf(d)
           /\ \A i, j \in 1 .. Len(d) : d[i].id = d[j].id => i = j
           /\ IdsOf(d) \subseteq Ids
           /\ d = <<>> <=> Len(d) = 0
<1>1. d \in Seq(Blocks) /\ Len(d) \in Nat /\ DOMAIN d = 1 .. Len(d)
  BY DEF Document
<1>2. \A i, j \in 1 .. Len(d) : d[i].id = d[j].id => i = j
  BY <1>1 DEF Document, Distinct
<1>3. \A i \in 1 .. Len(d) : d[i] \in Blocks /\ d[i].id \in IdsOf(d)
  BY <1>1 DEF IdsOf
<1>4. IdsOf(d) \subseteq Ids
  BY <1>1, <1>3, BlockFacts DEF IdsOf
<1>5. d = <<>> <=> Len(d) = 0
  BY <1>1
<1> QED BY <1>1, <1>2, <1>3, <1>4, <1>5

LEMMA MakeDocument ==
    ASSUME NEW d \in Seq(Blocks), \A i, j \in 1 .. Len(d) : d[i].id = d[j].id => i = j
    PROVE  d \in Document
BY DEF Document, Distinct

\* The index of a block: 0 exactly when the document does not have it.
LEMMA IndexFacts ==
    ASSUME NEW d \in Document, NEW id
    PROVE  /\ IndexOf(d, id) \in Nat /\ IndexOf(d, id) <= Len(d)
           /\ IndexOf(d, id) # 0 => /\ IndexOf(d, id) \in 1 .. Len(d) /\ d[IndexOf(d, id)] \in Blocks
                                    /\ d[IndexOf(d, id)].id = id /\ id \in IdsOf(d)
           /\ IndexOf(d, id) = 0 => id \notin IdsOf(d)
<1> DEFINE n == Len(d)
           S == {0} \cup {i \in DOMAIN d : d[i].id = id}
<1>1. n \in Nat /\ DOMAIN d = 1 .. n /\ \A i \in 1 .. n : d[i] \in Blocks /\ d[i].id \in IdsOf(d)
  BY DocumentFacts
<1>2. S \in SUBSET (0 .. n) /\ S # {}
  BY <1>1
<1>3. Max(S) \in S /\ \A x \in S : x <= Max(S)
  <2> HIDE DEF S
  <2> QED BY <1>1, <1>2, GreatestIs
<1>4. IndexOf(d, id) = Max(S)
  BY DEF IndexOf
<1> DEFINE m == Max(S)
<1>5. m \in S /\ (m = 0 => \A x \in S : x <= 0)
  BY <1>3
<1> HIDE DEF m
<1>6. m = 0 \/ (m \in 1 .. n /\ d[m].id = id)
  BY <1>1, <1>5
<1>7. ASSUME m = 0 PROVE id \notin IdsOf(d)
  <2>1. ASSUME NEW i \in 1 .. n, d[i].id = id PROVE FALSE
    <3>1. i \in S /\ ~ (i <= 0)
      BY <1>1, <2>1
    <3> QED BY <1>5, <1>7, <3>1
  <2> QED BY <1>1, <2>1 DEF IdsOf
<1> QED BY <1>1, <1>4, <1>6, <1>7 DEF m

\* Changing one block, without its id.
LEMMA BlockChanged ==
    ASSUME NEW d \in Document, NEW i \in 1 .. Len(d), NEW b \in Blocks, b.id = d[i].id
    PROVE  LET new == [d EXCEPT ![i] = b]
           IN  /\ new \in Document /\ Len(new) = Len(d) /\ IdsOf(new) = IdsOf(d)
               /\ new[i] = b /\ \A j \in 1 .. Len(d) : new[j].id = d[j].id
<1> DEFINE n == Len(d)
           new == [d EXCEPT ![i] = b]
<1>1. /\ d \in Seq(Blocks) /\ n \in Nat /\ DOMAIN d = 1 .. n
      /\ \A j \in 1 .. n : d[j] \in Blocks
      /\ \A j, k \in 1 .. n : d[j].id = d[k].id => j = k
  BY DocumentFacts
<1>2. new \in Seq(Blocks) /\ Len(new) = n /\ DOMAIN new = 1 .. n
  BY <1>1
<1>3. new[i] = b /\ \A j \in 1 .. n : new[j].id = d[j].id
  BY <1>1
<1> HIDE DEF new, n
<1>4. new \in Document
  BY <1>1, <1>2, <1>3, MakeDocument
<1>5. IdsOf(new) = IdsOf(d)
  BY <1>1, <1>2, <1>3 DEF IdsOf
<1> QED BY <1>2, <1>3, <1>4, <1>5 DEF new, n

\* Each block changed, without its id.
LEMMA BlocksChanged ==
    ASSUME NEW d \in Document, NEW new, new = [i \in DOMAIN d |-> new[i]],
           \A i \in 1 .. Len(d) : new[i] \in Blocks /\ new[i].id = d[i].id
    PROVE  new \in Document /\ Len(new) = Len(d) /\ IdsOf(new) = IdsOf(d)
<1> DEFINE n == Len(d)
<1>1. d \in Seq(Blocks) /\ n \in Nat /\ DOMAIN d = 1 .. n
      /\ \A j, k \in 1 .. n : d[j].id = d[k].id => j = k
  BY DocumentFacts
<1>2. new \in Seq(Blocks) /\ Len(new) = n /\ DOMAIN new = 1 .. n
  <2> HIDE DEF n
  <2>1. new \in [1 .. n -> Blocks]
    BY <1>1 DEF n
  <2> QED BY <1>1, <2>1
<1> HIDE DEF n
<1>3. new \in Document
  BY <1>1, <1>2, MakeDocument DEF n
<1>4. IdsOf(new) = IdsOf(d)
  BY <1>1, <1>2 DEF IdsOf, n
<1> QED BY <1>2, <1>3, <1>4 DEF n

\* Taking a part out of a document.
LEMMA PartTaken ==
    ASSUME NEW d \in Document, NEW a \in Nat, NEW b \in Nat, a <= b, b <= Len(d)
    PROVE  LET new == SubSeq(d, 1, a) \o SubSeq(d, b + 1, Len(d))
           IN  /\ new \in Document /\ Len(new) = a + (Len(d) - b) /\ IdsOf(new) \subseteq IdsOf(d)
               /\ \A i \in 1 .. a : new[i] = d[i]
<1> DEFINE n == Len(d)
           from == b + 1
           x == SubSeq(d, 1, a)
           y == SubSeq(d, from, n)
           new == x \o y
<1>1. /\ d \in Seq(Blocks) /\ n \in Nat /\ DOMAIN d = 1 .. n
      /\ \A j \in 1 .. n : d[j] \in Blocks /\ d[j].id \in IdsOf(d)
      /\ \A j, k \in 1 .. n : d[j].id = d[k].id => j = k
  BY DocumentFacts
<1>2. from \in Nat /\ 1 <= from /\ a <= n /\ n - b \in Nat
  BY <1>1
<1>3. x \in Seq(Blocks) /\ Len(x) = a /\ \A i \in 1 .. a : x[i] = d[i]
  <2> DEFINE one == 1
  <2>1. one \in Nat /\ 1 <= one /\ a <= Len(d)
    BY <1>2
  <2> HIDE DEF one
  <2>2. /\ SubSeq(d, one, a) \in Seq(Blocks)
        /\ Len(SubSeq(d, one, a)) = IF one <= a THEN a - one + 1 ELSE 0
        /\ \A i \in 1 .. a - one + 1 : SubSeq(d, one, a)[i] = d[one + i - 1]
    BY <1>1, <2>1, PartFacts
  <2> HIDE DEF x
  <2>3. /\ x \in Seq(Blocks) /\ Len(x) = IF one <= a THEN a - one + 1 ELSE 0
        /\ \A i \in 1 .. a - one + 1 : x[i] = d[one + i - 1]
    BY <2>2 DEF x, one
  <2>4. /\ (IF one <= a THEN a - one + 1 ELSE 0) = a
        /\ \A i \in 1 .. a : i \in 1 .. a - one + 1 /\ one + i - 1 = i
    BY DEF one
  <2> QED BY <2>3, <2>4
<1>4. y \in Seq(Blocks) /\ Len(y) = n - b /\ \A i \in 1 .. n - b : y[i] = d[b + i]
  <2> HIDE DEF n, from
  <2>1. /\ y \in Seq(Blocks) /\ Len(y) = IF from <= n THEN n - from + 1 ELSE 0
        /\ \A i \in 1 .. n - from + 1 : y[i] = d[from + i - 1]
    BY <1>1, <1>2, PartFacts DEF n
  <2>2. /\ (IF from <= n THEN n - from + 1 ELSE 0) = n - b
        /\ \A i \in 1 .. n - b : i \in 1 .. n - from + 1 /\ from + i - 1 = b + i
    BY <1>1, <1>2 DEF from
  <2> HIDE DEF y
  <2> QED BY <2>1, <2>2
<1> HIDE DEF x, y, n
<1>5. /\ new \in Seq(Blocks) /\ Len(new) = a + (n - b)
      /\ \A i \in 1 .. a + (n - b) : new[i] = IF i <= a THEN x[i] ELSE y[i - a]
  <2>1. /\ new \in Seq(Blocks) /\ Len(new) = Len(x) + Len(y)
        /\ \A i \in 1 .. Len(x) + Len(y) : new[i] = IF i <= Len(x) THEN x[i] ELSE y[i - Len(x)]
    <3>1. x \in Seq(Blocks) /\ y \in Seq(Blocks)
      BY <1>3, <1>4
    <3> QED BY <3>1, ConcatProperties, Zenon
  <2>2. Len(x) = a /\ Len(y) = n - b
    BY <1>3, <1>4
  <2> HIDE DEF new
  <2> QED BY <2>1, <2>2
<1> HIDE DEF new
<1> DEFINE Old(i) == IF i <= a THEN i ELSE i + (b - a)
<1>6. ASSUME NEW i \in 1 .. a + (n - b)
      PROVE  Old(i) \in 1 .. n /\ new[i] = d[Old(i)]
  <2>1. CASE i <= a
    <3>1. i \in 1 .. a /\ i \in 1 .. n
      BY <1>1, <1>2, <2>1
    <3> QED BY <1>3, <1>5, <2>1, <3>1
  <2>2. CASE ~ (i <= a)
    <3>1. i - a \in 1 .. n - b /\ b + (i - a) = i + (b - a) /\ i + (b - a) \in 1 .. n
      BY <1>1, <1>2, <2>2 DEF n
    <3>2. new[i] = y[i - a] /\ y[i - a] = d[b + (i - a)]
      BY <1>4, <1>5, <2>2, <3>1
    <3> QED BY <2>2, <3>1, <3>2
  <2> QED BY <2>1, <2>2
<1>7. ASSUME NEW i \in 1 .. a + (n - b), NEW j \in 1 .. a + (n - b), new[i].id = new[j].id
      PROVE  i = j
  <2>1. Old(i) \in 1 .. n /\ Old(j) \in 1 .. n /\ new[i] = d[Old(i)] /\ new[j] = d[Old(j)]
    BY <1>6
  <2>2. Old(i) = Old(j)
    <3> HIDE DEF Old
    <3> QED BY <1>1, <1>7, <2>1
  <2> QED BY <1>1, <2>2
<1> HIDE DEF Old
<1>8. new \in Document
  BY <1>5, <1>7, MakeDocument
<1>9. IdsOf(new) \subseteq IdsOf(d)
  <2>1. DOMAIN new = 1 .. a + (n - b)
    BY <1>5, <1>8, DocumentFacts
  <2>2. \A i \in 1 .. a + (n - b) : new[i].id \in IdsOf(d)
    BY <1>1, <1>6
  <2> QED BY <2>1, <2>2 DEF IdsOf
<1>10. \A i \in 1 .. a : new[i] = d[i]
  <2>1. \A i \in 1 .. a : i \in 1 .. a + (n - b) /\ i <= a
    BY <1>2
  <2> QED BY <1>3, <1>5, <2>1
<1> QED BY <1>5, <1>8, <1>9, <1>10 DEF new, x, y, n

LEMMA BlockRemoved ==
    ASSUME NEW d \in Document, NEW i \in 1 .. Len(d)
    PROVE  LET new == RemoveAt(d, i)
           IN  /\ new \in Document /\ Len(new) = Len(d) - 1 /\ IdsOf(new) \subseteq IdsOf(d)
               /\ \A j \in 1 .. i - 1 : new[j] = d[j]
<1> DEFINE a == i - 1
           n == Len(d)
           new == SubSeq(d, 1, a) \o SubSeq(d, i + 1, n)
<1>1. n \in Nat
  BY DocumentFacts
<1>2. a \in Nat /\ i \in Nat /\ a <= i /\ i <= n /\ a + (n - i) = n - 1
  BY <1>1
<1> HIDE DEF a
<1>3. /\ new \in Document /\ Len(new) = a + (n - i) /\ IdsOf(new) \subseteq IdsOf(d)
      /\ \A j \in 1 .. a : new[j] = d[j]
  BY <1>2, PartTaken
<1>4. RemoveAt(d, i) = new
  BY DEF RemoveAt, a
<1> HIDE DEF new
<1> QED BY <1>2, <1>3, <1>4 DEF a

\* Putting a block of a new id into a document.
LEMMA BlockInserted ==
    ASSUME NEW d \in Document, NEW i \in 1 .. Len(d) + 1, NEW b \in Blocks, b.id \notin IdsOf(d)
    PROVE  LET new == InsertAt(d, i, b)
           IN  /\ new \in Document /\ Len(new) = Len(d) + 1
               /\ IdsOf(new) = IdsOf(d) \cup {b.id}
<1> DEFINE n == Len(d)
           a == i - 1
           x == SubSeq(d, 1, a)
           y == <<b>>
           z == SubSeq(d, i, n)
           m == n - a
           new == (x \o y) \o z
<1>1. /\ d \in Seq(Blocks) /\ n \in Nat /\ DOMAIN d = 1 .. n
      /\ \A j \in 1 .. n : d[j] \in Blocks /\ d[j].id \in IdsOf(d)
      /\ \A j, k \in 1 .. n : d[j].id = d[k].id => j = k
  BY DocumentFacts
<1>2. a \in Nat /\ i \in Nat /\ 1 <= i /\ a <= n /\ i = a + 1 /\ m \in Nat
  BY <1>1
<1>3. x \in Seq(Blocks) /\ Len(x) = a /\ \A j \in 1 .. a : x[j] = d[j]
  <2> DEFINE one == 1
  <2>1. one \in Nat /\ 1 <= one /\ a <= Len(d)
    BY <1>2
  <2> HIDE DEF one, a
  <2>2. /\ SubSeq(d, one, a) \in Seq(Blocks)
        /\ Len(SubSeq(d, one, a)) = IF one <= a THEN a - one + 1 ELSE 0
        /\ \A j \in 1 .. a - one + 1 : SubSeq(d, one, a)[j] = d[one + j - 1]
    BY <1>1, <1>2, <2>1, PartFacts
  <2> HIDE DEF x
  <2>3. /\ x \in Seq(Blocks) /\ Len(x) = IF one <= a THEN a - one + 1 ELSE 0
        /\ \A j \in 1 .. a - one + 1 : x[j] = d[one + j - 1]
    BY <2>2 DEF x, one
  <2>4. /\ (IF one <= a THEN a - one + 1 ELSE 0) = a
        /\ \A j \in 1 .. a : j \in 1 .. a - one + 1 /\ one + j - 1 = j
    BY <1>2 DEF one
  <2> QED BY <2>3, <2>4
<1>4. z \in Seq(Blocks) /\ Len(z) = m /\ \A j \in 1 .. m : z[j] = d[a + j]
  <2> HIDE DEF n, a
  <2>1. /\ z \in Seq(Blocks) /\ Len(z) = IF i <= n THEN n - i + 1 ELSE 0
        /\ \A j \in 1 .. n - i + 1 : z[j] = d[i + j - 1]
    BY <1>1, <1>2, PartFacts DEF n
  <2>2. /\ (IF i <= n THEN n - i + 1 ELSE 0) = m
        /\ \A j \in 1 .. m : j \in 1 .. n - i + 1 /\ i + j - 1 = a + j
    BY <1>1, <1>2
  <2> HIDE DEF z, m
  <2> QED BY <2>1, <2>2
<1>5. y \in Seq(Blocks) /\ Len(y) = 1 /\ y[1] = b
  OBVIOUS
<1>6. new = InsertAt(d, i, b)
  BY DEF InsertAt
<1> HIDE DEF x, y, z, a, m
<1>7. InThree(x, y, z) /\ new \in Seq(Blocks)
  <2>1. InThree(x, y, z)
    BY <1>3, <1>4, <1>5, ThreeParts, Zenon
  <2>2. x \o y \in Seq(Blocks)
    BY <1>3, <1>5, ConcatProperties
  <2>3. new \in Seq(Blocks)
    BY <1>4, <2>2, ConcatProperties, Zenon
  <2> QED BY <2>1, <2>3
<1>8. /\ Len(new) = (a + 1) + m
      /\ \A j \in 1 .. (a + 1) + m :
            new[j] = IF j <= a THEN x[j] ELSE IF j <= a + 1 THEN y[j - a] ELSE z[j - (a + 1)]
  BY <1>3, <1>4, <1>5, <1>7, Zenon DEF InThree
<1> HIDE DEF new, n
<1>9. (a + 1) + m = n + 1
  BY <1>1, <1>2 DEF m, a
<1> DEFINE Old(j) == IF j <= a THEN j ELSE j - 1
<1>10. ASSUME NEW j \in 1 .. n + 1
       PROVE  IF j = i THEN new[j] = b ELSE Old(j) \in 1 .. n /\ new[j] = d[Old(j)]
  <2>1. CASE j <= a
    <3>1. j \in 1 .. a /\ j \in 1 .. n /\ j # i
      BY <1>1, <1>2, <2>1
    <3> QED BY <1>3, <1>8, <1>9, <2>1, <3>1
  <2>2. CASE j = i
    <3>1. ~ (j <= a) /\ j <= a + 1 /\ j - a = 1
      BY <1>2, <2>2
    <3> QED BY <1>5, <1>8, <1>9, <2>2, <3>1
  <2>3. CASE ~ (j <= a) /\ j # i
    <3>1. ~ (j <= a + 1) /\ j - (a + 1) \in 1 .. m /\ a + (j - (a + 1)) = j - 1 /\ j - 1 \in 1 .. n
      BY <1>1, <1>2, <1>9, <2>3
    <3>2. new[j] = z[j - (a + 1)] /\ z[j - (a + 1)] = d[a + (j - (a + 1))]
      BY <1>4, <1>8, <1>9, <2>3, <3>1
    <3> QED BY <2>3, <3>1, <3>2
  <2> QED BY <2>1, <2>2, <2>3
<1>11. i \in 1 .. n + 1 /\ new[i] = b
  <2>1. i \in 1 .. n + 1
    BY DEF n
  <2> QED BY <1>10, <2>1
<1>12. ASSUME NEW j \in 1 .. n + 1, NEW k \in 1 .. n + 1, new[j].id = new[k].id
       PROVE  j = k
  <2>1. CASE j = i \/ k = i
    <3>1. \A l \in 1 .. n + 1 : l # i => new[l].id \in IdsOf(d)
      <4> TAKE l \in 1 .. n + 1
      <4> HAVE l # i
      <4>1. Old(l) \in 1 .. n /\ new[l] = d[Old(l)]
        BY <1>10
      <4> HIDE DEF Old
      <4> QED BY <1>1, <4>1
    <3> QED BY <1>11, <1>12, <2>1, <3>1
  <2>2. CASE j # i /\ k # i
    <3>1. Old(j) \in 1 .. n /\ Old(k) \in 1 .. n /\ new[j] = d[Old(j)] /\ new[k] = d[Old(k)]
      BY <1>10, <2>2
    <3>2. Old(j) = Old(k)
      <4> HIDE DEF Old
      <4> QED BY <1>1, <1>12, <3>1
    <3> QED BY <1>1, <1>2, <2>2, <3>2
  <2> QED BY <2>1, <2>2
<1>13. new \in Document /\ DOMAIN new = 1 .. n + 1
  <2>1. new \in Document
    BY <1>7, <1>8, <1>9, <1>12, MakeDocument
  <2> QED BY <1>8, <1>9, <2>1, DocumentFacts
<1>14. IdsOf(new) = IdsOf(d) \cup {b.id}
  <2>1. ASSUME NEW j \in 1 .. n + 1 PROVE new[j].id \in IdsOf(d) \cup {b.id}
    <3>1. j # i => Old(j) \in 1 .. n /\ new[j] = d[Old(j)]
      BY <1>10
    <3> HIDE DEF Old
    <3> QED BY <1>1, <1>11, <3>1
  <2>2. ASSUME NEW k \in 1 .. n PROVE \E j \in 1 .. n + 1 : new[j].id = d[k].id
    <3>1. CASE k <= a
      <4>1. k \in 1 .. n + 1 /\ k # i /\ Old(k) = k
        BY <1>1, <1>2, <3>1
      <4>2. new[k] = d[Old(k)]
        BY <1>10, <4>1
      <4> HIDE DEF Old
      <4> QED BY <4>1, <4>2
    <3>2. CASE ~ (k <= a)
      <4>1. k + 1 \in 1 .. n + 1 /\ k + 1 # i /\ Old(k + 1) = k
        BY <1>1, <1>2, <3>2
      <4>2. new[k + 1] = d[Old(k + 1)]
        BY <1>10, <4>1
      <4> HIDE DEF Old
      <4> QED BY <4>1, <4>2
    <3> QED BY <3>1, <3>2
  <2>3. IdsOf(new) \subseteq IdsOf(d) \cup {b.id}
    BY <1>13, <2>1 DEF IdsOf
  <2>4. IdsOf(d) \subseteq IdsOf(new)
    <3>1. DOMAIN d = 1 .. n /\ DOMAIN new = 1 .. n + 1
      BY <1>1, <1>13
    <3> HIDE DEF Old
    <3> QED BY <2>2, <3>1, SMTT(30) DEF IdsOf
  <2>5. b.id \in IdsOf(new)
    BY <1>11, <1>13 DEF IdsOf
  <2> QED BY <2>3, <2>4, <2>5
<1> QED BY <1>6, <1>8, <1>9, <1>13, <1>14 DEF n

-----------------------------------------------------------------------------
(* The editor inside a handler. *)

Points == [block : Ids \cup {Default1, Default2}, offset : Nat]
MenuStates == {None} \cup [block : Ids, slash : BOOLEAN, query : Seq(Bytes)]
Editing == [doc : Document, anchor : Points, focus : Points, menu : MenuStates, dirty : BOOLEAN]

\* The ends of the selection are in the document, or will be moved there.
Anchored(e) == e.doc # <<>> => {e.anchor, e.focus} \subseteq Places(e.doc)
Fit(e) == e \in Editing /\ (e.dirty \/ Anchored(e))

\* One handler state follows another and has no new block; it has one if that had.
Within(e, f) == IdsOf(f.doc) \subseteq IdsOf(e.doc) /\ (e.doc # <<>> => f.doc # <<>>)

LEMMA EditingFacts ==
    ASSUME NEW e \in Editing
    PROVE  /\ e.doc \in Document /\ e.anchor \in Points /\ e.focus \in Points
           /\ e.menu \in MenuStates /\ e.dirty \in BOOLEAN
           /\ e.anchor.offset \in Nat /\ e.focus.offset \in Nat
BY DEF Editing, Points

LEMMA DocSet ==
    ASSUME NEW e \in Editing, NEW d \in Document
    PROVE  LET f == [e EXCEPT !.doc = d]
           IN  /\ f \in Editing /\ f.doc = d /\ f.anchor = e.anchor /\ f.focus = e.focus
               /\ f.menu = e.menu /\ f.dirty = e.dirty
BY DEF Editing

LEMMA PointMade ==
    ASSUME NEW id \in Ids, NEW k \in Nat
    PROVE  At(id, k) \in Points /\ At(id, k).block = id /\ At(id, k).offset = k
BY DEF At, Points

LEMMA CaretSet ==
    ASSUME NEW e \in Editing, NEW pos \in Points
    PROVE  /\ Caret(e, pos) \in Editing /\ Caret(e, pos).doc = e.doc
           /\ Caret(e, pos).anchor = pos /\ Caret(e, pos).focus = pos
           /\ Caret(e, pos).menu = e.menu /\ Caret(e, pos).dirty = e.dirty
BY DEF Caret, Editing

LEMMA DirtySet ==
    ASSUME NEW e \in Editing
    PROVE  /\ Dirty(e) \in Editing /\ Fit(Dirty(e)) /\ Dirty(e).dirty /\ Dirty(e).doc = e.doc
           /\ Dirty(e).anchor = e.anchor /\ Dirty(e).focus = e.focus /\ Dirty(e).menu = e.menu
BY DEF Dirty, Editing, Fit

LEMMA MenuSet ==
    ASSUME NEW e \in Editing, NEW m \in MenuStates
    PROVE  LET f == [e EXCEPT !.menu = m]
           IN  /\ f \in Editing /\ f.doc = e.doc /\ f.anchor = e.anchor /\ f.focus = e.focus
               /\ f.menu = m /\ f.dirty = e.dirty
BY DEF Editing

LEMMA MenuMade ==
    ASSUME NEW id \in Ids, NEW slash \in BOOLEAN
    PROVE  MenuOf(id, slash) \in MenuStates
BY DEF MenuOf, MenuStates

LEMMA WriteFacts ==
    ASSUME NEW e \in Editing, NEW i \in 1 .. Len(e.doc), NEW value \in Seq(Bytes)
    PROVE  LET f == Write(e, i, value)
           IN  /\ f \in Editing /\ Len(f.doc) = Len(e.doc) /\ IdsOf(f.doc) = IdsOf(e.doc)
               /\ \A j \in 1 .. Len(e.doc) : f.doc[j].id = e.doc[j].id
               /\ f.anchor = e.anchor /\ f.focus = e.focus /\ f.menu = e.menu /\ f.dirty = e.dirty
<1> DEFINE d == e.doc
           b == Block(d[i].id, d[i].kind, SetText(d[i].runs, value))
           new == [d EXCEPT ![i] = b]
<1>1. d \in Document
  BY EditingFacts
<1>2. d[i] \in Blocks /\ DOMAIN d = 1 .. Len(d)
  BY <1>1, DocumentFacts
<1>3. b \in Blocks /\ b.id = d[i].id
  <2>1. d[i].id \in Ids /\ d[i].kind \in Kinds /\ d[i].runs \in Contents
    BY <1>2, BlockFacts
  <2>2. SetText(d[i].runs, value) \in Contents
    BY <2>1, WrittenContent
  <2> HIDE DEF d
  <2> QED BY <2>1, <2>2, MakeBlock
<1>4. Write(e, i, value) = [e EXCEPT !.doc = new]
  <2>1. [d[i] EXCEPT !.runs = SetText(d[i].runs, value)] = b
    <3>1. d[i] = [id |-> d[i].id, kind |-> d[i].kind, runs |-> d[i].runs]
      BY <1>2 DEF Blocks
    <3> DEFINE c == d[i]
               t == SetText(c.runs, value)
    <3> HIDE DEF c, t
    <3>2. [c EXCEPT !.runs = t] = Block(c.id, c.kind, t)
      BY <3>1 DEF Block, c
    <3> QED BY <3>2 DEF c, t
  <2>2. Write(e, i, value) = [e EXCEPT !.doc = [d EXCEPT ![i] = [d[i] EXCEPT !.runs = SetText(d[i].runs, value)]]]
    BY DEF Write
  <2> QED BY <2>1, <2>2, Zenon
<1> HIDE DEF b
<1>5. /\ new \in Document /\ Len(new) = Len(d) /\ IdsOf(new) = IdsOf(d)
      /\ \A j \in 1 .. Len(d) : new[j].id = d[j].id
  BY <1>1, <1>3, BlockChanged
<1> HIDE DEF new
<1> QED BY <1>4, <1>5, DocSet

LEMMA NowFacts ==
    /\ Now.doc = doc /\ Now.anchor = anchor /\ Now.focus = focus /\ Now.menu = menu
    /\ Now.dirty = FALSE
    /\ TypeOK <=> Now \in Editing
    /\ SelectionAnchored <=> Anchored(Now)
<1>1. /\ Now.doc = doc /\ Now.anchor = anchor /\ Now.focus = focus /\ Now.menu = menu
      /\ Now.dirty = FALSE
  BY DEF Now
<1>2. TypeOK <=> doc \in Document /\ anchor \in Points /\ focus \in Points /\ menu \in MenuStates
  BY DEF TypeOK, Document, Points, MenuStates
<1>3. Now \in Editing <=> doc \in Document /\ anchor \in Points /\ focus \in Points /\ menu \in MenuStates
  BY DEF Now, Editing
<1>4. SelectionAnchored <=> Anchored(Now)
  BY <1>1 DEF SelectionAnchored, Anchored
<1> QED BY <1>1, <1>2, <1>3, <1>4

-----------------------------------------------------------------------------
(* Selections. *)

\* What Selection promises: two blocks in document order, offsets in their texts.
Selects(e, s) ==
    /\ s.first \in Nat
    /\ s.first # 0 =>
          /\ s.first \in 1 .. Len(e.doc) /\ s.last \in 1 .. Len(e.doc) /\ s.first <= s.last
          /\ s.from \in Nat /\ s.from <= Len(TextOf(e.doc[s.first]))
          /\ s.to \in Nat /\ s.to <= Len(TextOf(e.doc[s.last]))
          /\ s.from \in Boundaries(TextOf(e.doc[s.first])) /\ s.to \in Boundaries(TextOf(e.doc[s.last]))

LEMMA EndsFacts ==
    ASSUME NEW e \in Editing, NEW a \in Nat, NEW f \in Nat, NEW from \in Nat, NEW to \in Nat,
           a <= Len(e.doc), f <= Len(e.doc), a <= f
    PROVE  Selects(e, Ends(e.doc, a, f, from, to))
<1> DEFINE d == e.doc
           n == Len(d)
<1>1. d \in Document /\ n \in Nat
  BY EditingFacts, DocumentFacts
<1>2. CASE a = 0 \/ f = 0
  BY <1>2 DEF Ends, Selects
<1>3. CASE a # 0 /\ f # 0
  <2>1. a \in 1 .. n /\ f \in 1 .. n
    BY <1>1, <1>3
  <2>2. d[a] \in Blocks /\ d[f] \in Blocks
    BY <1>1, <2>1, DocumentFacts
  <2>3. /\ Clamp(TextOf(d[a]), from) \in Nat /\ Clamp(TextOf(d[a]), from) <= Len(TextOf(d[a]))
        /\ Clamp(TextOf(d[f]), to) \in Nat /\ Clamp(TextOf(d[f]), to) <= Len(TextOf(d[f]))
    BY <2>2, BlockFacts
  <2>5. /\ Clamp(TextOf(d[a]), from) \in Boundaries(TextOf(d[a]))
        /\ Clamp(TextOf(d[f]), to) \in Boundaries(TextOf(d[f]))
    <3>1. TextOf(d[a]) \in Seq(Bytes) /\ TextOf(d[f]) \in Seq(Bytes)
      BY <2>2, BlockFacts
    <3> QED BY <3>1, BoundaryFacts
  <2> DEFINE x == Clamp(TextOf(d[a]), from)
             y == Clamp(TextOf(d[f]), to)
             s == Ends(d, a, f, from, to)
  <2>4. s.first = a /\ s.from = x /\ s.last = f /\ s.to = y
    BY <1>3 DEF Ends
  <2> HIDE DEF x, y, s
  <2> QED BY <1>3, <2>1, <2>3, <2>4, <2>5 DEF Selects, x, y, s
<1> QED BY <1>2, <1>3

LEMMA SelectionFacts ==
    ASSUME NEW e \in Editing
    PROVE  Selects(e, Selection(e))
<1> DEFINE a == IndexOf(e.doc, e.anchor.block)
           f == IndexOf(e.doc, e.focus.block)
<1>1. /\ a \in Nat /\ a <= Len(e.doc) /\ f \in Nat /\ f <= Len(e.doc)
      /\ e.anchor.offset \in Nat /\ e.focus.offset \in Nat
  BY EditingFacts, IndexFacts
<1>2. Selection(e) = Between(e, a, f)
  BY DEF Selection
<1> HIDE DEF a, f
<1>3. CASE a < f \/ (a = f /\ e.anchor.offset <= e.focus.offset)
  <2>1. a <= f
    BY <1>1, <1>3
  <2>2. Between(e, a, f) = Ends(e.doc, a, f, e.anchor.offset, e.focus.offset)
    BY <1>3 DEF Between
  <2> QED BY <1>1, <1>2, <2>1, <2>2, EndsFacts
<1>4. CASE ~ (a < f \/ (a = f /\ e.anchor.offset <= e.focus.offset))
  <2>1. f <= a
    BY <1>1, <1>4
  <2>2. Between(e, a, f) = Ends(e.doc, f, a, e.focus.offset, e.anchor.offset)
    BY <1>4 DEF Between
  <2> QED BY <1>1, <1>2, <2>1, <2>2, EndsFacts
<1> QED BY <1>3, <1>4

LEMMA TextParts ==
    ASSUME NEW text \in Seq(Bytes), NEW at \in Nat
    PROVE  /\ After(text, at) \in Seq(Bytes)
           /\ at <= Len(text) => UpTo(text, at) \in Seq(Bytes)
<1>1. Len(text) \in Nat /\ at + 1 \in Nat /\ 1 <= at + 1
  OBVIOUS
<1>2. After(text, at) \in Seq(Bytes)
  <2> DEFINE m == at + 1
  <2> HIDE DEF m
  <2>1. SubSeq(text, m, Len(text)) \in Seq(Bytes)
    BY <1>1, PartFacts DEF m
  <2> QED BY <2>1 DEF After, m
<1>3. ASSUME at <= Len(text) PROVE UpTo(text, at) \in Seq(Bytes)
  <2>1. at \in 0 .. Len(text)
    BY <1>1, <1>3
  <2> QED BY <2>1, PrefixFacts DEF UpTo
<1> QED BY <1>2, <1>3

LEMMA JoinedFacts ==
    ASSUME NEW e \in Editing, NEW s, Selects(e, s), s.first # 0
    PROVE  Fit(Joined(e, s)) /\ Within(e, Joined(e, s)) /\ Joined(e, s).menu = e.menu
<1> DEFINE d == e.doc
           n == Len(d)
           i == s.first
           last == s.last
           value == UpTo(TextOf(d[i]), s.from) \o After(TextOf(d[last]), s.to)
           w == Write(e, i, value)
           kept == Kept(w.doc, i, last)
           f == [w EXCEPT !.doc = kept]
           pos == At(d[i].id, s.from)
<1>1. /\ d \in Document /\ i \in 1 .. n /\ last \in 1 .. n /\ i <= last
      /\ s.from \in Nat /\ s.from <= Len(TextOf(d[i])) /\ s.to \in Nat
      /\ n \in Nat
  BY EditingFacts, DocumentFacts DEF Selects
<1> HIDE DEF i, last
<1>2. d[i] \in Blocks /\ d[last] \in Blocks
  BY <1>1, DocumentFacts
<1>3. value \in Seq(Bytes) /\ pos \in Points
  <2>1. TextOf(d[i]) \in Seq(Bytes) /\ TextOf(d[last]) \in Seq(Bytes) /\ d[i].id \in Ids
    BY <1>2, BlockFacts
  <2>2. UpTo(TextOf(d[i]), s.from) \in Seq(Bytes) /\ After(TextOf(d[last]), s.to) \in Seq(Bytes)
    BY <1>1, <2>1, TextParts
  <2>3. value \in Seq(Bytes)
    BY <2>2, ConcatProperties
  <2>4. pos \in Points
    BY <1>1, <2>1, PointMade
  <2> QED BY <2>3, <2>4
<1> HIDE DEF value, pos
<1>4. w \in Editing /\ Len(w.doc) = n /\ IdsOf(w.doc) = IdsOf(d) /\ w.menu = e.menu
  BY <1>1, <1>3, WriteFacts
<1> HIDE DEF w
<1>5. kept \in Document /\ Len(kept) = i + (n - last) /\ IdsOf(kept) \subseteq IdsOf(d)
  <2>1. w.doc \in Document
    BY <1>4, EditingFacts
  <2>2. i \in Nat /\ last \in Nat /\ last <= Len(w.doc) /\ last <= n
    BY <1>1, <1>4
  <2>3. kept = SubSeq(w.doc, 1, i) \o SubSeq(w.doc, last + 1, Len(w.doc))
    BY DEF Kept
  <2> DEFINE part == SubSeq(w.doc, 1, i) \o SubSeq(w.doc, last + 1, Len(w.doc))
  <2>4. part \in Document /\ Len(part) = i + (Len(w.doc) - last) /\ IdsOf(part) \subseteq IdsOf(w.doc)
    BY <1>1, <2>1, <2>2, PartTaken
  <2> HIDE DEF part, kept
  <2>5. part = kept
    BY <2>3 DEF part
  <2> QED BY <1>4, <2>4, <2>5
<1> HIDE DEF kept
<1>6. kept # <<>>
  <2>1. i + (n - last) # 0
    BY <1>1
  <2> QED BY <1>5, <2>1, DocumentFacts
<1>7. f \in Editing /\ f.doc = kept /\ f.menu = e.menu
  BY <1>4, <1>5, DocSet
<1> HIDE DEF f
<1>8. Caret(f, pos) \in Editing /\ Caret(f, pos).doc = kept /\ Caret(f, pos).menu = e.menu
  BY <1>3, <1>7, CaretSet
<1>9. Joined(e, s) = Dirty(Caret(f, pos))
  BY DEF Joined, f, pos, kept, w, value, i, last
<1>10. Fit(Dirty(Caret(f, pos))) /\ Dirty(Caret(f, pos)).doc = kept /\ Dirty(Caret(f, pos)).menu = e.menu
  BY <1>8, DirtySet
<1> QED BY <1>5, <1>6, <1>9, <1>10 DEF Within

LEMMA DeleteFacts ==
    ASSUME NEW e, Fit(e)
    PROVE  /\ Fit(DeleteSelection(e)) /\ Within(e, DeleteSelection(e)) /\ DeleteSelection(e).menu = e.menu
           /\ Fit(CutSelection(e)) /\ CutSelection(e).menu = e.menu
<1>1. e \in Editing /\ Within(e, e)
  BY DEF Fit, Within
<1>2. Fit(DeleteSelection(e)) /\ Within(e, DeleteSelection(e)) /\ DeleteSelection(e).menu = e.menu
  <2> DEFINE s == Selection(e)
  <2>1. Selects(e, s)
    BY <1>1, SelectionFacts
  <2> HIDE DEF s
  <2>2. DeleteSelection(e) = IF Collapsed(e) \/ s.first = 0 THEN e ELSE Joined(e, s)
    BY DEF DeleteSelection, Cut, s
  <2>3. CASE Collapsed(e) \/ s.first = 0
    BY <1>1, <2>2, <2>3
  <2>4. CASE ~ (Collapsed(e) \/ s.first = 0)
    BY <1>1, <2>1, <2>2, <2>4, JoinedFacts
  <2> QED BY <2>3, <2>4
<1> QED BY <1>2 DEF CutSelection

-----------------------------------------------------------------------------
(* The editing operations keep the editor fit. *)

LEMMA SeededFacts ==
    ASSUME NEW e, Fit(e), NEW id, e.doc = <<>> => id \in Ids
    PROVE  LET f == Seeded(e, id)
           IN  /\ Fit(f) /\ f.doc # <<>> /\ f.menu = e.menu
               /\ IdsOf(f.doc) \subseteq IdsOf(e.doc) \cup {id}
<1> DEFINE b == Block(id, Paragraph, <<>>)
           pos == At(id, 0)
<1>1. e \in Editing
  BY DEF Fit
<1>2. CASE e.doc # <<>>
  BY <1>2 DEF Seeded
<1>3. CASE e.doc = <<>>
  <2>1. b \in Blocks /\ b.id = id /\ pos \in Points
    BY <1>3, NoContent, MakeBlock, PointMade DEF Kinds
  <2>2. <<b>> \in Document /\ IdsOf(<<b>>) = {id} /\ <<b>> # <<>>
    <3> HIDE DEF b
    <3> DEFINE w == <<b>>
    <3>1. w \in Seq(Blocks) /\ Len(w) = 1 /\ w[1] = b /\ DOMAIN w = 1 .. 1
      BY <2>1
    <3> HIDE DEF w
    <3>2. \A i \in 1 .. 1 : i = 1
      OBVIOUS
    <3>3. 1 \in 1 .. 1
      OBVIOUS
    <3>4. w \in Document
      <4>1. \A i, j \in 1 .. Len(w) : w[i].id = w[j].id => i = j
        BY <3>1, <3>2
      <4> QED BY <3>1, <4>1, MakeDocument
    <3>5. IdsOf(w) = {id}
      BY <2>1, <3>1, <3>2, <3>3 DEF IdsOf
    <3>6. w # <<>>
      BY <3>1, <3>4, DocumentFacts
    <3> QED BY <3>4, <3>5, <3>6 DEF w
  <2> DEFINE h == [e EXCEPT !.doc = <<b>>]
  <2>3. h \in Editing /\ h.doc = <<b>> /\ h.menu = e.menu
    BY <1>1, <2>2, DocSet
  <2>4. Seeded(e, id) = Dirty(Caret(h, pos))
    BY <1>3 DEF Seeded
  <2> HIDE DEF h, b, pos
  <2>5. Caret(h, pos) \in Editing /\ Caret(h, pos).doc = <<b>> /\ Caret(h, pos).menu = e.menu
    BY <2>1, <2>3, CaretSet
  <2>6. Fit(Dirty(Caret(h, pos))) /\ Dirty(Caret(h, pos)).doc = <<b>> /\ Dirty(Caret(h, pos)).menu = e.menu
    BY <2>5, DirtySet
  <2> QED BY <2>2, <2>4, <2>6
<1> QED BY <1>2, <1>3

LEMMA ConvertedFacts ==
    ASSUME NEW e \in Editing, e.dirty, e.focus.block \in Ids, NEW i \in 1 .. Len(e.doc),
           NEW value \in Seq(Bytes)
    PROVE  Fit(Converted(e, i, value))
<1>1. Fit(e) /\ e.doc \in Document /\ e.doc[i] \in Blocks /\ e.doc[i].id \in Ids
  BY EditingFacts, DocumentFacts, BlockFacts DEF Fit
<1>2. CASE e.doc[i].kind # Paragraph
  BY <1>1, <1>2 DEF Converted
<1>3. CASE e.doc[i].kind = Paragraph /\ IsPrefix(Marker, value)
  <2> DEFINE d == e.doc
             b == Block(d[i].id, Heading, d[i].runs)
             new == [d EXCEPT ![i] = b]
             g == [e EXCEPT !.doc = new]
             rest == After(value, Len(Marker))
             w == Write(g, i, rest)
             pos == At(d[i].id, 0)
  <2>1. b \in Blocks /\ b.id = d[i].id
    <3>1. d[i].runs \in Contents
      BY <1>1, BlockFacts
    <3> QED BY <1>1, <3>1, MakeBlock DEF Kinds
  <2>2. [e EXCEPT !.doc[i].kind = Heading] = g
    <3>1. d[i] = [id |-> d[i].id, kind |-> d[i].kind, runs |-> d[i].runs]
      BY <1>1 DEF Blocks
    <3>2. [d[i] EXCEPT !.kind = Heading] = b
      <4> DEFINE c == d[i]
      <4> HIDE DEF c
      <4>1. [c EXCEPT !.kind = Heading] = Block(c.id, Heading, c.runs)
        BY <3>1 DEF Block, c
      <4> QED BY <4>1 DEF c
    <3>3. [e EXCEPT !.doc[i].kind = Heading] = [e EXCEPT !.doc = [d EXCEPT ![i] = [d[i] EXCEPT !.kind = Heading]]]
      OBVIOUS
    <3> QED BY <3>2, <3>3, Zenon
  <2> HIDE DEF b
  <2>3. new \in Document /\ Len(new) = Len(d)
    BY <1>1, <2>1, BlockChanged
  <2> HIDE DEF new
  <2>4. g \in Editing /\ g.doc = new /\ g.dirty = e.dirty
    BY <2>3, DocSet
  <2> HIDE DEF g
  <2>5. rest \in Seq(Bytes)
    <3>1. Len(Marker) \in Nat
      BY ContentsAssumption
    <3> QED BY <3>1, TextParts
  <2> HIDE DEF rest
  <2>6. w \in Editing /\ w.dirty = e.dirty
    BY <2>3, <2>4, <2>5, WriteFacts
  <2> HIDE DEF w
  <2>7. pos \in Points
    BY <1>1, PointMade
  <2> HIDE DEF pos
  <2>8. Caret(w, pos) \in Editing /\ Caret(w, pos).dirty = e.dirty
    BY <2>6, <2>7, CaretSet
  <2>9. Converted(e, i, value) = Caret(w, pos)
    BY <1>3, <2>2 DEF Converted, w, pos, rest
  <2> QED BY <2>8, <2>9 DEF Fit
<1>4. CASE e.doc[i].kind = Paragraph /\ ~ IsPrefix(Marker, value) /\ value = Slash
  <2> DEFINE m == MenuOf(e.focus.block, TRUE)
             g == [e EXCEPT !.menu = m]
  <2>1. m \in MenuStates
    BY MenuMade
  <2>2. Converted(e, i, value) = g
    BY <1>4 DEF Converted
  <2> HIDE DEF m
  <2>3. g \in Editing /\ g.dirty = e.dirty
    BY <2>1, MenuSet
  <2> QED BY <2>2, <2>3 DEF Fit
<1>5. CASE e.doc[i].kind = Paragraph /\ ~ IsPrefix(Marker, value) /\ value # Slash
  BY <1>1, <1>5 DEF Converted
<1> QED BY <1>2, <1>3, <1>4, <1>5

LEMMA TypedFacts ==
    ASSUME NEW e, Fit(e), NEW text \in Seq(Bytes)
    PROVE  Fit(TypeAtFocus(e, text))
<1> DEFINE d == e.doc
           i == IndexOf(d, e.focus.block)
           at == Clamp(TextOf(d[i]), e.focus.offset)
           value == UpTo(TextOf(d[i]), at) \o text \o After(TextOf(d[i]), at)
           w == Write(e, i, value)
           pos0 == At(e.doc[i].id, at + Len(text))
           g == Dirty(Caret(w, pos0))
<1>1. e \in Editing /\ d \in Document /\ e.focus.offset \in Nat
  BY EditingFacts DEF Fit
<1>2. CASE i = 0
  BY <1>2 DEF TypeAtFocus, TypeIn
<1>3. CASE i # 0
  <2>1. i \in 1 .. Len(d) /\ d[i] \in Blocks /\ d[i].id \in Ids
    BY <1>1, <1>3, IndexFacts, BlockFacts
  <2> HIDE DEF i
  <2>2. TextOf(d[i]) \in Seq(Bytes) /\ at \in Nat /\ at <= Len(TextOf(d[i]))
    BY <1>1, <2>1, BlockFacts
  <2> HIDE DEF at
  <2>3. value \in Seq(Bytes)
    <3>1. UpTo(TextOf(d[i]), at) \in Seq(Bytes) /\ After(TextOf(d[i]), at) \in Seq(Bytes)
      BY <2>2, TextParts
    <3> DEFINE x == UpTo(TextOf(d[i]), at)
               y == After(TextOf(d[i]), at)
    <3>2. x \in Seq(Bytes) /\ y \in Seq(Bytes)
      BY <3>1
    <3> HIDE DEF x, y
    <3>3. x \o text \o y \in Seq(Bytes)
      BY <3>2
    <3> QED BY <3>3 DEF x, y
  <2> HIDE DEF value
  <2>4. /\ w \in Editing /\ Len(w.doc) = Len(d)
    BY <1>1, <2>1, <2>3, WriteFacts
  <2> HIDE DEF w
  <2>5. pos0 \in Points /\ pos0.block = d[i].id
    <3>1. at + Len(text) \in Nat
      BY <2>2
    <3> QED BY <2>1, <3>1, PointMade
  <2> HIDE DEF pos0
  <2>6. Caret(w, pos0) \in Editing /\ Caret(w, pos0).doc = w.doc /\ Caret(w, pos0).focus = pos0
    BY <2>4, <2>5, CaretSet
  <2>7. g \in Editing /\ g.dirty /\ g.doc = w.doc /\ g.focus = pos0
    BY <2>6, DirtySet
  <2>8. TypeAtFocus(e, text) = Converted(g, i, value)
    BY <1>3 DEF TypeAtFocus, TypeIn, TypeAt, Typed, g, w, pos0, value, at, i
  <2> HIDE DEF g
  <2>9. Fit(Converted(g, i, value))
    BY <2>1, <2>3, <2>4, <2>5, <2>7, ConvertedFacts
  <2> QED BY <2>8, <2>9
<1> QED BY <1>2, <1>3

LEMMA InsertTextFacts ==
    ASSUME NEW e, Fit(e), NEW text \in Seq(Bytes), NEW seed, e.doc = <<>> => seed \in Ids
    PROVE  Fit(InsertText(e, text, seed))
<1> DEFINE f == DeleteSelection(e)
           g == Seeded(f, seed)
<1>1. Fit(f) /\ Within(e, f)
  BY DeleteFacts
<1> HIDE DEF f
<1>2. Fit(g)
  BY <1>1, SeededFacts DEF Within
<1> HIDE DEF g
<1>3. Fit(TypeAtFocus(g, text))
  BY <1>2, TypedFacts
<1> QED BY <1>3 DEF InsertText, f, g

\* A block lands in the document: where it was asked for, if no twins are there.
LEMMA LandedFacts ==
    ASSUME NEW d, Len(d) \in Nat, NEW i \in 1 .. Len(d) + 1, NEW b, NEW past \in Nat
    PROVE  /\ \E j \in 1 .. Len(d) + 1 : i <= j /\ j <= i + past /\ Landed(d, i, b, past) = InsertAt(d, j, b)
           /\ Landed(d, i, b, 0) = InsertAt(d, i, b)
<1>1. ASSUME NEW p \in Nat
      PROVE  \E j \in 1 .. Len(d) + 1 : i <= j /\ j <= i + p /\ Landed(d, i, b, p) = InsertAt(d, j, b)
  <2> DEFINE n == Len(d) + 1
             m == i + p
             S == {m, n}
             j == Min(S)
  <2>1. Landed(d, i, b, p) = InsertAt(d, j, b)
    BY DEF Landed
  <2>2. m \in Nat /\ n \in Nat /\ i \in Nat /\ 1 <= i /\ i <= m /\ i <= n
    OBVIOUS
  <2>3. S \in SUBSET Nat /\ S # {} /\ m \in S /\ n \in S /\ \A x \in S : x = m \/ x = n
    BY <2>2
  <2> HIDE DEF S
  <2>4. j \in S /\ j <= m /\ j <= n
    BY <2>3, LeastIs
  <2> HIDE DEF j, m, n
  <2>5. j \in 1 .. n /\ i <= j /\ j <= m
    BY <2>2, <2>3, <2>4
  <2> QED BY <2>1, <2>5 DEF m, n
<1>2. Landed(d, i, b, 0) = InsertAt(d, i, b)
  <2>1. PICK j \in 1 .. Len(d) + 1 : i <= j /\ j <= i + 0 /\ Landed(d, i, b, 0) = InsertAt(d, j, b)
    BY <1>1
  <2>2. j = i
    BY <2>1
  <2> QED BY <2>1, <2>2
<1> QED BY <1>1, <1>2

LEMMA SplitAtFacts ==
    ASSUME NEW e, Fit(e), NEW id \in Ids, id \notin IdsOf(e.doc), NEW past \in Nat
    PROVE  Fit(SplitAtFocus(e, id, past))
<1> DEFINE d == e.doc
           i == IndexOf(d, e.focus.block)
           at == Clamp(TextOf(d[i]), e.focus.offset)
           left == UpTo(TextOf(d[i]), at)
           right == SetText(<<>>, After(TextOf(d[i]), at))
           b == Block(id, Paragraph, right)
           w == Write(e, i, left)
           new == Landed(w.doc, i + 1, b, past)
           f == [w EXCEPT !.doc = new]
           pos == At(id, 0)
<1>1. e \in Editing /\ d \in Document /\ e.focus.offset \in Nat
  BY EditingFacts DEF Fit
<1>2. CASE i = 0
  BY <1>2 DEF SplitAtFocus, SplitIn
<1>3. CASE i # 0
  <2>1. i \in 1 .. Len(d) /\ d[i] \in Blocks
    BY <1>1, <1>3, IndexFacts
  <2> HIDE DEF i
  <2>2. TextOf(d[i]) \in Seq(Bytes) /\ at \in Nat /\ at <= Len(TextOf(d[i]))
    BY <1>1, <2>1, BlockFacts
  <2> HIDE DEF at
  <2>3. left \in Seq(Bytes) /\ After(TextOf(d[i]), at) \in Seq(Bytes)
    BY <2>2, TextParts
  <2>4. b \in Blocks /\ b.id = id
    <3>1. right \in Contents
      BY <2>3, NoContent, WrittenContent
    <3> HIDE DEF right
    <3> QED BY <3>1, MakeBlock DEF Kinds
  <2> HIDE DEF left, b
  <2>5. w \in Editing /\ Len(w.doc) = Len(d) /\ IdsOf(w.doc) = IdsOf(d)
    BY <1>1, <2>1, <2>3, WriteFacts
  <2> HIDE DEF w
  <2>6. new \in Document
    <3> DEFINE j == i + 1
               u == w.doc
    <3>1. j \in 1 .. Len(u) + 1 /\ u \in Document /\ b.id \notin IdsOf(u)
      <4>1. Len(d) \in Nat /\ Len(u) = Len(d)
        BY <1>1, <2>5, DocumentFacts
      <4>2. j \in 1 .. Len(u) + 1
        BY <2>1, <4>1
      <4> QED BY <2>4, <2>5, <4>2, EditingFacts
    <3> HIDE DEF j, u
    <3>2. Len(u) \in Nat
      BY <3>1, DocumentFacts
    <3>3. PICK k \in 1 .. Len(u) + 1 : Landed(u, j, b, past) = InsertAt(u, k, b)
      BY <3>1, <3>2, LandedFacts
    <3>4. InsertAt(u, k, b) \in Document
      BY <2>4, <3>1, BlockInserted
    <3> QED BY <3>3, <3>4 DEF j, u
  <2> HIDE DEF new
  <2>7. f \in Editing
    BY <2>5, <2>6, DocSet
  <2> HIDE DEF f
  <2>8. pos \in Points
    BY PointMade
  <2> HIDE DEF pos
  <2>9. Fit(Dirty(Caret(f, pos)))
    BY <2>7, <2>8, CaretSet, DirtySet
  <2>10. SplitAtFocus(e, id, past) = Dirty(Caret(f, pos))
    BY <1>3 DEF SplitAtFocus, SplitIn, SplitAt, f, pos, new, w, left, b, at, i
  <2> QED BY <2>9, <2>10
<1> QED BY <1>2, <1>3

LEMMA SplitEditFacts ==
    ASSUME NEW e, Fit(e), NEW seed, e.doc = <<>> => seed \in Ids,
           NEW id \in Ids, id \notin IdsOf(e.doc), id # seed, NEW past \in Nat
    PROVE  Fit(Split(e, seed, id, past))
<1> DEFINE f == DeleteSelection(e)
           g == Seeded(f, seed)
<1>1. Fit(f) /\ Within(e, f)
  BY DeleteFacts
<1> HIDE DEF f
<1>2. Fit(g) /\ IdsOf(g.doc) \subseteq IdsOf(f.doc) \cup {seed}
  BY <1>1, SeededFacts DEF Within
<1> HIDE DEF g
<1>3. id \notin IdsOf(g.doc)
  BY <1>1, <1>2 DEF Within
<1>4. Fit(SplitAtFocus(g, id, past))
  BY <1>2, <1>3, SplitAtFacts
<1> QED BY <1>4 DEF Split, f, g

LEMMA MergeFacts ==
    ASSUME NEW e \in Editing, NEW i \in 1 .. Len(e.doc), i > 1
    PROVE  Merge(e, i) \in Editing
<1> DEFINE d == e.doc
           h == i - 1
           x == TextOf(d[h])
           y == TextOf(d[i])
           w == Write(e, h, x \o y)
           u == w.doc
           new == RemoveAt(u, i)
<1>1. d \in Document /\ Len(d) \in Nat
  BY EditingFacts, DocumentFacts
<1>2. h \in 1 .. Len(d)
  BY <1>1
<1> HIDE DEF h
<1>3. x \in Seq(Bytes) /\ y \in Seq(Bytes)
  <2>1. d[h] \in Blocks /\ d[i] \in Blocks
    BY <1>1, <1>2, DocumentFacts
  <2> QED BY <2>1, BlockFacts
<1> HIDE DEF x, y
<1>4. w \in Editing /\ Len(u) = Len(d)
  <2> DEFINE z == x \o y
  <2>1. z \in Seq(Bytes)
    BY <1>3, ConcatProperties
  <2> HIDE DEF z
  <2>2. Write(e, h, z) \in Editing /\ Len(Write(e, h, z).doc) = Len(e.doc)
    BY <1>2, <2>1, WriteFacts
  <2> QED BY <2>2 DEF z
<1> HIDE DEF w
<1>5. new \in Document
  <2>1. u \in Document /\ i \in 1 .. Len(u)
    BY <1>4, EditingFacts
  <2> HIDE DEF u
  <2> QED BY <2>1, BlockRemoved
<1> HIDE DEF new
<1>6. [w EXCEPT !.doc = new] \in Editing
  BY <1>4, <1>5, DocSet
<1> QED BY <1>6 DEF Merge, new, u, w, x, y, h

\* The nearest borders of characters are in the text.
LEMMA NearBoundaries ==
    ASSUME NEW text \in Seq(Bytes), NEW at \in Nat, at <= Len(text)
    PROVE  /\ PrevBoundary(text, at) \in Nat /\ PrevBoundary(text, at) <= Len(text)
           /\ NextBoundary(text, at) \in Nat
<1> DEFINE n == Len(text)
           S == {0} \cup {k \in Boundaries(text) : k < at}
           T == {n} \cup {k \in Boundaries(text) : k > at}
<1>1. n \in Nat /\ Boundaries(text) \in SUBSET (0 .. n)
  BY BoundaryFacts
<1>2. S \in SUBSET (0 .. n) /\ S # {}
  BY <1>1
<1>3. Max(S) \in 0 .. n
  <2> HIDE DEF S, n
  <2> QED BY <1>1, <1>2, GreatestIs
<1>4. T \in SUBSET Nat /\ T # {}
  BY <1>1
<1>5. Min(T) \in Nat
  <2> HIDE DEF T
  <2> QED BY <1>4, LeastIs
<1> QED BY <1>1, <1>3, <1>5 DEF PrevBoundary, NextBoundary

\* Taking text out of a block.
LEMMA WithoutFacts ==
    ASSUME NEW e \in Editing, NEW i \in 1 .. Len(e.doc), NEW from \in Nat, NEW to \in Nat,
           from <= Len(TextOf(e.doc[i]))
    PROVE  Write(e, i, Without(TextOf(e.doc[i]), from, to)) \in Editing
<1> DEFINE text == TextOf(e.doc[i])
           x == UpTo(text, from)
           y == After(text, to)
           z == x \o y
<1>1. e.doc[i] \in Blocks
  BY EditingFacts, DocumentFacts
<1>2. text \in Seq(Bytes)
  BY <1>1, BlockFacts
<1>3. x \in Seq(Bytes) /\ y \in Seq(Bytes)
  <2> HIDE DEF text
  <2> QED BY <1>2, TextParts DEF text
<1> HIDE DEF x, y
<1>4. z \in Seq(Bytes)
  BY <1>3, ConcatProperties
<1> HIDE DEF z
<1>5. Write(e, i, z) \in Editing
  BY <1>4, WriteFacts
<1> QED BY <1>5 DEF Without, z, x, y

LEMMA BackInFacts ==
    ASSUME NEW e, Fit(e)
    PROVE  Fit(BackIn(e, IndexOf(e.doc, e.focus.block)))
<1> DEFINE d == e.doc
           i == IndexOf(d, e.focus.block)
           text == TextOf(d[i])
           at == Clamp(text, e.focus.offset)
           to == PrevBoundary(text, at)
<1>1. e \in Editing /\ d \in Document /\ e.focus.offset \in Nat /\ Len(d) \in Nat
  BY EditingFacts, DocumentFacts DEF Fit
<1>2. CASE i = 0
  BY <1>2 DEF BackIn
<1>3. CASE i # 0
  <2>1. i \in 1 .. Len(d) /\ d[i] \in Blocks /\ d[i].id = e.focus.block
    BY <1>1, <1>3, IndexFacts
  <2> HIDE DEF i
  <2>2. text \in Seq(Bytes) /\ at \in Nat /\ at <= Len(text) /\ e.focus.block \in Ids
    BY <1>1, <2>1, BlockFacts
  <2> HIDE DEF at
  <2>3. to \in Nat /\ to <= Len(text)
    <3> HIDE DEF text
    <3> QED BY <2>2, NearBoundaries
  <2> HIDE DEF to
  <2>4. CASE e.focus.offset > 0
    <3> DEFINE w == Write(e, i, Without(text, to, at))
               pos == At(e.focus.block, to)
    <3>1. w \in Editing
      BY <1>1, <2>1, <2>2, <2>3, WithoutFacts
    <3>2. pos \in Points
      BY <2>2, <2>3, PointMade
    <3>3. BackIn(e, i) = Dirty(Caret(w, pos))
      BY <1>3, <2>4 DEF BackIn, EraseBack, to, at, i
    <3> HIDE DEF w, pos
    <3> QED BY <3>1, <3>2, <3>3, CaretSet, DirtySet DEF i
  <2>5. CASE ~ (e.focus.offset > 0) /\ i > 1
    <3> DEFINE h == i - 1
               w == Merge(e, i)
               pos == At(d[h].id, Len(TextOf(d[h])))
    <3>1. w \in Editing
      BY <1>1, <2>1, <2>5, MergeFacts
    <3>2. pos \in Points
      <4>1. h \in 1 .. Len(d)
        BY <1>1, <2>1, <2>5
      <4> HIDE DEF h
      <4>2. d[h] \in Blocks
        BY <1>1, <4>1, DocumentFacts
      <4>3. d[h].id \in Ids /\ Len(TextOf(d[h])) \in Nat
        BY <4>2, BlockFacts
      <4> QED BY <4>3, PointMade
    <3>3. BackIn(e, i) = Dirty(Caret(w, pos))
      BY <1>3, <2>5 DEF BackIn, i
    <3> HIDE DEF w, pos
    <3> QED BY <3>1, <3>2, <3>3, CaretSet, DirtySet DEF i
  <2>6. CASE ~ (e.focus.offset > 0) /\ ~ (i > 1)
    <3>1. BackIn(e, i) = Dirty(e)
      BY <1>3, <2>6 DEF BackIn, i
    <3> QED BY <1>1, <3>1, DirtySet DEF i
  <2> QED BY <2>4, <2>5, <2>6
<1> QED BY <1>2, <1>3

LEMMA ForwardInFacts ==
    ASSUME NEW e, Fit(e)
    PROVE  Fit(ForwardIn(e, IndexOf(e.doc, e.focus.block)))
<1> DEFINE d == e.doc
           i == IndexOf(d, e.focus.block)
           text == TextOf(d[i])
           at == Clamp(text, e.focus.offset)
           to == NextBoundary(text, at)
<1>1. e \in Editing /\ d \in Document /\ e.focus.offset \in Nat /\ Len(d) \in Nat
  BY EditingFacts, DocumentFacts DEF Fit
<1>2. CASE i = 0
  BY <1>2 DEF ForwardIn
<1>3. CASE i # 0
  <2>1. i \in 1 .. Len(d) /\ d[i] \in Blocks
    BY <1>1, <1>3, IndexFacts
  <2> HIDE DEF i
  <2>2. text \in Seq(Bytes) /\ at \in Nat /\ at <= Len(text)
    BY <1>1, <2>1, BlockFacts
  <2> HIDE DEF at
  <2>3. to \in Nat
    <3> HIDE DEF text
    <3> QED BY <2>2, NearBoundaries
  <2> HIDE DEF to
  <2>4. CASE e.focus.offset < Len(TextOf(d[i]))
    <3> DEFINE w == Write(e, i, Without(text, at, to))
    <3>1. w \in Editing
      BY <1>1, <2>1, <2>2, <2>3, WithoutFacts
    <3>2. ForwardIn(e, i) = Dirty(w)
      BY <1>3, <2>4 DEF ForwardIn, EraseForward, to, at, i
    <3> HIDE DEF w
    <3> QED BY <3>1, <3>2, DirtySet DEF i
  <2>5. CASE ~ (e.focus.offset < Len(TextOf(d[i]))) /\ i < Len(d)
    <3> DEFINE h == i + 1
    <3>1. h \in 1 .. Len(d) /\ h > 1
      BY <1>1, <2>1, <2>5
    <3> HIDE DEF h
    <3>2. Merge(e, h) \in Editing
      BY <1>1, <3>1, MergeFacts
    <3>3. ForwardIn(e, i) = Dirty(Merge(e, h))
      BY <1>3, <2>5 DEF ForwardIn, i, h
    <3> QED BY <3>2, <3>3, DirtySet DEF i
  <2>6. CASE ~ (e.focus.offset < Len(TextOf(d[i]))) /\ ~ (i < Len(d))
    <3>1. ForwardIn(e, i) = Dirty(e)
      BY <1>3, <2>6 DEF ForwardIn, i
    <3> QED BY <1>1, <3>1, DirtySet DEF i
  <2> QED BY <2>4, <2>5, <2>6
<1> QED BY <1>2, <1>3

LEMMA EraseFacts ==
    ASSUME NEW e, Fit(e)
    PROVE  Fit(Backspace(e)) /\ Fit(DeleteForward(e))
<1>1. CASE Collapsed(e)
  BY <1>1, BackInFacts, ForwardInFacts DEF Backspace, DeleteForward
<1>2. CASE ~ Collapsed(e)
  BY <1>2, DeleteFacts DEF Backspace, DeleteForward
<1> QED BY <1>1, <1>2

LEMMA ToggledContent ==
    ASSUME NEW runs \in Contents, NEW from \in Nat, NEW to \in Nat
    PROVE  Toggle(runs, from, to) \in Contents
<1> DEFINE on == ~ RangeMarked(runs, from, to, Bold)
           new == MarkRange(runs, from, to, Bold, on)
<1>1. runs \in Seq(TextRun) /\ Bold \in Marks
  BY ContentIs, ContentsAssumption
<1> HIDE DEF on
<1>2. /\ MarkRange(runs, from, to, Bold, on) \in Seq(TextRun)
      /\ \/ MarkRange(runs, from, to, Bold, on) = runs
         \/ IsNormal(MarkRange(runs, from, to, Bold, on))
  BY <1>1, MarkRangeMarks
<1>3. new \in Contents
  BY <1>2 DEF Contents
<1>4. Toggle(runs, from, to) = IF from < to THEN new ELSE runs
  BY DEF Toggle, on
<1> HIDE DEF new
<1> QED BY <1>3, <1>4

LEMMA ToggleFacts ==
    ASSUME NEW e, Fit(e)
    PROVE  Fit(ToggleMark(e))
<1> DEFINE d == e.doc
           s == Selection(e)
           From0(i) == IF i = s.first THEN s.from ELSE 0
           To0(i) == IF i = s.last THEN s.to ELSE Len(TextOf(d[i]))
           one(i) == IF i \notin s.first .. s.last THEN d[i]
                     ELSE [d[i] EXCEPT !.runs = Toggle(@, From0(i), To0(i))]
           new == [i \in DOMAIN d |-> one(i)]
           f == [e EXCEPT !.doc = new]
<1>1. e \in Editing /\ d \in Document
  BY EditingFacts DEF Fit
<1>2. Selects(e, s)
  BY <1>1, SelectionFacts
<1>3. ToggleMark(e) = IF Collapsed(e) \/ s.first = 0 THEN e ELSE Dirty(f)
  BY DEF ToggleMark, ToggleIn, ToggleBlocks
<1> HIDE DEF s
<1>4. CASE Collapsed(e) \/ s.first = 0
  BY <1>3, <1>4
<1>5. CASE ~ (Collapsed(e) \/ s.first = 0)
  <2>1. ASSUME NEW i \in 1 .. Len(d) PROVE one(i) \in Blocks /\ one(i).id = d[i].id
    <3>1. d[i] \in Blocks
      BY <1>1, DocumentFacts
    <3>2. CASE i \notin s.first .. s.last
      BY <3>1, <3>2
    <3>3. CASE i \in s.first .. s.last
      <4>1. From0(i) \in Nat /\ To0(i) \in Nat
        BY <1>2, <1>5, <3>1, BlockFacts DEF Selects
      <4> DEFINE from == From0(i)
                 to == To0(i)
                 b == d[i]
                 t == Toggle(b.runs, from, to)
      <4>2. from \in Nat /\ to \in Nat /\ b \in Blocks /\ b.runs \in Contents
        BY <3>1, <4>1, BlockFacts
      <4>3. one(i) = [b EXCEPT !.runs = t]
        BY <3>3
      <4> HIDE DEF from, to, b, one
      <4>4. t \in Contents
        BY <4>2, ToggledContent
      <4> HIDE DEF t
      <4>5. [b EXCEPT !.runs = t] \in Blocks /\ [b EXCEPT !.runs = t].id = b.id
        BY <4>2, <4>4 DEF Blocks
      <4> QED BY <4>3, <4>5 DEF b
    <3> QED BY <3>2, <3>3
  <2>2. new = [i \in DOMAIN d |-> new[i]] /\ \A i \in 1 .. Len(d) : new[i] = one(i)
    <3>1. DOMAIN d = 1 .. Len(d)
      BY <1>1, DocumentFacts
    <3> HIDE DEF one
    <3> QED BY <3>1
  <2>3. \A i \in 1 .. Len(d) : new[i] \in Blocks /\ new[i].id = d[i].id
    <3> HIDE DEF one, new
    <3> QED BY <2>1, <2>2
  <2> HIDE DEF new
  <2>4. new \in Document
    BY <1>1, <2>2, <2>3, BlocksChanged
  <2>5. f \in Editing
    BY <1>1, <2>4, DocSet
  <2> HIDE DEF f
  <2> QED BY <1>3, <1>5, <2>5, DirtySet
<1> QED BY <1>4, <1>5

LEMMA KindFacts ==
    ASSUME NEW e, Fit(e), NEW kind \in Kinds
    PROVE  Fit(SetSelectedKind(e, kind))
<1> DEFINE d == e.doc
           s == Selection(e)
           one(i) == IF i \in s.first .. s.last THEN [d[i] EXCEPT !.kind = kind] ELSE d[i]
           new == [i \in DOMAIN d |-> one(i)]
           f == [e EXCEPT !.doc = new]
<1>1. e \in Editing /\ d \in Document
  BY EditingFacts DEF Fit
<1>2. SetSelectedKind(e, kind) = IF s.first = 0 THEN e ELSE Dirty(f)
  BY DEF SetSelectedKind, KindIn
<1> HIDE DEF s
<1>3. ASSUME NEW i \in 1 .. Len(d) PROVE one(i) \in Blocks /\ one(i).id = d[i].id
  <2>1. d[i] \in Blocks
    BY <1>1, DocumentFacts
  <2> DEFINE b == d[i]
  <2> HIDE DEF b
  <2>2. [b EXCEPT !.kind = kind] \in Blocks /\ [b EXCEPT !.kind = kind].id = b.id
    BY <2>1 DEF Blocks, b
  <2> QED BY <2>1, <2>2 DEF b
<1>4. new = [i \in DOMAIN d |-> new[i]] /\ \A i \in 1 .. Len(d) : new[i] = one(i)
  <2>1. DOMAIN d = 1 .. Len(d)
    BY <1>1, DocumentFacts
  <2> HIDE DEF one
  <2> QED BY <2>1
<1>5. \A i \in 1 .. Len(d) : new[i] \in Blocks /\ new[i].id = d[i].id
  <2> HIDE DEF one, new
  <2> QED BY <1>3, <1>4
<1> HIDE DEF new
<1>6. new \in Document
  BY <1>1, <1>4, <1>5, BlocksChanged
<1>7. f \in Editing
  BY <1>1, <1>6, DocSet
<1> HIDE DEF f
<1> QED BY <1>2, <1>7, DirtySet

LEMMA DismissedFacts ==
    ASSUME NEW e \in Editing
    PROVE  /\ Dismissed(e) \in Editing /\ Dismissed(e).doc = e.doc
           /\ Dismissed(e).anchor = e.anchor /\ Dismissed(e).focus = e.focus
           /\ Dismissed(e).dirty = e.dirty
           /\ Fit(e) => Fit(Dismissed(e))
<1> DEFINE f == [e EXCEPT !.menu = None]
<1>1. /\ f \in Editing /\ f.doc = e.doc /\ f.anchor = e.anchor /\ f.focus = e.focus
      /\ f.dirty = e.dirty
  BY MenuSet DEF MenuStates
<1>2. Dismissed(e) = IF e.menu # None /\ ~ e.menu.slash THEN f ELSE e
  BY DEF Dismissed
<1> HIDE DEF f
<1>3. Fit(e) => Fit(f)
  BY <1>1 DEF Fit, Anchored
<1> QED BY <1>1, <1>2, <1>3

-----------------------------------------------------------------------------
(* What follows every event. *)

LEMMA PlaceMade ==
    ASSUME NEW d \in Document, NEW i \in 1 .. Len(d), NEW k \in Boundaries(TextOf(d[i]))
    PROVE  At(d[i].id, k) \in Places(d)
<1>1. i \in DOMAIN d
  BY DocumentFacts
<1> QED BY <1>1 DEF Places

\* A position moved after the layouts are rebuilt is in the document.
LEMMA ReconciledFacts ==
    ASSUME NEW d \in Document, NEW old \in Document, NEW pos \in Points
    PROVE  /\ Reconciled(pos, old, d) \in Points
           /\ d # <<>> => Reconciled(pos, old, d) \in Places(d)
<1> DEFINE i == IndexOf(d, pos.block)
           slot == IndexOf(old, pos.block)
           n == Len(d)
<1>1. n \in Nat /\ (d = <<>> <=> n = 0)
  BY DocumentFacts
<1>2. slot \in Nat
  BY IndexFacts
<1>3. Reconciled(pos, old, d) = IF i # 0 THEN Clamped(pos, d[i]) ELSE MovedTo(pos, d, slot)
  BY DEF Reconciled, ReconciledIn
<1>4. CASE i # 0
  <2>1. i \in 1 .. n /\ d[i] \in Blocks /\ d[i].id = pos.block /\ pos.block \in IdsOf(d)
    BY <1>4, IndexFacts
  <2> HIDE DEF i
  <2>2. Clamp(TextOf(d[i]), pos.offset) \in Nat /\ pos.block \in Ids
    BY <2>1, BlockFacts DEF Points
  <2> DEFINE k == Clamp(TextOf(d[i]), pos.offset)
  <2> HIDE DEF k
  <2>3. At(pos.block, k) \in Points /\ At(pos.block, k) \in Places(d)
    <3>1. pos.offset \in Nat /\ TextOf(d[i]) \in Seq(Bytes)
      BY <2>1, BlockFacts DEF Points
    <3>2. k \in Boundaries(TextOf(d[i]))
      BY <3>1, BoundaryFacts DEF k
    <3> QED BY <2>1, <2>2, <3>2, PointMade, PlaceMade DEF k
  <2> QED BY <1>3, <1>4, <2>1, <2>3 DEF Clamped, k
<1>5. CASE i = 0 /\ d = <<>>
  BY <1>3, <1>5 DEF MovedTo
<1>6. CASE i = 0 /\ d # <<>>
  <2> DEFINE S == {1, slot}
             m == Max(S)
             T == {n, m}
             j == Min(T)
  <2>1. m \in Nat /\ 1 <= m
    <3> DEFINE top == slot + 1
    <3>1. top \in Nat /\ S \in SUBSET (0 .. top) /\ S # {} /\ 1 \in S
      BY <1>2
    <3> HIDE DEF S, top
    <3> QED BY <3>1, GreatestIs
  <2> HIDE DEF m
  <2>2. j \in 1 .. n
    <3>1. T \in SUBSET Nat /\ T # {} /\ n \in T /\ \A x \in T : 1 <= x
      BY <1>1, <1>6, <2>1
    <3> HIDE DEF T
    <3>2. j \in T /\ j <= n /\ j \in Nat
      BY <3>1, LeastIs
    <3> HIDE DEF j
    <3> QED BY <1>1, <3>1, <3>2
  <2> HIDE DEF j
  <2>3. d[j].id \in Ids /\ 0 \in Boundaries(TextOf(d[j]))
    BY <2>2, DocumentFacts, BlockFacts, BoundaryFacts
  <2>4. MovedTo(pos, d, slot) = At(d[j].id, 0)
    BY <1>6 DEF MovedTo, j, m
  <2>5. At(d[j].id, 0) \in Points /\ At(d[j].id, 0) \in Places(d)
    BY <2>2, <2>3, PointMade, PlaceMade
  <2> QED BY <1>3, <1>6, <2>4, <2>5
<1> QED BY <1>4, <1>5, <1>6

LEMMA RelaidFacts ==
    ASSUME NEW e, Fit(e), NEW old \in Document
    PROVE  /\ Relaid(e, old) \in Editing /\ Anchored(Relaid(e, old))
           /\ Relaid(e, old).menu = e.menu /\ Relaid(e, old).doc = e.doc
<1>1. e \in Editing /\ e.doc \in Document /\ e.anchor \in Points /\ e.focus \in Points
  BY EditingFacts DEF Fit
<1>2. CASE ~ e.dirty
  BY <1>1, <1>2 DEF Relaid, Fit
<1>3. CASE e.dirty
  <2> DEFINE a == Reconciled(e.anchor, old, e.doc)
             f == Reconciled(e.focus, old, e.doc)
             new == [e EXCEPT !.anchor = a, !.focus = f]
  <2>1. Relaid(e, old) = new
    BY <1>3 DEF Relaid
  <2>2. a \in Points /\ f \in Points /\ (e.doc # <<>> => a \in Places(e.doc) /\ f \in Places(e.doc))
    BY <1>1, ReconciledFacts
  <2> HIDE DEF a, f
  <2>3. new \in Editing /\ new.doc = e.doc /\ new.anchor = a /\ new.focus = f /\ new.menu = e.menu
    BY <1>1, <2>2 DEF Editing
  <2> HIDE DEF new
  <2>4. Anchored(new)
    BY <2>2, <2>3 DEF Anchored
  <2> QED BY <2>1, <2>3, <2>4
<1> QED BY <1>2, <1>3

LEMMA SlashFacts ==
    ASSUME NEW e \in Editing
    PROVE  /\ UpdateSlash(e) \in Editing /\ UpdateSlash(e).doc = e.doc
           /\ UpdateSlash(e).anchor = e.anchor /\ UpdateSlash(e).focus = e.focus
           /\ Anchored(e) => Anchored(UpdateSlash(e))
<1> DEFINE gone == [e EXCEPT !.menu = None]
           i == IndexOf(e.doc, e.menu.block)
           text == TextOf(e.doc[i])
           rest == After(text, Len(Slash))
           m == [e.menu EXCEPT !.query = rest]
           new == [e EXCEPT !.menu = m]
           Same(f) == /\ f \in Editing /\ f.doc = e.doc /\ f.anchor = e.anchor /\ f.focus = e.focus
                      /\ Anchored(e) => Anchored(f)
<1>1. Same(e)
  OBVIOUS
<1>2. Same(gone)
  <2>1. gone \in Editing /\ gone.doc = e.doc /\ gone.anchor = e.anchor /\ gone.focus = e.focus
    BY MenuSet DEF MenuStates
  <2> QED BY <2>1 DEF Anchored
<1>3. CASE e.menu = None \/ ~ e.menu.slash
  BY <1>1, <1>3 DEF UpdateSlash
<1>4. CASE ~ (e.menu = None \/ ~ e.menu.slash)
  <2>1. UpdateSlash(e) = IF i = 0 \/ ~ IsPrefix(Slash, text) THEN gone ELSE new
    BY <1>4 DEF UpdateSlash, SlashIn, SlashText
  <2>2. ASSUME i # 0 PROVE Same(new)
    <3>1. e.doc[i] \in Blocks
      BY <2>2, EditingFacts, IndexFacts
    <3> HIDE DEF i
    <3>2. text \in Seq(Bytes) /\ Len(Slash) \in Nat
      BY <3>1, BlockFacts, ContentsAssumption
    <3> HIDE DEF text
    <3>3. rest \in Seq(Bytes)
      BY <3>2, TextParts
    <3> HIDE DEF rest
    <3>4. e.menu \in [block : Ids, slash : BOOLEAN, query : Seq(Bytes)]
      BY <1>4 DEF Editing, MenuStates
    <3> DEFINE q == e.menu
    <3> HIDE DEF q
    <3>5. [q EXCEPT !.query = rest] \in [block : Ids, slash : BOOLEAN, query : Seq(Bytes)]
      BY <3>3, <3>4 DEF q
    <3>6. m \in MenuStates
      BY <3>5 DEF MenuStates, q
    <3> HIDE DEF m
    <3>7. new \in Editing /\ new.doc = e.doc /\ new.anchor = e.anchor /\ new.focus = e.focus
      BY <3>6, MenuSet
    <3> QED BY <3>7 DEF Anchored
  <2> HIDE DEF new, gone, Same, i
  <2>3. Same(UpdateSlash(e))
    BY <1>2, <2>1, <2>2
  <2> QED BY <2>3 DEF Same
<1> QED BY <1>3, <1>4

-----------------------------------------------------------------------------
(* Every event: the invariant, and what a handler must return for it. *)

Inv == TypeOK /\ SelectionAnchored

\* What a handler returns: everything has its type, the selection is anchored.
Settled(e) == e \in Editing /\ Anchored(e)

LEMMA NowSettled ==
    /\ Inv <=> Settled(Now)
    /\ Inv => /\ Fit(Now) /\ Now \in Editing /\ doc \in Document
              /\ anchor \in Points /\ focus \in Points /\ menu \in MenuStates
<1>1. Inv <=> Settled(Now)
  BY NowFacts DEF Inv, Settled
<1>2. ASSUME Inv
      PROVE  /\ Fit(Now) /\ Now \in Editing /\ doc \in Document
             /\ anchor \in Points /\ focus \in Points /\ menu \in MenuStates
  <2>1. Now \in Editing /\ Anchored(Now)
    BY <1>1, <1>2 DEF Settled
  <2> QED BY <2>1, NowFacts, EditingFacts DEF Fit
<1> QED BY <1>1, <1>2

LEMMA BecomeSettled ==
    ASSUME NEW e, Settled(e), Become(e)
    PROVE  Inv'
<1>1. doc' = e.doc /\ anchor' = e.anchor /\ focus' = e.focus /\ menu' = e.menu
  BY DEF Become
<1>2. e.doc \in Document /\ e.anchor \in Points /\ e.focus \in Points /\ e.menu \in MenuStates
  BY EditingFacts DEF Settled
<1>3. TypeOK'
  BY <1>1, <1>2 DEF TypeOK, Document, Points, MenuStates
<1>4. SelectionAnchored'
  BY <1>1 DEF SelectionAnchored, Settled, Anchored
<1> QED BY <1>3, <1>4 DEF Inv

LEMMA AfterEditFacts ==
    ASSUME Inv, NEW e, Fit(e)
    PROVE  Settled(AfterEdit(e)) /\ Settled(Relaid(e, doc))
<1> DEFINE f == Relaid(e, doc)
<1>1. f \in Editing /\ Anchored(f)
  BY NowSettled, RelaidFacts
<1> HIDE DEF f
<1>2. UpdateSlash(f) \in Editing /\ Anchored(UpdateSlash(f))
  BY <1>1, SlashFacts
<1> QED BY <1>1, <1>2 DEF AfterEdit, Settled, f

LEMMA FreshIds ==
    /\ \A id \in Fresh : id \in Ids /\ id \notin IdsOf(doc)
    /\ \A seed \in SeedIds : doc = <<>> => seed \in Ids
BY DEF Fresh, SeedIds

LEMMA TypingSteps ==
    ASSUME Inv, Typing
    PROVE  Inv'
<1> DEFINE D == Dismissed(Now)
<1>1. Fit(Now) /\ Fit(D) /\ Now.doc = doc /\ D.doc = doc
  BY NowSettled, NowFacts, DismissedFacts
<1>2. ASSUME NEW text \in Chars, NEW seed \in SeedIds, TypeKey(text, seed) PROVE Inv'
  <2>1. text \in Seq(Bytes) /\ (doc = <<>> => seed \in Ids)
    BY ContentsAssumption, FreshIds
  <2> HIDE DEF D
  <2>2. Fit(InsertText(D, text, seed))
    BY <1>1, <2>1, InsertTextFacts
  <2>3. Settled(AfterEdit(InsertText(D, text, seed)))
    BY <2>2, AfterEditFacts
  <2>4. Become(AfterEdit(InsertText(D, text, seed)))
    BY <1>2 DEF TypeKey, D
  <2> QED BY <2>3, <2>4, BecomeSettled
<1>3. ASSUME NEW text \in Chars, NEW seed \in SeedIds, Commit(text, seed) PROVE Inv'
  <2>1. text \in Seq(Bytes) /\ (doc = <<>> => seed \in Ids)
    BY ContentsAssumption, FreshIds
  <2>2. Fit(InsertText(Now, text, seed))
    BY <1>1, <2>1, InsertTextFacts
  <2>3. Settled(AfterEdit(InsertText(Now, text, seed)))
    BY <2>2, AfterEditFacts
  <2>4. Become(AfterEdit(InsertText(Now, text, seed)))
    BY <1>3 DEF Commit
  <2> QED BY <2>3, <2>4, BecomeSettled
<1>4. ASSUME NEW seed \in SeedIds, NEW id \in Fresh, NEW past \in 0 .. Len(doc), seed # id,
             EnterKey(seed, id, past)
      PROVE  Inv'
  <2>1. id \in Ids /\ id \notin IdsOf(doc) /\ (doc = <<>> => seed \in Ids) /\ past \in Nat
    BY FreshIds
  <2>2. Fit(Split(Now, seed, id, past))
    BY <1>1, <1>4, <2>1, SplitEditFacts
  <2>3. Settled(AfterEdit(Split(Now, seed, id, past)))
    BY <2>2, AfterEditFacts
  <2>4. Become(AfterEdit(Split(Now, seed, id, past)))
    BY <1>4 DEF EnterKey
  <2> QED BY <2>3, <2>4, BecomeSettled
<1>5. ASSUME BackspaceKey PROVE Inv'
  <2>1. Settled(AfterEdit(Backspace(D)))
    BY <1>1, EraseFacts, AfterEditFacts
  <2>2. Become(AfterEdit(Backspace(D)))
    BY <1>5 DEF BackspaceKey
  <2> QED BY <2>1, <2>2, BecomeSettled
<1>6. ASSUME CutKey PROVE Inv'
  <2>1. Settled(AfterEdit(CutSelection(D)))
    BY <1>1, DeleteFacts, AfterEditFacts
  <2>2. Become(AfterEdit(CutSelection(D)))
    BY <1>6 DEF CutKey
  <2> QED BY <2>1, <2>2, BecomeSettled
<1>7. ASSUME DeleteKey PROVE Inv'
  <2>1. Settled(AfterEdit(DeleteForward(D)))
    BY <1>1, EraseFacts, AfterEditFacts
  <2>2. Become(AfterEdit(DeleteForward(D)))
    BY <1>7 DEF DeleteKey
  <2> QED BY <2>1, <2>2, BecomeSettled
<1>8. ASSUME ToggleKey PROVE Inv'
  <2>1. Settled(AfterEdit(ToggleMark(D)))
    BY <1>1, ToggleFacts, AfterEditFacts
  <2>2. Become(AfterEdit(ToggleMark(D)))
    BY <1>8 DEF ToggleKey
  <2> QED BY <2>1, <2>2, BecomeSettled
<1>9. ASSUME NEW kind \in Kinds, KindKey(kind) PROVE Inv'
  <2>1. Settled(Relaid(SetSelectedKind(D, kind), doc))
    BY <1>1, KindFacts, AfterEditFacts
  <2>2. Become(Relaid(SetSelectedKind(D, kind), doc))
    BY <1>9 DEF KindKey
  <2> QED BY <2>1, <2>2, BecomeSettled
<1> QED BY <1>2, <1>3, <1>4, <1>5, <1>6, <1>7, <1>8, <1>9 DEF Typing

\* Moving the ends of the selection to places of blocks of the page.
LEMMA EndsMoved ==
    ASSUME NEW e \in Editing, NEW a \in Points, NEW f \in Points,
           e.doc # <<>> => {a, f} \subseteq Places(e.doc)
    PROVE  Settled([e EXCEPT !.anchor = a, !.focus = f])
BY DEF Settled, Editing, Anchored

LEMMA PlaceFacts ==
    ASSUME NEW d \in Document, NEW to \in Places(d)
    PROVE  to \in Points /\ to.block \in IdsOf(d)
<1>1. PICK i \in DOMAIN d : to \in {At(d[i].id, k) : k \in Boundaries(TextOf(d[i]))}
  BY DEF Places
<1>2. i \in 1 .. Len(d) /\ d[i] \in Blocks /\ d[i].id \in IdsOf(d)
  BY DocumentFacts
<1>3. d[i].id \in Ids /\ TextOf(d[i]) \in Seq(Bytes)
  BY <1>2, BlockFacts
<1>4. Boundaries(TextOf(d[i])) \in SUBSET (0 .. Len(TextOf(d[i])))
  BY <1>3, BoundaryFacts
<1>5. PICK k \in Boundaries(TextOf(d[i])) : to = At(d[i].id, k)
  BY <1>1
<1>6. k \in Nat
  BY <1>3, <1>4
<1> QED BY <1>2, <1>3, <1>5, <1>6, PointMade

LEMMA LastPlace ==
    ASSUME NEW d \in Document, d # <<>>
    PROVE  /\ At(d[1].id, 0) \in Places(d)
           /\ At(Last(d).id, Len(TextOf(Last(d)))) \in Places(d)
<1> DEFINE n == Len(d)
           b == d[n]
           c == d[1]
<1>1. 1 \in 1 .. n /\ n \in 1 .. n /\ Last(d) = b
  BY DocumentFacts DEF Last
<1>2. b \in Blocks /\ c \in Blocks
  BY <1>1, DocumentFacts
<1>3. Len(TextOf(b)) \in Boundaries(TextOf(b)) /\ 0 \in Boundaries(TextOf(c))
  <2> HIDE DEF b, c
  <2> QED BY <1>2, BlockFacts, BoundaryFacts
<1> QED BY <1>1, <1>3, PlaceMade

LEMMA SlashSettled ==
    ASSUME NEW e, Settled(e)
    PROVE  Settled(UpdateSlash(e))
BY SlashFacts DEF Settled

LEMMA SelectingSteps ==
    ASSUME Inv, Selecting
    PROVE  Inv'
<1> DEFINE D == Dismissed(Now)
<1>1. /\ Now \in Editing /\ D \in Editing /\ Now.doc = doc /\ D.doc = doc
      /\ D.anchor = anchor /\ D.focus = focus
      /\ doc \in Document /\ anchor \in Points /\ focus \in Points
      /\ doc # <<>> => {anchor, focus} \subseteq Places(doc)
  BY NowSettled, NowFacts, DismissedFacts DEF Inv, SelectionAnchored
<1>2. ASSUME NEW to \in Places(doc), NEW extend \in BOOLEAN, Move(to, extend) PROVE Inv'
  <2> DEFINE a == IF extend THEN D.anchor ELSE to
             e == [D EXCEPT !.anchor = a, !.focus = to]
  <2>1. to \in Points /\ to.block \in IdsOf(doc) /\ a \in Points
    BY <1>1, PlaceFacts
  <2>2. doc # <<>> => {a, to} \subseteq Places(doc)
    BY <1>1, <2>1
  <2>3. SetFocus(D, to, extend) = e
    BY DEF SetFocus
  <2> HIDE DEF D, a
  <2>4. Settled(e)
    BY <1>1, <2>1, <2>2, EndsMoved
  <2> HIDE DEF e
  <2>5. Settled(UpdateSlash(e))
    BY <2>4, SlashSettled
  <2>6. Become(UpdateSlash(e))
    BY <1>2, <2>3 DEF Move, D
  <2> QED BY <2>5, <2>6, BecomeSettled
<1>3. ASSUME NEW end \in {anchor, focus}, CollapseKey(end) PROVE Inv'
  <2> DEFINE e == [D EXCEPT !.anchor = end, !.focus = end]
  <2>1. end \in Points /\ (doc # <<>> => {end, end} \subseteq Places(doc))
    BY <1>1
  <2>2. Caret(D, end) = e
    BY DEF Caret
  <2> HIDE DEF D
  <2>3. Settled(e)
    BY <1>1, <2>1, EndsMoved
  <2> HIDE DEF e
  <2>4. Settled(UpdateSlash(e))
    BY <2>3, SlashSettled
  <2>5. Become(UpdateSlash(e))
    BY <1>3, <2>2 DEF CollapseKey, D
  <2> QED BY <2>4, <2>5, BecomeSettled
<1>4. ASSUME NEW from \in Places(doc), NEW to \in Places(doc), SelectSpan(from, to) PROVE Inv'
  <2> DEFINE e == [Now EXCEPT !.anchor = from, !.focus = to]
  <2>1. /\ from \in Points /\ to \in Points
        /\ {from, to} \subseteq Places(doc)
    BY <1>1, PlaceFacts
  <2>2. Settled(e)
    BY <1>1, <2>1, EndsMoved
  <2>3. Become(e)
    BY <1>4 DEF SelectSpan
  <2> HIDE DEF e
  <2> QED BY <2>2, <2>3, BecomeSettled
<1>5. ASSUME SelectAll PROVE Inv'
  <2> DEFINE a == At(doc[1].id, 0)
             f == At(Last(doc).id, Len(TextOf(Last(doc))))
             e == [D EXCEPT !.anchor = a, !.focus = f]
  <2>1. doc # <<>> /\ Become(UpdateSlash(e))
    BY <1>5 DEF SelectAll
  <2>2. {a, f} \subseteq Places(doc) /\ a \in Points /\ f \in Points
    BY <1>1, <2>1, LastPlace, PlaceFacts
  <2> HIDE DEF a, f, D
  <2>3. Settled(e)
    BY <1>1, <2>2, EndsMoved
  <2> HIDE DEF e
  <2>4. Settled(UpdateSlash(e))
    BY <2>3, SlashSettled
  <2> QED BY <2>1, <2>4, BecomeSettled
<1> QED BY <1>2, <1>3, <1>4, <1>5 DEF Selecting

\* The menu is taken, and a query typed for it goes.
LEMMA StrippedFacts ==
    ASSUME Inv, menu # None
    PROVE  /\ Fit(Stripped) /\ Len(Stripped.doc) = Len(doc) /\ IdsOf(Stripped.doc) = IdsOf(doc)
           /\ Taken \in Editing /\ Fit(Taken) /\ Taken.doc = doc
           /\ menu.block \in Ids
<1> DEFINE i == IndexOf(doc, menu.block)
           w == Write(Taken, i, <<>>)
           pos == At(doc[i].id, 0)
<1>1. Now \in Editing /\ Fit(Now) /\ doc \in Document /\ menu \in MenuStates /\ Now.doc = doc
  BY NowSettled, NowFacts
<1>2. menu.block \in Ids
  BY <1>1 DEF MenuStates
<1>3. Taken \in Editing /\ Taken.doc = doc /\ Fit(Taken)
  <2>1. /\ Taken \in Editing /\ Taken.doc = Now.doc /\ Taken.anchor = Now.anchor
        /\ Taken.focus = Now.focus /\ Taken.dirty = Now.dirty
    BY <1>1, MenuSet DEF MenuStates, Taken
  <2> QED BY <1>1, <2>1 DEF Fit, Anchored
<1>4. Dirty(Taken) \in Editing /\ Fit(Dirty(Taken)) /\ Dirty(Taken).doc = doc
  BY <1>3, DirtySet
<1>5. Stripped = IF menu.slash /\ i # 0
                 THEN IF IsPrefix(Slash, TextOf(doc[i])) THEN Dirty(Caret(w, pos)) ELSE Dirty(Taken)
                 ELSE Taken
  BY <1>3 DEF Stripped, StripIn
<1>6. CASE i # 0
  <2>1. i \in 1 .. Len(doc) /\ doc[i] \in Blocks /\ i \in 1 .. Len(Taken.doc)
    BY <1>1, <1>3, <1>6, IndexFacts
  <2> HIDE DEF i
  <2>2. pos \in Points
    <3>1. doc[i].id \in Ids
      BY <2>1, BlockFacts
    <3> QED BY <3>1, PointMade
  <2>3. w \in Editing /\ Len(w.doc) = Len(doc) /\ IdsOf(w.doc) = IdsOf(doc)
    <3> DEFINE none == <<>>
    <3>1. none \in Seq(Bytes)
      OBVIOUS
    <3> HIDE DEF none
    <3>2. LET f == Write(Taken, i, none)
          IN  f \in Editing /\ Len(f.doc) = Len(Taken.doc) /\ IdsOf(f.doc) = IdsOf(Taken.doc)
      BY <1>3, <2>1, <3>1, WriteFacts
    <3> QED BY <1>3, <3>2 DEF none
  <2> HIDE DEF w, pos
  <2>4. /\ Fit(Dirty(Caret(w, pos))) /\ Dirty(Caret(w, pos)).doc = w.doc
    BY <2>2, <2>3, CaretSet, DirtySet
  <2> QED BY <1>2, <1>3, <1>4, <1>5, <2>3, <2>4
<1>7. CASE i = 0
  BY <1>2, <1>3, <1>5, <1>7
<1> QED BY <1>6, <1>7

LEMMA InsertBlockBelowStep ==
    ASSUME Inv, NEW i \in 1 .. Max({1, Len(doc)}), NEW id \in Fresh, NEW past \in 0 .. Len(doc),
           InsertBlockBelow(i, id, past)
    PROVE  Inv'
<1> DEFINE S == {i, Len(doc)}
           j == Min(S) + 1
           b == Block(id, Paragraph, <<>>)
           new == Landed(doc, j, b, past)
           f == [Now EXCEPT !.doc = new]
           pos == At(id, 0)
<1>1. Now \in Editing /\ doc \in Document /\ Len(doc) \in Nat /\ Now.doc = doc
  BY NowSettled, NowFacts, DocumentFacts
<1>2. id \in Ids /\ id \notin IdsOf(doc)
  BY FreshIds
<1>3. j \in 1 .. Len(doc) + 1
  <2>1. S \in SUBSET Nat /\ S # {} /\ Len(doc) \in S
    BY <1>1
  <2> HIDE DEF S
  <2>2. Min(S) \in Nat /\ Min(S) <= Len(doc)
    BY <2>1, LeastIs
  <2> QED BY <1>1, <2>2
<1>4. b \in Blocks /\ b.id = id /\ pos \in Points
  BY <1>2, NoContent, MakeBlock, PointMade DEF Kinds
<1>5. Become(Relaid(Dirty(Caret(f, pos)), doc))
  BY <1>1 DEF InsertBlockBelow
<1> HIDE DEF j, b, pos
<1>6. new \in Document
  <2>1. past \in Nat
    OBVIOUS
  <2>2. PICK k \in 1 .. Len(doc) + 1 : new = InsertAt(doc, k, b)
    BY <1>1, <1>3, <2>1, LandedFacts
  <2> QED BY <1>1, <1>2, <1>4, <2>2, BlockInserted
<1> HIDE DEF new
<1>7. f \in Editing
  BY <1>1, <1>6, DocSet
<1> HIDE DEF f
<1>8. Fit(Dirty(Caret(f, pos)))
  BY <1>4, <1>7, CaretSet, DirtySet
<1>9. Settled(Relaid(Dirty(Caret(f, pos)), doc))
  BY <1>8, AfterEditFacts
<1> QED BY <1>5, <1>9, BecomeSettled

LEMMA ConfirmKindStep ==
    ASSUME Inv, NEW kind \in Kinds, ConfirmKind(kind)
    PROVE  Inv'
<1> DEFINE e == Stripped
           i == IndexOf(doc, menu.block)
           d == e.doc
           b == [d[i] EXCEPT !.kind = kind]
           new == [d EXCEPT ![i] = b]
           f == SetKind(e, i, kind)
<1>1. menu # None /\ Become(Relaid(Dirty(f), doc))
  BY DEF ConfirmKind, Offered
<1>2. /\ doc \in Document /\ Fit(e) /\ e \in Editing /\ d \in Document /\ Len(d) = Len(doc)
  <2>1. doc \in Document /\ Fit(e) /\ Len(d) = Len(doc)
    BY <1>1, NowSettled, StrippedFacts
  <2> QED BY <2>1, EditingFacts DEF Fit
<1> HIDE DEF e
<1>3. f \in Editing
  <2>1. CASE i = 0
    BY <1>2, <2>1 DEF SetKind
  <2>2. CASE i # 0
    <3>1. i \in 1 .. Len(d)
      BY <1>2, <2>2, IndexFacts
    <3> HIDE DEF i
    <3>2. d[i] \in Blocks
      BY <1>2, <3>1, DocumentFacts
    <3>3. b \in Blocks /\ b.id = d[i].id
      <4> DEFINE c == d[i]
      <4> HIDE DEF c
      <4>1. [c EXCEPT !.kind = kind] \in Blocks /\ [c EXCEPT !.kind = kind].id = c.id
        BY <3>2 DEF Blocks, c
      <4> QED BY <4>1 DEF c
    <3>4. f = [e EXCEPT !.doc = new]
      BY <2>2 DEF SetKind, i
    <3> HIDE DEF b, f
    <3>5. new \in Document
      BY <1>2, <3>1, <3>3, BlockChanged
    <3> HIDE DEF new
    <3>6. [e EXCEPT !.doc = new] \in Editing
      BY <1>2, <3>5, DocSet
    <3> QED BY <3>4, <3>6
  <2> QED BY <2>1, <2>2
<1> HIDE DEF f
<1>4. Settled(Relaid(Dirty(f), doc))
  BY <1>3, DirtySet, AfterEditFacts
<1> QED BY <1>1, <1>4, BecomeSettled

LEMMA ConfirmRevivesStep ==
    ASSUME Inv, NEW kind \in Kinds, NEW place \in 1 .. Len(doc) + 1, ConfirmRevives(kind, place)
    PROVE  Inv'
<1> DEFINE b == Emptied(menu.block, kind)
           new == InsertAt(doc, place, b)
           f == [Taken EXCEPT !.doc = new]
<1>1. menu # None /\ IndexOf(doc, menu.block) = 0
  BY DEF ConfirmRevives, Offered
<1>2. doc \in Document /\ Taken \in Editing /\ Taken.doc = doc /\ menu.block \in Ids
  BY <1>1, NowSettled, StrippedFacts
<1>3. Become(Relaid(Dirty(f), doc))
  BY <1>2 DEF ConfirmRevives
<1>4. b \in Blocks /\ b.id \notin IdsOf(doc)
  <2>1. b \in Blocks /\ b.id = menu.block
    BY <1>2, NoContent, MakeBlock DEF Emptied
  <2> QED BY <1>1, <1>2, <2>1, IndexFacts
<1> HIDE DEF b
<1>5. new \in Document
  BY <1>2, <1>4, BlockInserted
<1> HIDE DEF new
<1>6. f \in Editing
  BY <1>2, <1>5, DocSet
<1> HIDE DEF f
<1>7. Settled(Relaid(Dirty(f), doc))
  BY <1>6, DirtySet, AfterEditFacts
<1> QED BY <1>3, <1>7, BecomeSettled

LEMMA ConfirmDeleteStep ==
    ASSUME Inv, ConfirmDelete
    PROVE  Inv'
<1> DEFINE i == IndexOf(doc, menu.block)
           h == i - 1
           new == RemoveAt(doc, i)
           f == [Taken EXCEPT !.doc = new]
           pos == At(doc[h].id, 0)
           e == DeleteIn(Taken, i)
<1>1. menu # None /\ Become(Relaid(Dirty(e), doc))
  BY DEF ConfirmDelete
<1>2. doc \in Document /\ Len(doc) \in Nat /\ Taken \in Editing /\ Taken.doc = doc
  BY <1>1, NowSettled, StrippedFacts, DocumentFacts
<1>3. e \in Editing
  <2>1. CASE Len(doc) <= 1 \/ i = 0
    BY <1>2, <2>1 DEF DeleteIn
  <2>2. CASE ~ (Len(doc) <= 1 \/ i = 0)
    <3>1. i \in 1 .. Len(doc)
      BY <1>2, <2>2, IndexFacts
    <3>2. e = IF i > 1 THEN Caret(f, pos) ELSE f
      BY <1>2, <2>2 DEF DeleteIn
    <3> HIDE DEF i, e
    <3>3. new \in Document
      BY <1>2, <3>1, BlockRemoved
    <3> HIDE DEF new
    <3>4. f \in Editing
      BY <1>2, <3>3, DocSet
    <3>5. ASSUME i > 1 PROVE pos \in Points
      <4>1. h \in 1 .. Len(doc)
        BY <1>2, <3>1, <3>5
      <4> HIDE DEF h
      <4>2. doc[h].id \in Ids
        BY <1>2, <4>1, DocumentFacts, BlockFacts
      <4> QED BY <4>2, PointMade
    <3> HIDE DEF f, pos
    <3> QED BY <3>2, <3>4, <3>5, CaretSet
  <2> QED BY <2>1, <2>2
<1> HIDE DEF e
<1>4. Settled(Relaid(Dirty(e), doc))
  BY <1>3, DirtySet, AfterEditFacts
<1> QED BY <1>1, <1>4, BecomeSettled

LEMMA MenuSteps ==
    ASSUME Inv, Menus
    PROVE  Inv'
<1>1. ASSUME NEW i \in DOMAIN doc, OpenBlockMenu(i) PROVE Inv'
  <2> DEFINE m == MenuOf(doc[i].id, FALSE)
             e == [Now EXCEPT !.menu = m]
  <2>1. Settled(Now) /\ Now \in Editing /\ doc \in Document
    BY NowSettled
  <2>2. doc[i].id \in Ids
    BY <2>1, DocumentFacts, BlockFacts
  <2>3. m \in MenuStates
    BY <2>2, MenuMade
  <2>4. Become(e)
    BY <1>1 DEF OpenBlockMenu
  <2> HIDE DEF m
  <2>5. e \in Editing /\ e.doc = Now.doc /\ e.anchor = Now.anchor /\ e.focus = Now.focus
    BY <2>1, <2>3, MenuSet
  <2> HIDE DEF e
  <2>6. Settled(e)
    BY <2>1, <2>5 DEF Settled, Anchored
  <2> QED BY <2>4, <2>6, BecomeSettled
<1>2. ASSUME CloseMenu PROVE Inv'
  <2>1. menu # None /\ Become(Relaid(Stripped, doc))
    BY <1>2 DEF CloseMenu
  <2>2. Settled(Relaid(Stripped, doc))
    BY <2>1, StrippedFacts, AfterEditFacts
  <2> QED BY <2>1, <2>2, BecomeSettled
<1> QED BY <1>1, <1>2, InsertBlockBelowStep, ConfirmKindStep, ConfirmRevivesStep, ConfirmDeleteStep
        DEF Menus

\* Whatever document the page becomes under the editor.
LEMMA ChangedStep ==
    ASSUME Inv, NEW d \in Document, NEW undo \in BOOLEAN, Changed(d, undo)
    PROVE  Inv'
<1> DEFINE D == Dismissed(Now)
           f == [D EXCEPT !.doc = d]
           g == [Now EXCEPT !.doc = d]
<1>1. Now \in Editing /\ D \in Editing
  BY NowSettled, DismissedFacts
<1>2. Become(IF undo THEN AfterEdit(Dirty(f)) ELSE Relaid(Dirty(g), doc))
  BY DEF Changed
<1> HIDE DEF D
<1>3. f \in Editing /\ g \in Editing
  BY <1>1, DocSet
<1> HIDE DEF f, g
<1>4. Settled(AfterEdit(Dirty(f))) /\ Settled(Relaid(Dirty(g), doc))
  BY <1>3, DirtySet, AfterEditFacts
<1> QED BY <1>2, <1>4, BecomeSettled

LEMMA LoadedFacts ==
    ASSUME NEW d \in Pages
    PROVE  Settled(Loaded(d)) /\ Loaded(d).doc = d /\ Loaded(d).menu = None
<1> DEFINE a == At(Default1, 0)
           f == At(Default2, 0)
           e == [doc |-> d, anchor |-> a, focus |-> f, menu |-> None, dirty |-> FALSE]
           none == <<>>
<1>1. d \in Document
  BY PagesAssumption DEF Document
<1>2. a \in Points /\ f \in Points
  BY DEF At, Points
<1>3. none \in Document
  <2>1. none \in Seq(Blocks) /\ Len(none) = 0
    OBVIOUS
  <2> HIDE DEF none
  <2>2. \A i, j \in 1 .. Len(none) : none[i].id = none[j].id => i = j
    BY <2>1
  <2> QED BY <2>1, <2>2, MakeDocument
<1>4. Loaded(d) = Relaid(Dirty(e), none)
  BY DEF Loaded
<1> HIDE DEF a, f, none
<1>5. e \in Editing /\ e.doc = d /\ e.menu = None
  BY <1>1, <1>2 DEF Editing, MenuStates
<1> HIDE DEF e
<1>6. Fit(Dirty(e)) /\ Dirty(e).doc = d /\ Dirty(e).menu = None
  BY <1>5, DirtySet
<1> DEFINE g == Dirty(e)
<1> HIDE DEF g
<1>7. /\ Relaid(g, none) \in Editing /\ Anchored(Relaid(g, none))
      /\ Relaid(g, none).menu = None /\ Relaid(g, none).doc = d
  BY <1>3, <1>6, RelaidFacts DEF g
<1> QED BY <1>4, <1>7 DEF Settled, g

LEMMA OtherSteps ==
    ASSUME Inv, Others
    PROVE  Inv'
<1>1. doc \in Document /\ Len(doc) \in Nat /\ DOMAIN doc = 1 .. Len(doc) /\ PeerRuns \subseteq Contents
  BY NowSettled, DocumentFacts, ContentsAssumption DEF Contents
<1>2. ASSUME NEW i \in DOMAIN doc, NEW kind \in Kinds, NEW runs \in PeerRuns, NEW undo \in BOOLEAN,
             PeerWrites(i, kind, runs, undo)
      PROVE  Inv'
  <2> DEFINE b == Block(doc[i].id, kind, runs)
             new == [doc EXCEPT ![i] = b]
  <2>1. doc[i].id \in Ids /\ runs \in Contents /\ i \in 1 .. Len(doc)
    BY <1>1, DocumentFacts, BlockFacts
  <2>2. b \in Blocks /\ b.id = doc[i].id
    BY <2>1, MakeBlock
  <2>3. Changed(new, undo)
    BY <1>2 DEF PeerWrites
  <2> HIDE DEF b
  <2>4. new \in Document
    BY <1>1, <2>1, <2>2, BlockChanged
  <2> HIDE DEF new
  <2> QED BY <2>3, <2>4, ChangedStep
<1>3. ASSUME NEW place \in 1 .. Len(doc) + 1, NEW id \in Ids, NEW runs \in PeerRuns,
             NEW undo \in BOOLEAN, PeerInserts(place, id, runs, undo)
      PROVE  Inv'
  <2> DEFINE b == Block(id, Paragraph, runs)
             new == InsertAt(doc, place, b)
  <2>1. id \notin IdsOf(doc) /\ Changed(new, undo)
    BY <1>3 DEF PeerInserts
  <2>2. b \in Blocks /\ b.id = id
    BY <1>1, MakeBlock DEF Kinds
  <2> HIDE DEF b
  <2>3. new \in Document
    BY <1>1, <2>1, <2>2, BlockInserted
  <2> HIDE DEF new
  <2> QED BY <2>1, <2>3, ChangedStep
<1>4. ASSUME NEW i \in DOMAIN doc, NEW undo \in BOOLEAN, PeerRemoves(i, undo) PROVE Inv'
  <2>1. Changed(RemoveAt(doc, i), undo)
    BY <1>4 DEF PeerRemoves
  <2>2. RemoveAt(doc, i) \in Document
    BY <1>1, BlockRemoved
  <2> QED BY <2>1, <2>2, ChangedStep
<1>5. ASSUME NEW i \in DOMAIN doc, NEW place \in DOMAIN doc, NEW id \in Ids, NEW runs \in PeerRuns,
             PeerReplaces(i, place, id, runs)
      PROVE  Inv'
  <2> DEFINE b == Block(id, Paragraph, runs)
             rest == RemoveAt(doc, i)
             new == InsertAt(rest, place, b)
             no == FALSE
  <2>1. id \notin IdsOf(doc) /\ Changed(new, no)
    BY <1>5 DEF PeerReplaces
  <2>2. b \in Blocks /\ b.id = id
    BY <1>1, MakeBlock DEF Kinds
  <2>3. rest \in Document /\ Len(rest) = Len(doc) - 1 /\ IdsOf(rest) \subseteq IdsOf(doc)
    BY <1>1, BlockRemoved
  <2> HIDE DEF b, rest
  <2>4. place \in 1 .. Len(rest) + 1 /\ b.id \notin IdsOf(rest)
    BY <1>1, <2>1, <2>2, <2>3
  <2>5. new \in Document
    BY <2>2, <2>3, <2>4, BlockInserted
  <2>6. no \in BOOLEAN
    OBVIOUS
  <2> HIDE DEF new, no
  <2> QED BY <2>1, <2>5, <2>6, ChangedStep
<1>6. ASSUME NEW d \in Pages, LoadDocument(d) PROVE Inv'
  BY <1>6, LoadedFacts, BecomeSettled DEF LoadDocument
<1> QED BY <1>2, <1>3, <1>4, <1>5, <1>6 DEF Others

LEMMA InitInv ==
    ASSUME Init
    PROVE  Inv
<1>1. PICK d \in Pages :
          doc = d /\ anchor = Loaded(d).anchor /\ focus = Loaded(d).focus /\ menu = None
  BY DEF Init
<1>2. Settled(Loaded(d)) /\ Loaded(d).doc = d /\ Loaded(d).menu = None
  BY LoadedFacts
<1> DEFINE e == Loaded(d)
<1>3. doc = e.doc /\ anchor = e.anchor /\ focus = e.focus /\ menu = e.menu /\ Settled(e)
  BY <1>1, <1>2
<1> HIDE DEF e
<1>4. /\ e.doc \in Document /\ e.anchor \in Points /\ e.focus \in Points /\ e.menu \in MenuStates
      /\ Anchored(e)
  BY <1>3, EditingFacts DEF Settled
<1>5. TypeOK
  BY <1>3, <1>4 DEF TypeOK, Document, Points, MenuStates
<1>6. SelectionAnchored
  BY <1>3, <1>4 DEF SelectionAnchored, Anchored
<1> QED BY <1>5, <1>6 DEF Inv

LEMMA Invariance == Spec => []Inv
<1>1. Inv /\ [Next]_vars => Inv'
  <2>1. ASSUME Inv, Next PROVE Inv'
    BY <2>1, TypingSteps, SelectingSteps, MenuSteps, OtherSteps DEF Next
  <2>2. ASSUME Inv, UNCHANGED vars PROVE Inv'
    BY <2>2 DEF Inv, TypeOK, SelectionAnchored, vars
  <2> QED BY <2>1, <2>2
<1> QED BY <1>1, InitInv, PTL DEF Spec

\* Every variable has its type, whatever ids, contents, marks and documents there
\* are: in particular block ids stay distinct and no handler leaves an empty run or
\* two neighbours of the same marks.
THEOREM EditorTypes == Spec => []TypeOK
<1>1. Inv => TypeOK
  BY DEF Inv
<1> QED BY <1>1, Invariance, PTL

\* Whatever the editor, its menus, other clients, undo and a new document do, both
\* ends of the selection are in blocks of the page as soon as it has any, and between
\* two characters of their texts.
THEOREM SelectionStaysAnchored == Spec => []SelectionAnchored
<1>1. Inv => SelectionAnchored
  BY DEF Inv
<1> QED BY <1>1, Invariance, PTL

-----------------------------------------------------------------------------
(* The reading of a document, block by block. *)

Signs == Letters \cup {Newline}
Line(b) == <<Newline>> \o Marked(b.runs)
Lines(d) == FlattenSeq([i \in DOMAIN d |-> Line(d[i])])

LEMMA LineFacts ==
    ASSUME NEW b \in Blocks
    PROVE  /\ Marked(b.runs) \in Seq(Signs) /\ Marked(b.runs) \in Seq(Letters)
           /\ Len(Marked(b.runs)) = Len(TextOf(b)) /\ Len(TextOf(b)) \in Nat
           /\ Line(b) \in Seq(Signs) /\ Len(Line(b)) = Len(TextOf(b)) + 1
           /\ Line(b)[1] = Newline
           /\ \A k \in 1 .. Len(TextOf(b)) : Line(b)[k + 1] = Marked(b.runs)[k]
<1> DEFINE M == Marked(b.runs)
           n == Len(TextOf(b))
<1>1. M \in Seq(Letters) /\ Len(M) = n /\ n \in Nat
  BY BlockFacts, MarkedType, TextOfMarked DEF TextOf
<1> HIDE DEF M, n
<1>2. M \in Seq(Signs) /\ <<Newline>> \in Seq(Signs)
  BY <1>1 DEF Signs
<1> DEFINE N == Newline
           w == <<N>> \o M
<1>3. <<N>> \in Seq(Signs) /\ Len(<<N>>) = 1 /\ <<N>>[1] = N
  BY <1>2
<1> HIDE DEF N
<1>4. /\ w \in Seq(Signs) /\ Len(w) = 1 + Len(M)
      /\ \A i \in 1 .. 1 + Len(M) : w[i] = IF i <= 1 THEN <<N>>[i] ELSE M[i - 1]
  BY <1>2, <1>3, ConcatProperties
<1> HIDE DEF w
<1>5. w[1] = N /\ \A k \in 1 .. n : w[k + 1] = M[k]
  <2>1. 1 \in 1 .. 1 + Len(M)
    BY <1>1
  <2>2. ASSUME NEW k \in 1 .. n PROVE w[k + 1] = M[k]
    <3>1. k + 1 \in 1 .. 1 + Len(M) /\ ~ (k + 1 <= 1) /\ (k + 1) - 1 = k
      BY <1>1
    <3> QED BY <1>4, <3>1
  <2> QED BY <1>3, <1>4, <2>1, <2>2
<1>6. Line(b) = w
  BY DEF Line, w, M, N
<1> QED BY <1>1, <1>2, <1>4, <1>5, <1>6 DEF M, n, N

\* The lines of a document, as a list, and of a document made of two.
LEMMA LinesList ==
    ASSUME NEW d \in Seq(Blocks)
    PROVE  [i \in DOMAIN d |-> Line(d[i])] \in Seq(Seq(Signs))
<1>1. DOMAIN d = 1 .. Len(d) /\ Len(d) \in Nat /\ \A i \in 1 .. Len(d) : d[i] \in Blocks
  OBVIOUS
<1> DEFINE n == Len(d)
           D == Seq(Signs)
<1>2. \A i \in 1 .. n : Line(d[i]) \in D
  BY <1>1, LineFacts
<1> HIDE DEF n, D
<1>3. [i \in 1 .. n |-> Line(d[i])] \in Seq(D)
  BY <1>1, <1>2 DEF n
<1> QED BY <1>1, <1>3 DEF n, D

LEMMA LinesType ==
    ASSUME NEW d \in Seq(Blocks)
    PROVE  Lines(d) \in Seq(Signs) /\ Len(Lines(d)) \in Nat
BY LinesList, FlattenType DEF Lines

LEMMA LinesConcat ==
    ASSUME NEW c \in Seq(Blocks), NEW d \in Seq(Blocks)
    PROVE  Lines(c \o d) = Lines(c) \o Lines(d)
<1> DEFINE List(x) == [i \in DOMAIN x |-> Line(x[i])]
           m == Len(c)
           n == Len(d)
           x == c \o d
<1>1. List(c) \in Seq(Seq(Signs)) /\ List(d) \in Seq(Seq(Signs))
  BY LinesList
<1>2. /\ m \in Nat /\ n \in Nat /\ x \in Seq(Blocks) /\ Len(x) = m + n
      /\ \A i \in 1 .. m + n : x[i] = IF i <= m THEN c[i] ELSE d[i - m]
  BY ConcatProperties
<1>3. DOMAIN c = 1 .. m /\ DOMAIN d = 1 .. n
  OBVIOUS
<1> HIDE DEF m, n
<1>4. DOMAIN x = 1 .. m + n
  BY <1>2
<1> HIDE DEF x
<1>5. /\ List(c) = [i \in 1 .. m |-> Line(c[i])] /\ List(d) = [i \in 1 .. n |-> Line(d[i])]
      /\ List(x) = [i \in 1 .. m + n |-> Line(x[i])]
  BY <1>3, <1>4
<1>6. List(x) = List(c) \o List(d)
  <2> DEFINE p == List(c)
             q == List(d)
             r == List(x)
             D == Seq(Signs)
  <2>1. p \in Seq(D) /\ q \in Seq(D) /\ r \in Seq(D)
    BY <1>1, <1>2, LinesList
  <2>2. Len(p) = m /\ Len(q) = n /\ Len(r) = m + n
    BY <1>2, <1>5
  <2>3. /\ \A i \in 1 .. m : p[i] = Line(c[i])
        /\ \A i \in 1 .. n : q[i] = Line(d[i])
        /\ \A i \in 1 .. m + n : r[i] = Line(x[i])
    BY <1>5
  <2> HIDE DEF p, q, r, D
  <2>4. /\ p \o q \in Seq(D) /\ Len(p \o q) = m + n
        /\ \A i \in 1 .. m + n : (p \o q)[i] = IF i <= m THEN p[i] ELSE q[i - m]
    BY <2>1, <2>2, ConcatProperties
  <2>5. ASSUME NEW i \in 1 .. m + n PROVE r[i] = (p \o q)[i]
    <3>1. CASE i <= m
      <4>1. i \in 1 .. m
        BY <1>2, <3>1
      <4> QED BY <1>2, <2>3, <2>4, <3>1, <4>1
    <3>2. CASE ~ (i <= m)
      <4>1. i - m \in 1 .. n
        BY <1>2, <3>2
      <4> QED BY <1>2, <2>3, <2>4, <3>2, <4>1
    <3> QED BY <3>1, <3>2
  <2>6. r = p \o q
    BY <2>1, <2>2, <2>4, <2>5, SeqEqual
  <2> QED BY <2>6 DEF p, q, r
<1>7. FlattenSeq(List(c) \o List(d)) = FlattenSeq(List(c)) \o FlattenSeq(List(d))
  <2> DEFINE p == List(c)
             q == List(d)
  <2>1. p \in Seq(Seq(Signs)) /\ q \in Seq(Seq(Signs))
    BY <1>1
  <2> HIDE DEF p, q
  <2> QED BY <2>1, FlattenConcat DEF p, q
<1> QED BY <1>6, <1>7 DEF Lines, x

LEMMA LinesSmall ==
    Lines(<<>>) = <<>> /\ \A b \in Blocks : Lines(<<b>>) = Line(b)
<1>1. Lines(<<>>) = <<>>
  BY DEF Lines, FlattenSeq
<1>2. ASSUME NEW b \in Blocks PROVE Lines(<<b>>) = Line(b)
  <2>1. DOMAIN <<b>> = 1 .. 1 /\ <<b>>[1] = b /\ <<b>> \in Seq(Blocks)
    OBVIOUS
  <2>2. [i \in DOMAIN <<b>> |-> Line(<<b>>[i])] = <<Line(b)>>
    <3>1. [i \in 1 .. 1 |-> Line(<<b>>[i])] = <<Line(b)>>
      BY <2>1
    <3> QED BY <2>1, <3>1
  <2>3. Line(b) \in Seq(Signs)
    BY LineFacts
  <2> DEFINE l == Line(b)
  <2> HIDE DEF l
  <2>4. FlattenSeq(<<l>>) = l
    <3>1. l \in Seq(Signs) /\ <<>> \in Seq(Seq(Signs)) /\ Append(<<>>, l) = <<l>>
      BY <2>3 DEF l
    <3>2. FlattenSeq(Append(<<>>, l)) = FlattenSeq(<<>>) \o l
      BY <3>1, FlattenAppend
    <3>3. FlattenSeq(<<>>) = <<>>
      BY DEF FlattenSeq
    <3> QED BY <3>1, <3>2, <3>3
  <2> QED BY <2>2, <2>4 DEF Lines, l
<1> QED BY <1>1, <1>2

LEMMA AroundBlock ==
    ASSUME NEW d \in Seq(Blocks), NEW i \in 1 .. Len(d)
    PROVE  LET P == SubSeq(d, 1, i - 1)
               Q == SubSeq(d, i + 1, Len(d))
           IN  /\ P \in Seq(Blocks) /\ Q \in Seq(Blocks) /\ d[i] \in Blocks /\ i - 1 \in Nat
               /\ SubSeq(d, 1, i) = Append(P, d[i])
               /\ Lines(SubSeq(d, 1, i)) = Lines(P) \o Line(d[i])
               /\ Lines(d) = (Lines(P) \o Line(d[i])) \o Lines(Q)
<1> DEFINE P == SubSeq(d, 1, i - 1)
           Q == SubSeq(d, i + 1, Len(d))
           U == SubSeq(d, 1, i)
           n == Len(d)
           b == d[i]
<1>1. n \in Nat /\ i \in 1 .. n /\ i \in Nat /\ i - 1 \in 0 .. n /\ i \in 0 .. n
  OBVIOUS
<1>2. P \in Seq(Blocks) /\ b \in Blocks /\ U = Append(P, b) /\ U \in Seq(Blocks) /\ Len(U) = i
  BY <1>1, PrefixFacts
<1>3. Q \in Seq(Blocks)
  <2> DEFINE m == i + 1
  <2>1. m \in Nat /\ 1 <= m /\ n <= Len(d)
    BY <1>1
  <2> HIDE DEF m, n
  <2>2. SubSeq(d, m, n) \in Seq(Blocks)
    BY <1>1, <2>1, PartFacts
  <2> QED BY <2>2 DEF m, n
<1>4. d = U \o Q
  <2>1. /\ Len(Q) = n - i /\ \A k \in 1 .. n - i : Q[k] = d[i + k]
        /\ \A k \in 1 .. i : U[k] = d[k]
    OBVIOUS
  <2> HIDE DEF U, Q
  <2>2. /\ U \o Q \in Seq(Blocks) /\ Len(U \o Q) = i + (n - i)
        /\ \A k \in 1 .. i + (n - i) : (U \o Q)[k] = IF k <= i THEN U[k] ELSE Q[k - i]
    BY <1>2, <1>3, <2>1, ConcatProperties
  <2> HIDE DEF n
  <2>3. ASSUME NEW k \in 1 .. n PROVE d[k] = (U \o Q)[k]
    <3>1. CASE k <= i
      BY <1>1, <2>1, <2>2, <3>1
    <3>2. CASE ~ (k <= i)
      <4>1. k - i \in 1 .. n - i /\ i + (k - i) = k
        BY <1>1, <3>2
      <4> QED BY <1>1, <2>1, <2>2, <3>2, <4>1
    <3> QED BY <3>1, <3>2
  <2>4. Len(d) = n /\ i + (n - i) = n
    BY <1>1 DEF n
  <2> QED BY <2>2, <2>3, <2>4, SeqEqual
<1>5. U = P \o <<b>> /\ <<b>> \in Seq(Blocks)
  <2> HIDE DEF U, P, b
  <2> QED BY <1>2, AppendIsConcat
<1> HIDE DEF P, Q, U, b
<1>6. Lines(U) = Lines(P) \o Line(b)
  BY <1>2, <1>5, LinesConcat, LinesSmall
<1>7. Lines(d) = Lines(U) \o Lines(Q)
  BY <1>2, <1>3, <1>4, LinesConcat
<1>8. i - 1 \in Nat
  BY <1>1
<1>9. Lines(d) = (Lines(P) \o Line(b)) \o Lines(Q)
  BY <1>6, <1>7
<1> HIDE DEF n
<1> QED BY <1>2, <1>3, <1>6, <1>8, <1>9 DEF P, Q, U, b, n

\* A page's reading is its lines without the first newline.
LEMMA ReadingIs ==
    ASSUME NEW d \in Seq(Blocks)
    PROVE  /\ d = <<>> => Reading(d) = <<>>
           /\ Reading(d) \in Seq(Signs)
           /\ d # <<>> => Lines(d) = <<Newline>> \o Reading(d)
<1> DEFINE Part(i) == (IF i = 1 THEN <<>> ELSE <<Newline>>) \o Marked(d[i].runs)
           n == Len(d)
           D == Seq(Signs)
           N == <<Newline>>
<1>1. n \in Nat /\ DOMAIN d = 1 .. n /\ \A i \in 1 .. n : d[i] \in Blocks
  OBVIOUS
<1>2. Reading(d) = FlattenSeq([i \in 1 .. n |-> Part(i)])
  BY <1>1 DEF Reading
<1>3. CASE d = <<>>
  <2>1. n = 0
    BY <1>3
  <2>2. [i \in 1 .. n |-> Part(i)] = <<>>
    BY <2>1
  <2> DEFINE parts == [i \in 1 .. n |-> Part(i)]
  <2>3. Reading(d) = <<>>
    <3>1. FlattenSeq(<<>>) = <<>>
      BY DEF FlattenSeq
    <3>2. Reading(d) = FlattenSeq(parts) /\ parts = <<>>
      BY <1>2, <2>2
    <3> HIDE DEF parts
    <3> QED BY <3>1, <3>2
  <2>4. <<>> \in Seq(Signs)
    OBVIOUS
  <2> HIDE DEF n, Part
  <2> QED BY <1>3, <2>3, <2>4, Zenon
<1>4. CASE d # <<>>
  <2>1. n # 0 /\ 1 \in 1 .. n
    BY <1>1, <1>4
  <2> DEFINE rest == SubSeq(d, 2, n)
             first == Marked(d[1].runs)
             lines == [i \in 1 .. n - 1 |-> Line(rest[i])]
             parts == [i \in 1 .. n |-> Part(i)]
  <2>2. rest \in Seq(Blocks) /\ Len(rest) = n - 1 /\ \A i \in 1 .. n - 1 : rest[i] = d[i + 1]
    BY <1>1, <2>1
  <2>3. DOMAIN rest = 1 .. n - 1
    BY <2>2
  <2>4. lines \in Seq(D) /\ FlattenSeq(lines) = Lines(rest)
    BY <2>2, <2>3, LinesList DEF Lines
  <2>5. first \in D /\ Part(1) = first
    <3>1. Marked(d[1].runs) \in D
      BY <1>1, <2>1, LineFacts
    <3> DEFINE x == Marked(d[1].runs)
    <3> HIDE DEF x
    <3>2. <<>> \o x = x
      BY <3>1, ConcatEmptySeq DEF x
    <3> QED BY <3>1, <3>2 DEF x
  <2>6. \A i \in 2 .. n : Part(i) = Line(d[i])
    BY DEF Line
  <2>7. parts = <<first>> \o lines /\ <<first>> \in Seq(D)
    <3> DEFINE c == <<first>>
    <3>1. c \in Seq(D) /\ Len(c) = 1 /\ c[1] = first
      BY <2>5
    <3>2. \A i \in 1 .. n : parts[i] = Part(i)
      OBVIOUS
    <3>3. Len(lines) = n - 1 /\ \A i \in 1 .. n - 1 : lines[i] = Line(d[i + 1])
      <4>1. n - 1 \in Nat
        BY <1>1, <2>1
      <4>2. \A i \in 1 .. n - 1 : rest[i] = d[i + 1]
        BY <2>2
      <4> HIDE DEF rest, n
      <4> QED BY <4>1, <4>2
    <3>4. DOMAIN parts = 1 .. n /\ parts = [i \in 1 .. n |-> parts[i]]
      OBVIOUS
    <3> HIDE DEF c, lines, parts, rest, Part, n, D, first
    <3>5. /\ c \o lines \in Seq(D) /\ Len(c \o lines) = 1 + (n - 1)
          /\ \A i \in 1 .. 1 + (n - 1) : (c \o lines)[i] = IF i <= 1 THEN c[i] ELSE lines[i - 1]
      <4>1. c \in Seq(D) /\ lines \in Seq(D) /\ Len(c) = 1 /\ Len(lines) = n - 1
        BY <2>4, <3>1, <3>3
      <4>2. /\ c \o lines \in Seq(D) /\ Len(c \o lines) = Len(c) + Len(lines)
            /\ \A i \in 1 .. Len(c) + Len(lines) :
                  (c \o lines)[i] = IF i <= Len(c) THEN c[i] ELSE lines[i - Len(c)]
        BY <4>1, ConcatProperties
      <4> QED BY <4>1, <4>2
    <3>6. ASSUME NEW i \in 1 .. n PROVE parts[i] = (c \o lines)[i]
      <4>1. i \in 1 .. 1 + (n - 1)
        BY <1>1, <2>1
      <4>2. CASE i = 1
        BY <2>5, <3>1, <3>2, <3>5, <4>1, <4>2
      <4>3. CASE i # 1
        <5>1. i \in 2 .. n /\ i - 1 \in 1 .. n - 1 /\ ~ (i <= 1) /\ (i - 1) + 1 = i
          BY <1>1, <4>3
        <5> QED BY <2>6, <3>2, <3>3, <3>5, <4>1, <5>1
      <4> QED BY <4>2, <4>3
    <3>7. Len(c \o lines) = n
      BY <1>1, <2>1, <3>5
    <3>8. parts \in Seq(D) /\ Len(parts) = n
      <4>1. ASSUME NEW i \in 1 .. n PROVE parts[i] \in D
        <5>1. CASE i = 1
          BY <2>5, <3>2, <5>1
        <5>2. CASE i # 1
          <6>1. i \in 2 .. n
            BY <1>1, <5>2
          <6>2. Line(d[i]) \in D
            BY <1>1, LineFacts DEF D
          <6> QED BY <2>6, <3>2, <6>1, <6>2
        <5> QED BY <5>1, <5>2
      <4>2. parts \in [1 .. n -> D]
        BY <3>4, <4>1
      <4> QED BY <1>1, <4>2
    <3>9. parts = c \o lines
      BY <3>5, <3>6, <3>7, <3>8, SeqEqual
    <3> QED BY <3>1, <3>9 DEF c
  <2> DEFINE L == Lines(rest)
             one == Line(d[1])
  <2>8. Reading(d) = first \o L
    <3>1. FlattenSeq(<<first>> \o lines) = FlattenSeq(<<first>>) \o FlattenSeq(lines)
      <4> DEFINE c == <<first>>
      <4>1. c \in Seq(Seq(Signs)) /\ lines \in Seq(Seq(Signs))
        BY <2>4, <2>7
      <4> HIDE DEF c, lines
      <4> QED BY <4>1, FlattenConcat DEF c
    <3>2. FlattenSeq(<<first>>) = first
      <4> HIDE DEF first
      <4>1. first \in Seq(Signs) /\ <<>> \in Seq(Seq(Signs)) /\ Append(<<>>, first) = <<first>>
        BY <2>5
      <4>2. FlattenSeq(Append(<<>>, first)) = FlattenSeq(<<>>) \o first
        BY <4>1, FlattenAppend
      <4>3. FlattenSeq(<<>>) \o first = first
        <5>1. FlattenSeq(<<>>) = <<>>
          BY DEF FlattenSeq
        <5> QED BY <4>1, <5>1, ConcatEmptySeq
      <4> QED BY <4>1, <4>2, <4>3
    <3>3. Reading(d) = FlattenSeq(parts)
      BY <1>2
    <3> HIDE DEF parts, lines, first
    <3> QED BY <2>4, <2>7, <3>1, <3>2, <3>3
  <2>9. Lines(d) = one \o L
    <3>1. Lines(d) = (Lines(SubSeq(d, 1, 0)) \o one) \o L
      BY <2>1, AroundBlock
    <3>2. SubSeq(d, 1, 0) = <<>>
      BY PrefixFacts
    <3>3. Lines(<<>>) = <<>> /\ one \in D
      BY <1>1, <2>1, LinesSmall, LineFacts
    <3> HIDE DEF one, L
    <3>4. <<>> \o one = one
      BY <3>3, ConcatEmptySeq
    <3> QED BY <3>1, <3>2, <3>3, <3>4
  <2>10. one = N \o first
    BY DEF Line
  <2>11. N \in D /\ first \in D /\ L \in D
    <3>1. N \in Seq(Signs)
      BY DEF Signs
    <3>2. L \in Seq(Signs)
      BY <2>2, LinesType
    <3> QED BY <2>5, <3>1, <3>2
  <2> HIDE DEF N, first, L, one, rest
  <2>12. (N \o first) \o L = N \o (first \o L) /\ first \o L \in Seq(Signs)
    BY <2>11, SMTT(30)
  <2> QED BY <1>4, <2>8, <2>9, <2>10, <2>12 DEF N
<1> QED BY <1>3, <1>4

\* Where the blocks begin in the reading.
LEMMA BlockStartIs ==
    ASSUME NEW d \in Seq(Blocks), NEW i \in 1 .. Len(d) + 1
    PROVE  BlockStart(d, i) = Len(Lines(SubSeq(d, 1, i - 1)))
<1> DEFINE n == Len(d)
           Texts(m) == [k \in 1 .. m |-> TextOf(d[k])]
           Joined0(m) == FlattenSeq(Texts(m))
           S == {m \in 0 .. n : ~ (/\ Joined0(m) \in Seq(Bytes)
                                   /\ m + Len(Joined0(m)) = Len(Lines(SubSeq(d, 1, m))))}
<1>1. n \in Nat /\ \A k \in 1 .. n : d[k] \in Blocks
  OBVIOUS
<1>2. \A m \in 0 .. n : Texts(m) \in Seq(Seq(Bytes)) /\ Len(Texts(m)) = m
  <2> TAKE m \in 0 .. n
  <2> DEFINE D == Seq(Bytes)
  <2>1. \A k \in 1 .. m : TextOf(d[k]) \in D
    <3> TAKE k \in 1 .. m
    <3>1. d[k] \in Blocks
      BY <1>1
    <3> QED BY <3>1, BlockFacts
  <2> HIDE DEF D
  <2>2. m \in Nat
    BY <1>1
  <2>3. Texts(m) \in [1 .. m -> D]
    BY <2>1
  <2> HIDE DEF Texts
  <2>4. Texts(m) \in Seq(D) /\ Len(Texts(m)) = m
    BY <2>2, <2>3
  <2> QED BY <2>4 DEF D
<1>3. ASSUME S # {} PROVE FALSE
  <2>1. S \in SUBSET Nat
    BY <1>1
  <2>2. PICK m \in S : \A x \in S : m <= x
    <3> HIDE DEF S
    <3> QED BY <1>3, <2>1, LeastIs
  <2>3. m \in 0 .. n /\ ~ (/\ Joined0(m) \in Seq(Bytes)
                           /\ m + Len(Joined0(m)) = Len(Lines(SubSeq(d, 1, m))))
    BY <2>2
  <2>4. CASE m = 0
    <3>1. SubSeq(d, 1, m) = <<>> /\ Texts(m) = <<>>
      <4>1. SubSeq(d, 1, 0) = <<>>
        BY PrefixFacts
      <4>2. Texts(m) \in Seq(Seq(Bytes)) /\ Len(Texts(m)) = 0
        <5> HIDE DEF Texts, S
        <5> QED BY <1>2, <2>3, <2>4
      <4> HIDE DEF Texts, S
      <4>3. Texts(m) = <<>>
        BY <4>2, EmptySeq
      <4> QED BY <2>4, <4>1, <4>3
    <3>2. FlattenSeq(<<>>) = <<>> /\ Len(<<>>) = 0 /\ <<>> \in Seq(Bytes)
      BY DEF FlattenSeq
    <3>3. Len(Lines(<<>>)) = 0
      BY LinesSmall
    <3> DEFINE x == Joined0(m)
    <3>4. x = <<>>
      BY <3>1, <3>2
    <3> HIDE DEF x
    <3>5. m + Len(x) = 0 /\ x \in Seq(Bytes)
      BY <2>4, <3>2, <3>4
    <3>6. Len(Lines(SubSeq(d, 1, m))) = 0
      BY <3>1, <3>3
    <3> QED BY <2>3, <3>5, <3>6 DEF x
  <2>5. CASE m # 0
    <3> DEFINE l == m - 1
               text == TextOf(d[m])
    <3>1. l \in 0 .. n /\ m \in 1 .. n /\ ~ (m <= l) /\ l + 1 = m
      BY <1>1, <2>3, <2>5
    <3> HIDE DEF S
    <3>2. l \notin S
      BY <2>2, <3>1
    <3>3. Joined0(l) \in Seq(Bytes) /\ l + Len(Joined0(l)) = Len(Lines(SubSeq(d, 1, l)))
      BY <3>1, <3>2 DEF S
    <3>4. d[m] \in Blocks /\ text \in Seq(Bytes) /\ Len(text) \in Nat
      BY <1>1, <3>1, BlockFacts
    <3>5. Texts(m) = Append(Texts(l), text)
      <4>1. Texts(m) \in Seq(Seq(Bytes)) /\ Texts(l) \in Seq(Seq(Bytes)) /\ m \in 0 .. n
            /\ Len(Texts(m)) = m /\ Len(Texts(l)) = l
        BY <1>2, <2>3, <3>1
      <4>2. \A k \in 1 .. m : Texts(m)[k] = TextOf(d[k])
        OBVIOUS
      <4>3. \A k \in 1 .. l : Texts(l)[k] = TextOf(d[k])
        OBVIOUS
      <4> DEFINE w == Append(Texts(l), text)
                 D == Seq(Bytes)
      <4>4. \A k \in 1 .. m : k = m \/ k \in 1 .. l
        BY <2>3, <3>1
      <4> HIDE DEF Texts, l, D
      <4>5. /\ w \in Seq(D) /\ Len(w) = l + 1 /\ w[l + 1] = text
            /\ \A k \in 1 .. l : w[k] = Texts(l)[k]
        <5>1. Texts(l) \in Seq(D) /\ text \in D /\ l \in Nat
          BY <1>1, <3>1, <3>4, <4>1 DEF D
        <5> HIDE DEF text
        <5> QED BY <4>1, <5>1, AppendProperties
      <4> HIDE DEF w
      <4>6. \A k \in 1 .. m : Texts(m)[k] = w[k]
        BY <3>1, <4>2, <4>3, <4>4, <4>5
      <4>7. Texts(m) \in Seq(D)
        BY <4>1 DEF D
      <4> QED BY <3>1, <4>1, <4>5, <4>6, <4>7, SeqEqual DEF w
    <3>6. Joined0(m) = Joined0(l) \o text
      <4>1. Texts(l) \in Seq(Seq(Bytes))
        BY <1>2, <3>1
      <4> DEFINE t == Texts(l)
      <4> HIDE DEF Texts, text
      <4>2. FlattenSeq(Append(Texts(l), text)) = FlattenSeq(Texts(l)) \o text
        BY <3>4, <4>1, FlattenAppend
      <4> QED BY <3>5, <4>2
    <3> HIDE DEF Joined0, text
    <3>7. Joined0(m) \in Seq(Bytes) /\ Len(Joined0(m)) = Len(Joined0(l)) + Len(text)
      BY <3>3, <3>4, <3>6
    <3> DEFINE P == Lines(SubSeq(d, 1, l))
               L == Line(d[m])
    <3>8. /\ Lines(SubSeq(d, 1, m)) = P \o L
          /\ P \in Seq(Signs) /\ L \in Seq(Signs) /\ Len(L) = Len(text) + 1
      <4>1. Lines(SubSeq(d, 1, m)) = P \o L /\ SubSeq(d, 1, l) \in Seq(Blocks)
        BY <3>1, AroundBlock
      <4>2. P \in Seq(Signs)
        BY <4>1, LinesType
      <4>3. L \in Seq(Signs) /\ Len(L) = Len(text) + 1
        BY <3>4, LineFacts DEF text
      <4> QED BY <4>1, <4>2, <4>3
    <3>9. Len(Lines(SubSeq(d, 1, m))) = Len(P) + Len(text) + 1
      <4> HIDE DEF P, L
      <4> QED BY <3>4, <3>8
    <3>10. l + Len(Joined0(l)) = Len(P) /\ Len(Joined0(l)) \in Nat
      BY <3>3
    <3> HIDE DEF P, l
    <3>11. m + Len(Joined0(m)) = Len(P) + Len(text) + 1
      BY <1>1, <3>1, <3>4, <3>7, <3>10
    <3> QED BY <2>3, <3>7, <3>9, <3>11
  <2> QED BY <2>4, <2>5
<1> DEFINE j == i - 1
<1>4. j \in 0 .. n
  BY <1>1
<1>5. j + Len(Joined0(j)) = Len(Lines(SubSeq(d, 1, j)))
  BY <1>3, <1>4
<1>6. BlockStart(d, i) = j + Len(Joined0(j))
  BY DEF BlockStart
<1> QED BY <1>5, <1>6

LEMMA StartsOfBlocks ==
    ASSUME NEW d \in Seq(Blocks)
    PROVE  /\ BlockStart(d, 1) = 0
           /\ \A i \in 1 .. Len(d) + 1 : BlockStart(d, i) \in Nat
           /\ \A i \in 1 .. Len(d) : BlockStart(d, i + 1) = BlockStart(d, i) + Len(TextOf(d[i])) + 1
           /\ Len(Lines(d)) = BlockStart(d, Len(d) + 1)
<1> DEFINE n == Len(d)
<1>1. n \in Nat /\ SubSeq(d, 1, n) = d /\ SubSeq(d, 1, 0) = <<>>
  BY PrefixFacts
<1>2. BlockStart(d, 1) = 0
  <2>1. 1 \in 1 .. n + 1
    BY <1>1
  <2>2. BlockStart(d, 1) = Len(Lines(SubSeq(d, 1, 1 - 1)))
    BY <2>1, BlockStartIs
  <2>3. Len(<<>>) = 0 /\ 1 - 1 = 0
    OBVIOUS
  <2> QED BY <1>1, <2>2, <2>3, LinesSmall
<1>3. ASSUME NEW i \in 1 .. n + 1 PROVE BlockStart(d, i) \in Nat
  <2>1. i - 1 \in 0 .. n
    BY <1>1
  <2>2. SubSeq(d, 1, i - 1) \in Seq(Blocks)
    BY <2>1, PrefixFacts
  <2> QED BY <2>2, BlockStartIs, LinesType
<1>4. ASSUME NEW i \in 1 .. n
      PROVE  BlockStart(d, i + 1) = BlockStart(d, i) + Len(TextOf(d[i])) + 1
  <2> DEFINE P == Lines(SubSeq(d, 1, i - 1))
             L == Line(d[i])
  <2>1. i \in 1 .. n + 1 /\ i + 1 \in 1 .. n + 1 /\ (i + 1) - 1 = i
    BY <1>1
  <2>2. BlockStart(d, i) = Len(P) /\ BlockStart(d, i + 1) = Len(Lines(SubSeq(d, 1, i)))
    BY <2>1, BlockStartIs
  <2>3. Lines(SubSeq(d, 1, i)) = P \o L /\ d[i] \in Blocks /\ SubSeq(d, 1, i - 1) \in Seq(Blocks)
    BY AroundBlock
  <2>4. P \in Seq(Signs) /\ L \in Seq(Signs) /\ Len(L) = Len(TextOf(d[i])) + 1 /\ Len(TextOf(d[i])) \in Nat
    BY <2>3, LinesType, LineFacts
  <2> DEFINE t == Len(TextOf(d[i]))
             b == BlockStart(d, i)
             c == BlockStart(d, i + 1)
  <2> HIDE DEF P, L
  <2>5. Len(P \o L) = Len(P) + Len(L) /\ Len(P) \in Nat
    BY <2>4
  <2>6. b = Len(P) /\ c = Len(P \o L) /\ Len(L) = t + 1 /\ t \in Nat
    BY <2>2, <2>3, <2>4
  <2> HIDE DEF t, b, c
  <2>7. c = b + t + 1
    BY <2>5, <2>6
  <2> QED BY <2>7 DEF t, b, c
<1>5. Len(Lines(d)) = BlockStart(d, n + 1)
  <2>1. n + 1 \in 1 .. n + 1 /\ (n + 1) - 1 = n
    BY <1>1
  <2>2. BlockStart(d, n + 1) = Len(Lines(SubSeq(d, 1, (n + 1) - 1)))
    BY <2>1, BlockStartIs
  <2> QED BY <1>1, <2>1, <2>2
<1> QED BY <1>2, <1>3, <1>4, <1>5

LEMMA BlocksApart ==
    ASSUME NEW d \in Seq(Blocks), NEW i \in 1 .. Len(d), NEW j \in 1 .. Len(d) + 1, i < j
    PROVE  BlockStart(d, i) + Len(TextOf(d[i])) < BlockStart(d, j)
<1> DEFINE n == Len(d)
           z == BlockStart(d, i) + Len(TextOf(d[i]))
           S == {k \in 1 .. n + 1 : i < k /\ ~ (z < BlockStart(d, k))}
<1>1. /\ n \in Nat /\ z \in Nat
      /\ \A k \in 1 .. n + 1 : BlockStart(d, k) \in Nat
      /\ \A k \in 1 .. n : /\ BlockStart(d, k + 1) = BlockStart(d, k) + Len(TextOf(d[k])) + 1
                           /\ Len(TextOf(d[k])) \in Nat
  <2>1. n \in Nat /\ \A k \in 1 .. n : d[k] \in Blocks
    OBVIOUS
  <2>2. \A k \in 1 .. n : Len(TextOf(d[k])) \in Nat
    BY <2>1, BlockFacts
  <2>3. i \in 1 .. n + 1
    BY <2>1
  <2> QED BY <2>1, <2>2, <2>3, StartsOfBlocks
<1>2. BlockStart(d, i + 1) = z + 1
  BY <1>1
<1> HIDE DEF z
<1>3. ASSUME S # {} PROVE FALSE
  <2>1. S \in SUBSET Nat
    BY <1>1
  <2>2. PICK k \in S : \A x \in S : k <= x
    <3> HIDE DEF S
    <3> QED BY <1>3, <2>1, LeastIs
  <2>3. k \in 1 .. n + 1 /\ i < k /\ ~ (z < BlockStart(d, k))
    BY <2>2
  <2>4. CASE k = i + 1
    BY <1>1, <1>2, <2>3, <2>4
  <2>5. CASE k # i + 1
    <3>1. k - 1 \in 1 .. n /\ k - 1 \in 1 .. n + 1 /\ i < k - 1 /\ ~ (k <= k - 1) /\ (k - 1) + 1 = k
      BY <1>1, <2>3, <2>5
    <3>2. z < BlockStart(d, k - 1)
      BY <2>2, <3>1
    <3>3. BlockStart(d, k) = BlockStart(d, k - 1) + Len(TextOf(d[k - 1])) + 1
      BY <1>1, <3>1
    <3> DEFINE b == BlockStart(d, k - 1)
               c == Len(TextOf(d[k - 1]))
    <3>4. b \in Nat /\ c \in Nat
      BY <1>1, <3>1
    <3> HIDE DEF b, c
    <3> QED BY <1>1, <2>3, <3>2, <3>3, <3>4 DEF b, c
  <2> QED BY <2>4, <2>5
<1> QED BY <1>3 DEF z

\* Where the letters of the blocks, and the newlines, are in the reading.
LEMMA ReadingFrame ==
    ASSUME NEW d \in Seq(Blocks)
    PROVE  /\ Reading(d) \in Seq(Signs)
           /\ d # <<>> => Len(Reading(d)) = BlockStart(d, Len(d) + 1) - 1
           /\ \A i \in 1 .. Len(d) :
                 /\ BlockStart(d, i) + Len(TextOf(d[i])) <= Len(Reading(d))
                 /\ \A k \in 1 .. Len(TextOf(d[i])) :
                       Reading(d)[BlockStart(d, i) + k] = Marked(d[i].runs)[k]
                 /\ i # 1 => Reading(d)[BlockStart(d, i)] = Newline
<1> DEFINE n == Len(d)
           R == Reading(d)
           W == Lines(d)
           N == <<Newline>>
<1>1. n \in Nat /\ R \in Seq(Signs) /\ Len(R) \in Nat /\ W \in Seq(Signs) /\ N \in Seq(Signs)
  <2>1. R \in Seq(Signs) /\ W \in Seq(Signs)
    BY ReadingIs, LinesType
  <2>2. N \in Seq(Signs)
    BY DEF Signs
  <2> HIDE DEF R, W, N
  <2> QED BY <2>1, <2>2
<1>2. CASE d = <<>>
  BY <1>1, <1>2
<1>3. CASE d # <<>>
  <2>1. W = N \o R /\ Len(W) = BlockStart(d, n + 1)
    BY <1>3, ReadingIs, StartsOfBlocks
  <2>2. Len(N) = 1
    OBVIOUS
  <2> HIDE DEF R, W, N
  <2>3. Len(W) = 1 + Len(R) /\ \A p \in 1 .. Len(R) : W[p + 1] = R[p]
    <3>1. /\ Len(N \o R) = 1 + Len(R)
          /\ \A p \in 1 .. 1 + Len(R) : (N \o R)[p] = IF p <= 1 THEN N[p] ELSE R[p - 1]
      <4>1. /\ Len(N \o R) = Len(N) + Len(R)
            /\ \A p \in 1 .. Len(N) + Len(R) : (N \o R)[p] = IF p <= Len(N) THEN N[p] ELSE R[p - Len(N)]
        BY <1>1, ConcatProperties
      <4> QED BY <2>2, <4>1
    <3>2. ASSUME NEW p \in 1 .. Len(R) PROVE W[p + 1] = R[p]
      <4>1. p + 1 \in 1 .. 1 + Len(R) /\ ~ (p + 1 <= 1) /\ (p + 1) - 1 = p
        BY <1>1
      <4> QED BY <2>1, <3>1, <4>1
    <3> QED BY <2>1, <3>1, <3>2
  <2>4. ASSUME NEW i \in 1 .. n
        PROVE  /\ BlockStart(d, i) + Len(TextOf(d[i])) <= Len(R)
               /\ \A k \in 1 .. Len(TextOf(d[i])) : R[BlockStart(d, i) + k] = Marked(d[i].runs)[k]
               /\ i # 1 => R[BlockStart(d, i)] = Newline
    <3> DEFINE b == BlockStart(d, i)
               t == Len(TextOf(d[i]))
               P == Lines(SubSeq(d, 1, i - 1))
               L == Line(d[i])
               Q == Lines(SubSeq(d, i + 1, n))
               M == Marked(d[i].runs)
    <3>1. i \in 1 .. n + 1 /\ n + 1 \in 1 .. n + 1 /\ i < n + 1
      BY <1>1
    <3>2. /\ W = (P \o L) \o Q /\ d[i] \in Blocks
          /\ SubSeq(d, 1, i - 1) \in Seq(Blocks) /\ SubSeq(d, i + 1, n) \in Seq(Blocks)
      BY AroundBlock DEF W
    <3>3. P \in Seq(Signs) /\ Q \in Seq(Signs)
      BY <3>2, LinesType
    <3>4. /\ L \in Seq(Signs) /\ Len(L) = t + 1 /\ L[1] = Newline /\ t \in Nat
          /\ \A k \in 1 .. t : L[k + 1] = M[k]
      BY <3>2, LineFacts
    <3>5. Len(P) = b /\ b \in Nat
      BY <3>1, BlockStartIs, StartsOfBlocks
    <3>6. b + t < BlockStart(d, n + 1)
      BY <3>1, BlocksApart
    <3>7. i # 1 => b # 0
      <4>1. ASSUME i # 1 PROVE b # 0
        <5>1. 1 \in 1 .. n /\ 1 < i
          BY <1>1, <4>1
        <5>2. BlockStart(d, 1) + Len(TextOf(d[1])) < b
          BY <3>1, <5>1, BlocksApart
        <5>3. d[1] \in Blocks
          BY <5>1
        <5>4. Len(TextOf(d[1])) \in Nat /\ BlockStart(d, 1) = 0
          BY <5>3, BlockFacts, StartsOfBlocks
        <5> HIDE DEF b
        <5> QED BY <3>5, <5>2, <5>4
      <4> QED BY <4>1
    <3> HIDE DEF P, L, Q, M, b, t
    <3>8. ASSUME NEW k \in 1 .. t + 1 PROVE W[b + k] = L[k]
      <4>1. Has((P \o L) \o Q, Len(P) + k, L[k])
        BY <3>3, <3>4, MiddlePart
      <4> QED BY <3>2, <3>5, <4>1, Zenon DEF Has
    <3>9. b + t <= Len(R)
      BY <1>1, <2>1, <2>3, <3>4, <3>5, <3>6 DEF n
    <3>10. ASSUME NEW k \in 1 .. t PROVE R[b + k] = M[k]
      <4>1. b + k \in 1 .. Len(R) /\ k + 1 \in 1 .. t + 1 /\ (b + k) + 1 = b + (k + 1)
        BY <1>1, <3>4, <3>5, <3>9
      <4> QED BY <2>3, <3>4, <3>8, <4>1
    <3>11. ASSUME i # 1 PROVE R[b] = Newline
      <4>1. b \in 1 .. Len(R) /\ 1 \in 1 .. t + 1
        BY <1>1, <3>4, <3>5, <3>7, <3>9, <3>11
      <4> QED BY <2>3, <3>4, <3>8, <4>1
    <3> QED BY <3>9, <3>10, <3>11 DEF b, t, M
  <2>5. Len(R) = BlockStart(d, n + 1) - 1
    BY <1>1, <2>1, <2>3
  <2> QED BY <1>1, <2>4, <2>5 DEF R
<1> QED BY <1>2, <1>3

\* A place of the reading is in one of the blocks, or is the newline before it.
LEMMA PlaceInReading ==
    ASSUME NEW d \in Seq(Blocks), NEW p \in 1 .. Len(Reading(d))
    PROVE  \E i \in 1 .. Len(d) :
              \/ \E k \in 1 .. Len(TextOf(d[i])) : p = BlockStart(d, i) + k
              \/ i # 1 /\ p = BlockStart(d, i)
<1> DEFINE n == Len(d)
           R == Reading(d)
           S == {i \in 1 .. n : p < BlockStart(d, i + 1)}
<1>1. /\ n \in Nat /\ p \in Nat /\ p # 0 /\ p <= Len(R) /\ Len(R) \in Nat
      /\ \A i \in 1 .. n + 1 : BlockStart(d, i) \in Nat
      /\ \A i \in 1 .. n : /\ BlockStart(d, i + 1) = BlockStart(d, i) + Len(TextOf(d[i])) + 1
                           /\ Len(TextOf(d[i])) \in Nat
      /\ BlockStart(d, 1) = 0
  <2>1. n \in Nat /\ \A k \in 1 .. n : d[k] \in Blocks
    OBVIOUS
  <2>2. \A k \in 1 .. n : Len(TextOf(d[k])) \in Nat
    BY <2>1, BlockFacts
  <2>3. R \in Seq(Signs)
    BY ReadingIs
  <2> HIDE DEF R
  <2>4. Len(R) \in Nat
    BY <2>3
  <2>5. p \in Nat /\ p # 0 /\ p <= Len(R)
    BY <2>4 DEF R
  <2> QED BY <2>1, <2>2, <2>4, <2>5, StartsOfBlocks
<1>2. d # <<>> /\ Len(R) = BlockStart(d, n + 1) - 1
  <2>1. ASSUME d = <<>> PROVE FALSE
    <3>1. R = <<>>
      BY <2>1, ReadingIs
    <3>2. Len(R) = 0
      BY <3>1
    <3> HIDE DEF R
    <3> QED BY <1>1, <3>2
  <2> QED BY <2>1, ReadingFrame
<1>3. S \in SUBSET Nat /\ S # {}
  <2>1. n # 0
    BY <1>2
  <2>2. n \in 1 .. n /\ n + 1 \in 1 .. n + 1
    BY <1>1, <2>1
  <2> DEFINE c == BlockStart(d, n + 1)
  <2>3. c \in Nat /\ Len(R) = c - 1
    BY <1>1, <1>2, <2>2
  <2> HIDE DEF c, R
  <2>4. p < c
    BY <1>1, <2>3
  <2>5. n \in S
    BY <2>2, <2>4 DEF c
  <2>6. S \in SUBSET Nat
    <3> HIDE DEF n
    <3> QED BY <1>1
  <2> HIDE DEF S
  <2> QED BY <2>5, <2>6
<1>4. PICK i \in S : \A x \in S : i <= x
  <2> HIDE DEF S
  <2> QED BY <1>3, LeastIs
<1>5. i \in 1 .. n /\ p < BlockStart(d, i + 1)
  BY <1>4
<1>6. BlockStart(d, i) <= p
  <2>1. CASE i = 1
    BY <1>1, <2>1
  <2>2. CASE i # 1
    <3>1. i - 1 \in 1 .. n /\ ~ (i <= i - 1) /\ (i - 1) + 1 = i /\ i \in 1 .. n + 1
      BY <1>1, <1>5, <2>2
    <3>2. ~ (p < BlockStart(d, i))
      BY <1>4, <3>1
    <3> QED BY <1>1, <3>1, <3>2
  <2> QED BY <2>1, <2>2
<1> DEFINE b == BlockStart(d, i)
           t == Len(TextOf(d[i]))
<1>7. b \in Nat /\ t \in Nat /\ b <= p /\ p < b + t + 1 /\ (i = 1 => b = 0)
  <2>1. i \in 1 .. n + 1
    BY <1>1, <1>5
  <2> QED BY <1>1, <1>5, <1>6, <2>1
<1> HIDE DEF b, t, S, R
<1>8. CASE p = b
  <2>1. i # 1
    BY <1>1, <1>7, <1>8
  <2> QED BY <1>5, <1>8, <2>1 DEF b
<1>9. CASE p # b
  <2>1. p - b \in 1 .. t /\ p = b + (p - b)
    BY <1>1, <1>7, <1>9
  <2> QED BY <1>5, <2>1 DEF b, t
<1> QED BY <1>8, <1>9

-----------------------------------------------------------------------------
(* The ends of the selection as offsets. *)

\* What a selection of two blocks of the document is, in offsets of the reading.
Ranged(e, s, lower, upper) ==
    /\ s.first \in 1 .. Len(e.doc) /\ s.last \in 1 .. Len(e.doc) /\ s.first <= s.last
    /\ s.from \in Boundaries(TextOf(e.doc[s.first])) /\ s.to \in Boundaries(TextOf(e.doc[s.last]))
    /\ s.first = s.last => s.from <= s.to
    /\ s.from \in Nat /\ s.from <= Len(TextOf(e.doc[s.first]))
    /\ s.to \in Nat /\ s.to <= Len(TextOf(e.doc[s.last]))
    /\ lower = BlockStart(e.doc, s.first) + s.from
    /\ upper = BlockStart(e.doc, s.last) + s.to
    /\ lower \in Nat /\ upper \in Nat /\ lower <= upper

LEMMA EndsRanged ==
    ASSUME NEW e \in Editing, NEW a \in 1 .. Len(e.doc), NEW f \in 1 .. Len(e.doc),
           NEW from \in Nat, NEW to \in Nat, a < f \/ (a = f /\ from <= to)
    PROVE  Ranged(e, Ends(e.doc, a, f, from, to), OffsetIn(e.doc, a, from), OffsetIn(e.doc, f, to))
<1> DEFINE d == e.doc
           n == Len(d)
           x == Clamp(TextOf(d[a]), from)
           y == Clamp(TextOf(d[f]), to)
           s == Ends(d, a, f, from, to)
           l == Len(TextOf(d[a]))
           m == Len(TextOf(d[f]))
           A == BlockStart(d, a)
           F == BlockStart(d, f)
<1>1. d \in Seq(Blocks) /\ n \in Nat /\ d[a] \in Blocks /\ d[f] \in Blocks
  BY EditingFacts, DocumentFacts
<1>2. TextOf(d[a]) \in Seq(Bytes) /\ TextOf(d[f]) \in Seq(Bytes)
  BY <1>1, BlockFacts
<1>3. x \in Boundaries(TextOf(d[a])) /\ x \in Nat /\ x <= l /\ l \in Nat
  <2> DEFINE t == TextOf(d[a])
  <2>1. t \in Seq(Bytes)
    BY <1>2
  <2> HIDE DEF t
  <2>2. Clamp(t, from) \in Boundaries(t) /\ Clamp(t, from) \in Nat /\ Clamp(t, from) <= Len(t) /\ Len(t) \in Nat
    BY <2>1, ClampIn
  <2> QED BY <2>2 DEF t
<1>4. y \in Boundaries(TextOf(d[f])) /\ y \in Nat /\ y <= m /\ m \in Nat
  <2> DEFINE t == TextOf(d[f])
  <2>1. t \in Seq(Bytes)
    BY <1>2
  <2> HIDE DEF t
  <2>2. Clamp(t, to) \in Boundaries(t) /\ Clamp(t, to) \in Nat /\ Clamp(t, to) <= Len(t) /\ Len(t) \in Nat
    BY <2>1, ClampIn
  <2> QED BY <2>2 DEF t
<1>5. a \in Nat /\ f \in Nat /\ a # 0 /\ f # 0
  BY <1>1
<1>6. s = [first |-> a, from |-> x, last |-> f, to |-> y]
  BY <1>5 DEF Ends
<1>7. OffsetIn(d, a, from) = A + x /\ OffsetIn(d, f, to) = F + y
  BY <1>5 DEF OffsetIn
<1>8. A \in Nat /\ F \in Nat
  <2>1. a \in 1 .. n + 1 /\ f \in 1 .. n + 1
    BY <1>1
  <2> QED BY <1>1, <2>1, StartsOfBlocks
<1>9. a = f => x <= y
  BY <1>2, ClampFacts
<1>10. a < f => A + l < F
  <2>1. f \in 1 .. n + 1
    BY <1>1
  <2> QED BY <1>1, <2>1, BlocksApart
<1>11. s.first = a /\ s.from = x /\ s.last = f /\ s.to = y
  BY <1>6
<1> HIDE DEF s, x, y, l, m, A, F
<1>12. A + x <= F + y /\ a <= f
  <2>1. CASE a < f
    BY <1>3, <1>4, <1>5, <1>8, <1>10, <2>1
  <2>2. CASE a = f
    <3>1. A = F
      BY <2>2 DEF A, F
    <3> QED BY <1>3, <1>4, <1>5, <1>8, <1>9, <2>2, <3>1
  <2> QED BY <2>1, <2>2
<1>13. A + x \in Nat /\ F + y \in Nat
  BY <1>3, <1>4, <1>8
<1>14. Ranged(e, s, A + x, F + y)
  BY <1>3, <1>4, <1>9, <1>11, <1>12, <1>13 DEF Ranged, A, F, l, m
<1> QED BY <1>7, <1>14 DEF s

\* From and To are the ends of what Selection finds.
LEMMA SelectionRanged ==
    ASSUME Inv, doc # <<>>
    PROVE  Ranged(Now, Selection(Now), From, To)
<1> DEFINE e == Now
           a == IndexOf(doc, anchor.block)
           f == IndexOf(doc, focus.block)
           x == anchor.offset
           y == focus.offset
           A == OffsetIn(doc, a, x)
           F == OffsetIn(doc, f, y)
<1>1. e \in Editing /\ e.doc = doc /\ e.anchor = anchor /\ e.focus = focus /\ Anchored(e)
  BY NowFacts DEF Inv
<1>2. doc \in Document /\ x \in Nat /\ y \in Nat
  BY <1>1, EditingFacts
<1>3. {anchor.block, focus.block} \subseteq IdsOf(doc)
  <2>1. {anchor, focus} \subseteq Places(doc)
    BY <1>1 DEF Anchored
  <2> QED BY <1>2, <2>1, PlaceFacts
<1>4. a \in 1 .. Len(doc) /\ f \in 1 .. Len(doc)
  BY <1>2, <1>3, IndexFacts
<1>5. From = Min({A, F}) /\ To = Max({A, F})
  BY DEF From, To, Offset
<1>6. Selection(e) = Between(e, a, f)
  BY <1>1 DEF Selection
<1> HIDE DEF e, a, f, x, y
<1>7. a \in Nat /\ f \in Nat
  BY <1>2, <1>4, DocumentFacts
<1>8. CASE a < f \/ (a = f /\ x <= y)
  <2>1. Between(e, a, f) = Ends(doc, a, f, x, y)
    BY <1>1, <1>8 DEF Between, x, y
  <2>2. Ranged(e, Ends(doc, a, f, x, y), A, F)
    BY <1>1, <1>2, <1>4, <1>8, EndsRanged
  <2>3. A \in Nat /\ F \in Nat /\ A <= F
    BY <2>2 DEF Ranged
  <2> HIDE DEF A, F
  <2>4. Min({A, F}) = A /\ Max({A, F}) = F
    BY <2>3, MinMaxOf
  <2> QED BY <1>5, <1>6, <2>1, <2>2, <2>4 DEF e
<1>9. CASE ~ (a < f \/ (a = f /\ x <= y))
  <2>1. Between(e, a, f) = Ends(doc, f, a, y, x)
    BY <1>1, <1>9 DEF Between, x, y
  <2>2. f < a \/ (f = a /\ y <= x)
    BY <1>2, <1>7, <1>9
  <2>3. Ranged(e, Ends(doc, f, a, y, x), F, A)
    BY <1>1, <1>2, <1>4, <2>2, EndsRanged
  <2>4. A \in Nat /\ F \in Nat /\ F <= A
    BY <2>3 DEF Ranged
  <2> HIDE DEF A, F
  <2>5. {A, F} = {F, A}
    OBVIOUS
  <2>6. Min({F, A}) = F /\ Max({F, A}) = A
    BY <2>4, MinMaxOf
  <2> QED BY <1>5, <1>6, <2>1, <2>3, <2>5, <2>6 DEF e
<1> QED BY <1>8, <1>9

-----------------------------------------------------------------------------
(* Toggling a mark. *)

\* What toggling does to one block: from and to are between its characters.
Toggled(M, new, from, to) ==
    /\ new \in Seq(Letters) /\ Len(new) = Len(M)
    /\ \A at \in 1 .. Len(M) :
          /\ new[at][1] = M[at][1]
          /\ at \notin from + 1 .. to => new[at] = M[at]
          /\ at \in from + 1 .. to =>
                (Bold \in new[at][2] <=> \E j \in from + 1 .. to : Bold \notin M[j][2])

LEMMA ToggleIs ==
    ASSUME NEW runs \in Contents, NEW from \in Boundaries(RunsText(runs)),
           NEW to \in Boundaries(RunsText(runs))
    PROVE  Toggled(Marked(runs), Marked(Toggle(runs, from, to)), from, to)
<1> DEFINE M == Marked(runs)
           text == RunsText(runs)
           on == ~ RangeMarked(runs, from, to, Bold)
           new == MarkRange(runs, from, to, Bold, on)
           n == Len(M)
<1>1. runs \in Seq(TextRun) /\ Bold \in Marks
  BY ContentIs, ContentsAssumption
<1>2. M \in Seq(Letters) /\ n \in Nat /\ text \in Seq(Bytes) /\ Len(text) = n
  BY <1>1, MarkedType, TextOfMarked
<1>3. from \in Nat /\ to \in Nat /\ Clamp(text, from) = from /\ Clamp(text, to) = to /\ to <= n
  <2>1. from \in Nat /\ to \in Nat /\ Clamp(text, from) = from /\ Clamp(text, to) = to
    BY <1>2, ClampFacts
  <2>2. to \in 0 .. n
    BY <1>2, BoundaryFacts
  <2> HIDE DEF n
  <2> QED BY <1>2, <2>1, <2>2
<1>4. Toggle(runs, from, to) = IF from < to THEN new ELSE runs
  BY DEF Toggle
<1>5. CASE ~ (from < to)
  <2>1. from + 1 .. to = {}
    BY <1>3, <1>5
  <2> HIDE DEF M
  <2> QED BY <1>2, <1>4, <1>5, <2>1 DEF Toggled, M
<1>6. CASE from < to
  <2> DEFINE x == Marked(new)
  <2>1. /\ new \in Seq(TextRun) /\ Len(x) = n
        /\ \A at \in 1 .. n : x[at] = IF from < at /\ at <= to
                                      THEN <<M[at][1], WithMark(M[at][2], Bold, on)>> ELSE M[at]
    <3> HIDE DEF on
    <3> QED BY <1>1, <1>3, MarkRangeMarks
  <2>2. on <=> \E j \in from + 1 .. to : Bold \notin M[j][2]
    <3>1. to <= Len(RunsText(runs))
      BY <1>2, <1>3
    <3> QED BY <1>1, <1>3, <1>6, <3>1, RangeMarkedIs
  <2>3. x \in Seq(Letters)
    BY <2>1, MarkedType
  <2> HIDE DEF on, new, x, M, n
  <2>4. ASSUME NEW at \in 1 .. n
        PROVE  /\ x[at][1] = M[at][1]
               /\ at \notin from + 1 .. to => x[at] = M[at]
               /\ at \in from + 1 .. to =>
                     (Bold \in x[at][2] <=> \E j \in from + 1 .. to : Bold \notin M[j][2])
    <3>1. at \in from + 1 .. to <=> from < at /\ at <= to
      BY <1>2, <1>3
    <3>2. CASE at \in from + 1 .. to
      <4> DEFINE w == WithMark(M[at][2], Bold, on)
      <4>1. Bold \in w <=> on
        BY DEF WithMark
      <4>2. x[at] = <<M[at][1], w>>
        BY <2>1, <3>1, <3>2
      <4> HIDE DEF w
      <4>3. x[at][1] = M[at][1] /\ x[at][2] = w
        BY <4>2
      <4> QED BY <2>2, <3>2, <4>1, <4>3
    <3>3. CASE at \notin from + 1 .. to
      <4>1. x[at] = M[at]
        BY <2>1, <3>1, <3>3
      <4> QED BY <3>3, <4>1
    <3> QED BY <3>2, <3>3
  <2>5. Toggled(M, x, from, to)
    BY <2>1, <2>3, <2>4 DEF Toggled, n
  <2>6. Toggle(runs, from, to) = new
    BY <1>4, <1>6 DEF new
  <2> QED BY <2>5, <2>6 DEF M, x
<1> QED BY <1>5, <1>6

\* Blocks of the same lengths begin at the same places.
LEMMA SameStarts ==
    ASSUME NEW c \in Seq(Blocks), NEW d \in Seq(Blocks), Len(c) = Len(d),
           \A i \in 1 .. Len(d) : Len(TextOf(c[i])) = Len(TextOf(d[i])),
           NEW i \in 1 .. Len(d) + 1
    PROVE  BlockStart(c, i) = BlockStart(d, i)
<1> DEFINE n == Len(d)
           S == {k \in 1 .. n + 1 : BlockStart(c, k) # BlockStart(d, k)}
<1>1. n \in Nat /\ Len(c) = n
  OBVIOUS
<1>2. ASSUME S # {} PROVE FALSE
  <2>1. S \in SUBSET Nat
    BY <1>1
  <2>2. PICK k \in S : \A x \in S : k <= x
    <3> HIDE DEF S
    <3> QED BY <1>2, <2>1, LeastIs
  <2>3. k \in 1 .. n + 1 /\ BlockStart(c, k) # BlockStart(d, k)
    BY <2>2
  <2>4. CASE k = 1
    BY <2>3, <2>4, StartsOfBlocks
  <2>5. CASE k # 1
    <3>1. k - 1 \in 1 .. n /\ k - 1 \in 1 .. n + 1 /\ ~ (k <= k - 1) /\ (k - 1) + 1 = k
      BY <1>1, <2>3, <2>5
    <3>2. BlockStart(c, k - 1) = BlockStart(d, k - 1)
      BY <2>2, <3>1
    <3>3. /\ BlockStart(c, k) = BlockStart(c, k - 1) + Len(TextOf(c[k - 1])) + 1
          /\ BlockStart(d, k) = BlockStart(d, k - 1) + Len(TextOf(d[k - 1])) + 1
      <4> DEFINE l == k - 1
      <4>1. l \in 1 .. Len(c) /\ l \in 1 .. Len(d) /\ l + 1 = k
        BY <1>1, <3>1
      <4> HIDE DEF l
      <4>2. /\ BlockStart(c, l + 1) = BlockStart(c, l) + Len(TextOf(c[l])) + 1
            /\ BlockStart(d, l + 1) = BlockStart(d, l) + Len(TextOf(d[l])) + 1
        BY <4>1, StartsOfBlocks
      <4> QED BY <4>1, <4>2 DEF l
    <3>4. Len(TextOf(c[k - 1])) = Len(TextOf(d[k - 1]))
      BY <3>1
    <3> QED BY <2>3, <3>2, <3>3, <3>4
  <2> QED BY <2>4, <2>5
<1> QED BY <1>2

\* The part of a block that is between two ends.
LowerIn(s, i) == IF i \in s.first .. s.last /\ i = s.first THEN s.from ELSE 0
UpperIn(d, s, i) ==
    IF i \notin s.first .. s.last THEN 0 ELSE IF i = s.last THEN s.to ELSE Len(TextOf(d[i]))

LEMMA TouchedPart ==
    ASSUME NEW e, e.doc \in Seq(Blocks), NEW s, NEW lower, NEW upper, Ranged(e, s, lower, upper),
           NEW i \in 1 .. Len(e.doc)
    PROVE  LET from == LowerIn(s, i)
               to == UpperIn(e.doc, s, i)
               size == Len(TextOf(e.doc[i]))
           IN  /\ from \in Nat /\ to \in Nat /\ to <= size
               /\ \A k \in 1 .. size :
                     BlockStart(e.doc, i) + k \in lower + 1 .. upper <=> k \in from + 1 .. to
<1> DEFINE d == e.doc
           n == Len(d)
           f == s.first
           l == s.last
           a == s.from
           c == s.to
           from == LowerIn(s, i)
           to == UpperIn(d, s, i)
           Start(j) == BlockStart(d, j)
           Size(j) == Len(TextOf(d[j]))
           End(j) == Start(j) + Size(j)
<1>1. /\ f \in 1 .. n /\ l \in 1 .. n /\ f <= l /\ a \in Nat /\ a <= Size(f) /\ c \in Nat /\ c <= Size(l)
      /\ lower = Start(f) + a /\ upper = Start(l) + c
  BY DEF Ranged
<1>2. n \in Nat /\ i \in Nat /\ f \in Nat /\ l \in Nat
  BY <1>1
<1>3. /\ \A j \in 1 .. n : Start(j) \in Nat /\ Size(j) \in Nat
      /\ \A j, k \in 1 .. n : j < k => End(j) < Start(k)
  <2>1. \A j \in 1 .. n : d[j] \in Blocks /\ j \in 1 .. n + 1
    BY <1>2
  <2>2. \A j \in 1 .. n : Size(j) \in Nat
    BY <2>1, BlockFacts
  <2>3. \A j \in 1 .. n : Start(j) \in Nat
    BY <2>1, StartsOfBlocks
  <2>4. \A j, k \in 1 .. n : j < k => End(j) < Start(k)
    BY <2>1, BlocksApart
  <2> QED BY <2>2, <2>3, <2>4
<1>4. /\ from = IF i \in f .. l /\ i = f THEN a ELSE 0
      /\ to = IF i \notin f .. l THEN 0 ELSE IF i = l THEN c ELSE Size(i)
  BY DEF LowerIn, UpperIn
<1> DEFINE b == Start(i)
           t == Size(i)
           A == Start(f)
           L == Start(l)
           x == Size(f)
           y == Size(l)
<1>5. b \in Nat /\ t \in Nat /\ A \in Nat /\ L \in Nat /\ x \in Nat /\ y \in Nat
  BY <1>1, <1>3
<1>6. /\ i < f => b + t < A
      /\ f < i => A + x < b
      /\ i < l => b + t < L
      /\ l < i => L + y < b
      /\ f = i => A = b /\ x = t
      /\ l = i => L = b /\ y = t
      /\ f < l => A + x < L
  BY <1>1, <1>3
<1> SUFFICES /\ from \in Nat /\ to \in Nat /\ to <= t
             /\ \A k \in 1 .. t : b + k \in lower + 1 .. upper <=> k \in from + 1 .. to
  OBVIOUS
<1>7. i \in f .. l <=> f <= i /\ i <= l
  BY <1>2
<1>8. a <= x /\ c <= y /\ lower = A + a /\ upper = L + c /\ f <= l /\ a \in Nat /\ c \in Nat
  BY <1>1
<1>9. to = IF ~ (f <= i /\ i <= l) THEN 0 ELSE IF i = l THEN c ELSE t
  BY <1>4, <1>7
<1>10. from = IF f = i THEN a ELSE 0
  BY <1>2, <1>4, <1>7, <1>8
<1> HIDE DEF f, l, a, c, from, to, Start, Size, b, t, A, L, x, y, n
<1>11. from \in Nat /\ to \in Nat /\ to <= t
  BY <1>5, <1>6, <1>8, <1>9, <1>10
<1>12. ASSUME NEW k \in 1 .. t PROVE b + k \in lower + 1 .. upper <=> k \in from + 1 .. to
  <2>1. k \in Nat /\ 1 <= k /\ k <= t
    BY <1>5
  <2>2. /\ b + k \in lower + 1 .. upper <=> lower < b + k /\ b + k <= upper
        /\ k \in from + 1 .. to <=> from < k /\ k <= to
    BY <1>5, <1>8, <1>11, <2>1
  <2>3. CASE i < f
    BY <1>2, <1>5, <1>6, <1>8, <1>9, <1>10, <2>1, <2>2, <2>3
  <2>4. CASE l < i
    BY <1>2, <1>5, <1>6, <1>8, <1>9, <1>10, <2>1, <2>2, <2>4
  <2>5. CASE f <= i /\ i <= l
    <3>1. lower < b + k <=> from < k
      BY <1>2, <1>5, <1>6, <1>8, <1>10, <2>1, <2>5
    <3>2. b + k <= upper <=> k <= to
      BY <1>2, <1>5, <1>6, <1>8, <1>9, <2>1, <2>5
    <3> QED BY <2>2, <3>1, <3>2
  <2> QED BY <1>2, <2>3, <2>4, <2>5
<1> QED BY <1>11, <1>12

\* A document whose blocks are toggled between two ends each.
BlockwiseToggled(d, new, s) ==
    /\ new \in Seq(Blocks) /\ Len(new) = Len(d)
    /\ \A i \in 1 .. Len(d) :
          Toggled(Marked(d[i].runs), Marked(new[i].runs), LowerIn(s, i), UpperIn(d, s, i))

LEMMA ToggledDoc ==
    ASSUME NEW e \in Editing, NEW s, NEW lower, NEW upper, Ranged(e, s, lower, upper)
    PROVE  BlockwiseToggled(e.doc, ToggleBlocks(e, s).doc, s)
<1> DEFINE d == e.doc
           n == Len(d)
           From0(i) == IF i = s.first THEN s.from ELSE 0
           To0(i) == IF i = s.last THEN s.to ELSE Len(TextOf(d[i]))
           one(i) == IF i \notin s.first .. s.last THEN d[i]
                     ELSE [d[i] EXCEPT !.runs = Toggle(@, From0(i), To0(i))]
           new == [i \in DOMAIN d |-> one(i)]
<1>1. d \in Seq(Blocks) /\ n \in Nat /\ DOMAIN d = 1 .. n /\ \A i \in 1 .. n : d[i] \in Blocks
  BY EditingFacts, DocumentFacts
<1>2. ToggleBlocks(e, s).doc = new
  <2> DEFINE f == [e EXCEPT !.doc = new]
  <2>1. ToggleBlocks(e, s) = f
    BY DEF ToggleBlocks
  <2> HIDE DEF new
  <2>2. f.doc = new
    BY DEF Editing
  <2> QED BY <2>1, <2>2
<1>3. ASSUME NEW i \in 1 .. n
      PROVE  one(i) \in Blocks
             /\ Toggled(Marked(d[i].runs), Marked(one(i).runs), LowerIn(s, i), UpperIn(d, s, i))
  <2> DEFINE b == d[i]
             M == Marked(b.runs)
  <2>1. b \in Blocks /\ b.runs \in Contents /\ b.runs \in Seq(TextRun) /\ M \in Seq(Letters)
        /\ TextOf(b) = RunsText(b.runs) /\ TextOf(b) \in Seq(Bytes)
    BY <1>1, BlockFacts, LineFacts DEF TextOf
  <2>2. CASE i \notin s.first .. s.last
    <3>1. one(i) = b /\ LowerIn(s, i) = 0 /\ UpperIn(d, s, i) = 0
      BY <2>2 DEF LowerIn, UpperIn
    <3> HIDE DEF b, one
    <3>2. 0 + 1 .. 0 = {}
      OBVIOUS
    <3> HIDE DEF M
    <3>3. Toggled(M, M, 0, 0)
      BY <2>1, <3>2 DEF Toggled
    <3> QED BY <2>1, <3>1, <3>3 DEF b, M
  <2>3. CASE i \in s.first .. s.last
    <3> DEFINE from == From0(i)
               to == To0(i)
               t == Toggle(b.runs, from, to)
    <3>1. from = LowerIn(s, i) /\ to = UpperIn(d, s, i)
      BY <2>3 DEF LowerIn, UpperIn
    <3>2. from \in Boundaries(TextOf(b)) /\ to \in Boundaries(TextOf(b)) /\ from \in Nat /\ to \in Nat
      <4>1. 0 \in Boundaries(TextOf(b)) /\ Len(TextOf(b)) \in Boundaries(TextOf(b))
        BY <2>1, BoundaryFacts
      <4>2. from \in Boundaries(TextOf(b)) /\ to \in Boundaries(TextOf(b))
        BY <4>1 DEF Ranged
      <4> HIDE DEF from, to, b
      <4> QED BY <2>1, <4>2, ClampFacts
    <3>3. one(i) = [b EXCEPT !.runs = t]
      BY <2>3
    <3> HIDE DEF from, to, b, one
    <3>4. t \in Contents /\ Toggled(Marked(b.runs), Marked(t), from, to)
      BY <2>1, <3>2, ToggledContent, ToggleIs
    <3> HIDE DEF t
    <3>5. [b EXCEPT !.runs = t] \in Blocks /\ [b EXCEPT !.runs = t].runs = t
      BY <2>1, <3>4 DEF Blocks
    <3> QED BY <3>1, <3>3, <3>4, <3>5 DEF b
  <2> QED BY <2>2, <2>3
<1>4. /\ new \in Seq(Blocks) /\ Len(new) = n
      /\ \A i \in 1 .. n : new[i] = one(i)
  <2>1. \A i \in 1 .. n : one(i) \in Blocks
    BY <1>3
  <2> HIDE DEF one, n
  <2>2. new = [i \in 1 .. n |-> one(i)]
    BY <1>1
  <2> HIDE DEF new
  <2>3. new \in [1 .. n -> Blocks]
    BY <2>1, <2>2
  <2> QED BY <1>1, <2>2, <2>3
<1> HIDE DEF one, new
<1> QED BY <1>2, <1>3, <1>4 DEF BlockwiseToggled

LEMMA ToggledReading ==
    ASSUME NEW e \in Editing, NEW s, NEW lower, NEW upper, Ranged(e, s, lower, upper),
           NEW new, BlockwiseToggled(e.doc, new, s)
    PROVE  Toggles(Reading(e.doc), Reading(new),
                   {BlockStart(e.doc, i) + 1 .. BlockStart(e.doc, i) + Len(TextOf(e.doc[i])) : i \in DOMAIN e.doc},
                   lower + 1 .. upper)
<1> DEFINE d == e.doc
           n == Len(d)
           R == Reading(d)
           W == Reading(new)
           Start(i) == BlockStart(d, i)
           Size(i) == Len(TextOf(d[i]))
           M(i) == Marked(d[i].runs)
           X(i) == Marked(new[i].runs)
           Lo(i) == LowerIn(s, i)
           Hi(i) == UpperIn(d, s, i)
           touched == lower + 1 .. upper
<1>1. /\ d \in Seq(Blocks) /\ n \in Nat /\ DOMAIN d = 1 .. n /\ \A i \in 1 .. n : d[i] \in Blocks
  BY EditingFacts, DocumentFacts
<1>2. /\ new \in Seq(Blocks) /\ Len(new) = n
      /\ \A i \in 1 .. n : Toggled(M(i), X(i), Lo(i), Hi(i))
  BY DEF BlockwiseToggled
<1>3. \A i \in 1 .. n : /\ Len(M(i)) = Size(i) /\ Len(X(i)) = Size(i) /\ Size(i) \in Nat
                        /\ Len(TextOf(new[i])) = Size(i)
  <2> TAKE i \in 1 .. n
  <2>1. d[i] \in Blocks /\ new[i] \in Blocks
    BY <1>1, <1>2
  <2>2. Len(M(i)) = Size(i) /\ Size(i) \in Nat /\ Len(X(i)) = Len(TextOf(new[i]))
    BY <2>1, LineFacts
  <2>3. Len(X(i)) = Len(M(i))
    BY <1>2 DEF Toggled
  <2> QED BY <2>2, <2>3
<1>4. \A i \in 1 .. n + 1 : BlockStart(new, i) = Start(i) /\ Start(i) \in Nat
  BY <1>1, <1>2, <1>3, SameStarts, StartsOfBlocks
<1>5. /\ R \in Seq(Signs) /\ W \in Seq(Signs) /\ Len(R) = Len(W)
  <2>1. R \in Seq(Signs) /\ W \in Seq(Signs)
    BY <1>1, <1>2, ReadingFrame
  <2>2. CASE n = 0
    <3>1. d = <<>> /\ new = <<>>
      BY <1>1, <1>2, <2>2
    <3>2. R = <<>> /\ W = <<>>
      BY <1>1, <1>2, <3>1, ReadingIs
    <3> QED BY <2>1, <3>2
  <2>3. CASE n # 0
    <3>1. d # <<>> /\ new # <<>> /\ n + 1 \in 1 .. n + 1
      BY <1>1, <1>2, <2>3
    <3>2. Len(R) = Start(n + 1) - 1 /\ Len(W) = BlockStart(new, n + 1) - 1
      BY <1>1, <1>2, <3>1, ReadingFrame
    <3> QED BY <1>4, <2>1, <3>1, <3>2
  <2> QED BY <2>2, <2>3
<1>6. \A i \in 1 .. n :
         /\ Start(i) + Size(i) <= Len(R)
         /\ \A k \in 1 .. Size(i) : R[Start(i) + k] = M(i)[k] /\ W[Start(i) + k] = X(i)[k]
         /\ i # 1 => R[Start(i)] = Newline /\ W[Start(i)] = Newline
  <2> TAKE i \in 1 .. n
  <2>1. i \in 1 .. n + 1 /\ i \in 1 .. Len(new)
    BY <1>1, <1>2
  <2>2. BlockStart(new, i) = Start(i) /\ Len(TextOf(new[i])) = Size(i)
    BY <1>3, <1>4, <2>1
  <2>3. /\ Start(i) + Size(i) <= Len(R)
        /\ \A k \in 1 .. Size(i) : R[Start(i) + k] = M(i)[k]
        /\ i # 1 => R[Start(i)] = Newline
    BY <1>1, ReadingFrame
  <2>4. /\ \A k \in 1 .. Len(TextOf(new[i])) : W[BlockStart(new, i) + k] = X(i)[k]
        /\ i # 1 => W[BlockStart(new, i)] = Newline
    BY <1>2, <2>1, ReadingFrame
  <2> HIDE DEF Start, Size, M, X, R, W
  <2>5. /\ \A k \in 1 .. Size(i) : W[Start(i) + k] = X(i)[k]
        /\ i # 1 => W[Start(i)] = Newline
    BY <2>2, <2>4
  <2> QED BY <2>3, <2>5
<1>7. \A i \in 1 .. n : /\ Lo(i) \in Nat /\ Hi(i) \in Nat /\ Hi(i) <= Size(i)
                        /\ \A k \in 1 .. Size(i) : Start(i) + k \in touched <=> k \in Lo(i) + 1 .. Hi(i)
  BY <1>1, TouchedPart
<1>8. \A p \in 1 .. Len(R) : \E i \in 1 .. n : \/ \E k \in 1 .. Size(i) : p = Start(i) + k
                                               \/ i # 1 /\ p = Start(i)
  BY <1>1, PlaceInReading
<1>9. DOMAIN R = 1 .. Len(R) /\ DOMAIN W = 1 .. Len(R) /\ Len(R) \in Nat
  <2> HIDE DEF R, W
  <2> QED BY <1>5
<1>10. \A i \in 1 .. n : Start(i) \in Nat
  <2>1. \A i \in 1 .. n : i \in 1 .. n + 1
    BY <1>1
  <2> QED BY <1>4, <2>1
<1> HIDE DEF R, W, Start, Size, M, X, Lo, Hi, touched, n
<1>11. \A i \in 1 .. n : \A k \in 1 .. Size(i) :
          /\ X(i)[k][1] = M(i)[k][1]
          /\ k \notin Lo(i) + 1 .. Hi(i) => X(i)[k] = M(i)[k]
          /\ k \in Lo(i) + 1 .. Hi(i) =>
                (Bold \in X(i)[k][2] <=> \E j \in Lo(i) + 1 .. Hi(i) : Bold \notin M(i)[j][2])
  BY <1>2, <1>3 DEF Toggled
<1>12. ASSUME NEW p \in 1 .. Len(R)
       PROVE  W[p][1] = R[p][1] /\ (p \notin touched => W[p] = R[p])
  <2>1. PICK i \in 1 .. n : \/ \E k \in 1 .. Size(i) : p = Start(i) + k
                            \/ i # 1 /\ p = Start(i)
    BY <1>8
  <2>2. CASE i # 1 /\ p = Start(i)
    BY <1>6, <2>2
  <2>3. ASSUME NEW k \in 1 .. Size(i), p = Start(i) + k
        PROVE  W[p][1] = R[p][1] /\ (p \notin touched => W[p] = R[p])
    <3>1. R[p] = M(i)[k] /\ W[p] = X(i)[k]
      BY <1>6, <2>3
    <3>2. p \in touched <=> k \in Lo(i) + 1 .. Hi(i)
      BY <1>7, <2>3
    <3> QED BY <1>11, <3>1, <3>2
  <2> QED BY <2>1, <2>2, <2>3
<1>13. Unmarked(W) = Unmarked(R)
  <2>1. Unmarked(W) = [p \in 1 .. Len(R) |-> W[p][1]] /\ Unmarked(R) = [p \in 1 .. Len(R) |-> R[p][1]]
    BY <1>9 DEF Unmarked
  <2> QED BY <1>12, <2>1
<1>14. \A p \in DOMAIN R \ touched : W[p] = R[p]
  BY <1>9, <1>12
<1>15. ASSUME NEW i \in 1 .. n, NEW p \in (Start(i) + 1 .. Start(i) + Size(i)) \cap touched
       PROVE  Bold \in W[p][2] <=>
                 \E q \in (Start(i) + 1 .. Start(i) + Size(i)) \cap touched : ~ (Bold \in R[q][2])
  <2> DEFINE k == p - Start(i)
             here == (Start(i) + 1 .. Start(i) + Size(i)) \cap touched
  <2>1. k \in 1 .. Size(i) /\ p = Start(i) + k
    BY <1>3, <1>10
  <2> HIDE DEF k
  <2>2. k \in Lo(i) + 1 .. Hi(i)
    BY <1>7, <2>1
  <2>3. W[p] = X(i)[k]
    BY <1>6, <2>1
  <2>4. Bold \in W[p][2] <=> \E j \in Lo(i) + 1 .. Hi(i) : Bold \notin M(i)[j][2]
    BY <1>11, <2>1, <2>2, <2>3
  <2>5. ASSUME NEW j \in Lo(i) + 1 .. Hi(i), Bold \notin M(i)[j][2]
        PROVE  \E q \in here : ~ (Bold \in R[q][2])
    <3>1. j \in 1 .. Size(i)
      BY <1>3, <1>7
    <3>2. Start(i) + j \in touched
      BY <1>7, <3>1
    <3>3. R[Start(i) + j] = M(i)[j]
      BY <1>6, <3>1
    <3>4. Start(i) + j \in Start(i) + 1 .. Start(i) + Size(i)
      BY <1>3, <1>10, <3>1
    <3>5. Start(i) + j \in here /\ ~ (Bold \in R[Start(i) + j][2])
      BY <2>5, <3>2, <3>3, <3>4
    <3> QED BY <3>5
  <2>6. ASSUME NEW q \in here, ~ (Bold \in R[q][2])
        PROVE  \E j \in Lo(i) + 1 .. Hi(i) : Bold \notin M(i)[j][2]
    <3> DEFINE j == q - Start(i)
    <3>1. j \in 1 .. Size(i) /\ q = Start(i) + j
      BY <1>3, <1>10
    <3> HIDE DEF j
    <3>2. j \in Lo(i) + 1 .. Hi(i)
      BY <1>7, <3>1
    <3>3. R[q] = M(i)[j]
      BY <1>6, <3>1
    <3> QED BY <2>6, <3>2, <3>3
  <2> QED BY <2>4, <2>5, <2>6
<1> DEFINE inBlock == {Start(i) + 1 .. Start(i) + Size(i) : i \in DOMAIN d}
<1>16. \A here \in inBlock : \A p \in here \cap touched :
          Bold \in W[p][2] <=> \E q \in here \cap touched : ~ (Bold \in R[q][2])
  <2> TAKE here \in inBlock
  <2>1. PICK i \in 1 .. n : here = Start(i) + 1 .. Start(i) + Size(i)
    BY <1>1 DEF n
  <2> QED BY <1>15, <2>1
<1>17. Toggles(R, W, inBlock, touched)
  <2> HIDE DEF inBlock
  <2> QED BY <1>13, <1>14, <1>16 DEF Toggles
<1> QED BY <1>17 DEF R, W, Start, Size, touched

LEMMA ToggleChecks ==
    ASSUME Inv
    PROVE  ToggleExact
<1> DEFINE e == Now
           s == Selection(e)
           new == ToggleMark(e).doc
           inBlock == {BlockStart(doc, i) + 1 .. BlockStart(doc, i) + Len(TextOf(doc[i])) : i \in DOMAIN doc}
           R == Reading(doc)
           touched == From + 1 .. To
<1>1. e \in Editing /\ e.doc = doc /\ e.anchor = anchor /\ e.focus = focus
  BY NowFacts DEF Inv
<1>2. ToggleMark(e) = IF Collapsed(e) \/ s.first = 0 THEN e ELSE Dirty(ToggleBlocks(e, s))
  BY DEF ToggleMark, ToggleIn
<1>3. ToggleExact <=> Toggles(R, Reading(new), inBlock, touched)
  BY DEF ToggleExact
<1>4. CASE doc = <<>>
  <2>1. R = <<>> /\ DOMAIN doc = {}
    <3>1. doc \in Seq(Blocks)
      BY <1>1, EditingFacts, DocumentFacts
    <3>2. Reading(doc) = <<>>
      BY <3>1, <1>4, ReadingIs
    <3>3. DOMAIN doc = {}
      BY <1>4
    <3> QED BY <3>2, <3>3
  <2>2. new = doc
    <3>1. s.first = 0
      <4>1. \A i \in 1 .. Len(doc) : FALSE
        BY <1>4
      <4>2. Selects(e, s)
        BY <1>1, SelectionFacts
      <4> HIDE DEF s
      <4> QED BY <1>1, <4>1, <4>2 DEF Selects
    <3> QED BY <1>1, <1>2, <3>1
  <2>3. inBlock = {} /\ DOMAIN R = {}
    BY <2>1
  <2> HIDE DEF inBlock, R, touched, new
  <2> QED BY <1>3, <2>2, <2>3 DEF Toggles, R
<1>5. CASE doc # <<>> /\ Collapsed(e)
  <2>1. new = doc /\ anchor = focus
    BY <1>1, <1>2, <1>5 DEF Collapsed
  <2>2. touched = {}
    <3> DEFINE A == Offset(doc, anchor)
    <3>1. From = Min({A, A}) /\ To = Max({A, A}) /\ Ranged(e, s, From, To)
      BY <1>5, <2>1, SelectionRanged DEF From, To
    <3>2. From \in Nat /\ To \in Nat /\ From <= To
      BY <3>1 DEF Ranged
    <3>3. A \in Nat
      <4> DEFINE i == IndexOf(doc, anchor.block)
      <4>1. doc \in Document /\ anchor.offset \in Nat
        BY <1>1, EditingFacts
      <4>2. i \in Nat /\ i <= Len(doc) /\ doc \in Seq(Blocks) /\ Len(doc) \in Nat
        BY <4>1, IndexFacts, DocumentFacts
      <4>3. CASE i = 0
        BY <4>3 DEF Offset, OffsetIn
      <4>4. CASE i # 0
        <5>1. i \in 1 .. Len(doc) /\ i \in 1 .. Len(doc) + 1
          BY <4>2, <4>4
        <5>2. doc[i] \in Blocks
          BY <4>2, <5>1
        <5>3. Clamp(TextOf(doc[i]), anchor.offset) \in Nat /\ BlockStart(doc, i) \in Nat
          BY <4>1, <4>2, <5>1, <5>2, BlockFacts, StartsOfBlocks
        <5>4. A = BlockStart(doc, i) + Clamp(TextOf(doc[i]), anchor.offset)
          BY <4>4 DEF Offset, OffsetIn
        <5> QED BY <5>3, <5>4
      <4> QED BY <4>3, <4>4
    <3> HIDE DEF A
    <3>4. Min({A, A}) = A /\ Max({A, A}) = A
      BY <3>3, MinMaxOf
    <3>5. From = A /\ To = A
      BY <3>1, <3>4
    <3> QED BY <3>3, <3>5
  <2> HIDE DEF inBlock, R, touched, new
  <2> QED BY <1>3, <2>1, <2>2 DEF Toggles, R
<1>6. CASE doc # <<>> /\ ~ Collapsed(e)
  <2>1. Ranged(e, s, From, To)
    BY <1>6, SelectionRanged
  <2>2. s.first # 0
    BY <2>1 DEF Ranged
  <2>3. new = ToggleBlocks(e, s).doc
    <3> DEFINE f == ToggleBlocks(e, s)
    <3>1. ToggleMark(e) = Dirty(f)
      BY <1>2, <1>6, <2>2
    <3>2. Dirty(f).doc = f.doc
      <4> DEFINE newdoc == f.doc
      <4>1. \E x : f = [e EXCEPT !.doc = x]
        BY DEF ToggleBlocks
      <4>2. PICK x : f = [e EXCEPT !.doc = x]
        BY <4>1
      <4> HIDE DEF f
      <4> QED BY <1>1, <4>2 DEF Dirty, Editing
    <3> QED BY <3>1, <3>2
  <2> HIDE DEF e, s
  <2>4. BlockwiseToggled(doc, ToggleBlocks(e, s).doc, s)
    BY <1>1, <2>1, ToggledDoc
  <2> DEFINE nd == ToggleBlocks(e, s).doc
  <2> HIDE DEF nd
  <2>5. Toggles(Reading(doc), Reading(nd), inBlock, From + 1 .. To)
    BY <1>1, <2>1, <2>4, ToggledReading DEF nd
  <2> QED BY <1>3, <2>3, <2>5 DEF nd
<1> QED BY <1>4, <1>5, <1>6

\* toggle_mark over a whole selection: the page reads the same afterwards, no mark
\* outside the selection changes, and in each block what is selected of it has the
\* mark unless all of it had it before.
THEOREM TogglingIsExact == Spec => []ToggleExact
<1>1. Inv => ToggleExact
  BY ToggleChecks
<1> QED BY <1>1, Invariance, PTL

-----------------------------------------------------------------------------
(* How a page reads as one text, in which a block is a newline and its text, *)
(* and how cuts and splices of that text meet the blocks. *)

Break == <<NewlineByte>>
Glyphs == Bytes \cup {NewlineByte}
Text(d) == Unmarked(Lines(d))

LEMMA BreakFacts ==
    Break \in Seq(Glyphs) /\ Len(Break) = 1 /\ Break[1] = NewlineByte /\ Seq(Bytes) \subseteq Seq(Glyphs)
<1> DEFINE B == NewlineByte
<1>1. B \in Glyphs
  BY DEF Glyphs
<1>2. Seq(Bytes) \subseteq Seq(Glyphs)
  BY DEF Glyphs
<1> HIDE DEF B
<1>3. <<B>> \in Seq(Glyphs) /\ Len(<<B>>) = 1 /\ <<B>>[1] = B
  BY <1>1
<1> QED BY <1>2, <1>3 DEF Break, B

LEMMA SignFacts ==
    /\ \A x \in Signs : x[1] \in Glyphs
    /\ Newline \in Signs /\ Newline[1] = NewlineByte
    /\ Seq(Letters) \subseteq Seq(Signs)
<1>1. \A x \in Letters : x[1] \in Glyphs
  BY DEF Letters, Glyphs
<1>2. Newline[1] = NewlineByte /\ NewlineByte \in Glyphs
  BY DEF Newline, Glyphs
<1>3. Seq(Letters) \subseteq Seq(Signs)
  BY DEF Signs
<1>4. Newline \in Signs
  BY DEF Signs
<1>5. \A x \in Signs : x \in Letters \/ x = Newline
  BY DEF Signs
<1> QED BY <1>1, <1>2, <1>3, <1>4, <1>5

\* What Unmarked gives, for readings that have newlines.
LEMMA PlainFacts ==
    ASSUME NEW a \in Seq(Signs)
    PROVE  /\ Unmarked(a) \in Seq(Glyphs) /\ Len(Unmarked(a)) = Len(a) /\ Len(a) \in Nat
           /\ \A k \in 1 .. Len(a) : Unmarked(a)[k] = a[k][1]
<1> DEFINE n == Len(a)
           G == Glyphs
           u == [k \in 1 .. n |-> a[k][1]]
<1>1. n \in Nat /\ DOMAIN a = 1 .. n /\ \A k \in 1 .. n : a[k] \in Signs
  OBVIOUS
<1>2. \A k \in 1 .. n : a[k][1] \in G
  BY <1>1, SignFacts
<1> HIDE DEF n
<1>3. Unmarked(a) = u
  BY <1>1 DEF Unmarked
<1> HIDE DEF G
<1>4. u \in Seq(G) /\ Len(u) = n /\ \A k \in 1 .. n : u[k] = a[k][1]
  BY <1>1, <1>2
<1> HIDE DEF u
<1> QED BY <1>1, <1>3, <1>4 DEF n, G

LEMMA PlainConcat ==
    ASSUME NEW a \in Seq(Signs), NEW b \in Seq(Signs)
    PROVE  Unmarked(a \o b) = Unmarked(a) \o Unmarked(b)
<1> DEFINE m == Len(a)
           n == Len(b)
           c == a \o b
           u == Unmarked(a)
           v == Unmarked(b)
           w == Unmarked(c)
<1>1. m \in Nat /\ n \in Nat
  BY PlainFacts
<1>2. /\ c \in Seq(Signs) /\ Len(c) = m + n
      /\ \A i \in 1 .. m + n : c[i] = IF i <= m THEN a[i] ELSE b[i - m]
  BY ConcatProperties
<1> HIDE DEF c
<1>3. /\ u \in Seq(Glyphs) /\ Len(u) = m /\ \A k \in 1 .. m : u[k] = a[k][1]
      /\ v \in Seq(Glyphs) /\ Len(v) = n /\ \A k \in 1 .. n : v[k] = b[k][1]
  BY PlainFacts
<1>4. w \in Seq(Glyphs) /\ Len(w) = m + n /\ \A k \in 1 .. m + n : w[k] = c[k][1]
  BY <1>2, PlainFacts
<1> HIDE DEF u, v, w, m, n
<1>5. /\ u \o v \in Seq(Glyphs) /\ Len(u \o v) = m + n
      /\ \A i \in 1 .. m + n : (u \o v)[i] = IF i <= m THEN u[i] ELSE v[i - m]
  BY <1>3, ConcatProperties
<1>6. ASSUME NEW i \in 1 .. m + n PROVE w[i] = (u \o v)[i]
  <2>1. CASE i <= m
    <3>1. i \in 1 .. m
      BY <1>1, <2>1
    <3>2. w[i] = c[i][1] /\ c[i] = a[i]
      BY <1>2, <1>4, <2>1
    <3>3. u[i] = a[i][1] /\ (u \o v)[i] = u[i]
      BY <1>3, <1>5, <2>1, <3>1
    <3> QED BY <3>2, <3>3
  <2>2. CASE ~ (i <= m)
    <3>1. i - m \in 1 .. n
      BY <1>1, <2>2
    <3>2. w[i] = c[i][1] /\ c[i] = b[i - m]
      BY <1>2, <1>4, <2>2
    <3>3. v[i - m] = b[i - m][1] /\ (u \o v)[i] = v[i - m]
      BY <1>3, <1>5, <2>2, <3>1
    <3> QED BY <3>2, <3>3
  <2> QED BY <2>1, <2>2
<1>7. w = u \o v
  BY <1>4, <1>5, <1>6, SeqEqual
<1> QED BY <1>7 DEF u, v, w, c

LEMMA NewlineText == <<Newline>> \in Seq(Signs) /\ Unmarked(<<Newline>>) = Break
<1> DEFINE x == Newline
<1>1. x \in Signs /\ x[1] = NewlineByte
  BY SignFacts
<1> HIDE DEF x
<1>2. <<x>> \in Seq(Signs) /\ DOMAIN <<x>> = 1 .. 1 /\ <<x>>[1] = x
  BY <1>1
<1>3. Unmarked(<<x>>) = [k \in 1 .. 1 |-> <<x>>[k][1]]
  BY <1>2 DEF Unmarked
<1>4. Unmarked(<<x>>) = <<x[1]>>
  BY <1>2, <1>3
<1> QED BY <1>1, <1>2, <1>4 DEF Break, x

LEMMA TextFacts ==
    ASSUME NEW d \in Seq(Blocks)
    PROVE  /\ Text(d) \in Seq(Glyphs) /\ Len(Text(d)) = Len(Lines(d)) /\ Len(Text(d)) \in Nat
           /\ Plain(d) \in Seq(Glyphs)
           /\ d # <<>> => Text(d) = Break \o Plain(d)
<1> DEFINE l == Lines(d)
           r == Reading(d)
           N == <<Newline>>
<1>1. l \in Seq(Signs) /\ r \in Seq(Signs) /\ (d # <<>> => l = N \o r)
  BY LinesType, ReadingIs
<1>2. N \in Seq(Signs) /\ Unmarked(N) = Break
  BY NewlineText
<1> HIDE DEF l, r, N
<1>3. Unmarked(l) \in Seq(Glyphs) /\ Len(Unmarked(l)) = Len(l) /\ Len(l) \in Nat /\ Unmarked(r) \in Seq(Glyphs)
  BY <1>1, PlainFacts
<1>4. d # <<>> => Unmarked(l) = Unmarked(N) \o Unmarked(r)
  BY <1>1, <1>2, PlainConcat
<1> QED BY <1>2, <1>3, <1>4 DEF Text, Plain, l, r

LEMMA TextConcat ==
    ASSUME NEW c \in Seq(Blocks), NEW d \in Seq(Blocks)
    PROVE  Text(c \o d) = Text(c) \o Text(d)
<1> DEFINE a == Lines(c)
           b == Lines(d)
<1>1. a \in Seq(Signs) /\ b \in Seq(Signs) /\ Lines(c \o d) = a \o b
  BY LinesType, LinesConcat
<1> HIDE DEF a, b
<1>2. Unmarked(a \o b) = Unmarked(a) \o Unmarked(b)
  BY <1>1, PlainConcat
<1> QED BY <1>1, <1>2 DEF Text, a, b

LEMMA TextSmall ==
    /\ Text(<<>>) = <<>>
    /\ \A b \in Blocks : <<b>> \in Seq(Blocks) /\ Text(<<b>>) = Break \o TextOf(b)
<1>1. Text(<<>>) = <<>>
  <2>1. Lines(<<>>) = <<>>
    BY LinesSmall
  <2>2. Unmarked(<<>>) = <<>>
    BY DEF Unmarked
  <2> QED BY <2>1, <2>2 DEF Text
<1>2. ASSUME NEW b \in Blocks PROVE <<b>> \in Seq(Blocks) /\ Text(<<b>>) = Break \o TextOf(b)
  <2> DEFINE M == Marked(b.runs)
  <2>1. M \in Seq(Signs) /\ Lines(<<b>>) = <<Newline>> \o M /\ b.runs \in Seq(TextRun)
    BY LineFacts, LinesSmall, BlockFacts DEF Line
  <2>2. Unmarked(M) = TextOf(b)
    BY <2>1, TextOfMarked DEF TextOf
  <2>3. <<b>> \in Seq(Blocks) /\ <<b>> # <<>>
    OBVIOUS
  <2> DEFINE N == <<Newline>>
  <2>4. N \in Seq(Signs) /\ Unmarked(N) = Break
    BY NewlineText
  <2> HIDE DEF M, N
  <2>5. Unmarked(N \o M) = Unmarked(N) \o Unmarked(M)
    BY <2>1, <2>4, PlainConcat
  <2>6. Text(<<b>>) = Unmarked(N \o M)
    BY <2>1 DEF Text, N
  <2> QED BY <2>2, <2>3, <2>4, <2>5, <2>6
<1> QED BY <1>1, <1>2

\* The part of a sequence of two, up to and after a place in the second.
LEMMA CutSecond ==
    ASSUME NEW B, NEW p \in Seq(B), NEW r \in Seq(B), NEW c \in 0 .. Len(r)
    PROVE  UpTo(p \o r, Len(p) + c) = p \o UpTo(r, c) /\ After(p \o r, Len(p) + c) = After(r, c)
<1> DEFINE E == <<>>
           R == SubSeq(r, c + 1, Len(r))
           s == p \o r
<1>1. E \in Seq(B) /\ Len(r) \in Nat /\ c \in Nat
  OBVIOUS
<1>2. R \in Seq(B)
  <2>1. c + 1 \in Nat /\ 1 <= c + 1 /\ Len(r) \in Nat
    BY <1>1
  <2> DEFINE m == c + 1
             n == Len(r)
  <2>2. m \in Nat /\ n \in Nat /\ 1 <= m /\ n <= Len(r)
    BY <2>1
  <2> HIDE DEF m, n
  <2>3. SubSeq(r, m, n) \in Seq(B)
    BY <2>2, PartFacts
  <2> QED BY <2>3 DEF m, n
<1>3. s \in Seq(B)
  BY ConcatProperties
<1> HIDE DEF E, R, s
<1>4. Halves(s \o E, Len(p) + c, p \o SubSeq(r, 1, c), R \o E)
  BY <1>1, CutJoin DEF R, s
<1>5. s \o E = s /\ R \o E = R
  BY <1>2, <1>3, ConcatEmptySeq DEF E
<1> QED BY <1>4, <1>5 DEF Halves, UpTo, After, R, s

\* The same for a sequence of three, in the one in the middle.
LEMMA CutInMiddle ==
    ASSUME NEW B, NEW p \in Seq(B), NEW r \in Seq(B), NEW q \in Seq(B), NEW c \in 0 .. Len(r)
    PROVE  \A at : at = Len(p) + c =>
              /\ UpTo(Cat(Cat(p, r), q), at) = Cat(p, UpTo(r, c))
              /\ After(Cat(Cat(p, r), q), at) = Cat(After(r, c), q)
<1> DEFINE w == (p \o r) \o q
           n == Len(p) + c
           a == p \o SubSeq(r, 1, c)
           b == SubSeq(r, c + 1, Len(r)) \o q
<1>1. Halves(w, n, a, b)
  BY CutJoin
<1>2. /\ w = Cat(Cat(p, r), q)
      /\ a = Cat(p, UpTo(r, c)) /\ b = Cat(After(r, c), q)
  BY DEF Cat, UpTo, After
<1> HIDE DEF w, n, a, b
<1>3. UpTo(w, n) = a /\ After(w, n) = b
  BY <1>1 DEF Halves, UpTo, After
<1>4. ASSUME NEW at, at = n
      PROVE  /\ UpTo(Cat(Cat(p, r), q), at) = Cat(p, UpTo(r, c))
             /\ After(Cat(Cat(p, r), q), at) = Cat(After(r, c), q)
  BY <1>2, <1>3, <1>4
<1> QED BY <1>4 DEF n

LEMMA PartTypes ==
    ASSUME NEW B, NEW s \in Seq(B), NEW at \in 0 .. Len(s)
    PROVE  /\ UpTo(s, at) \in Seq(B) /\ After(s, at) \in Seq(B)
           /\ Len(UpTo(s, at)) = at /\ Len(After(s, at)) = Len(s) - at
           /\ \A k \in 1 .. at : UpTo(s, at)[k] = s[k]
           /\ \A k \in 1 .. Len(s) - at : After(s, at)[k] = s[at + k]
<1> DEFINE n == Len(s)
           m == at + 1
<1>1. n \in Nat /\ at \in Nat /\ at <= n /\ m \in Nat /\ 1 <= m
  OBVIOUS
<1>2. /\ SubSeq(s, 1, at) \in Seq(B)
      /\ Len(SubSeq(s, 1, at)) = IF 1 <= at THEN at - 1 + 1 ELSE 0
      /\ \A i \in 1 .. at - 1 + 1 : SubSeq(s, 1, at)[i] = s[1 + i - 1]
  BY <1>1, PartFacts
<1> HIDE DEF m
<1>3. /\ SubSeq(s, m, n) \in Seq(B)
      /\ Len(SubSeq(s, m, n)) = IF m <= n THEN n - m + 1 ELSE 0
      /\ \A i \in 1 .. n - m + 1 : SubSeq(s, m, n)[i] = s[m + i - 1]
  BY <1>1, PartFacts
<1> HIDE DEF n
<1>4. \A k \in 1 .. at : UpTo(s, at)[k] = s[k]
  <2> TAKE k \in 1 .. at
  <2>1. k \in 1 .. at - 1 + 1 /\ 1 + k - 1 = k
    BY <1>1
  <2> QED BY <1>2, <2>1 DEF UpTo
<1>5. \A k \in 1 .. n - at : After(s, at)[k] = s[at + k]
  <2> TAKE k \in 1 .. n - at
  <2>1. k \in 1 .. n - m + 1 /\ m + k - 1 = at + k
    BY <1>1 DEF m
  <2> QED BY <1>3, <2>1 DEF After, m, n
<1>6. Len(UpTo(s, at)) = at
  BY <1>1, <1>2 DEF UpTo
<1>7. Len(After(s, at)) = n - at
  BY <1>1, <1>3 DEF After, m, n
<1> QED BY <1>2, <1>3, <1>4, <1>5, <1>6, <1>7 DEF UpTo, After, m, n

LEMMA CutText ==
    ASSUME NEW d \in Seq(Blocks), NEW i \in 1 .. Len(d), NEW x \in 0 .. Len(TextOf(d[i]))
    PROVE  LET P == SubSeq(d, 1, i - 1)
               Q == SubSeq(d, i + 1, Len(d))
               at == BlockStart(d, i) + x
           IN  /\ P \in Seq(Blocks) /\ Q \in Seq(Blocks) /\ at \in Nat /\ at <= Len(Plain(d))
               /\ UpTo(Text(d), 1 + at) = Cat(Text(P), Cat(Break, UpTo(TextOf(d[i]), x)))
               /\ After(Text(d), 1 + at) = Cat(After(TextOf(d[i]), x), Text(Q))
<1> DEFINE P == SubSeq(d, 1, i - 1)
           Q == SubSeq(d, i + 1, Len(d))
           b == d[i]
           t == TextOf(b)
           p == Text(P)
           q == Text(Q)
           r == Break \o t
           start == BlockStart(d, i)
<1>1. P \in Seq(Blocks) /\ Q \in Seq(Blocks) /\ b \in Blocks /\ SubSeq(d, 1, i) = Append(P, b)
  BY AroundBlock
<1>2. start = Len(p) /\ start \in Nat
  <2>1. i \in 1 .. Len(d) + 1
    OBVIOUS
  <2> QED BY <1>1, <2>1, BlockStartIs, StartsOfBlocks, TextFacts
<1>3. Text(d) = (p \o r) \o q
  <2> DEFINE l == Lines(P)
             m == Line(b)
             k == Lines(Q)
  <2>1. Lines(d) = (l \o m) \o k
    BY AroundBlock
  <2>2. l \in Seq(Signs) /\ m \in Seq(Signs) /\ k \in Seq(Signs)
    BY <1>1, LinesType, LineFacts
  <2>3. Unmarked(m) = r
    <3>1. Text(<<b>>) = r
      BY <1>1, TextSmall
    <3>2. Lines(<<b>>) = m
      BY <1>1, LinesSmall
    <3> QED BY <3>1, <3>2 DEF Text
  <2> HIDE DEF l, m, k, r
  <2>4. l \o m \in Seq(Signs)
    BY <2>2, ConcatProperties
  <2>5. Unmarked((l \o m) \o k) = (Unmarked(l) \o Unmarked(m)) \o Unmarked(k)
    BY <2>2, <2>4, PlainConcat
  <2> QED BY <2>1, <2>3, <2>5 DEF Text, l, k
<1>4. p \in Seq(Glyphs) /\ q \in Seq(Glyphs) /\ t \in Seq(Glyphs) /\ t \in Seq(Bytes)
  BY <1>1, TextFacts, BlockFacts, BreakFacts
<1>5. /\ Break \in Seq(Glyphs) /\ Len(Break) = 1
      /\ r \in Seq(Glyphs) /\ Len(r) = 1 + Len(t) /\ Len(t) \in Nat /\ x \in 0 .. Len(t)
  <2>1. x \in 0 .. Len(t)
    OBVIOUS
  <2> DEFINE K == Break
  <2>2. K \in Seq(Glyphs) /\ Len(K) = 1
    BY BreakFacts
  <2> HIDE DEF t, K
  <2>3. K \o t \in Seq(Glyphs) /\ Len(K \o t) = Len(K) + Len(t)
    BY <1>4, <2>2, ConcatProperties
  <2>4. Len(t) \in Nat
    BY <1>4
  <2> QED BY <2>1, <2>2, <2>3, <2>4 DEF K
<1> HIDE DEF p, q, t, start
<1>6. UpTo(r, 1 + x) = Break \o UpTo(t, x) /\ After(r, 1 + x) = After(t, x)
  <2> DEFINE K == Break
  <2>1. K \in Seq(Glyphs) /\ Len(K) = 1
    BY <1>5
  <2> HIDE DEF K
  <2>2. UpTo(K \o t, Len(K) + x) = K \o UpTo(t, x) /\ After(K \o t, Len(K) + x) = After(t, x)
    BY <1>4, <1>5, <2>1, CutSecond
  <2> QED BY <2>1, <2>2 DEF K
<1>7. 1 + x \in 0 .. Len(r)
  BY <1>5
<1> HIDE DEF r
<1>8. /\ UpTo((p \o r) \o q, Len(p) + (1 + x)) = p \o UpTo(r, 1 + x)
      /\ After((p \o r) \o q, Len(p) + (1 + x)) = After(r, 1 + x) \o q
  <2> DEFINE c == 1 + x
             G == Glyphs
  <2>1. p \in Seq(G) /\ r \in Seq(G) /\ q \in Seq(G) /\ c \in 0 .. Len(r)
    BY <1>4, <1>5, <1>7
  <2> HIDE DEF c, G
  <2>2. /\ UpTo((p \o r) \o q, Len(p) + c) = p \o UpTo(r, c)
        /\ After((p \o r) \o q, Len(p) + c) = After(r, c) \o q
    <3> HIDE DEF P, Q, b
    <3>1. /\ UpTo(Cat(Cat(p, r), q), Len(p) + c) = Cat(p, UpTo(r, c))
          /\ After(Cat(Cat(p, r), q), Len(p) + c) = Cat(After(r, c), q)
      BY <2>1, CutInMiddle
    <3> QED BY <3>1 DEF Cat
  <2> QED BY <2>2 DEF c
<1>9. 1 + (start + x) = Len(p) + (1 + x)
  BY <1>2, <1>5
<1>10. start + x \in Nat /\ start + x <= Len(Plain(d))
  <2>1. start + Len(t) <= Len(Reading(d)) /\ Reading(d) \in Seq(Signs)
    BY ReadingFrame, ReadingIs DEF start, t
  <2>2. Len(Plain(d)) = Len(Reading(d))
    BY <2>1, PlainFacts DEF Plain
  <2>3. Len(Reading(d)) \in Nat
    BY <2>1
  <2> QED BY <1>2, <1>5, <2>1, <2>2, <2>3
<1>11. /\ UpTo(Text(d), 1 + (start + x)) = Cat(p, Cat(Break, UpTo(t, x)))
       /\ After(Text(d), 1 + (start + x)) = Cat(After(t, x), q)
  BY <1>3, <1>6, <1>8, <1>9 DEF Cat
<1> QED BY <1>1, <1>10, <1>11 DEF p, q, t, start

\* The blocks from a to f of a document replaced by others.
Swap(d, a, mid, f) == Cat(Cat(SubSeq(d, 1, a - 1), mid), SubSeq(d, f + 1, Len(d)))

\* How a document reads if the text from a place in one block to a place in
\* another is replaced.
LEMMA TextSpliced ==
    ASSUME NEW d \in Seq(Blocks), NEW a \in 1 .. Len(d), NEW f \in 1 .. Len(d),
           NEW x \in 0 .. Len(TextOf(d[a])), NEW y \in 0 .. Len(TextOf(d[f])),
           NEW w \in Seq(Glyphs), NEW new \in Seq(Blocks), new # <<>>,
           Text(new) = Cat(Cat(Cat(Text(SubSeq(d, 1, a - 1)), Cat(Break, UpTo(TextOf(d[a]), x))), w),
                           Cat(After(TextOf(d[f]), y), Text(SubSeq(d, f + 1, Len(d)))))
    PROVE  Plain(new) = Spliced(Plain(d), BlockStart(d, a) + x, w, BlockStart(d, f) + y)
<1> DEFINE T == Text(d)
           R == Plain(d)
           N == Plain(new)
           m == BlockStart(d, a) + x
           n == BlockStart(d, f) + y
           G == Glyphs
           K == Break
           A == UpTo(R, m)
           B == After(R, n)
<1>1. /\ UpTo(T, 1 + m) = Cat(Text(SubSeq(d, 1, a - 1)), Cat(Break, UpTo(TextOf(d[a]), x)))
      /\ m \in Nat /\ m <= Len(R)
  BY CutText
<1>2. /\ After(T, 1 + n) = Cat(After(TextOf(d[f]), y), Text(SubSeq(d, f + 1, Len(d))))
      /\ n \in Nat /\ n <= Len(R)
  BY CutText
<1>3. Text(new) = Cat(Cat(UpTo(T, 1 + m), w), After(T, 1 + n))
  BY <1>1, <1>2
<1>4. d # <<>>
  OBVIOUS
<1>5. R \in Seq(G) /\ N \in Seq(G) /\ T = Cat(K, R) /\ Text(new) = Cat(K, N)
  BY <1>4, TextFacts DEF Cat
<1>6. K \in Seq(G) /\ Len(K) = 1 /\ w \in Seq(G)
  BY BreakFacts
<1>7. m \in 0 .. Len(R) /\ n \in 0 .. Len(R)
  <2>1. Len(R) \in Nat
    <3> HIDE DEF R, G
    <3> QED BY <1>5
  <2> HIDE DEF m, n, R
  <2> QED BY <1>1, <1>2, <2>1
<1> HIDE DEF T, R, N, m, n, G, K
<1>8. UpTo(T, 1 + m) = Cat(K, A) /\ After(T, 1 + n) = B
  <2>1. UpTo(K \o R, Len(K) + m) = K \o UpTo(R, m)
    BY <1>5, <1>6, <1>7, CutSecond
  <2>2. After(K \o R, Len(K) + n) = After(R, n)
    BY <1>5, <1>6, <1>7, CutSecond
  <2> QED BY <1>5, <1>6, <2>1, <2>2 DEF Cat
<1>9. A \in Seq(G) /\ B \in Seq(G)
  BY <1>5, <1>7, PartTypes
<1> HIDE DEF A, B
<1>10. Cat(K, N) = Cat(Cat(Cat(K, A), w), B)
  BY <1>3, <1>5, <1>8
<1>11. Cat(Cat(Cat(K, A), w), B) = Cat(K, Cat(Cat(A, w), B))
  BY <1>6, <1>9, GroupFour
<1>12. N = Cat(Cat(A, w), B)
  <2>1. Cat(A, w) \in Seq(G)
    BY <1>6, <1>9, CatFacts
  <2>2. Cat(Cat(A, w), B) \in Seq(G)
    BY <1>9, <2>1, CatFacts
  <2> QED BY <1>5, <1>6, <1>10, <1>11, <2>2, CatCancels
<1> QED BY <1>12 DEF Spliced, Cat, A, B, N, R, m, n

LEMMA SwapFacts ==
    ASSUME NEW d \in Seq(Blocks), NEW a \in 1 .. Len(d), NEW f \in 1 .. Len(d), a <= f,
           NEW mid \in Seq(Blocks)
    PROVE  LET new == Swap(d, a, mid, f)
               P == SubSeq(d, 1, a - 1)
               Q == SubSeq(d, f + 1, Len(d))
           IN  /\ P \in Seq(Blocks) /\ Q \in Seq(Blocks) /\ Len(mid) \in Nat
               /\ Len(P) = a - 1 /\ Len(Q) = Len(d) - f
               /\ new \in Seq(Blocks) /\ Len(new) = a - 1 + Len(mid) + (Len(d) - f)
               /\ \A k \in 1 .. a - 1 : new[k] = d[k]
               /\ \A k \in 1 .. Len(mid) : new[a - 1 + k] = mid[k]
               /\ \A k \in 1 .. Len(d) - f : new[a - 1 + Len(mid) + k] = d[f + k]
               /\ Text(new) = Cat(Cat(Text(P), Text(mid)), Text(Q))
<1> DEFINE P == SubSeq(d, 1, a - 1)
           Q == SubSeq(d, f + 1, Len(d))
           new == Swap(d, a, mid, f)
           n == Len(d)
           m == Len(mid)
           p == a - 1
<1>1. n \in Nat /\ m \in Nat /\ p \in Nat /\ a \in 1 .. n /\ f \in 1 .. n /\ p <= n /\ p \in 0 .. n /\ f \in 0 .. n
  OBVIOUS
<1>2. P \in Seq(Blocks) /\ Len(P) = p /\ \A k \in 1 .. p : P[k] = d[k]
  BY <1>1, PartTypes DEF UpTo
<1>3. Q \in Seq(Blocks) /\ Len(Q) = n - f /\ \A k \in 1 .. n - f : Q[k] = d[f + k]
  BY <1>1, PartTypes DEF After
<1> DEFINE u == P \o mid
<1>4. new = u \o Q
  BY DEF Swap, Cat
<1> HIDE DEF P, Q, new, n, m, p
<1>5. /\ u \in Seq(Blocks) /\ Len(u) = p + m
      /\ \A k \in 1 .. p + m : u[k] = IF k <= p THEN P[k] ELSE mid[k - p]
  BY <1>2, ConcatProperties DEF m
<1>6. Text(u) = Cat(Text(P), Text(mid))
  BY <1>2, TextConcat DEF Cat
<1> HIDE DEF u
<1>7. Text(new) = Cat(Text(u), Text(Q))
  BY <1>3, <1>4, <1>5, TextConcat DEF Cat
<1>8. /\ new \in Seq(Blocks) /\ Len(new) = (p + m) + (n - f)
      /\ \A k \in 1 .. (p + m) + (n - f) : new[k] = IF k <= p + m THEN u[k] ELSE Q[k - (p + m)]
  BY <1>3, <1>4, <1>5, ConcatProperties
<1>9. \A k \in 1 .. p : new[k] = d[k]
  <2> TAKE k \in 1 .. p
  <2>1. k \in 1 .. (p + m) + (n - f) /\ k \in 1 .. p + m /\ k <= p + m /\ k <= p
    BY <1>1
  <2> QED BY <1>2, <1>5, <1>8, <2>1
<1>10. \A k \in 1 .. m : new[p + k] = mid[k]
  <2> TAKE k \in 1 .. m
  <2>1. /\ p + k \in 1 .. (p + m) + (n - f) /\ p + k \in 1 .. p + m /\ p + k <= p + m
        /\ ~ (p + k <= p) /\ (p + k) - p = k
    BY <1>1
  <2> QED BY <1>5, <1>8, <2>1
<1>11. \A k \in 1 .. n - f : new[p + m + k] = d[f + k]
  <2> TAKE k \in 1 .. n - f
  <2>1. /\ p + m + k \in 1 .. (p + m) + (n - f)
        /\ ~ (p + m + k <= p + m) /\ (p + m + k) - (p + m) = k
    BY <1>1
  <2> QED BY <1>3, <1>8, <2>1
<1> QED BY <1>1, <1>2, <1>3, <1>6, <1>7, <1>8, <1>9, <1>10, <1>11 DEF P, Q, new, n, m, p

LEMMA SwapShape ==
    ASSUME NEW d \in Seq(Blocks), NEW a \in 1 .. Len(d), NEW f \in 1 .. Len(d), a <= f,
           NEW mid \in Seq(Blocks)
    PROVE  /\ Swap(d, a, mid, f) \in Seq(Blocks)
           /\ Len(Swap(d, a, mid, f)) = a - 1 + Len(mid) + (Len(d) - f)
BY SwapFacts

\* Its reading, when the blocks in between are one with the text around, or two.
LEMMA SwapOne ==
    ASSUME NEW d \in Seq(Blocks), NEW a \in 1 .. Len(d), NEW f \in 1 .. Len(d), a <= f,
           NEW x \in 0 .. Len(TextOf(d[a])), NEW y \in 0 .. Len(TextOf(d[f])),
           NEW w \in Seq(Bytes), NEW b \in Blocks,
           TextOf(b) = Cat(Cat(UpTo(TextOf(d[a]), x), w), After(TextOf(d[f]), y))
    PROVE  Plain(Swap(d, a, <<b>>, f)) = Spliced(Plain(d), BlockStart(d, a) + x, w, BlockStart(d, f) + y)
<1> DEFINE new == Swap(d, a, <<b>>, f)
           P == SubSeq(d, 1, a - 1)
           Q == SubSeq(d, f + 1, Len(d))
           u == UpTo(TextOf(d[a]), x)
           v == After(TextOf(d[f]), y)
           p == Text(P)
           q == Text(Q)
           G == Glyphs
           K == Break
<1>1. <<b>> \in Seq(Blocks) /\ Text(<<b>>) = Cat(K, TextOf(b)) /\ Len(<<b>>) = 1
  BY TextSmall DEF Cat
<1>2. /\ P \in Seq(Blocks) /\ Q \in Seq(Blocks) /\ new \in Seq(Blocks)
      /\ Len(new) = a - 1 + 1 + (Len(d) - f)
      /\ Text(new) = Cat(Cat(p, Text(<<b>>)), q)
  <2> DEFINE mid == <<b>>
  <2>1. mid \in Seq(Blocks) /\ Len(mid) = 1
    BY <1>1
  <2> HIDE DEF mid
  <2>2. P \in Seq(Blocks) /\ Q \in Seq(Blocks) /\ Swap(d, a, mid, f) \in Seq(Blocks)
    BY <2>1, SwapFacts
  <2>3. Len(Swap(d, a, mid, f)) = a - 1 + Len(mid) + (Len(d) - f)
    BY <2>1, SwapShape
  <2>4. Text(Swap(d, a, mid, f)) = Cat(Cat(p, Text(mid)), q)
    BY <2>1, SwapFacts
  <2> QED BY <2>1, <2>2, <2>3, <2>4 DEF mid
<1>3. new # <<>>
  <2>1. a - 1 + 1 + (Len(d) - f) # 0
    OBVIOUS
  <2> HIDE DEF new
  <2> QED BY <1>2, <2>1
<1>4. K \in Seq(G) /\ p \in Seq(G) /\ q \in Seq(G) /\ w \in Seq(G)
  BY <1>2, TextFacts, BreakFacts
<1>5. u \in Seq(G) /\ v \in Seq(G)
  <2> DEFINE s == TextOf(d[a])
             t == TextOf(d[f])
  <2>1. s \in Seq(G) /\ t \in Seq(G)
    <3>1. d[a] \in Blocks /\ d[f] \in Blocks
      OBVIOUS
    <3>2. s \in Seq(Bytes) /\ t \in Seq(Bytes)
      BY <3>1, BlockFacts
    <3> QED BY <3>2, BreakFacts
  <2>2. x \in 0 .. Len(s) /\ y \in 0 .. Len(t)
    OBVIOUS
  <2> HIDE DEF s, t, G
  <2>3. UpTo(s, x) \in Seq(G) /\ After(t, y) \in Seq(G)
    BY <2>1, <2>2, PartTypes
  <2> QED BY <2>3 DEF s, t
<1>6. TextOf(b) = Cat(Cat(u, w), v)
  OBVIOUS
<1> HIDE DEF u, v, p, q, G, K
<1>7. Text(new) = Cat(Cat(Cat(p, Cat(K, u)), w), Cat(v, q))
  <2>1. Text(new) = Cat(Cat(p, Cat(K, Cat(Cat(u, w), v))), q)
    BY <1>1, <1>2, <1>6
  <2> QED BY <1>4, <1>5, <2>1, GroupSix
<1> HIDE DEF new
<1> QED BY <1>2, <1>3, <1>4, <1>7, TextSpliced DEF u, v, p, q, G, K, P, Q, new

LEMMA PairIs ==
    ASSUME NEW B, NEW b \in B, NEW c \in B
    PROVE  <<b, c>> = Cat(<<b>>, <<c>>)
<1> DEFINE k == <<b>>
           l == <<c>>
           m == <<b, c>>
<1>1. /\ k \in Seq(B) /\ Len(k) = 1 /\ k[1] = b
      /\ l \in Seq(B) /\ Len(l) = 1 /\ l[1] = c
      /\ m \in Seq(B) /\ Len(m) = 2 /\ m[1] = b /\ m[2] = c
  OBVIOUS
<1> HIDE DEF k, l, m
<1>2. /\ k \o l \in Seq(B) /\ Len(k \o l) = Len(k) + Len(l)
      /\ \A i \in 1 .. Len(k) + Len(l) : (k \o l)[i] = IF i <= Len(k) THEN k[i] ELSE l[i - Len(k)]
  BY <1>1, ConcatProperties
<1>3. Len(k \o l) = 2 /\ (k \o l)[1] = b /\ (k \o l)[2] = c
  BY <1>1, <1>2
<1>4. \A i \in 1 .. 2 : m[i] = (k \o l)[i]
  BY <1>1, <1>3
<1>5. m = k \o l
  BY <1>1, <1>2, <1>3, <1>4, SeqEqual
<1> QED BY <1>5 DEF k, l, m, Cat

\* A block's text divided in two blocks.
LEMMA SwapTwo ==
    ASSUME NEW d \in Seq(Blocks), NEW i \in 1 .. Len(d), NEW x \in 0 .. Len(TextOf(d[i])),
           NEW b \in Blocks, NEW c \in Blocks,
           TextOf(b) = UpTo(TextOf(d[i]), x), TextOf(c) = After(TextOf(d[i]), x)
    PROVE  Plain(Swap(d, i, <<b, c>>, i)) = Spliced(Plain(d), BlockStart(d, i) + x, Break, BlockStart(d, i) + x)
<1> DEFINE mid == <<b, c>>
           new == Swap(d, i, mid, i)
           P == SubSeq(d, 1, i - 1)
           Q == SubSeq(d, i + 1, Len(d))
           t == TextOf(d[i])
           u == UpTo(t, x)
           v == After(t, x)
           p == Text(P)
           q == Text(Q)
           G == Glyphs
           K == Break
<1>1. mid \in Seq(Blocks) /\ Len(mid) = 2 /\ mid = Cat(<<b>>, <<c>>) /\ <<b>> \in Seq(Blocks) /\ <<c>> \in Seq(Blocks)
  <2>1. mid \in Seq(Blocks) /\ Len(mid) = 2 /\ <<b>> \in Seq(Blocks) /\ <<c>> \in Seq(Blocks)
    OBVIOUS
  <2>2. mid = Cat(<<b>>, <<c>>)
    BY PairIs
  <2> QED BY <2>1, <2>2
<1>2. i <= i /\ P \in Seq(Blocks) /\ Q \in Seq(Blocks)
  BY AroundBlock
<1>3. Text(mid) = Cat(Cat(K, u), Cat(K, v))
  <2>1. Text(Cat(<<b>>, <<c>>)) = Cat(Text(<<b>>), Text(<<c>>))
    <3> DEFINE k == <<b>>
               l == <<c>>
    <3>1. k \in Seq(Blocks) /\ l \in Seq(Blocks)
      BY <1>1
    <3> HIDE DEF k, l
    <3>2. Text(k \o l) = Text(k) \o Text(l)
      BY <3>1, TextConcat
    <3> QED BY <3>2 DEF Cat, k, l
  <2>2. Text(<<b>>) = Cat(K, u) /\ Text(<<c>>) = Cat(K, v)
    BY TextSmall DEF Cat
  <2> HIDE DEF mid, K, u, v
  <2> QED BY <1>1, <2>1, <2>2
<1> HIDE DEF mid
<1>4. new \in Seq(Blocks) /\ Len(new) = i - 1 + Len(mid) + (Len(d) - i)
  <2>1. mid \in Seq(Blocks) /\ i <= i
    BY <1>1, <1>2
  <2> QED BY <2>1, SwapShape
<1>5. Text(new) = Cat(Cat(p, Text(mid)), q)
  BY <1>1, <1>2, SwapFacts
<1>6. new # <<>>
  <2>1. i - 1 + 2 + (Len(d) - i) # 0
    OBVIOUS
  <2> HIDE DEF new
  <2> QED BY <1>1, <1>4, <2>1
<1>7. K \in Seq(G) /\ p \in Seq(G) /\ q \in Seq(G)
  BY <1>2, TextFacts, BreakFacts
<1>8. u \in Seq(G) /\ v \in Seq(G)
  <2>1. d[i] \in Blocks /\ x \in 0 .. Len(t)
    OBVIOUS
  <2>2. t \in Seq(G)
    BY <2>1, BlockFacts, BreakFacts
  <2> HIDE DEF t, G
  <2> QED BY <2>1, <2>2, PartTypes
<1> HIDE DEF u, v, p, q, G, K, new
<1>9. Text(new) = Cat(Cat(Cat(p, Cat(K, u)), K), Cat(v, q))
  <2> DEFINE l == Cat(K, u)
             m == Cat(K, v)
             s == Cat(p, l)
  <2>1. l \in Seq(G) /\ m \in Seq(G) /\ s \in Seq(G)
    <3>1. l \in Seq(G)
      BY <1>7, <1>8, CatFacts
    <3>2. m \in Seq(G)
      BY <1>7, <1>8, CatFacts
    <3> HIDE DEF l
    <3>3. s \in Seq(G)
      BY <1>7, <3>1, CatFacts
    <3> QED BY <3>1, <3>2, <3>3
  <2>2. Text(new) = Cat(Cat(p, Cat(l, m)), q)
    BY <1>3, <1>5
  <2> HIDE DEF l
  <2>3. Cat(p, Cat(l, m)) = Cat(s, m)
    <3> HIDE DEF m
    <3>1. Cat(Cat(p, l), m) = Cat(p, Cat(l, m))
      BY <1>7, <2>1, CatGroups
    <3> QED BY <3>1
  <2> HIDE DEF s
  <2>4. Cat(Cat(Cat(s, K), v), q) = Cat(Cat(s, K), Cat(v, q))
    <3> DEFINE r == Cat(s, K)
    <3>1. r \in Seq(G)
      BY <1>7, <2>1, CatFacts
    <3> HIDE DEF r
    <3>2. Cat(Cat(r, v), q) = Cat(r, Cat(v, q))
      BY <1>7, <1>8, <3>1, CatGroups
    <3> QED BY <3>2 DEF r
  <2>5. Cat(Cat(s, K), v) = Cat(s, m)
    BY <1>7, <1>8, <2>1, CatGroups
  <2> HIDE DEF m
  <2> QED BY <2>2, <2>3, <2>4, <2>5 DEF s, l
<1>10. x \in 0 .. Len(TextOf(d[i])) /\ K \in Seq(Glyphs)
  BY BreakFacts DEF K
<1> HIDE DEF t
<1> QED BY <1>4, <1>6, <1>9, <1>10, TextSpliced DEF u, v, p, q, G, K, P, Q, new, mid, t

\* A block with another text.
Written(b, value) == [b EXCEPT !.runs = SetText(@, value)]

LEMMA WrittenFacts ==
    ASSUME NEW b \in Blocks, NEW value \in Seq(Bytes)
    PROVE  /\ Written(b, value) \in Blocks /\ Written(b, value).id = b.id
           /\ Written(b, value).kind = b.kind /\ Written(b, value).runs = SetText(b.runs, value)
           /\ TextOf(Written(b, value)) = value
<1>1. b.runs \in Contents /\ b.runs \in Seq(TextRun)
  BY BlockFacts
<1>2. SetText(b.runs, value) \in Contents /\ RunsText(SetText(b.runs, value)) = value
  BY <1>1, WrittenContent, SetTextWrites
<1>3. Written(b, value) = [b EXCEPT !.runs = SetText(b.runs, value)]
  BY DEF Written
<1> DEFINE r == SetText(b.runs, value)
           w == Written(b, value)
<1> HIDE DEF r, w
<1>4. w \in Blocks /\ w.id = b.id /\ w.kind = b.kind /\ w.runs = r
  <2>1. b \in [id : Ids, kind : Kinds, runs : Contents] /\ r \in Contents
    BY <1>2 DEF Blocks, r
  <2>2. w = [b EXCEPT !.runs = r]
    BY <1>3 DEF w, r
  <2> QED BY <2>1, <2>2 DEF Blocks
<1> QED BY <1>2, <1>4 DEF TextOf, r, w

LEMMA KeptIs ==
    ASSUME NEW d \in Seq(Blocks), NEW a \in 1 .. Len(d), NEW f \in 1 .. Len(d), a <= f, NEW b \in Blocks
    PROVE  /\ Kept([d EXCEPT ![a] = b], a, f) = Swap(d, a, <<b>>, f)
           /\ [d EXCEPT ![a] = b] \in Seq(Blocks) /\ Len([d EXCEPT ![a] = b]) = Len(d)
           /\ SubSeq([d EXCEPT ![a] = b], 1, a) = Cat(SubSeq(d, 1, a - 1), <<b>>)
           /\ SubSeq([d EXCEPT ![a] = b], f + 1, Len(d)) = SubSeq(d, f + 1, Len(d))
<1> DEFINE D == [d EXCEPT ![a] = b]
           n == Len(d)
           P == SubSeq(d, 1, a - 1)
           Q == SubSeq(d, f + 1, n)
           p == a - 1
           B == <<b>>
<1>1. D \in Seq(Blocks) /\ Len(D) = n /\ \A j \in 1 .. n : D[j] = IF j = a THEN b ELSE d[j]
  BY ExceptSeq
<1>2. n \in Nat /\ a \in 1 .. n /\ f \in 1 .. n /\ p \in 0 .. n /\ a \in 0 .. n /\ f \in 0 .. n /\ p \in Nat
      /\ p + 1 = a
  OBVIOUS
<1>3. P \in Seq(Blocks) /\ Len(P) = p /\ \A k \in 1 .. p : P[k] = d[k]
  BY <1>2, PartTypes DEF UpTo
<1>4. Q \in Seq(Blocks) /\ Len(Q) = n - f /\ \A k \in 1 .. n - f : Q[k] = d[f + k]
  BY <1>2, PartTypes DEF After
<1>5. B \in Seq(Blocks) /\ Len(B) = 1 /\ B[1] = b
  OBVIOUS
<1> HIDE DEF D, n, P, Q, p, B
<1>6. /\ SubSeq(D, 1, a) \in Seq(Blocks) /\ Len(SubSeq(D, 1, a)) = a
      /\ \A k \in 1 .. a : SubSeq(D, 1, a)[k] = D[k]
  <2>1. a \in 0 .. Len(D)
    BY <1>1, <1>2
  <2> QED BY <1>1, <2>1, PartTypes DEF UpTo
<1>7. /\ SubSeq(D, f + 1, n) \in Seq(Blocks) /\ Len(SubSeq(D, f + 1, n)) = n - f
      /\ \A k \in 1 .. n - f : SubSeq(D, f + 1, n)[k] = D[f + k]
  <2>1. f \in 0 .. Len(D)
    BY <1>1, <1>2
  <2>2. /\ After(D, f) \in Seq(Blocks) /\ Len(After(D, f)) = Len(D) - f
        /\ \A k \in 1 .. Len(D) - f : After(D, f)[k] = D[f + k]
    BY <1>1, <2>1, PartTypes
  <2>3. After(D, f) = SubSeq(D, f + 1, n)
    BY <1>1 DEF After
  <2> QED BY <1>1, <2>2, <2>3
<1>8. SubSeq(D, 1, a) = P \o B
  <2> DEFINE U == SubSeq(D, 1, a)
  <2>1. U \in Seq(Blocks) /\ Len(U) = a /\ \A k \in 1 .. a : U[k] = D[k]
    BY <1>6
  <2> HIDE DEF U
  <2>2. /\ P \o B \in Seq(Blocks) /\ Len(P \o B) = p + 1
        /\ \A k \in 1 .. p + 1 : (P \o B)[k] = IF k <= p THEN P[k] ELSE B[k - p]
    <3>1. /\ P \o B \in Seq(Blocks) /\ Len(P \o B) = Len(P) + Len(B)
          /\ \A k \in 1 .. Len(P) + Len(B) : (P \o B)[k] = IF k <= Len(P) THEN P[k] ELSE B[k - Len(P)]
      BY <1>3, <1>5, ConcatProperties
    <3> QED BY <1>3, <1>5, <3>1
  <2>3. ASSUME NEW k \in 1 .. a PROVE U[k] = (P \o B)[k]
    <3>1. k \in 1 .. n /\ k \in 1 .. p + 1
      BY <1>2
    <3>2. CASE k = a
      <4>1. ~ (k <= p) /\ k - p = 1
        BY <1>2, <3>2
      <4> QED BY <1>1, <1>5, <2>1, <2>2, <3>1, <3>2, <4>1
    <3>3. CASE k # a
      <4>1. k <= p /\ k \in 1 .. p
        BY <1>2, <3>3
      <4> QED BY <1>1, <1>3, <2>1, <2>2, <3>1, <3>3, <4>1
    <3> QED BY <3>2, <3>3
  <2>4. U = P \o B
    BY <1>2, <2>1, <2>2, <2>3, SeqEqual
  <2> QED BY <2>4 DEF U
<1>9. SubSeq(D, f + 1, n) = Q
  <2> DEFINE U == SubSeq(D, f + 1, n)
  <2>1. U \in Seq(Blocks) /\ Len(U) = n - f /\ \A k \in 1 .. n - f : U[k] = D[f + k]
    BY <1>7
  <2> HIDE DEF U
  <2>2. ASSUME NEW k \in 1 .. n - f PROVE U[k] = Q[k]
    <3>1. f + k \in 1 .. n /\ f + k # a
      BY <1>2
    <3> QED BY <1>1, <1>4, <2>1, <3>1
  <2>3. U = Q
    BY <1>4, <2>1, <2>2, SeqEqual
  <2> QED BY <2>3 DEF U
<1>10. Kept(D, a, f) = SubSeq(D, 1, a) \o SubSeq(D, f + 1, n)
  BY <1>1 DEF Kept
<1>11. Kept(D, a, f) = (P \o B) \o Q
  BY <1>8, <1>9, <1>10
<1> QED BY <1>1, <1>8, <1>9, <1>11 DEF D, n, P, Q, p, B, Swap, Cat

-----------------------------------------------------------------------------
(* The pages that the operations make. *)

BlockSet(d, i, b) == [d EXCEPT ![i] = b]
DocTo(e, d) == [e EXCEPT !.doc = d]

\* The documents that the operations make.
LEMMA SetIsSwap ==
    ASSUME NEW d \in Seq(Blocks), NEW i \in 1 .. Len(d), NEW b \in Blocks
    PROVE  BlockSet(d, i, b) = Swap(d, i, <<b>>, i)
<1> DEFINE D == [d EXCEPT ![i] = b]
<1>1. i \in 1 .. Len(d) /\ i <= i
  OBVIOUS
<1>2. Kept(D, i, i) = Swap(d, i, <<b>>, i) /\ D \in Seq(Blocks) /\ Len(D) = Len(d)
  BY <1>1, KeptIs
<1>3. D = BlockSet(d, i, b)
  BY DEF BlockSet
<1> HIDE DEF D
<1>4. Kept(D, i, i) = SubSeq(D, 1, i) \o SubSeq(D, i + 1, Len(D))
  BY DEF Kept
<1>5. SubSeq(D, 1, i) \o SubSeq(D, i + 1, Len(D)) = SubSeq(D, 1, Len(D))
  <2> DEFINE n == Len(D)
  <2>1. i \in 1 - 1 .. n /\ n \in i .. n /\ 1 \in 1 .. n + 1
    BY <1>1, <1>2
  <2> HIDE DEF n
  <2>2. SubSeq(D, 1, i) \o SubSeq(D, i + 1, n) = SubSeq(D, 1, n)
    BY <1>2, <2>1, ConcatAdjacentSubSeq DEF n
  <2> QED BY <2>2 DEF n
<1>6. SubSeq(D, 1, Len(D)) = D
  BY <1>2, SubSeqFull
<1> QED BY <1>2, <1>3, <1>4, <1>5, <1>6

LEMMA SetFacts ==
    ASSUME NEW d \in Seq(Blocks), NEW i \in 1 .. Len(d), NEW b \in Blocks
    PROVE  /\ BlockSet(d, i, b) \in Seq(Blocks) /\ Len(BlockSet(d, i, b)) = Len(d)
           /\ BlockSet(d, i, b)[i] = b
           /\ \A j \in 1 .. Len(d) : j # i => BlockSet(d, i, b)[j] = d[j]
BY ExceptSeq DEF BlockSet

LEMMA SetTwice ==
    ASSUME NEW d \in Seq(Blocks), NEW i \in 1 .. Len(d), NEW b \in Blocks, NEW c \in Blocks
    PROVE  BlockSet(BlockSet(d, i, b), i, c) = BlockSet(d, i, c)
<1> DEFINE D == BlockSet(d, i, b)
           E == BlockSet(D, i, c)
           F == BlockSet(d, i, c)
<1>1. /\ D \in Seq(Blocks) /\ Len(D) = Len(d) /\ i \in 1 .. Len(D)
      /\ \A j \in 1 .. Len(d) : j # i => D[j] = d[j]
  BY SetFacts
<1>2. /\ F \in Seq(Blocks) /\ Len(F) = Len(d) /\ F[i] = c
      /\ \A j \in 1 .. Len(d) : j # i => F[j] = d[j]
  BY SetFacts
<1> HIDE DEF D
<1>3. /\ E \in Seq(Blocks) /\ Len(E) = Len(D) /\ E[i] = c
      /\ \A j \in 1 .. Len(D) : j # i => E[j] = D[j]
  BY <1>1, SetFacts
<1> HIDE DEF E, F
<1>4. \A j \in 1 .. Len(E) : E[j] = F[j]
  BY <1>1, <1>2, <1>3
<1>5. E = F
  BY <1>1, <1>2, <1>3, <1>4, SeqEqual
<1> QED BY <1>5 DEF D, E, F

LEMMA WriteIs ==
    ASSUME NEW e \in Editing, NEW i \in 1 .. Len(e.doc), NEW value \in Seq(Bytes)
    PROVE  /\ Written(e.doc[i], value) \in Blocks
           /\ Write(e, i, value).doc = BlockSet(e.doc, i, Written(e.doc[i], value))
           /\ Write(e, i, value).doc = Swap(e.doc, i, <<Written(e.doc[i], value)>>, i)
<1> DEFINE d == e.doc
           b == Written(d[i], value)
           D == BlockSet(d, i, b)
<1>1. d \in Seq(Blocks) /\ d[i] \in Blocks /\ i \in 1 .. Len(d)
  BY EditingFacts, DocumentFacts
<1>2. b \in Blocks
  BY <1>1, WrittenFacts
<1>3. Write(e, i, value).doc = D
  <2>1. Write(e, i, value) = [e EXCEPT !.doc = [d EXCEPT ![i] = [d[i] EXCEPT !.runs = SetText(d[i].runs, value)]]]
    BY DEF Write
  <2>2. [d[i] EXCEPT !.runs = SetText(d[i].runs, value)] = b
    BY DEF Written
  <2> HIDE DEF b
  <2>3. Write(e, i, value) = [e EXCEPT !.doc = D]
    BY <2>1, <2>2, Zenon DEF BlockSet
  <2> HIDE DEF D
  <2> QED BY <2>3 DEF Editing
<1> HIDE DEF b
<1>4. D = Swap(d, i, <<b>>, i)
  BY <1>1, <1>2, SetIsSwap
<1> QED BY <1>2, <1>3, <1>4 DEF b

\* Writing one block and removing those after it up to another.
LEMMA WriteKept ==
    ASSUME NEW e \in Editing, NEW a \in 1 .. Len(e.doc), NEW f \in 1 .. Len(e.doc), a <= f,
           NEW value \in Seq(Bytes)
    PROVE  Kept(Write(e, a, value).doc, a, f) = Swap(e.doc, a, <<Written(e.doc[a], value)>>, f)
<1> DEFINE d == e.doc
           b == Written(d[a], value)
           D == [d EXCEPT ![a] = b]
<1>1. d \in Seq(Blocks) /\ a \in 1 .. Len(d) /\ f \in 1 .. Len(d)
  BY EditingFacts, DocumentFacts
<1>2. b \in Blocks
  <2>1. d[a] \in Blocks
    BY EditingFacts, DocumentFacts
  <2> QED BY <2>1, WrittenFacts
<1>4. Write(e, a, value).doc = D
  <2>1. Write(e, a, value).doc = BlockSet(d, a, b)
    BY WriteIs
  <2> QED BY <2>1 DEF BlockSet
<1> HIDE DEF b
<1>3. Kept(D, a, f) = Swap(d, a, <<b>>, f)
  BY <1>1, <1>2, KeptIs
<1> QED BY <1>4, <1>3 DEF b

\* What the editor is when a handler has put the caret.
LEMMA CaretIs ==
    ASSUME NEW d, NEW e \in Editing, NEW pos \in Points
    PROVE  /\ Dirty(Caret(DocTo(e, d), pos)).doc = d
           /\ Dirty(Caret(DocTo(e, d), pos)).anchor = pos
           /\ Dirty(Caret(DocTo(e, d), pos)).focus = pos
           /\ Dirty(Caret(DocTo(e, d), pos)).menu = e.menu
           /\ Dirty(Caret(DocTo(e, d), pos)).dirty
<1> DEFINE S == [doc : {d}, anchor : Points, focus : Points, menu : MenuStates, dirty : BOOLEAN]
           g == DocTo(e, d)
           h == Caret(g, pos)
<1>1. g \in S /\ g.doc = d /\ g.menu = e.menu
  BY DEF Editing, DocTo
<1> HIDE DEF g
<1>2. h \in S /\ h.doc = g.doc /\ h.anchor = pos /\ h.focus = pos /\ h.menu = g.menu
  BY <1>1 DEF Caret
<1> HIDE DEF h
<1>3. /\ Dirty(h).doc = h.doc /\ Dirty(h).anchor = h.anchor /\ Dirty(h).focus = h.focus
      /\ Dirty(h).menu = h.menu /\ Dirty(h).dirty
  BY <1>2 DEF Dirty
<1> QED BY <1>1, <1>2, <1>3 DEF g, h

JoinedText(e, s) == Cat(UpTo(TextOf(e.doc[s.first]), s.from), After(TextOf(e.doc[s.last]), s.to))

LEMMA JoinedTextType ==
    ASSUME NEW e \in Editing, NEW s, Selects(e, s), s.first # 0
    PROVE  JoinedText(e, s) \in Seq(Bytes)
<1> DEFINE x == TextOf(e.doc[s.first])
           y == TextOf(e.doc[s.last])
<1>1. e.doc[s.first] \in Blocks /\ e.doc[s.last] \in Blocks
  BY EditingFacts, DocumentFacts DEF Selects
<1>2. x \in Seq(Bytes) /\ y \in Seq(Bytes) /\ s.from \in Nat /\ s.from <= Len(x) /\ s.to \in Nat
  BY <1>1, BlockFacts DEF Selects
<1> HIDE DEF x, y
<1>3. UpTo(x, s.from) \in Seq(Bytes) /\ After(y, s.to) \in Seq(Bytes)
  BY <1>2, TextParts
<1> QED BY <1>3, CatFacts DEF JoinedText, x, y

LEMMA JoinedIs ==
    ASSUME NEW e \in Editing, NEW s, Selects(e, s), s.first # 0
    PROVE  LET f == Joined(e, s)
               b == Written(e.doc[s.first], JoinedText(e, s))
           IN  /\ f \in Editing /\ f.dirty /\ f.menu = e.menu
               /\ f.doc = Swap(e.doc, s.first, <<b>>, s.last)
               /\ f.anchor = At(e.doc[s.first].id, s.from) /\ f.focus = f.anchor
<1> DEFINE d == e.doc
           i == s.first
           l == s.last
           value == JoinedText(e, s)
           w == Write(e, i, value)
           kept == Kept(w.doc, i, l)
           g == DocTo(w, kept)
           pos == At(d[i].id, s.from)
<1>1. /\ d \in Document /\ i \in 1 .. Len(d) /\ l \in 1 .. Len(d) /\ i <= l /\ s.from \in Nat
      /\ value \in Seq(Bytes) /\ d[i] \in Blocks
  BY EditingFacts, DocumentFacts, JoinedTextType DEF Selects
<1>2. Joined(e, s) = Dirty(Caret(g, pos))
  BY DEF Joined, JoinedText, Cat, DocTo
<1>3. Fit(Joined(e, s)) /\ Joined(e, s).menu = e.menu
  BY JoinedFacts
<1> HIDE DEF value, i, l
<1>4. w \in Editing
  BY <1>1, WriteFacts
<1>5. kept = Swap(d, i, <<Written(d[i], value)>>, l)
  BY <1>1, WriteKept
<1> HIDE DEF w, kept
<1>7. Dirty(Caret(g, pos)).doc = kept /\ Dirty(Caret(g, pos)).anchor = pos
      /\ Dirty(Caret(g, pos)).focus = pos /\ Dirty(Caret(g, pos)).dirty
  <2>1. pos \in Points
    BY <1>1, BlockFacts, PointMade
  <2> HIDE DEF pos
  <2> QED BY <1>4, <2>1, CaretIs
<1> HIDE DEF g, pos
<1> QED BY <1>2, <1>3, <1>5, <1>7 DEF Fit, pos, i, l, value

LEMMA MergeIs ==
    ASSUME NEW e \in Editing, NEW i \in 1 .. Len(e.doc), i > 1
    PROVE  LET value == Cat(TextOf(e.doc[i - 1]), TextOf(e.doc[i]))
           IN  /\ value \in Seq(Bytes) /\ Merge(e, i) \in Editing
               /\ Merge(e, i).doc = Swap(e.doc, i - 1, <<Written(e.doc[i - 1], value)>>, i)
               /\ Merge(e, i).anchor = e.anchor /\ Merge(e, i).focus = e.focus
               /\ Merge(e, i).menu = e.menu /\ Merge(e, i).dirty = e.dirty
<1> DEFINE d == e.doc
           h == i - 1
           x == TextOf(d[h])
           y == TextOf(d[i])
           value == Cat(x, y)
           w == Write(e, h, value)
           new == RemoveAt(w.doc, i)
<1>1. d \in Document /\ h \in 1 .. Len(d) /\ h <= i /\ i \in Nat /\ h + 1 = i
  BY EditingFacts, DocumentFacts
<1>2. Merge(e, i) = [w EXCEPT !.doc = new]
  BY DEF Merge, Cat
<1>3. value \in Seq(Bytes)
  <2>1. d[h] \in Blocks /\ d[i] \in Blocks
    BY <1>1, DocumentFacts
  <2>2. x \in Seq(Bytes) /\ y \in Seq(Bytes)
    BY <2>1, BlockFacts
  <2> HIDE DEF x, y
  <2> QED BY <2>2, CatFacts
<1>4. Merge(e, i) \in Editing
  BY MergeFacts
<1> HIDE DEF value
<1>5. w \in Editing /\ w.anchor = e.anchor /\ w.focus = e.focus /\ w.menu = e.menu /\ w.dirty = e.dirty
  <2> HIDE DEF h
  <2> QED BY <1>1, <1>3, WriteFacts
<1>6. new = Kept(w.doc, h, i)
  <2>1. SubSeq(w.doc, 1, i - 1) = SubSeq(w.doc, 1, h)
    OBVIOUS
  <2> HIDE DEF w, h
  <2> QED BY <2>1 DEF Kept, RemoveAt
<1>7. Kept(w.doc, h, i) = Swap(d, h, <<Written(d[h], value)>>, i)
  <2> HIDE DEF h
  <2> QED BY <1>1, <1>3, WriteKept
<1> HIDE DEF w, new
<1>8. /\ Merge(e, i).doc = new /\ Merge(e, i).anchor = w.anchor /\ Merge(e, i).focus = w.focus
      /\ Merge(e, i).menu = w.menu /\ Merge(e, i).dirty = w.dirty
  BY <1>2, <1>5 DEF Editing
<1> QED BY <1>3, <1>4, <1>5, <1>6, <1>7, <1>8 DEF value, h

BlockBelow(id, text) == Block(id, Paragraph, SetText(<<>>, text))

LEMMA BelowFacts ==
    ASSUME NEW id \in Ids, NEW text \in Seq(Bytes)
    PROVE  /\ BlockBelow(id, text) \in Blocks /\ BlockBelow(id, text).id = id
           /\ BlockBelow(id, text).kind = Paragraph /\ TextOf(BlockBelow(id, text)) = text
           /\ BlockBelow(id, text).runs = SetText(<<>>, text)
<1>1. <<>> \in Contents /\ <<>> \in Seq(TextRun)
  BY NoContent, ContentIs
<1>2. SetText(<<>>, text) \in Contents /\ RunsText(SetText(<<>>, text)) = text
  BY <1>1, WrittenContent, SetTextWrites
<1>3. Paragraph \in Kinds
  BY DEF Kinds
<1> DEFINE r == SetText(<<>>, text)
<1> HIDE DEF r
<1>4. r \in Contents /\ RunsText(r) = text
  BY <1>2 DEF r
<1>5. /\ Block(id, Paragraph, r) \in Blocks /\ Block(id, Paragraph, r).id = id
      /\ Block(id, Paragraph, r).kind = Paragraph /\ Block(id, Paragraph, r).runs = r
  BY <1>3, <1>4, MakeBlock
<1> QED BY <1>4, <1>5 DEF r, BlockBelow, TextOf

LEMMA InsertIs ==
    ASSUME NEW d \in Seq(Blocks), NEW i \in 1 .. Len(d), NEW b \in Blocks, NEW c \in Blocks
    PROVE  InsertAt(BlockSet(d, i, b), i + 1, c) = Swap(d, i, <<b, c>>, i)
<1> DEFINE D == BlockSet(d, i, b)
           P == SubSeq(d, 1, i - 1)
           Q == SubSeq(d, i + 1, Len(d))
           B == <<b>>
           C == <<c>>
           M == <<b, c>>
<1>1. D \in Seq(Blocks) /\ Len(D) = Len(d) /\ SubSeq(D, 1, i) = Cat(P, B) /\ SubSeq(D, i + 1, Len(D)) = Q
  <2> DEFINE X == [d EXCEPT ![i] = b]
  <2>5. i <= i
    OBVIOUS
  <2>1. X \in Seq(Blocks) /\ Len(X) = Len(d)
    BY KeptIs
  <2>2. SubSeq(X, 1, i) = Cat(P, B)
    BY <2>5, KeptIs, Zenon
  <2>3. SubSeq(X, i + 1, Len(d)) = Q
    BY <2>5, KeptIs, Zenon
  <2>4. D = X
    BY DEF BlockSet
  <2> HIDE DEF X, D, P, Q, B
  <2> QED BY <2>1, <2>2, <2>3, <2>4
<1>2. P \in Seq(Blocks) /\ Q \in Seq(Blocks)
  BY AroundBlock
<1>3. B \in Seq(Blocks) /\ C \in Seq(Blocks)
  OBVIOUS
<1>4. M = Cat(B, C)
  BY PairIs
<1>5. InsertAt(D, i + 1, c) = Cat(Cat(SubSeq(D, 1, (i + 1) - 1), C), SubSeq(D, i + 1, Len(D)))
  BY DEF InsertAt, Cat
<1>6. SubSeq(D, 1, (i + 1) - 1) = SubSeq(D, 1, i)
  <2> HIDE DEF D
  <2>1. (i + 1) - 1 = i
    OBVIOUS
  <2> QED BY <2>1
<1>7. Swap(d, i, M, i) = Cat(Cat(P, M), Q)
  BY DEF Swap
<1> HIDE DEF D, P, Q, B, C, M
<1>8. Cat(Cat(P, B), C) = Cat(P, Cat(B, C))
  BY <1>2, <1>3, CatGroups
<1>9. InsertAt(D, i + 1, c) = Swap(d, i, M, i)
  BY <1>1, <1>4, <1>5, <1>6, <1>7, <1>8
<1> QED BY <1>9 DEF D, M

LEMMA SplitIs ==
    ASSUME NEW e \in Editing, NEW i \in 1 .. Len(e.doc), NEW at \in 0 .. Len(TextOf(e.doc[i])),
           NEW id \in Ids, NEW past
    PROVE  LET f == SplitAt(e, i, at, id, past)
               t == TextOf(e.doc[i])
               b == Written(e.doc[i], UpTo(t, at))
               c == BlockBelow(id, After(t, at))
           IN  /\ f.doc = Landed(BlockSet(e.doc, i, b), i + 1, c, past)
               /\ past = 0 => f.doc = Swap(e.doc, i, <<b, c>>, i)
               /\ f.anchor = At(id, 0) /\ f.focus = At(id, 0) /\ f.menu = e.menu /\ f.dirty
<1> DEFINE d == e.doc
           t == TextOf(d[i])
           u == UpTo(t, at)
           v == After(t, at)
           w == Write(e, i, u)
           b == Written(d[i], u)
           c == BlockBelow(id, v)
           new == Landed(w.doc, i + 1, c, past)
           pos == At(id, 0)
           f == SplitAt(e, i, at, id, past)
<1>1. d \in Seq(Blocks) /\ d[i] \in Blocks /\ i + 1 \in 1 .. Len(d) + 1 /\ Len(d) \in Nat
  BY EditingFacts, DocumentFacts
<1>2. u \in Seq(Bytes) /\ v \in Seq(Bytes)
  BY <1>1, BlockFacts, PartTypes
<1>3. f = Dirty(Caret(DocTo(w, new), pos))
  BY DEF SplitAt, DocTo, BlockBelow
<1> HIDE DEF u, v, f
<1>4. w.doc = BlockSet(d, i, b) /\ b \in Blocks
  BY <1>2, WriteIs
<1>5. c \in Blocks
  BY <1>2, BelowFacts
<1>6. w \in Editing /\ w.menu = e.menu /\ Len(w.doc) = Len(d)
  BY <1>2, WriteFacts
<1>7. pos \in Points
  BY PointMade
<1> HIDE DEF w, b, c, pos
<1>8. past = 0 => new = Swap(d, i, <<b, c>>, i)
  <2>1. 0 \in Nat /\ Len(w.doc) \in Nat /\ i + 1 \in 1 .. Len(w.doc) + 1
    BY <1>1, <1>6
  <2>2. Landed(w.doc, i + 1, c, 0) = InsertAt(w.doc, i + 1, c)
    BY <2>1, LandedFacts
  <2> QED BY <1>1, <1>4, <1>5, <2>2, InsertIs
<1> HIDE DEF new
<1>9. f.doc = new /\ f.anchor = pos /\ f.focus = pos /\ f.menu = e.menu /\ f.dirty
  BY <1>3, <1>6, <1>7, CaretIs
<1>10. new = Landed(BlockSet(d, i, b), i + 1, c, past)
  BY <1>4 DEF new
<1> QED BY <1>8, <1>9, <1>10 DEF b, c, u, v, t, pos, f

-----------------------------------------------------------------------------
(* No character is cut. *)

\* Whether what is at a place may be there, after what is before it.
Follows(x, y) == y[1] # Last(Marker) /\ y[2] = x[2]

LEMMA UncutIs ==
    ASSUME NEW B, NEW a \in Seq(B)
    PROVE  Uncut(a) <=> \A k \in 1 .. Len(a) :
                            a[k][1] \in Continuations => k # 1 /\ Follows(a[k], a[k - 1])
BY DEF Uncut, Follows

LEMMA UncutConcat ==
    ASSUME NEW B, NEW a \in Seq(B), NEW b \in Seq(B), Uncut(a), Uncut(b)
    PROVE  Uncut(Cat(a, b))
<1> DEFINE c == Cat(a, b)
           m == Len(a)
           n == Len(b)
           C == Continuations
<1>1. m \in Nat /\ n \in Nat
  OBVIOUS
<1>2. /\ c \in Seq(B) /\ Len(c) = m + n
      /\ \A i \in 1 .. m + n : c[i] = IF i <= m THEN a[i] ELSE b[i - m]
  BY ConcatProperties DEF Cat
<1>3. \A k \in 1 .. m : a[k][1] \in C => k # 1 /\ Follows(a[k], a[k - 1])
  BY UncutIs
<1>4. \A k \in 1 .. n : b[k][1] \in C => k # 1 /\ Follows(b[k], b[k - 1])
  BY UncutIs
<1> HIDE DEF c, m, n, C
<1>5. ASSUME NEW k \in 1 .. m + n, c[k][1] \in C
      PROVE  k # 1 /\ Follows(c[k], c[k - 1])
  <2>1. CASE k <= m
    <3>1. k \in 1 .. m /\ c[k] = a[k]
      BY <1>1, <1>2, <2>1
    <3>2. k # 1 /\ Follows(a[k], a[k - 1])
      BY <1>3, <1>5, <3>1
    <3>3. k - 1 \in 1 .. m + n /\ k - 1 <= m
      BY <1>1, <2>1, <3>2
    <3>4. c[k - 1] = a[k - 1]
      BY <1>2, <3>3
    <3> QED BY <3>1, <3>2, <3>4
  <2>2. CASE ~(k <= m)
    <3> DEFINE j == k - m
    <3>1. j \in 1 .. n /\ c[k] = b[j]
      BY <1>1, <1>2, <2>2
    <3> HIDE DEF j
    <3>2. j # 1 /\ Follows(b[j], b[j - 1])
      BY <1>4, <1>5, <3>1
    <3>3. k - 1 \in 1 .. m + n /\ ~(k - 1 <= m) /\ k - 1 - m = j - 1 /\ k # 1
      BY <1>1, <2>2, <3>1, <3>2 DEF j
    <3>4. c[k - 1] = b[j - 1]
      BY <1>2, <3>3
    <3> QED BY <3>1, <3>2, <3>3, <3>4
  <2> QED BY <2>1, <2>2
<1>6. \A k \in 1 .. Len(c) : c[k][1] \in C => k # 1 /\ Follows(c[k], c[k - 1])
  BY <1>2, <1>5
<1>7. Uncut(c)
  BY <1>2, <1>6, UncutIs DEF C
<1> QED BY <1>7 DEF c

\* A part that begins where a character does has whole characters.
LEMMA UncutPart ==
    ASSUME NEW B, NEW a \in Seq(B), Uncut(a), NEW m \in Nat, NEW n \in Nat, n <= Len(a), Starts(a, m)
    PROVE  Uncut(SubSeq(a, m + 1, n))
<1> DEFINE C == Continuations
           from == m + 1
           l == Len(a)
           p == SubSeq(a, from, n)
           k == IF from <= n THEN n - from + 1 ELSE 0
<1>1. l \in Nat /\ \A i \in 1 .. l : a[i][1] \in C => i # 1 /\ Follows(a[i], a[i - 1])
  BY UncutIs
<1>2. from \in Nat /\ 1 <= from
  OBVIOUS
<1>3. p \in Seq(B) /\ Len(p) = k /\ \A i \in 1 .. n - from + 1 : p[i] = a[from + i - 1]
  <2> HIDE DEF from
  <2> QED BY <1>2, PartFacts
<1> HIDE DEF p
<1>4. ASSUME NEW i \in 1 .. k, p[i][1] \in C
      PROVE  i # 1 /\ Follows(p[i], p[i - 1])
  <2>1. i \in 1 .. n - from + 1 /\ from + i - 1 \in 1 .. l /\ i \in Nat /\ from + i - 1 = m + i
    BY <1>1, <1>4
  <2>2. p[i] = a[m + i]
    BY <1>3, <2>1
  <2>3. m + i # 1 /\ Follows(a[m + i], a[m + i - 1])
    <3> DEFINE x == m + i
    <3>1. x \in 1 .. l /\ a[x][1] \in C
      BY <1>4, <2>1, <2>2
    <3> HIDE DEF x
    <3>2. x # 1 /\ Follows(a[x], a[x - 1])
      BY <1>1, <3>1
    <3> QED BY <3>2 DEF x
  <2>4. i # 1
    <3> SUFFICES ASSUME i = 1 PROVE FALSE
      OBVIOUS
    <3>1. m # 0 /\ m # l
      BY <2>1, <2>3
    <3>2. a[m + 1][1] \notin C
      BY <3>1 DEF Starts
    <3> QED BY <1>4, <2>2, <3>2
  <2>5. i - 1 \in 1 .. n - from + 1 /\ from + (i - 1) - 1 = m + i - 1
    BY <2>1, <2>4
  <2>6. p[i - 1] = a[m + i - 1]
    BY <1>3, <2>5
  <2> QED BY <2>2, <2>3, <2>4, <2>6
<1>5. Uncut(p)
  BY <1>3, <1>4, UncutIs
<1> QED BY <1>5 DEF p

\* The same of texts, which have no marks.
Whole(text) == Uncut(Styled(text, {}))
WholeIn(text, k) == k # 1 /\ text[k - 1] # Last(Marker)

LEMMA WholeIs ==
    ASSUME NEW text \in Seq(Bytes), NEW marks \in SUBSET Marks
    PROVE  Uncut(Styled(text, marks)) <=>
               \A k \in 1 .. Len(text) : text[k] \in Continuations => WholeIn(text, k)
<1> DEFINE s == Styled(text, marks)
           n == Len(text)
           C == Continuations
<1>1. /\ s \in Seq(Letters) /\ Len(s) = n /\ n \in Nat
      /\ \A j \in 1 .. n : s[j][1] = text[j] /\ s[j][2] = marks
  BY StyledFacts
<1> HIDE DEF s, C
<1>2. Uncut(s) <=> \A k \in 1 .. n : s[k][1] \in C => k # 1 /\ Follows(s[k], s[k - 1])
  BY <1>1, UncutIs DEF C
<1> HIDE DEF n
<1>3. ASSUME NEW k \in 1 .. n
      PROVE  (s[k][1] \in C => k # 1 /\ Follows(s[k], s[k - 1])) <=> (text[k] \in C => WholeIn(text, k))
  <2>1. CASE k = 1
    BY <1>1, <2>1 DEF WholeIn
  <2>2. CASE k # 1
    <3>1. k - 1 \in 1 .. n
      BY <1>1, <2>2
    <3> QED BY <1>1, <2>2, <3>1 DEF WholeIn, Follows
  <2> QED BY <2>1, <2>2
<1> QED BY <1>2, <1>3 DEF s, n, C

LEMMA StyledWhole ==
    ASSUME NEW text \in Seq(Bytes), Whole(text), NEW marks \in SUBSET Marks
    PROVE  Uncut(Styled(text, marks))
<1>1. {} \in SUBSET Marks
  OBVIOUS
<1>2. \A k \in 1 .. Len(text) : text[k] \in Continuations => WholeIn(text, k)
  BY <1>1, WholeIs DEF Whole
<1> QED BY <1>2, WholeIs

LEMMA WholeOfUncut ==
    ASSUME NEW a \in Seq(Letters), Uncut(a)
    PROVE  Whole(Unmarked(a))
<1> DEFINE t == Unmarked(a)
           n == Len(a)
           C == Continuations
<1>1. t \in Seq(Bytes) /\ Len(t) = n /\ n \in Nat /\ \A k \in 1 .. n : t[k] = a[k][1]
  BY UnmarkedFacts
<1>2. \A k \in 1 .. n : a[k][1] \in C => k # 1 /\ Follows(a[k], a[k - 1])
  BY UncutIs
<1> HIDE DEF t, n
<1>3. ASSUME NEW k \in 1 .. n, t[k] \in C
      PROVE  WholeIn(t, k)
  <2>1. k # 1 /\ Follows(a[k], a[k - 1])
    BY <1>1, <1>2, <1>3
  <2>2. k - 1 \in 1 .. n
    BY <1>1, <2>1
  <2> QED BY <1>1, <2>1, <2>2 DEF WholeIn, Follows
<1>4. {} \in SUBSET Marks
  OBVIOUS
<1>5. \A k \in 1 .. Len(t) : t[k] \in C => WholeIn(t, k)
  BY <1>1, <1>3
<1>6. Whole(t)
  BY <1>1, <1>4, <1>5, WholeIs DEF Whole, C
<1> QED BY <1>6 DEF t

LEMMA WholeConcat ==
    ASSUME NEW s \in Seq(Bytes), NEW t \in Seq(Bytes), Whole(s), Whole(t)
    PROVE  Cat(s, t) \in Seq(Bytes) /\ Whole(Cat(s, t))
<1> DEFINE a == Styled(s, {})
           b == Styled(t, {})
<1>1. {} \in SUBSET Marks
  OBVIOUS
<1>2. a \in Seq(Letters) /\ b \in Seq(Letters) /\ Unmarked(a) = s /\ Unmarked(b) = t
  BY <1>1, StyledText
<1>3. Uncut(a) /\ Uncut(b)
  BY DEF Whole
<1> HIDE DEF a, b
<1>4. Uncut(Cat(a, b)) /\ Cat(a, b) \in Seq(Letters)
  BY <1>2, <1>3, UncutConcat, CatFacts
<1>5. Unmarked(Cat(a, b)) = Cat(s, t)
  BY <1>2, UnmarkedConcat DEF Cat
<1>6. Whole(Cat(s, t))
  BY <1>4, <1>5, WholeOfUncut
<1> QED BY <1>6, CatFacts

LEMMA WholePart ==
    ASSUME NEW text \in Seq(Bytes), Whole(text), NEW m \in Boundaries(text), NEW n \in Nat, n <= Len(text)
    PROVE  SubSeq(text, m + 1, n) \in Seq(Bytes) /\ Whole(SubSeq(text, m + 1, n))
<1> DEFINE a == Styled(text, {})
           from == m + 1
           p == SubSeq(a, from, n)
<1>1. {} \in SUBSET Marks
  OBVIOUS
<1>2. a \in Seq(Letters) /\ Unmarked(a) = text /\ Len(a) = Len(text)
  BY <1>1, StyledText, StyledFacts
<1>3. Uncut(a)
  BY DEF Whole
<1> HIDE DEF a
<1>4. m \in Nat /\ Starts(a, m)
  BY <1>2, StartsAtBoundary
<1>5. Uncut(p)
  BY <1>2, <1>3, <1>4, UncutPart
<1>6. from \in Nat /\ 1 <= from
  BY <1>4
<1> HIDE DEF from
<1>7. p \in Seq(Letters) /\ Unmarked(p) = SubSeq(text, from, n) /\ SubSeq(text, from, n) \in Seq(Bytes)
  BY <1>2, <1>6, PartFacts, UnmarkedPart
<1> HIDE DEF p
<1>8. Whole(SubSeq(text, from, n))
  BY <1>5, <1>7, WholeOfUncut
<1> QED BY <1>7, <1>8 DEF from

LEMMA WholeParts ==
    ASSUME NEW text \in Seq(Bytes), Whole(text), NEW at \in Boundaries(text)
    PROVE  /\ at \in Nat /\ at <= Len(text)
           /\ UpTo(text, at) \in Seq(Bytes) /\ Whole(UpTo(text, at))
           /\ After(text, at) \in Seq(Bytes) /\ Whole(After(text, at))
<1> DEFINE l == Len(text)
<1>1. at \in Nat /\ at <= l /\ l \in Nat
  BY DEF Boundaries
<1>2. 0 \in Boundaries(text)
  BY BoundaryFacts
<1>3. SubSeq(text, 0 + 1, at) \in Seq(Bytes) /\ Whole(SubSeq(text, 0 + 1, at))
  BY <1>1, <1>2, WholePart
<1>4. SubSeq(text, at + 1, l) \in Seq(Bytes) /\ Whole(SubSeq(text, at + 1, l))
  BY <1>1, WholePart
<1>5. 0 + 1 = 1
  OBVIOUS
<1> QED BY <1>1, <1>3, <1>4, <1>5 DEF UpTo, After

\* What is behind a marker.
LEMMA WholeAfterMarker ==
    ASSUME NEW value \in Seq(Bytes), Whole(value), IsPrefix(Marker, value)
    PROVE  Len(Marker) \in Boundaries(value)
<1> DEFINE m == Len(Marker)
           n == Len(value)
<1>1. Marker \in Seq(Bytes) /\ Marker # <<>>
  BY ContentsAssumption, TextsAssumption
<1>2. m \in Nat /\ m >= 1 /\ n \in Nat /\ Last(Marker) = Marker[m]
  BY <1>1 DEF Last
<1>3. m <= n /\ \A k \in 1 .. m : value[k] = Marker[k]
  BY <1>1 DEF IsPrefix
<1> HIDE DEF m, n
<1>4. {} \in SUBSET Marks
  OBVIOUS
<1>5. \A k \in 1 .. Len(value) : value[k] \in Continuations => WholeIn(value, k)
  BY <1>4, WholeIs DEF Whole
<1>6. CASE m = n
  BY <1>6, BoundaryFacts DEF n, m
<1>7. CASE m < n
  <2>1. m + 1 \in 1 .. n /\ m \in 1 .. m /\ m + 1 - 1 = m
    BY <1>2, <1>7
  <2>2. value[m + 1] \notin Continuations
    BY <1>2, <1>3, <1>5, <2>1 DEF WholeIn, n
  <2>3. m \in 0 .. n
    BY <1>2, <1>7
  <2>4. m \in Boundaries(value)
    BY <2>2, <2>3 DEF Boundaries, n
  <2> QED BY <2>4 DEF m
<1> QED BY <1>2, <1>3, <1>6, <1>7 DEF m

LEMMA SpliceWhole ==
    ASSUME NEW runs \in Seq(TextRun), Uncut(Marked(runs)),
           NEW from \in Boundaries(RunsText(runs)), NEW to \in Boundaries(RunsText(runs)), from <= to,
           NEW text \in Seq(Bytes), Whole(text)
    PROVE  Uncut(Marked(Splice(runs, from, to, text)))
<1> DEFINE M == Marked(runs)
           t == RunsText(runs)
           n == Len(M)
           marks == MarksAt(runs, from)
           front == SubSeq(M, 1, from)
           mid == Styled(text, marks)
           back == SubSeq(M, to + 1, n)
           new == Marked(Splice(runs, from, to, text))
<1>1. M \in Seq(Letters) /\ n \in Nat /\ t = Unmarked(M) /\ Len(t) = n
  BY MarkedType, TextOfMarked
<1>2. Uncut(M)
  OBVIOUS
<1>3. marks \in SUBSET Marks
  BY MarksAtType
<1> HIDE DEF marks, t, M
<1>4. from \in Nat /\ from <= n /\ Starts(M, from) /\ to \in Nat /\ to <= n /\ Starts(M, to) /\ Starts(M, 0)
  BY <1>1, StartsAtBoundary DEF Starts, t
<1>5. new = (front \o mid) \o back
  <2>1. to <= Len(RunsText(runs))
    BY <1>1, <1>4 DEF t
  <2> QED BY <1>4, <2>1, SpliceKeepsAround, ZenonT(40) DEF M, marks, Styled
<1>6. front \in Seq(Letters) /\ Uncut(front)
  <2>1. front \in Seq(Letters)
    BY <1>1, <1>4, PartFacts
  <2>2. Uncut(SubSeq(M, 0 + 1, from))
    BY <1>1, <1>2, <1>4, UncutPart
  <2>3. 0 + 1 = 1
    OBVIOUS
  <2> QED BY <2>1, <2>2, <2>3
<1>7. back \in Seq(Letters) /\ Uncut(back)
  <2> DEFINE first == to + 1
  <2>1. first \in Nat /\ 1 <= first
    BY <1>4
  <2> HIDE DEF first
  <2>2. SubSeq(M, first, n) \in Seq(Letters)
    BY <1>1, <2>1, PartFacts
  <2>3. Uncut(back)
    BY <1>1, <1>2, <1>4, UncutPart
  <2> QED BY <2>2, <2>3 DEF first
<1>8. mid \in Seq(Letters) /\ Uncut(mid)
  BY <1>3, StyledText, StyledWhole
<1> HIDE DEF front, mid, back, new
<1>9. Cat(front, mid) \in Seq(Letters) /\ Uncut(Cat(front, mid))
  BY <1>6, <1>8, UncutConcat, CatFacts
<1>10. Uncut(Cat(Cat(front, mid), back))
  BY <1>7, <1>9, UncutConcat
<1> QED BY <1>5, <1>10 DEF Cat, new

\* What set_text leaves in place ends between characters on both sides.
LEMMA WriteWhole ==
    ASSUME NEW runs \in Contents, Uncut(Marked(runs)), NEW value \in Seq(Bytes), Whole(value)
    PROVE  Uncut(Marked(SetText(runs, value)))
<1> DEFINE old == RunsText(runs)
           p == CommonPrefix(old, value)
           s == CommonSuffix(old, value)
           k == Len(old)
           l == Len(value)
           to == k - s
           text == SubSeq(value, p + 1, l - s)
<1>1. old \in Seq(Bytes) /\ runs \in Seq(TextRun)
  BY ContentIs, TextOfMarked
<1>2. CASE old = value
  BY <1>2 DEF SetText
<1>3. CASE old # value
  <2>1. SetText(runs, value) = Splice(runs, p, to, text)
    BY <1>3 DEF SetText, Differing
  <2>2. /\ p \in Nat /\ s \in Nat /\ p + s <= k /\ p + s <= l
        /\ p \in Boundaries(old) /\ p \in Boundaries(value)
        /\ k - s \in Boundaries(old)
    <3> HIDE DEF p, s, old
    <3> QED BY <1>1, EdgesApart DEF p, s
  <2> HIDE DEF p, s
  <2>3. k \in Nat /\ l \in Nat /\ p <= to /\ l - s \in Nat /\ l - s <= l
    <3>1. k \in Nat /\ l \in Nat
      BY <1>1
    <3> HIDE DEF k, l
    <3> QED BY <2>2, <3>1
  <2>4. text \in Seq(Bytes) /\ Whole(text)
    <3> DEFINE e == l - s
    <3>1. e \in Nat /\ e <= Len(value)
      BY <2>3
    <3> HIDE DEF e
    <3> QED BY <2>2, <3>1, WholePart DEF e
  <2> HIDE DEF text, to, old
  <2>5. p \in Boundaries(RunsText(runs)) /\ to \in Boundaries(RunsText(runs))
    BY <2>2 DEF old, to
  <2>6. Uncut(Marked(Splice(runs, p, to, text)))
    BY <1>1, <2>3, <2>4, <2>5, SpliceWhole
  <2> QED BY <2>1, <2>6
<1> QED BY <1>2, <1>3

LEMMA MarkWhole ==
    ASSUME NEW runs \in Contents, Uncut(Marked(runs)), NEW start \in Nat, NEW end \in Nat,
           NEW mark \in Marks, NEW on
    PROVE  Uncut(Marked(MarkRange(runs, start, end, mark, on)))
<1> DEFINE M == Marked(runs)
           t == RunsText(runs)
           from == Clamp(t, start)
           to == Clamp(t, end)
           new == MarkRange(runs, start, end, mark, on)
           N == Marked(new)
           n == Len(M)
           C == Continuations
<1>1. runs \in Seq(TextRun)
  BY ContentIs
<1>2. M \in Seq(Letters) /\ n \in Nat /\ t = Unmarked(M) /\ Len(t) = n /\ t \in Seq(Bytes)
  BY <1>1, MarkedType, TextOfMarked
<1>3. /\ new \in Seq(TextRun) /\ Len(N) = n
      /\ \A at \in 1 .. n : N[at] = IF from < at /\ at <= to
                                    THEN <<M[at][1], WithMark(M[at][2], mark, on)>> ELSE M[at]
  <2>1. new \in Seq(TextRun)
    BY <1>1, MarkRangeMarks
  <2>2. Len(N) = n
    BY <1>1, MarkRangeMarks
  <2>3. ASSUME NEW at \in 1 .. n
        PROVE  N[at] = IF from < at /\ at <= to
                       THEN <<M[at][1], WithMark(M[at][2], mark, on)>> ELSE M[at]
    BY <1>1, MarkRangeMarks
  <2> QED BY <2>1, <2>2, <2>3
<1>4. N \in Seq(Letters)
  BY <1>3, MarkedType
<1>5. Uncut(M)
  OBVIOUS
<1>6. from \in Boundaries(Unmarked(M)) /\ to \in Boundaries(Unmarked(M)) /\ from \in Nat /\ to \in Nat
  BY <1>2, ClampIn
<1> HIDE DEF M, t, from, to, new, N, n, C
<1>7. Starts(M, from) /\ Starts(M, to)
  BY <1>2, <1>6, StartsAtBoundary
<1>8. \A k \in 1 .. n : M[k][1] \in C => k # 1 /\ Follows(M[k], M[k - 1])
  BY <1>2, <1>5, UncutIs DEF n, C
<1>9. ASSUME NEW k \in 1 .. n, N[k][1] \in C
      PROVE  k # 1 /\ Follows(N[k], N[k - 1])
  <2>1. N[k][1] = M[k][1]
    BY <1>3
  <2>2. k # 1 /\ Follows(M[k], M[k - 1])
    BY <1>8, <1>9, <2>1
  <2>3. k - 1 \in 1 .. n /\ k \in Nat /\ k - 1 \in Nat
    BY <1>2, <2>2
  <2>4. k - 1 # from /\ k - 1 # to
    <3>1. k - 1 # 0 /\ k - 1 # n /\ (k - 1) + 1 = k /\ M[k][1] \in C
      BY <1>2, <1>9, <2>1, <2>2
    <3> DEFINE j == k - 1
    <3>2. ~Starts(M, j)
      BY <3>1 DEF Starts, n, C
    <3> HIDE DEF j
    <3>3. j # from /\ j # to
      BY <1>7, <3>2
    <3> QED BY <3>3 DEF j
  <2>5. (from < k /\ k <= to) <=> (from < k - 1 /\ k - 1 <= to)
    BY <1>6, <2>3, <2>4
  <2>6. N[k - 1] = IF from < k /\ k <= to
                   THEN <<M[k - 1][1], WithMark(M[k - 1][2], mark, on)>> ELSE M[k - 1]
    BY <1>3, <2>3, <2>5
  <2>7. N[k] = IF from < k /\ k <= to THEN <<M[k][1], WithMark(M[k][2], mark, on)>> ELSE M[k]
    BY <1>3
  <2> QED BY <2>2, <2>6, <2>7 DEF Follows
<1>10. Uncut(N)
  BY <1>3, <1>4, <1>9, UncutIs DEF C
<1> QED BY <1>10 DEF N, new

LEMMA ToggleWhole ==
    ASSUME NEW runs \in Contents, Uncut(Marked(runs)), NEW from \in Nat, NEW to \in Nat
    PROVE  Uncut(Marked(Toggle(runs, from, to)))
<1> DEFINE on == ~RangeMarked(runs, from, to, Bold)
<1>1. Bold \in Marks
  BY ContentsAssumption
<1> HIDE DEF on
<1>2. Uncut(Marked(MarkRange(runs, from, to, Bold, on)))
  BY <1>1, MarkWhole
<1> QED BY <1>2 DEF Toggle, on

\* Blocks and documents whose runs have whole characters.
Sound(b) == Uncut(Marked(b.runs))
SoundDoc(d) == \A i \in DOMAIN d : Sound(d[i])

LEMMA SoundText ==
    ASSUME NEW b \in Blocks, Sound(b)
    PROVE  TextOf(b) \in Seq(Bytes) /\ Whole(TextOf(b))
<1>1. b.runs \in Seq(TextRun)
  BY BlockFacts
<1>2. Marked(b.runs) \in Seq(Letters) /\ RunsText(b.runs) = Unmarked(Marked(b.runs))
  BY <1>1, MarkedType, TextOfMarked
<1>3. Whole(Unmarked(Marked(b.runs)))
  BY <1>2, WholeOfUncut DEF Sound
<1> QED BY <1>2, <1>3, BlockFacts DEF TextOf

LEMMA EmptySound ==
    Uncut(<<>>) /\ Uncut(Marked(<<>>)) /\ Whole(<<>>)
<1>1. Uncut(<<>>)
  BY DEF Uncut
<1>2. Styled(<<>>, {}) = <<>>
  BY DEF Styled
<1> QED BY <1>1, <1>2, MarkedSmall DEF Whole

LEMMA WrittenSound ==
    ASSUME NEW b \in Blocks, Sound(b), NEW value \in Seq(Bytes), Whole(value)
    PROVE  Written(b, value) \in Blocks /\ Sound(Written(b, value))
<1>1. b.runs \in Contents
  BY BlockFacts
<1>2. Uncut(Marked(SetText(b.runs, value)))
  BY <1>1, WriteWhole DEF Sound
<1>3. Written(b, value) \in Blocks /\ Written(b, value).runs = SetText(b.runs, value)
  BY WrittenFacts
<1> QED BY <1>2, <1>3 DEF Sound

LEMMA BelowSound ==
    ASSUME NEW id \in Ids, NEW text \in Seq(Bytes), Whole(text)
    PROVE  BlockBelow(id, text) \in Blocks /\ Sound(BlockBelow(id, text))
<1>1. <<>> \in Contents
  BY NoContent
<1> DEFINE r == <<>>
<1>2. r \in Contents /\ Uncut(Marked(r))
  BY <1>1, EmptySound
<1> HIDE DEF r
<1>3. Uncut(Marked(SetText(r, text)))
  BY <1>2, WriteWhole
<1>4. BlockBelow(id, text) \in Blocks /\ BlockBelow(id, text).runs = SetText(r, text)
  BY BelowFacts DEF r
<1> QED BY <1>3, <1>4 DEF Sound

LEMMA SoundSwap ==
    ASSUME NEW d \in Seq(Blocks), NEW a \in 1 .. Len(d), NEW f \in 1 .. Len(d), a <= f,
           NEW mid \in Seq(Blocks), SoundDoc(d), SoundDoc(mid)
    PROVE  SoundDoc(Swap(d, a, mid, f))
<1> DEFINE new == Swap(d, a, mid, f)
           m == Len(mid)
           n == Len(d)
<1>1. /\ m \in Nat /\ n \in Nat /\ new \in Seq(Blocks) /\ Len(new) = a - 1 + m + (n - f)
      /\ \A k \in 1 .. a - 1 : new[k] = d[k]
      /\ \A k \in 1 .. m : new[a - 1 + k] = mid[k]
      /\ \A k \in 1 .. n - f : new[a - 1 + m + k] = d[f + k]
  <2>1. /\ m \in Nat /\ n \in Nat
    BY SwapFacts
  <2>2. new \in Seq(Blocks) /\ Len(new) = a - 1 + m + (n - f)
    BY SwapShape
  <2>3. \A k \in 1 .. a - 1 : new[k] = d[k]
    BY SwapFacts
  <2>4. \A k \in 1 .. m : new[a - 1 + k] = mid[k]
    BY SwapFacts
  <2>5. \A k \in 1 .. n - f : new[a - 1 + m + k] = d[f + k]
    BY SwapFacts
  <2> QED BY <2>1, <2>2, <2>3, <2>4, <2>5
<1>2. /\ \A i \in 1 .. n : Sound(d[i])
      /\ \A i \in 1 .. m : Sound(mid[i])
  BY DEF SoundDoc
<1>3. a \in 1 .. n /\ f \in 1 .. n
  OBVIOUS
<1> HIDE DEF new, m, n
<1>4. ASSUME NEW k \in 1 .. Len(new) PROVE Sound(new[k])
  <2>1. CASE k <= a - 1
    <3>1. k \in 1 .. a - 1 /\ k \in 1 .. n
      BY <1>1, <1>3, <2>1
    <3> QED BY <1>1, <1>2, <3>1
  <2>2. CASE a - 1 < k /\ k <= a - 1 + m
    <3> DEFINE j == k - (a - 1)
    <3>1. j \in 1 .. m /\ a - 1 + j = k
      BY <1>1, <1>3, <2>2
    <3> HIDE DEF j
    <3>2. new[a - 1 + j] = mid[j]
      BY <1>1, <3>1
    <3> QED BY <1>2, <3>1, <3>2
  <2>3. CASE a - 1 + m < k
    <3> DEFINE j == k - (a - 1 + m)
    <3>1. j \in 1 .. n - f /\ a - 1 + m + j = k /\ f + j \in 1 .. n
      BY <1>1, <1>3, <2>3
    <3> HIDE DEF j
    <3>2. new[a - 1 + m + j] = d[f + j]
      BY <1>1, <3>1
    <3> QED BY <1>2, <3>1, <3>2
  <2> QED BY <1>1, <1>3, <2>1, <2>2, <2>3
<1>5. SoundDoc(new)
  BY <1>1, <1>4 DEF SoundDoc
<1> QED BY <1>5 DEF new

LEMMA SoundOne ==
    ASSUME NEW b \in Blocks, Sound(b)
    PROVE  <<b>> \in Seq(Blocks) /\ SoundDoc(<<b>>)
BY DEF SoundDoc

LEMMA SoundTwo ==
    ASSUME NEW b \in Blocks, Sound(b), NEW c \in Blocks, Sound(c)
    PROVE  <<b, c>> \in Seq(Blocks) /\ SoundDoc(<<b, c>>)
BY DEF SoundDoc

LEMMA SoundAt ==
    ASSUME NEW e \in Editing, SoundDoc(e.doc), NEW i \in 1 .. Len(e.doc)
    PROVE  /\ e.doc \in Seq(Blocks) /\ e.doc[i] \in Blocks /\ Sound(e.doc[i])
           /\ TextOf(e.doc[i]) \in Seq(Bytes) /\ Whole(TextOf(e.doc[i]))
<1>1. e.doc \in Seq(Blocks) /\ e.doc[i] \in Blocks /\ i \in DOMAIN e.doc
  BY EditingFacts, DocumentFacts
<1>2. Sound(e.doc[i])
  BY <1>1 DEF SoundDoc
<1> QED BY <1>1, <1>2, SoundText

LEMMA WriteSound ==
    ASSUME NEW e \in Editing, SoundDoc(e.doc), NEW i \in 1 .. Len(e.doc),
           NEW value \in Seq(Bytes), Whole(value)
    PROVE  SoundDoc(Write(e, i, value).doc)
<1> DEFINE d == e.doc
           b == Written(d[i], value)
           mid == <<b>>
<1>1. d \in Seq(Blocks) /\ d[i] \in Blocks /\ Sound(d[i]) /\ i <= i
  BY SoundAt
<1>2. b \in Blocks /\ Sound(b)
  BY <1>1, WrittenSound
<1>3. Write(e, i, value).doc = Swap(d, i, mid, i)
  BY WriteIs
<1> HIDE DEF b
<1>4. mid \in Seq(Blocks) /\ SoundDoc(mid)
  BY <1>2, SoundOne
<1> HIDE DEF mid, d
<1>5. SoundDoc(d) /\ i \in 1 .. Len(d)
  BY DEF d
<1>6. SoundDoc(Swap(d, i, mid, i))
  BY <1>1, <1>4, <1>5, SoundSwap
<1> QED BY <1>3, <1>6

LEMMA JoinedSound ==
    ASSUME NEW e \in Editing, SoundDoc(e.doc), NEW s, Selects(e, s), s.first # 0
    PROVE  SoundDoc(Joined(e, s).doc)
<1> DEFINE d == e.doc
           i == s.first
           l == s.last
           x == TextOf(d[i])
           y == TextOf(d[l])
           value == JoinedText(e, s)
           b == Written(d[i], value)
           mid == <<b>>
<1>1. /\ i \in 1 .. Len(d) /\ l \in 1 .. Len(d) /\ i <= l
      /\ s.from \in Boundaries(x) /\ s.to \in Boundaries(y)
  BY DEF Selects
<1>2. d \in Seq(Blocks) /\ d[i] \in Blocks /\ Sound(d[i]) /\ x \in Seq(Bytes) /\ Whole(x)
  BY <1>1, SoundAt
<1>3. y \in Seq(Bytes) /\ Whole(y)
  BY <1>1, SoundAt
<1>4. value = Cat(UpTo(x, s.from), After(y, s.to))
  BY DEF JoinedText
<1>5. Joined(e, s).doc = Swap(d, i, mid, l)
  BY JoinedIs
<1> HIDE DEF x, y
<1>6. UpTo(x, s.from) \in Seq(Bytes) /\ Whole(UpTo(x, s.from))
  BY <1>1, <1>2, WholeParts
<1>7. After(y, s.to) \in Seq(Bytes) /\ Whole(After(y, s.to))
  BY <1>1, <1>3, WholeParts
<1>8. value \in Seq(Bytes) /\ Whole(value)
  <2> HIDE DEF value
  <2> QED BY <1>4, <1>6, <1>7, WholeConcat
<1> HIDE DEF value
<1>9. b \in Blocks /\ Sound(b)
  BY <1>2, <1>8, WrittenSound
<1> HIDE DEF b
<1>10. mid \in Seq(Blocks) /\ SoundDoc(mid)
  BY <1>9, SoundOne
<1>11. SoundDoc(d)
  OBVIOUS
<1> HIDE DEF mid, d, i, l
<1>12. SoundDoc(Swap(d, i, mid, l))
  BY <1>1, <1>2, <1>10, <1>11, SoundSwap
<1> QED BY <1>5, <1>12

LEMMA DeleteSound ==
    ASSUME NEW e \in Editing, SoundDoc(e.doc)
    PROVE  SoundDoc(DeleteSelection(e).doc) /\ SoundDoc(CutSelection(e).doc)
<1> DEFINE s == Selection(e)
<1>1. Selects(e, s)
  BY SelectionFacts
<1>2. DeleteSelection(e) = Cut(e, s)
  BY DEF DeleteSelection
<1> HIDE DEF s
<1>3. SoundDoc(DeleteSelection(e).doc)
  <2>1. CASE Collapsed(e) \/ s.first = 0
    BY <1>2, <2>1 DEF Cut
  <2>2. CASE ~(Collapsed(e) \/ s.first = 0)
    BY <1>1, <1>2, <2>2, JoinedSound DEF Cut
  <2> QED BY <2>1, <2>2
<1> QED BY <1>3 DEF CutSelection

\* What a handler leaves, as far as the page and the caret go.
Puts(f, d, pos) == f \in Editing /\ f.dirty /\ f.doc = d /\ f.anchor = pos /\ f.focus = pos

LEMMA SetDocument ==
    ASSUME NEW d \in Document, NEW i \in 1 .. Len(d), NEW b \in Blocks, b.id = d[i].id
    PROVE  BlockSet(d, i, b) \in Document
BY BlockChanged DEF BlockSet

\* The text a paragraph gets when one types in it, before the rules.
TypedText(text, at, new) == Cat(Cat(UpTo(text, at), new), After(text, at))

LEMMA TypedTextType ==
    ASSUME NEW text \in Seq(Bytes), NEW at \in 0 .. Len(text), NEW new \in Seq(Bytes)
    PROVE  TypedText(text, at, new) \in Seq(Bytes)
<1>1. UpTo(text, at) \in Seq(Bytes) /\ After(text, at) \in Seq(Bytes)
  BY PartTypes
<1> DEFINE x == UpTo(text, at)
           y == After(text, at)
<1> HIDE DEF x, y
<1>2. x \in Seq(Bytes) /\ y \in Seq(Bytes)
  BY <1>1 DEF x, y
<1>3. Cat(Cat(x, new), y) \in Seq(Bytes)
  BY <1>2, CatFacts
<1> QED BY <1>3 DEF TypedText, x, y

\* A block as a heading.
Headed(b) == Block(b.id, Heading, b.runs)

LEMMA HeadedFacts ==
    ASSUME NEW b \in Blocks
    PROVE  /\ Headed(b) \in Blocks /\ Headed(b).id = b.id /\ Headed(b).kind = Heading
           /\ Headed(b).runs = b.runs /\ TextOf(Headed(b)) = TextOf(b)
<1>1. b.runs \in Contents /\ b.id \in Ids /\ Heading \in Kinds
  BY BlockFacts DEF Kinds
<1>2. /\ Block(b.id, Heading, b.runs) \in Blocks /\ Block(b.id, Heading, b.runs).id = b.id
      /\ Block(b.id, Heading, b.runs).kind = Heading /\ Block(b.id, Heading, b.runs).runs = b.runs
  BY <1>1, MakeBlock
<1> QED BY <1>2 DEF Headed, TextOf

Converts(e, i, value) == e.doc[i].kind = Paragraph /\ IsPrefix(Marker, value)
Converting(e, i, value) == Written(Headed(e.doc[i]), After(value, Len(Marker)))

LEMMA ConvertedIs ==
    ASSUME NEW e \in Editing, e.focus.block \in Ids, NEW i \in 1 .. Len(e.doc),
           NEW value \in Seq(Bytes)
    PROVE  /\ Converted(e, i, value) \in Editing /\ Converted(e, i, value).dirty = e.dirty
           /\ Converts(e, i, value) =>
                 /\ Converted(e, i, value).doc = BlockSet(e.doc, i, Converting(e, i, value))
                 /\ Converted(e, i, value).anchor = At(e.doc[i].id, 0)
                 /\ Converted(e, i, value).focus = At(e.doc[i].id, 0)
           /\ ~Converts(e, i, value) =>
                 /\ Converted(e, i, value).doc = e.doc
                 /\ Converted(e, i, value).anchor = e.anchor
                 /\ Converted(e, i, value).focus = e.focus
<1>1. e.doc \in Document /\ e.doc \in Seq(Blocks) /\ e.doc[i] \in Blocks /\ e.doc[i].id \in Ids
  BY EditingFacts, DocumentFacts, BlockFacts
<1>2. CASE e.doc[i].kind # Paragraph
  BY <1>1, <1>2 DEF Converted, Converts
<1>3. CASE e.doc[i].kind = Paragraph /\ IsPrefix(Marker, value)
  <2> DEFINE d == e.doc
             b == Headed(d[i])
             new == BlockSet(d, i, b)
             g == DocTo(e, new)
             rest == After(value, Len(Marker))
             w == Write(g, i, rest)
             pos == At(d[i].id, 0)
             c == Written(b, rest)
  <2>1. b \in Blocks /\ b.id = d[i].id
    BY <1>1, HeadedFacts
  <2>2. [e EXCEPT !.doc[i].kind = Heading] = g
    <3>1. d[i] = [id |-> d[i].id, kind |-> d[i].kind, runs |-> d[i].runs]
      BY <1>1 DEF Blocks
    <3>2. [d[i] EXCEPT !.kind = Heading] = b
      <4> DEFINE x == d[i]
      <4> HIDE DEF x
      <4>1. [x EXCEPT !.kind = Heading] = Block(x.id, Heading, x.runs)
        BY <3>1 DEF Block, x
      <4> QED BY <4>1 DEF x, Headed
    <3>3. [e EXCEPT !.doc[i].kind = Heading] = [e EXCEPT !.doc = [d EXCEPT ![i] = [d[i] EXCEPT !.kind = Heading]]]
      OBVIOUS
    <3> QED BY <3>2, <3>3, Zenon DEF DocTo, BlockSet
  <2>3. new \in Document /\ Len(new) = Len(d) /\ new[i] = b
    <3> HIDE DEF d, b
    <3>1. d \in Document /\ d \in Seq(Blocks) /\ i \in 1 .. Len(d)
      BY <1>1 DEF d
    <3>2. BlockSet(d, i, b) \in Document
      BY <2>1, <3>1, SetDocument
    <3>3. Len(BlockSet(d, i, b)) = Len(d) /\ BlockSet(d, i, b)[i] = b
      BY <2>1, <3>1, SetFacts
    <3> QED BY <3>2, <3>3
  <2>10. BlockSet(new, i, c) = BlockSet(d, i, c) /\ c \in Blocks
    <3>1. rest \in Seq(Bytes)
      <4>1. Len(Marker) \in Nat
        BY ContentsAssumption
      <4> QED BY <4>1, TextParts
    <3> HIDE DEF rest, b
    <3>2. c \in Blocks
      BY <2>1, <3>1, WrittenFacts
    <3> HIDE DEF c
    <3> QED BY <1>1, <2>1, <3>2, SetTwice
  <2> HIDE DEF b, new
  <2>4. g \in Editing /\ g.doc = new /\ g.dirty = e.dirty
    BY <2>3, DocSet DEF DocTo
  <2> HIDE DEF g
  <2>5. rest \in Seq(Bytes)
    <3>1. Len(Marker) \in Nat
      BY ContentsAssumption
    <3> QED BY <3>1, TextParts
  <2> HIDE DEF rest
  <2>6. w \in Editing /\ w.dirty = e.dirty
    BY <2>3, <2>4, <2>5, WriteFacts
  <2>11. w.doc = BlockSet(d, i, c)
    <3>1. i \in 1 .. Len(g.doc) /\ g.doc[i] = b
      BY <2>3, <2>4
    <3>2. w.doc = BlockSet(g.doc, i, Written(g.doc[i], rest))
      BY <2>4, <2>5, <3>1, WriteIs
    <3> HIDE DEF w
    <3> QED BY <2>4, <2>10, <3>1, <3>2
  <2> HIDE DEF w
  <2>7. pos \in Points
    BY <1>1, PointMade
  <2> HIDE DEF pos
  <2>8. /\ Caret(w, pos) \in Editing /\ Caret(w, pos).dirty = e.dirty /\ Caret(w, pos).doc = w.doc
        /\ Caret(w, pos).anchor = pos /\ Caret(w, pos).focus = pos
    BY <2>6, <2>7, CaretSet
  <2>9. Converted(e, i, value) = Caret(w, pos)
    BY <1>3, <2>2 DEF Converted, w, pos, rest
  <2>12. Converts(e, i, value) /\ c = Converting(e, i, value)
    BY <1>3 DEF Converts, Converting, c, b, rest
  <2> HIDE DEF c
  <2> QED BY <2>8, <2>9, <2>11, <2>12 DEF pos
<1>4. CASE e.doc[i].kind = Paragraph /\ ~ IsPrefix(Marker, value) /\ value = Slash
  <2> DEFINE m == MenuOf(e.focus.block, TRUE)
             g == [e EXCEPT !.menu = m]
  <2>1. m \in MenuStates
    BY MenuMade
  <2>2. Converted(e, i, value) = g
    BY <1>4 DEF Converted
  <2> HIDE DEF m
  <2>3. g \in Editing /\ g.dirty = e.dirty /\ g.doc = e.doc /\ g.anchor = e.anchor /\ g.focus = e.focus
    BY <2>1, MenuSet
  <2> QED BY <1>4, <2>2, <2>3 DEF Converts
<1>5. CASE e.doc[i].kind = Paragraph /\ ~ IsPrefix(Marker, value) /\ value # Slash
  BY <1>1, <1>5 DEF Converted, Converts
<1> QED BY <1>2, <1>3, <1>4, <1>5

\* The editor before the rules look at what was typed.
Entered(e, i, at, text) ==
    Dirty(Caret(Write(e, i, TypedText(TextOf(e.doc[i]), at, text)), At(e.doc[i].id, at + Len(text))))

LEMMA EnteredIs ==
    ASSUME NEW e \in Editing, NEW i \in 1 .. Len(e.doc), NEW at \in 0 .. Len(TextOf(e.doc[i])),
           NEW text \in Seq(Bytes)
    PROVE  /\ Puts(Entered(e, i, at, text),
                   BlockSet(e.doc, i, Written(e.doc[i], TypedText(TextOf(e.doc[i]), at, text))),
                   At(e.doc[i].id, at + Len(text)))
           /\ Entered(e, i, at, text).menu = e.menu
           /\ TypeAt(e, i, at, text)
              = Converted(Entered(e, i, at, text), i, TypedText(TextOf(e.doc[i]), at, text))
<1> DEFINE d == e.doc
           t == TextOf(d[i])
           value == TypedText(t, at, text)
           w == Write(e, i, value)
           pos == At(d[i].id, at + Len(text))
           new == BlockSet(d, i, Written(d[i], value))
<1>1. d[i] \in Blocks
  BY EditingFacts, DocumentFacts
<1>2. t \in Seq(Bytes) /\ d[i].id \in Ids /\ at \in 0 .. Len(t)
  BY <1>1, BlockFacts
<1> HIDE DEF t
<1>3. value \in Seq(Bytes)
  BY <1>2, TypedTextType
<1>4. at + Len(text) \in Nat
  BY <1>2
<1>5. pos \in Points
  <2> DEFINE k == at + Len(text)
  <2> HIDE DEF k
  <2>1. k \in Nat
    BY <1>4 DEF k
  <2>2. At(d[i].id, k) \in Points
    BY <1>2, <2>1, PointMade
  <2> QED BY <2>2 DEF k
<1>6. TypeAt(e, i, at, text) = Converted(Dirty(Caret(w, pos)), i, value)
  BY DEF TypeAt, Typed, value, TypedText, Cat, t
<1> HIDE DEF value, pos
<1>7. w \in Editing /\ w.menu = e.menu
  BY <1>3, WriteFacts
<1>8. w.doc = new
  BY <1>3, WriteIs
<1> HIDE DEF w, new
<1>9. /\ Caret(w, pos) \in Editing /\ Caret(w, pos).doc = w.doc
      /\ Caret(w, pos).anchor = pos /\ Caret(w, pos).focus = pos /\ Caret(w, pos).menu = w.menu
  BY <1>5, <1>7, CaretSet
<1> DEFINE h == Caret(w, pos)
<1> HIDE DEF h
<1>10. /\ Dirty(h) \in Editing /\ Dirty(h).dirty /\ Dirty(h).doc = h.doc
       /\ Dirty(h).anchor = h.anchor /\ Dirty(h).focus = h.focus /\ Dirty(h).menu = h.menu
  BY <1>9, DirtySet DEF h
<1>11. Puts(Dirty(h), new, pos) /\ Dirty(h).menu = e.menu
  BY <1>7, <1>8, <1>9, <1>10 DEF Puts, h
<1>12. Entered(e, i, at, text) = Dirty(h)
  BY DEF Entered, h, w, pos, value, t
<1> QED BY <1>6, <1>11, <1>12 DEF h, new, pos, value, t

\* The caret's block and the offset in it where an edit works.
Spot(e, i, at) ==
    /\ i = IndexOf(e.doc, e.focus.block)
    /\ i \in 1 .. Len(e.doc) /\ e.doc \in Seq(Blocks) /\ e.doc[i] \in Blocks /\ e.doc[i].id = e.focus.block
    /\ e.focus.block \in Ids
    /\ TextOf(e.doc[i]) \in Seq(Bytes)
    /\ at = Clamp(TextOf(e.doc[i]), e.focus.offset)
    /\ at \in Boundaries(TextOf(e.doc[i])) /\ at \in 0 .. Len(TextOf(e.doc[i])) /\ at \in Nat

LEMMA SpotIs ==
    ASSUME NEW e \in Editing
    PROVE  \/ IndexOf(e.doc, e.focus.block) = 0
           \/ \E i, at : Spot(e, i, at)
<1> DEFINE d == e.doc
           i == IndexOf(d, e.focus.block)
           t == TextOf(d[i])
           at == Clamp(t, e.focus.offset)
<1> SUFFICES ASSUME i # 0 PROVE Spot(e, i, at)
  OBVIOUS
<1>1. d \in Document /\ d \in Seq(Blocks) /\ e.focus.offset \in Nat
  BY EditingFacts, DocumentFacts
<1>2. i \in 1 .. Len(d) /\ d[i] \in Blocks /\ d[i].id = e.focus.block
  BY <1>1, IndexFacts
<1>3. t \in Seq(Bytes) /\ e.focus.block \in Ids
  BY <1>2, BlockFacts
<1>4. at \in Boundaries(t) /\ at \in Nat /\ at <= Len(t) /\ Len(t) \in Nat
  <2> HIDE DEF t
  <2> QED BY <1>1, <1>3, ClampIn
<1>5. at \in 0 .. Len(t)
  BY <1>4
<1> QED BY <1>1, <1>2, <1>3, <1>4, <1>5 DEF Spot

LEMMA TypeAtFocusIs ==
    ASSUME NEW e \in Editing, NEW i, NEW at, Spot(e, i, at), NEW text
    PROVE  TypeAtFocus(e, text) = TypeAt(e, i, at, text)
BY DEF TypeAtFocus, TypeIn, Spot

LEMMA SplitAtFocusIs ==
    ASSUME NEW e \in Editing, NEW i, NEW at, Spot(e, i, at), NEW id, NEW past
    PROVE  SplitAtFocus(e, id, past) = SplitAt(e, i, at, id, past)
BY DEF SplitAtFocus, SplitIn, Spot

LEMMA WholeTyped ==
    ASSUME NEW text \in Seq(Bytes), Whole(text), NEW at \in Boundaries(text),
           NEW new \in Seq(Bytes), Whole(new)
    PROVE  TypedText(text, at, new) \in Seq(Bytes) /\ Whole(TypedText(text, at, new))
<1> DEFINE x == UpTo(text, at)
           y == After(text, at)
<1>1. x \in Seq(Bytes) /\ Whole(x) /\ y \in Seq(Bytes) /\ Whole(y)
  BY WholeParts
<1> HIDE DEF x, y
<1>2. Cat(x, new) \in Seq(Bytes) /\ Whole(Cat(x, new))
  BY <1>1, WholeConcat
<1>3. Cat(Cat(x, new), y) \in Seq(Bytes) /\ Whole(Cat(Cat(x, new), y))
  BY <1>1, <1>2, WholeConcat
<1> QED BY <1>3 DEF TypedText, x, y

LEMMA SoundSet ==
    ASSUME NEW d \in Seq(Blocks), SoundDoc(d), NEW i \in 1 .. Len(d), NEW b \in Blocks, Sound(b)
    PROVE  BlockSet(d, i, b) \in Seq(Blocks) /\ SoundDoc(BlockSet(d, i, b))
<1> DEFINE D == BlockSet(d, i, b)
<1>1. /\ D \in Seq(Blocks) /\ Len(D) = Len(d) /\ D[i] = b
      /\ \A j \in 1 .. Len(d) : j # i => D[j] = d[j]
  BY SetFacts
<1>2. \A j \in 1 .. Len(d) : Sound(d[j])
  BY DEF SoundDoc
<1> HIDE DEF D
<1>3. \A j \in 1 .. Len(D) : Sound(D[j])
  BY <1>1, <1>2
<1> QED BY <1>1, <1>3 DEF SoundDoc, D

LEMMA ConvertedSound ==
    ASSUME NEW e \in Editing, SoundDoc(e.doc), e.focus.block \in Ids, NEW i \in 1 .. Len(e.doc),
           NEW value \in Seq(Bytes), Whole(value)
    PROVE  SoundDoc(Converted(e, i, value).doc)
<1> DEFINE d == e.doc
           b == Headed(d[i])
           rest == After(value, Len(Marker))
           c == Written(b, rest)
<1>1. CASE ~Converts(e, i, value)
  BY <1>1, ConvertedIs
<1>2. CASE Converts(e, i, value)
  <2>1. Converted(e, i, value).doc = BlockSet(d, i, Converting(e, i, value))
    BY <1>2, ConvertedIs
  <2>2. Converting(e, i, value) = c
    BY DEF Converting
  <2>3. rest \in Seq(Bytes) /\ Whole(rest)
    <3> DEFINE m == Len(Marker)
    <3>1. m \in Boundaries(value)
      BY <1>2, WholeAfterMarker DEF Converts
    <3> HIDE DEF m
    <3> QED BY <3>1, WholeParts DEF m
  <2> HIDE DEF rest
  <2>4. d \in Seq(Blocks) /\ d[i] \in Blocks /\ Sound(d[i])
    BY SoundAt
  <2>5. b \in Blocks /\ Sound(b)
    BY <2>4, HeadedFacts DEF Sound
  <2> HIDE DEF b
  <2>6. c \in Blocks /\ Sound(c)
    BY <2>3, <2>5, WrittenSound
  <2> HIDE DEF c
  <2>7. SoundDoc(BlockSet(d, i, c))
    BY <2>4, <2>6, SoundSet
  <2> QED BY <2>1, <2>2, <2>7
<1> QED BY <1>1, <1>2

LEMMA TypeSound ==
    ASSUME NEW e \in Editing, SoundDoc(e.doc), NEW text \in Seq(Bytes), Whole(text)
    PROVE  SoundDoc(TypeAtFocus(e, text).doc)
<1>1. CASE IndexOf(e.doc, e.focus.block) = 0
  BY <1>1 DEF TypeAtFocus, TypeIn
<1>2. CASE IndexOf(e.doc, e.focus.block) # 0
  <2>1. PICK i, at : Spot(e, i, at)
    BY <1>2, SpotIs
  <2> DEFINE t == TextOf(e.doc[i])
             value == TypedText(t, at, text)
             g == Entered(e, i, at, text)
             new == BlockSet(e.doc, i, Written(e.doc[i], value))
  <2>2. /\ i \in 1 .. Len(e.doc) /\ at \in 0 .. Len(t) /\ at \in Boundaries(t) /\ e.doc[i].id \in Ids
        /\ e.doc \in Seq(Blocks) /\ e.doc[i] \in Blocks
    BY <2>1 DEF Spot
  <2>3. /\ Puts(g, new, At(e.doc[i].id, at + Len(text)))
        /\ TypeAtFocus(e, text) = Converted(g, i, value)
    BY <2>1, <2>2, EnteredIs, TypeAtFocusIs
  <2>4. t \in Seq(Bytes) /\ Whole(t) /\ Sound(e.doc[i])
    BY <2>2, SoundAt
  <2> HIDE DEF t
  <2>5. value \in Seq(Bytes) /\ Whole(value)
    BY <2>2, <2>4, WholeTyped
  <2> HIDE DEF value
  <2>6. Written(e.doc[i], value) \in Blocks /\ Sound(Written(e.doc[i], value))
    BY <2>2, <2>4, <2>5, WrittenSound
  <2>7. new \in Seq(Blocks) /\ SoundDoc(new) /\ Len(new) = Len(e.doc)
    <3> DEFINE b == Written(e.doc[i], value)
    <3> HIDE DEF b
    <3> QED BY <2>2, <2>6, SoundSet, SetFacts DEF b
  <2> HIDE DEF new
  <2>8. g \in Editing /\ g.doc = new /\ g.focus.block \in Ids
    BY <2>2, <2>3 DEF Puts, At
  <2> HIDE DEF g
  <2>9. SoundDoc(Converted(g, i, value).doc)
    BY <2>2, <2>5, <2>7, <2>8, ConvertedSound
  <2> QED BY <2>3, <2>9
<1> QED BY <1>1, <1>2

LEMMA SeededIs ==
    ASSUME NEW e \in Editing, e.doc = <<>>, NEW id \in Ids
    PROVE  /\ Block(id, Paragraph, <<>>) \in Blocks
           /\ Puts(Seeded(e, id), <<Block(id, Paragraph, <<>>)>>, At(id, 0))
<1> DEFINE b == Block(id, Paragraph, <<>>)
           pos == At(id, 0)
           new == <<b>>
<1>1. b \in Blocks /\ pos \in Points
  BY NoContent, MakeBlock, PointMade DEF Kinds
<1>2. Seeded(e, id) = Dirty(Caret(DocTo(e, new), pos))
  BY DEF Seeded, DocTo
<1>3. Fit(e)
  BY DEF Fit, Anchored
<1>4. Seeded(e, id) \in Editing
  BY <1>3, SeededFacts DEF Fit
<1> HIDE DEF new, pos
<1>5. Puts(Seeded(e, id), new, pos)
  BY <1>1, <1>2, <1>4, CaretIs DEF Puts
<1> QED BY <1>1, <1>5 DEF new, pos

\* The boundaries before and after an offset.
LEMMA PrevIs ==
    ASSUME NEW text \in Seq(Bytes), NEW at \in 0 .. Len(text)
    PROVE  /\ PrevBoundary(text, at) \in Boundaries(text)
           /\ PrevBoundary(text, at) \in 0 .. Len(text) /\ PrevBoundary(text, at) <= at
           /\ at # 0 => PrevBoundary(text, at) < at
           /\ \A k \in Boundaries(text) : k < at => k <= PrevBoundary(text, at)
<1> DEFINE n == Len(text)
           B == Boundaries(text)
           S == {0} \cup {k \in B : k < at}
           p == PrevBoundary(text, at)
<1>1. n \in Nat /\ B \in SUBSET (0 .. n) /\ 0 \in B
  BY BoundaryFacts
<1> HIDE DEF B
<1>2. S \in SUBSET (0 .. n) /\ S # {}
  BY <1>1
<1>3. p = Max(S)
  BY DEF PrevBoundary, B
<1>4. p \in S /\ p \in 0 .. n /\ \A k \in S : k <= p
  <2> HIDE DEF S, n, p
  <2> QED BY <1>1, <1>2, <1>3, GreatestIs
<1>5. p = 0 \/ (p \in B /\ p < at)
  BY <1>4
<1>6. \A k \in B : k < at => k <= p
  BY <1>4
<1> HIDE DEF p
<1>7. p \in B /\ p <= at /\ (at # 0 => p < at)
  <2>1. at \in Nat /\ p \in B
    BY <1>1, <1>5
  <2>2. p \in Nat
    BY <1>4
  <2> HIDE DEF n
  <2> QED BY <1>5, <2>1, <2>2
<1> QED BY <1>4, <1>6, <1>7 DEF p, B, n

LEMMA NextIs ==
    ASSUME NEW text \in Seq(Bytes), NEW at \in 0 .. Len(text)
    PROVE  /\ NextBoundary(text, at) \in Boundaries(text)
           /\ NextBoundary(text, at) \in 0 .. Len(text) /\ at <= NextBoundary(text, at)
           /\ at # Len(text) => at < NextBoundary(text, at)
           /\ \A k \in Boundaries(text) : at < k => NextBoundary(text, at) <= k
<1> DEFINE n == Len(text)
           B == Boundaries(text)
           S == {n} \cup {k \in B : k > at}
           p == NextBoundary(text, at)
<1>1. n \in Nat /\ B \in SUBSET (0 .. n) /\ n \in B /\ at \in 0 .. n
  BY BoundaryFacts
<1> HIDE DEF B
<1>2. S \in SUBSET Nat /\ S # {}
  <2>1. \A k \in 0 .. n : k \in Nat
    OBVIOUS
  <2> HIDE DEF n
  <2> QED BY <1>1, <2>1
<1>3. p = Min(S)
  BY DEF NextBoundary, B
<1>4. p \in S /\ \A k \in S : p <= k
  <2> HIDE DEF S, n, p
  <2> QED BY <1>1, <1>2, <1>3, LeastIs
<1>5. p = n \/ (p \in B /\ p > at)
  BY <1>4
<1>6. \A k \in B : at < k => p <= k
  BY <1>4
<1> HIDE DEF p, n
<1>7. p \in B /\ p \in 0 .. n /\ at <= p /\ (at # n => at < p)
  <2>1. p \in B /\ p \in 0 .. n
    BY <1>1, <1>5
  <2>2. p \in Nat /\ at \in Nat /\ n \in Nat /\ at <= n
    BY <1>1, <2>1
  <2> QED BY <1>5, <2>1, <2>2
<1> QED BY <1>6, <1>7 DEF p, B, n

LEMMA WithoutType ==
    ASSUME NEW text \in Seq(Bytes), NEW from \in 0 .. Len(text), NEW to \in 0 .. Len(text)
    PROVE  /\ Without(text, from, to) \in Seq(Bytes)
           /\ Without(text, from, to) = Cat(UpTo(text, from), After(text, to))
<1>1. UpTo(text, from) \in Seq(Bytes) /\ After(text, to) \in Seq(Bytes)
  BY PartTypes
<1> DEFINE x == UpTo(text, from)
           y == After(text, to)
<1>2. Without(text, from, to) = Cat(x, y)
  BY DEF Without, Cat
<1>3. x \in Seq(Bytes) /\ y \in Seq(Bytes)
  BY <1>1
<1> HIDE DEF x, y
<1>4. Cat(x, y) \in Seq(Bytes)
  BY <1>3, CatFacts
<1> QED BY <1>2, <1>4 DEF x, y

\* What Backspace and Delete do without a selection.
LEMMA BackIs ==
    ASSUME NEW e \in Editing, NEW i, NEW at, Spot(e, i, at)
    PROVE  LET t == TextOf(e.doc[i])
               prev == PrevBoundary(t, at)
           IN  /\ e.focus.offset > 0 =>
                     Puts(BackIn(e, i), BlockSet(e.doc, i, Written(e.doc[i], Without(t, prev, at))),
                          At(e.focus.block, prev))
               /\ ~(e.focus.offset > 0) /\ i > 1 =>
                     Puts(BackIn(e, i),
                          Swap(e.doc, i - 1, <<Written(e.doc[i - 1], Cat(TextOf(e.doc[i - 1]), t))>>, i),
                          At(e.doc[i - 1].id, Len(TextOf(e.doc[i - 1]))))
               /\ ~(e.focus.offset > 0) /\ ~(i > 1) => BackIn(e, i) = Dirty(e)
<1> DEFINE d == e.doc
           t == TextOf(d[i])
           prev == PrevBoundary(t, at)
<1>1. /\ i \in 1 .. Len(d) /\ at \in 0 .. Len(t) /\ at = Clamp(t, e.focus.offset) /\ t \in Seq(Bytes)
      /\ e.focus.block \in Ids /\ i # 0 /\ d \in Seq(Blocks)
  BY DEF Spot
<1>2. prev \in 0 .. Len(t) /\ prev \in Nat
  <2>1. prev \in 0 .. Len(t)
    <3> HIDE DEF t
    <3> QED BY <1>1, PrevIs
  <2> QED BY <2>1
<1>3. ASSUME e.focus.offset > 0
      PROVE  Puts(BackIn(e, i), BlockSet(d, i, Written(d[i], Without(t, prev, at))), At(e.focus.block, prev))
  <2> DEFINE value == Without(t, prev, at)
             w == Write(e, i, value)
             pos == At(e.focus.block, prev)
             new == BlockSet(d, i, Written(d[i], value))
  <2>1. BackIn(e, i) = Dirty(Caret(w, pos))
    BY <1>1, <1>3 DEF BackIn, EraseBack
  <2> HIDE DEF prev, t
  <2>2. value \in Seq(Bytes)
    BY <1>1, <1>2, WithoutType
  <2> HIDE DEF value
  <2>3. w \in Editing /\ w.doc = new
    BY <1>1, <2>2, WriteFacts, WriteIs
  <2>4. pos \in Points
    BY <1>1, <1>2, PointMade
  <2> HIDE DEF w, pos, new
  <2>5. Puts(Dirty(Caret(w, pos)), new, pos)
    BY <2>3, <2>4, CaretSet, DirtySet DEF Puts
  <2> QED BY <2>1, <2>5 DEF new, value, pos
<1>4. ASSUME ~(e.focus.offset > 0), i > 1
      PROVE  Puts(BackIn(e, i), Swap(d, i - 1, <<Written(d[i - 1], Cat(TextOf(d[i - 1]), t))>>, i),
                  At(d[i - 1].id, Len(TextOf(d[i - 1]))))
  <2> DEFINE w == Merge(e, i)
             h == i - 1
             pos == At(d[h].id, Len(TextOf(d[h])))
             new == Swap(d, h, <<Written(d[h], Cat(TextOf(d[h]), t))>>, i)
  <2>1. BackIn(e, i) = Dirty(Caret(w, pos))
    BY <1>1, <1>4 DEF BackIn
  <2>2. w \in Editing /\ w.doc = new
    BY <1>1, <1>4, MergeIs
  <2>3. pos \in Points
    <3>1. h \in 1 .. Len(d)
      BY <1>1, <1>4
    <3> HIDE DEF h
    <3>2. d[h] \in Blocks
      BY <1>1, <3>1
    <3>3. d[h].id \in Ids /\ Len(TextOf(d[h])) \in Nat
      BY <3>2, BlockFacts
    <3> QED BY <3>3, PointMade
  <2> HIDE DEF w, pos, new
  <2>4. Puts(Dirty(Caret(w, pos)), new, pos)
    BY <2>2, <2>3, CaretSet, DirtySet DEF Puts
  <2> QED BY <2>1, <2>4 DEF new, pos
<1>5. ASSUME ~(e.focus.offset > 0), ~(i > 1)
      PROVE  BackIn(e, i) = Dirty(e)
  BY <1>1, <1>5 DEF BackIn
<1> QED BY <1>3, <1>4, <1>5

\* The editor with another page, to be laid out again.
Leaves(f, e, d) == f \in Editing /\ f.dirty /\ f.doc = d /\ f.anchor = e.anchor /\ f.focus = e.focus

LEMMA ForwardIs ==
    ASSUME NEW e \in Editing, NEW i, NEW at, Spot(e, i, at)
    PROVE  LET t == TextOf(e.doc[i])
               next == NextBoundary(t, at)
           IN  /\ e.focus.offset < Len(t) =>
                     Leaves(ForwardIn(e, i), e, BlockSet(e.doc, i, Written(e.doc[i], Without(t, at, next))))
               /\ ~(e.focus.offset < Len(t)) /\ i < Len(e.doc) =>
                     Leaves(ForwardIn(e, i), e,
                            Swap(e.doc, i, <<Written(e.doc[i], Cat(t, TextOf(e.doc[i + 1])))>>, i + 1))
               /\ ~(e.focus.offset < Len(t)) /\ ~(i < Len(e.doc)) => ForwardIn(e, i) = Dirty(e)
<1> DEFINE d == e.doc
           t == TextOf(d[i])
           next == NextBoundary(t, at)
<1>1. /\ i \in 1 .. Len(d) /\ at \in 0 .. Len(t) /\ at = Clamp(t, e.focus.offset) /\ t \in Seq(Bytes)
      /\ i # 0 /\ d \in Seq(Blocks)
  BY DEF Spot
<1>2. next \in 0 .. Len(t)
  <2> HIDE DEF t
  <2> QED BY <1>1, NextIs
<1>3. ASSUME e.focus.offset < Len(t)
      PROVE  Leaves(ForwardIn(e, i), e, BlockSet(d, i, Written(d[i], Without(t, at, next))))
  <2> DEFINE value == Without(t, at, next)
             w == Write(e, i, value)
             new == BlockSet(d, i, Written(d[i], value))
  <2>1. ForwardIn(e, i) = Dirty(w)
    BY <1>1, <1>3 DEF ForwardIn, EraseForward
  <2> HIDE DEF next, t
  <2>2. value \in Seq(Bytes)
    BY <1>1, <1>2, WithoutType
  <2> HIDE DEF value
  <2>3. w \in Editing /\ w.doc = new /\ w.anchor = e.anchor /\ w.focus = e.focus
    BY <1>1, <2>2, WriteFacts, WriteIs
  <2> HIDE DEF w, new
  <2>4. Leaves(Dirty(w), e, new)
    BY <2>3, DirtySet DEF Leaves
  <2> QED BY <2>1, <2>4 DEF new, value
<1>4. ASSUME ~(e.focus.offset < Len(t)), i < Len(d)
      PROVE  Leaves(ForwardIn(e, i), e, Swap(d, i, <<Written(d[i], Cat(t, TextOf(d[i + 1])))>>, i + 1))
  <2> DEFINE h == i + 1
             w == Merge(e, h)
             new == Swap(d, i, <<Written(d[i], Cat(t, TextOf(d[h])))>>, h)
             old == Swap(d, h - 1, <<Written(d[h - 1], Cat(TextOf(d[h - 1]), TextOf(d[h])))>>, h)
  <2>1. ForwardIn(e, i) = Dirty(w)
    BY <1>1, <1>4 DEF ForwardIn
  <2>2. h \in 1 .. Len(d) /\ h > 1 /\ h - 1 = i
    BY <1>1, <1>4
  <2>3. old = new
    BY <2>2
  <2> HIDE DEF h
  <2>4. w \in Editing /\ w.doc = old /\ w.anchor = e.anchor /\ w.focus = e.focus
    BY <2>2, MergeIs
  <2> HIDE DEF w, new, old
  <2>5. Leaves(Dirty(w), e, new)
    BY <2>3, <2>4, DirtySet DEF Leaves
  <2> QED BY <2>1, <2>5 DEF new, h
<1>5. ASSUME ~(e.focus.offset < Len(t)), ~(i < Len(d))
      PROVE  ForwardIn(e, i) = Dirty(e)
  BY <1>1, <1>5 DEF ForwardIn
<1> QED BY <1>3, <1>4, <1>5

LEMMA SoundCat ==
    ASSUME NEW c \in Seq(Blocks), NEW d \in Seq(Blocks), SoundDoc(c), SoundDoc(d)
    PROVE  Cat(c, d) \in Seq(Blocks) /\ SoundDoc(Cat(c, d))
<1> DEFINE s == Cat(c, d)
           m == Len(c)
           n == Len(d)
<1>1. /\ s \in Seq(Blocks) /\ Len(s) = m + n /\ m \in Nat /\ n \in Nat
      /\ \A i \in 1 .. m + n : s[i] = IF i <= m THEN c[i] ELSE d[i - m]
  BY ConcatProperties DEF Cat
<1>2. (\A i \in 1 .. m : Sound(c[i])) /\ (\A i \in 1 .. n : Sound(d[i]))
  BY DEF SoundDoc
<1> HIDE DEF s, m, n
<1>3. ASSUME NEW i \in 1 .. m + n PROVE Sound(s[i])
  <2>1. CASE i <= m
    <3>1. i \in 1 .. m
      BY <1>1, <2>1
    <3> QED BY <1>1, <1>2, <2>1, <3>1
  <2>2. CASE ~(i <= m)
    <3>1. i - m \in 1 .. n
      BY <1>1, <2>2
    <3> QED BY <1>1, <1>2, <2>2, <3>1
  <2> QED BY <2>1, <2>2
<1>4. SoundDoc(s)
  BY <1>1, <1>3 DEF SoundDoc
<1> QED BY <1>1, <1>4 DEF s

LEMMA SoundPart ==
    ASSUME NEW d \in Seq(Blocks), SoundDoc(d), NEW m \in Nat, NEW n \in Nat, 1 <= m, n <= Len(d)
    PROVE  SubSeq(d, m, n) \in Seq(Blocks) /\ SoundDoc(SubSeq(d, m, n))
<1> DEFINE s == SubSeq(d, m, n)
           l == Len(d)
<1>1. /\ s \in Seq(Blocks) /\ Len(s) = IF m <= n THEN n - m + 1 ELSE 0
      /\ \A i \in 1 .. n - m + 1 : s[i] = d[m + i - 1]
  BY PartFacts
<1>2. l \in Nat /\ n <= l /\ \A i \in 1 .. l : Sound(d[i])
  BY DEF SoundDoc
<1> HIDE DEF s, l
<1>3. ASSUME NEW i \in 1 .. Len(s) PROVE Sound(s[i])
  <2>1. i \in 1 .. n - m + 1 /\ m + i - 1 \in 1 .. l
    BY <1>1, <1>2
  <2> QED BY <1>1, <1>2, <2>1
<1>4. SoundDoc(s)
  BY <1>1, <1>3 DEF SoundDoc
<1> QED BY <1>1, <1>4 DEF s

LEMMA SoundInsert ==
    ASSUME NEW d \in Seq(Blocks), SoundDoc(d), NEW i \in 1 .. Len(d) + 1, NEW b \in Blocks, Sound(b)
    PROVE  SoundDoc(InsertAt(d, i, b))
<1> DEFINE h == i - 1
           P == SubSeq(d, 1, h)
           Q == SubSeq(d, i, Len(d))
           B == <<b>>
           one == 1
<1>1. /\ Len(d) \in Nat /\ h \in Nat /\ h <= Len(d) /\ i \in Nat /\ 1 <= i
      /\ one \in Nat /\ 1 <= one /\ Len(d) <= Len(d)
  OBVIOUS
<1>2. InsertAt(d, i, b) = Cat(Cat(P, B), Q)
  BY DEF InsertAt, Cat
<1>3. P = SubSeq(d, one, h)
  OBVIOUS
<1> HIDE DEF h, one
<1>4. P \in Seq(Blocks) /\ SoundDoc(P)
  BY <1>1, <1>3, SoundPart
<1>5. Q \in Seq(Blocks) /\ SoundDoc(Q)
  BY <1>1, SoundPart
<1>6. B \in Seq(Blocks) /\ SoundDoc(B)
  BY SoundOne
<1> HIDE DEF P, Q, B
<1>7. Cat(P, B) \in Seq(Blocks) /\ SoundDoc(Cat(P, B))
  BY <1>4, <1>6, SoundCat
<1> QED BY <1>2, <1>5, <1>7, SoundCat

LEMMA SoundRemove ==
    ASSUME NEW d \in Seq(Blocks), SoundDoc(d), NEW i \in 1 .. Len(d)
    PROVE  SoundDoc(RemoveAt(d, i))
<1> DEFINE h == i - 1
           j == i + 1
           P == SubSeq(d, 1, h)
           Q == SubSeq(d, j, Len(d))
           one == 1
<1>1. /\ Len(d) \in Nat /\ h \in Nat /\ h <= Len(d) /\ j \in Nat /\ 1 <= j
      /\ one \in Nat /\ 1 <= one /\ Len(d) <= Len(d)
  OBVIOUS
<1>2. RemoveAt(d, i) = Cat(P, Q)
  BY DEF RemoveAt, Cat
<1>3. P = SubSeq(d, one, h)
  OBVIOUS
<1> HIDE DEF h, j, one
<1>4. P \in Seq(Blocks) /\ SoundDoc(P)
  BY <1>1, <1>3, SoundPart
<1>5. Q \in Seq(Blocks) /\ SoundDoc(Q)
  BY <1>1, SoundPart
<1> HIDE DEF P, Q
<1> QED BY <1>2, <1>4, <1>5, SoundCat

LEMMA SeededSound ==
    ASSUME NEW e \in Editing, SoundDoc(e.doc), NEW id, e.doc = <<>> => id \in Ids
    PROVE  SoundDoc(Seeded(e, id).doc)
<1>1. CASE e.doc # <<>>
  BY <1>1 DEF Seeded
<1>2. CASE e.doc = <<>>
  <2> DEFINE b == Block(id, Paragraph, <<>>)
             new == <<b>>
  <2>1. b \in Blocks /\ Seeded(e, id).doc = new
    BY <1>2, SeededIs DEF Puts
  <2>2. Sound(b)
    BY EmptySound DEF Sound, Block
  <2> HIDE DEF b
  <2>3. SoundDoc(new)
    BY <2>1, <2>2, SoundOne
  <2> QED BY <2>1, <2>3
<1> QED BY <1>1, <1>2

LEMMA SplitSound ==
    ASSUME NEW e \in Editing, SoundDoc(e.doc), NEW id \in Ids, NEW past \in Nat
    PROVE  SoundDoc(SplitAtFocus(e, id, past).doc)
<1>1. CASE IndexOf(e.doc, e.focus.block) = 0
  BY <1>1 DEF SplitAtFocus, SplitIn
<1>2. CASE IndexOf(e.doc, e.focus.block) # 0
  <2>1. PICK i, at : Spot(e, i, at)
    BY <1>2, SpotIs
  <2> DEFINE t == TextOf(e.doc[i])
             x == UpTo(t, at)
             y == After(t, at)
             c == BlockBelow(id, y)
             u == Write(e, i, x).doc
             new == SplitAtFocus(e, id, past).doc
  <2>2. i \in 1 .. Len(e.doc) /\ at \in 0 .. Len(t) /\ at \in Boundaries(t)
    BY <2>1 DEF Spot
  <2>3. t \in Seq(Bytes) /\ Whole(t)
    BY <2>2, SoundAt
  <2>4. SplitAtFocus(e, id, past) = SplitAt(e, i, at, id, past)
    BY <2>1, SplitAtFocusIs
  <2>5. SplitAt(e, i, at, id, past).doc = Landed(BlockSet(e.doc, i, Written(e.doc[i], x)), i + 1, c, past)
    BY <2>2, SplitIs
  <2> HIDE DEF t
  <2>6. x \in Seq(Bytes) /\ Whole(x) /\ y \in Seq(Bytes) /\ Whole(y)
    BY <2>2, <2>3, WholeParts
  <2>7. new = Landed(u, i + 1, c, past)
    BY <2>2, <2>4, <2>5, <2>6, WriteIs
  <2> HIDE DEF x, y, new
  <2>8. c \in Blocks /\ Sound(c)
    BY <2>6, BelowSound
  <2>9. Write(e, i, x) \in Editing /\ Len(u) = Len(e.doc)
    BY <2>2, <2>6, WriteFacts
  <2>10. SoundDoc(u)
    BY <2>2, <2>6, WriteSound
  <2>11. u \in Seq(Blocks) /\ Len(u) \in Nat
    BY <2>9, EditingFacts, DocumentFacts
  <2> HIDE DEF c, u
  <2>12. i + 1 \in 1 .. Len(u) + 1
    BY <2>2, <2>9, <2>11
  <2>13. PICK j \in 1 .. Len(u) + 1 : new = InsertAt(u, j, c)
    BY <2>7, <2>11, <2>12, LandedFacts
  <2>14. SoundDoc(new)
    BY <2>8, <2>10, <2>11, <2>13, SoundInsert
  <2> QED BY <2>14 DEF new
<1> QED BY <1>1, <1>2

LEMMA WholeWithout ==
    ASSUME NEW text \in Seq(Bytes), Whole(text), NEW from \in Boundaries(text), NEW to \in Boundaries(text)
    PROVE  Without(text, from, to) \in Seq(Bytes) /\ Whole(Without(text, from, to))
<1> DEFINE x == UpTo(text, from)
           y == After(text, to)
<1>1. x \in Seq(Bytes) /\ Whole(x) /\ y \in Seq(Bytes) /\ Whole(y)
  BY WholeParts
<1>2. Without(text, from, to) = Cat(x, y)
  BY DEF Without, Cat
<1> HIDE DEF x, y
<1> QED BY <1>1, <1>2, WholeConcat

LEMMA WithoutSound ==
    ASSUME NEW e \in Editing, SoundDoc(e.doc), NEW i \in 1 .. Len(e.doc),
           NEW from \in Boundaries(TextOf(e.doc[i])), NEW to \in Boundaries(TextOf(e.doc[i]))
    PROVE  SoundDoc(BlockSet(e.doc, i, Written(e.doc[i], Without(TextOf(e.doc[i]), from, to))))
<1> DEFINE d == e.doc
           t == TextOf(d[i])
           value == Without(t, from, to)
           b == Written(d[i], value)
<1>1. d \in Seq(Blocks) /\ d[i] \in Blocks /\ Sound(d[i]) /\ t \in Seq(Bytes) /\ Whole(t)
  BY SoundAt
<1>2. from \in Boundaries(t) /\ to \in Boundaries(t)
  OBVIOUS
<1> HIDE DEF t
<1>3. value \in Seq(Bytes) /\ Whole(value)
  BY <1>1, <1>2, WholeWithout
<1> HIDE DEF value
<1>4. b \in Blocks /\ Sound(b)
  BY <1>1, <1>3, WrittenSound
<1> HIDE DEF b
<1>5. SoundDoc(BlockSet(d, i, b))
  BY <1>1, <1>4, SoundSet
<1> QED BY <1>5 DEF b, value, t

LEMMA MergedSound ==
    ASSUME NEW e \in Editing, SoundDoc(e.doc), NEW a \in 1 .. Len(e.doc), NEW f \in 1 .. Len(e.doc), a <= f
    PROVE  SoundDoc(Swap(e.doc, a, <<Written(e.doc[a], Cat(TextOf(e.doc[a]), TextOf(e.doc[f])))>>, f))
<1> DEFINE d == e.doc
           x == TextOf(d[a])
           y == TextOf(d[f])
           value == Cat(x, y)
           b == Written(d[a], value)
           mid == <<b>>
<1>1. d \in Seq(Blocks) /\ d[a] \in Blocks /\ Sound(d[a]) /\ x \in Seq(Bytes) /\ Whole(x)
  BY SoundAt
<1>2. y \in Seq(Bytes) /\ Whole(y)
  BY SoundAt
<1> HIDE DEF x, y
<1>3. value \in Seq(Bytes) /\ Whole(value)
  BY <1>1, <1>2, WholeConcat
<1> HIDE DEF value
<1>4. b \in Blocks /\ Sound(b)
  BY <1>1, <1>3, WrittenSound
<1> HIDE DEF b
<1>5. mid \in Seq(Blocks) /\ SoundDoc(mid)
  BY <1>4, SoundOne
<1>6. SoundDoc(d) /\ a \in 1 .. Len(d) /\ f \in 1 .. Len(d)
  OBVIOUS
<1> HIDE DEF mid, d
<1>7. SoundDoc(Swap(d, a, mid, f))
  BY <1>1, <1>5, <1>6, SoundSwap
<1> QED BY <1>7 DEF d, mid, b, value, x, y

LEMMA BackSound ==
    ASSUME NEW e \in Editing, SoundDoc(e.doc)
    PROVE  SoundDoc(Backspace(e).doc)
<1> DEFINE j == IndexOf(e.doc, e.focus.block)
<1>1. CASE ~Collapsed(e)
  BY <1>1, DeleteSound DEF Backspace
<1>2. CASE Collapsed(e) /\ j = 0
  BY <1>2 DEF Backspace, BackIn
<1>3. CASE Collapsed(e) /\ j # 0
  <2>1. PICK i, at : Spot(e, i, at)
    BY <1>3, SpotIs
  <2> DEFINE t == TextOf(e.doc[i])
             prev == PrevBoundary(t, at)
             h == i - 1
  <2>2. /\ i = j /\ i \in 1 .. Len(e.doc) /\ at \in Boundaries(t) /\ at \in 0 .. Len(t)
        /\ t \in Seq(Bytes)
    BY <2>1 DEF Spot
  <2>3. Backspace(e) = BackIn(e, i)
    BY <1>3, <2>2 DEF Backspace
  <2> HIDE DEF j
  <2>4. CASE e.focus.offset > 0
    <3>1. prev \in Boundaries(t)
      <4> HIDE DEF t
      <4> QED BY <2>2, PrevIs
    <3>2. BackIn(e, i).doc = BlockSet(e.doc, i, Written(e.doc[i], Without(t, prev, at)))
      BY <2>1, <2>4, BackIs DEF Puts
    <3> HIDE DEF prev
    <3>3. SoundDoc(BlockSet(e.doc, i, Written(e.doc[i], Without(t, prev, at))))
      BY <2>2, <3>1, WithoutSound
    <3> QED BY <2>3, <3>2, <3>3
  <2>5. CASE ~(e.focus.offset > 0) /\ i > 1
    <3>1. BackIn(e, i).doc = Swap(e.doc, h, <<Written(e.doc[h], Cat(TextOf(e.doc[h]), t))>>, i)
      BY <2>1, <2>5, BackIs DEF Puts
    <3>2. h \in 1 .. Len(e.doc) /\ h <= i
      BY <2>2, <2>5
    <3> HIDE DEF h
    <3>3. SoundDoc(Swap(e.doc, h, <<Written(e.doc[h], Cat(TextOf(e.doc[h]), t))>>, i))
      BY <2>2, <3>2, MergedSound
    <3> QED BY <2>3, <3>1, <3>3
  <2>6. CASE ~(e.focus.offset > 0) /\ ~(i > 1)
    <3>1. BackIn(e, i) = Dirty(e)
      BY <2>1, <2>6, BackIs
    <3> QED BY <2>3, <3>1, DirtySet
  <2> QED BY <2>4, <2>5, <2>6
<1> QED BY <1>1, <1>2, <1>3

LEMMA ForwardSound ==
    ASSUME NEW e \in Editing, SoundDoc(e.doc)
    PROVE  SoundDoc(DeleteForward(e).doc)
<1> DEFINE j == IndexOf(e.doc, e.focus.block)
<1>1. CASE ~Collapsed(e)
  BY <1>1, DeleteSound DEF DeleteForward
<1>2. CASE Collapsed(e) /\ j = 0
  BY <1>2 DEF DeleteForward, ForwardIn
<1>3. CASE Collapsed(e) /\ j # 0
  <2>1. PICK i, at : Spot(e, i, at)
    BY <1>3, SpotIs
  <2> DEFINE t == TextOf(e.doc[i])
             next == NextBoundary(t, at)
             h == i + 1
  <2>2. /\ i = j /\ i \in 1 .. Len(e.doc) /\ at \in Boundaries(t) /\ at \in 0 .. Len(t)
        /\ t \in Seq(Bytes)
    BY <2>1 DEF Spot
  <2>3. DeleteForward(e) = ForwardIn(e, i)
    BY <1>3, <2>2 DEF DeleteForward
  <2> HIDE DEF j
  <2>4. CASE e.focus.offset < Len(t)
    <3>1. next \in Boundaries(t)
      <4> HIDE DEF t
      <4> QED BY <2>2, NextIs
    <3>2. ForwardIn(e, i).doc = BlockSet(e.doc, i, Written(e.doc[i], Without(t, at, next)))
      BY <2>1, <2>4, ForwardIs DEF Leaves
    <3> HIDE DEF next
    <3>3. SoundDoc(BlockSet(e.doc, i, Written(e.doc[i], Without(t, at, next))))
      BY <2>2, <3>1, WithoutSound
    <3> QED BY <2>3, <3>2, <3>3
  <2>5. CASE ~(e.focus.offset < Len(t)) /\ i < Len(e.doc)
    <3>1. ForwardIn(e, i).doc = Swap(e.doc, i, <<Written(e.doc[i], Cat(t, TextOf(e.doc[h])))>>, h)
      BY <2>1, <2>5, ForwardIs DEF Leaves
    <3>2. h \in 1 .. Len(e.doc) /\ i <= h
      BY <2>2, <2>5
    <3> HIDE DEF h
    <3>3. SoundDoc(Swap(e.doc, i, <<Written(e.doc[i], Cat(t, TextOf(e.doc[h])))>>, h))
      BY <2>2, <3>2, MergedSound
    <3> QED BY <2>3, <3>1, <3>3
  <2>6. CASE ~(e.focus.offset < Len(t)) /\ ~(i < Len(e.doc))
    <3>1. ForwardIn(e, i) = Dirty(e)
      BY <2>1, <2>6, ForwardIs
    <3> QED BY <2>3, <3>1, DirtySet
  <2> QED BY <2>4, <2>5, <2>6
<1> QED BY <1>1, <1>2, <1>3

LEMMA ToggleSound ==
    ASSUME NEW e \in Editing, SoundDoc(e.doc)
    PROVE  SoundDoc(ToggleMark(e).doc)
<1> DEFINE d == e.doc
           s == Selection(e)
           From0(i) == IF i = s.first THEN s.from ELSE 0
           To0(i) == IF i = s.last THEN s.to ELSE Len(TextOf(d[i]))
           one(i) == IF i \notin s.first .. s.last THEN d[i]
                     ELSE [d[i] EXCEPT !.runs = Toggle(@, From0(i), To0(i))]
           new == [i \in DOMAIN d |-> one(i)]
           f == [e EXCEPT !.doc = new]
<1>1. d \in Document
  BY EditingFacts
<1>2. Selects(e, s)
  BY SelectionFacts
<1>3. ToggleMark(e) = IF Collapsed(e) \/ s.first = 0 THEN e ELSE Dirty(f)
  BY DEF ToggleMark, ToggleIn, ToggleBlocks
<1> HIDE DEF s
<1>4. CASE Collapsed(e) \/ s.first = 0
  BY <1>3, <1>4
<1>5. CASE ~ (Collapsed(e) \/ s.first = 0)
  <2>1. ASSUME NEW i \in 1 .. Len(d) PROVE Sound(one(i))
    <3>1. d[i] \in Blocks /\ Sound(d[i])
      BY SoundAt
    <3>2. CASE i \notin s.first .. s.last
      BY <3>1, <3>2
    <3>3. CASE i \in s.first .. s.last
      <4>1. From0(i) \in Nat /\ To0(i) \in Nat
        BY <1>2, <1>5, <3>1, BlockFacts DEF Selects
      <4> DEFINE from == From0(i)
                 to == To0(i)
                 b == d[i]
                 t == Toggle(b.runs, from, to)
      <4>2. from \in Nat /\ to \in Nat /\ b \in Blocks /\ b.runs \in Contents /\ Uncut(Marked(b.runs))
        BY <3>1, <4>1, BlockFacts DEF Sound
      <4>3. one(i) = [b EXCEPT !.runs = t]
        BY <3>3
      <4> HIDE DEF from, to, b, one
      <4>4. Uncut(Marked(t))
        BY <4>2, ToggleWhole
      <4> HIDE DEF t
      <4>5. [b EXCEPT !.runs = t].runs = t
        BY <4>2 DEF Blocks
      <4> QED BY <4>3, <4>4, <4>5 DEF Sound
    <3> QED BY <3>2, <3>3
  <2>2. DOMAIN new = 1 .. Len(d) /\ \A i \in 1 .. Len(d) : new[i] = one(i)
    <3>1. DOMAIN d = 1 .. Len(d)
      BY <1>1, DocumentFacts
    <3> HIDE DEF one
    <3> QED BY <3>1
  <2>3. f.doc = new
    <3> HIDE DEF new
    <3> QED BY DEF Editing
  <2> HIDE DEF one, new
  <2>4. SoundDoc(new)
    BY <2>1, <2>2 DEF SoundDoc
  <2> HIDE DEF f
  <2>5. Dirty(f).doc = f.doc
    <3> DEFINE g == f
    <3>1. DOMAIN f = DOMAIN e
      BY DEF f
    <3>2. "doc" \in DOMAIN e
      BY DEF Editing
    <3> QED BY <3>1, <3>2 DEF Dirty
  <2> QED BY <1>3, <1>5, <2>3, <2>4, <2>5
<1> QED BY <1>4, <1>5

LEMMA KindSound ==
    ASSUME NEW e \in Editing, SoundDoc(e.doc), NEW kind
    PROVE  SoundDoc(SetSelectedKind(e, kind).doc)
<1> DEFINE d == e.doc
           s == Selection(e)
           one(i) == IF i \in s.first .. s.last THEN [d[i] EXCEPT !.kind = kind] ELSE d[i]
           new == [i \in DOMAIN d |-> one(i)]
           f == [e EXCEPT !.doc = new]
<1>1. d \in Document
  BY EditingFacts
<1>2. SetSelectedKind(e, kind) = IF s.first = 0 THEN e ELSE Dirty(f)
  BY DEF SetSelectedKind, KindIn
<1> HIDE DEF s
<1>3. ASSUME NEW i \in 1 .. Len(d) PROVE Sound(one(i))
  <2>1. d[i] \in Blocks /\ Sound(d[i])
    BY SoundAt
  <2> DEFINE b == d[i]
  <2> HIDE DEF b
  <2>2. [b EXCEPT !.kind = kind].runs = b.runs
    BY <2>1 DEF Blocks, b
  <2> QED BY <2>1, <2>2 DEF b, Sound
<1>4. DOMAIN new = 1 .. Len(d) /\ \A i \in 1 .. Len(d) : new[i] = one(i)
  <2>1. DOMAIN d = 1 .. Len(d)
    BY <1>1, DocumentFacts
  <2> HIDE DEF one
  <2> QED BY <2>1
<1>5. f.doc = new
  <2> HIDE DEF new
  <2> QED BY DEF Editing
<1> HIDE DEF one, new
<1>6. SoundDoc(new)
  BY <1>3, <1>4 DEF SoundDoc
<1> HIDE DEF f
<1>7. Dirty(f).doc = f.doc
  <2>1. DOMAIN f = DOMAIN e
    BY DEF f
  <2>2. "doc" \in DOMAIN e
    BY DEF Editing
  <2> QED BY <2>1, <2>2 DEF Dirty
<1> QED BY <1>2, <1>5, <1>6, <1>7

LEMMA CharWhole ==
    ASSUME NEW text \in Chars
    PROVE  text \in Seq(Bytes) /\ Whole(text)
<1>1. text \in Seq(Bytes)
  BY ContentsAssumption
<1>2. Uncut([k \in DOMAIN text |-> <<text[k], {}>>])
  BY TextsAssumption
<1>3. DOMAIN text = 1 .. Len(text)
  BY <1>1
<1> QED BY <1>1, <1>2, <1>3 DEF Whole, Styled

LEMMA InsertTextSound ==
    ASSUME NEW e, Fit(e), SoundDoc(e.doc), NEW text \in Chars, NEW seed, e.doc = <<>> => seed \in Ids
    PROVE  SoundDoc(InsertText(e, text, seed).doc)
<1> DEFINE f == DeleteSelection(e)
           g == Seeded(f, seed)
<1>1. e \in Editing
  BY DEF Fit
<1>2. Fit(f) /\ Within(e, f) /\ SoundDoc(f.doc)
  BY <1>1, DeleteFacts, DeleteSound
<1>3. InsertText(e, text, seed) = TypeAtFocus(g, text)
  BY DEF InsertText
<1> HIDE DEF f
<1>4. f.doc = <<>> => seed \in Ids
  BY <1>2 DEF Within
<1>5. f \in Editing
  BY <1>2 DEF Fit
<1>6. Fit(g) /\ SoundDoc(g.doc)
  BY <1>2, <1>4, <1>5, SeededFacts, SeededSound
<1> HIDE DEF g
<1>7. g \in Editing
  BY <1>6 DEF Fit
<1> QED BY <1>3, <1>6, <1>7, CharWhole, TypeSound

LEMMA SplitEditSound ==
    ASSUME NEW e, Fit(e), SoundDoc(e.doc), NEW seed, e.doc = <<>> => seed \in Ids, NEW id \in Ids,
           NEW past \in Nat
    PROVE  SoundDoc(Split(e, seed, id, past).doc)
<1> DEFINE f == DeleteSelection(e)
           g == Seeded(f, seed)
<1>1. e \in Editing
  BY DEF Fit
<1>2. Fit(f) /\ Within(e, f) /\ SoundDoc(f.doc)
  BY <1>1, DeleteFacts, DeleteSound
<1>3. Split(e, seed, id, past) = SplitAtFocus(g, id, past)
  BY DEF Split
<1> HIDE DEF f
<1>4. f.doc = <<>> => seed \in Ids
  BY <1>2 DEF Within
<1>5. f \in Editing
  BY <1>2 DEF Fit
<1>6. Fit(g) /\ SoundDoc(g.doc)
  BY <1>2, <1>4, <1>5, SeededFacts, SeededSound
<1> HIDE DEF g
<1>7. g \in Editing
  BY <1>6 DEF Fit
<1> QED BY <1>3, <1>6, <1>7, SplitSound

\* What follows a handler keeps its document.
LEMMA BecomeSound ==
    ASSUME Inv, NEW e, Fit(e), SoundDoc(e.doc), Become(AfterEdit(e)) \/ Become(Relaid(e, doc))
    PROVE  SoundDoc(doc')
<1> DEFINE r == Relaid(e, doc)
<1>1. doc \in Document
  BY NowSettled
<1>2. r \in Editing /\ r.doc = e.doc
  BY <1>1, RelaidFacts
<1>3. AfterEdit(e) = UpdateSlash(r)
  BY DEF AfterEdit
<1> HIDE DEF r
<1>4. UpdateSlash(r).doc = r.doc
  BY <1>2, SlashFacts
<1>5. CASE Become(AfterEdit(e))
  <2>1. doc' = AfterEdit(e).doc
    BY <1>5 DEF Become
  <2> QED BY <1>2, <1>3, <1>4, <2>1
<1>6. CASE Become(Relaid(e, doc))
  <2>1. doc' = r.doc
    BY <1>6 DEF Become, r
  <2> QED BY <1>2, <2>1
<1> QED BY <1>5, <1>6

LEMMA TypingWhole ==
    ASSUME Inv, SoundDoc(doc), Typing
    PROVE  SoundDoc(doc')
<1> DEFINE D == Dismissed(Now)
<1>1. /\ Fit(Now) /\ Fit(D) /\ Now \in Editing /\ D \in Editing /\ Now.doc = doc /\ D.doc = doc
      /\ SoundDoc(Now.doc) /\ SoundDoc(D.doc)
  BY NowSettled, NowFacts, DismissedFacts
<1>2. ASSUME NEW text \in Chars, NEW seed \in SeedIds, TypeKey(text, seed) PROVE SoundDoc(doc')
  <2>1. text \in Seq(Bytes) /\ (doc = <<>> => seed \in Ids)
    BY ContentsAssumption, FreshIds
  <2>2. Become(AfterEdit(InsertText(D, text, seed)))
    BY <1>2 DEF TypeKey
  <2> HIDE DEF D
  <2>3. Fit(InsertText(D, text, seed)) /\ SoundDoc(InsertText(D, text, seed).doc)
    BY <1>1, <2>1, InsertTextFacts, InsertTextSound
  <2> QED BY <2>2, <2>3, BecomeSound
<1>3. ASSUME NEW text \in Chars, NEW seed \in SeedIds, Commit(text, seed) PROVE SoundDoc(doc')
  <2>1. text \in Seq(Bytes) /\ (doc = <<>> => seed \in Ids)
    BY ContentsAssumption, FreshIds
  <2>2. Become(AfterEdit(InsertText(Now, text, seed)))
    BY <1>3 DEF Commit
  <2>3. Fit(InsertText(Now, text, seed)) /\ SoundDoc(InsertText(Now, text, seed).doc)
    BY <1>1, <2>1, InsertTextFacts, InsertTextSound
  <2> QED BY <2>2, <2>3, BecomeSound
<1>4. ASSUME NEW seed \in SeedIds, NEW id \in Fresh, NEW past \in 0 .. Len(doc), seed # id,
             EnterKey(seed, id, past)
      PROVE  SoundDoc(doc')
  <2>1. id \in Ids /\ id \notin IdsOf(doc) /\ (doc = <<>> => seed \in Ids) /\ past \in Nat
    BY FreshIds
  <2>2. Become(AfterEdit(Split(Now, seed, id, past)))
    BY <1>4 DEF EnterKey
  <2>3. Fit(Split(Now, seed, id, past)) /\ SoundDoc(Split(Now, seed, id, past).doc)
    BY <1>1, <1>4, <2>1, SplitEditFacts, SplitEditSound
  <2> QED BY <2>2, <2>3, BecomeSound
<1> HIDE DEF D
<1>5. ASSUME BackspaceKey PROVE SoundDoc(doc')
  <2>1. Fit(Backspace(D)) /\ SoundDoc(Backspace(D).doc)
    BY <1>1, EraseFacts, BackSound
  <2> QED BY <1>5, <2>1, BecomeSound DEF BackspaceKey, D
<1>6. ASSUME CutKey PROVE SoundDoc(doc')
  <2>1. Fit(CutSelection(D)) /\ SoundDoc(CutSelection(D).doc)
    BY <1>1, DeleteFacts, DeleteSound
  <2> QED BY <1>6, <2>1, BecomeSound DEF CutKey, D
<1>7. ASSUME DeleteKey PROVE SoundDoc(doc')
  <2>1. Fit(DeleteForward(D)) /\ SoundDoc(DeleteForward(D).doc)
    BY <1>1, EraseFacts, ForwardSound
  <2> QED BY <1>7, <2>1, BecomeSound DEF DeleteKey, D
<1>8. ASSUME ToggleKey PROVE SoundDoc(doc')
  <2>1. Fit(ToggleMark(D)) /\ SoundDoc(ToggleMark(D).doc)
    BY <1>1, ToggleFacts, ToggleSound
  <2> QED BY <1>8, <2>1, BecomeSound DEF ToggleKey, D
<1>9. ASSUME NEW kind \in Kinds, KindKey(kind) PROVE SoundDoc(doc')
  <2>1. Fit(SetSelectedKind(D, kind)) /\ SoundDoc(SetSelectedKind(D, kind).doc)
    BY <1>1, KindFacts, KindSound
  <2> QED BY <1>9, <2>1, BecomeSound DEF KindKey, D
<1> QED BY <1>2, <1>3, <1>4, <1>5, <1>6, <1>7, <1>8, <1>9 DEF Typing

LEMMA EndsSet ==
    ASSUME NEW e \in Editing, NEW a \in Points, NEW f \in Points
    PROVE  LET g == [e EXCEPT !.anchor = a, !.focus = f]
           IN  g \in Editing /\ g.doc = e.doc
BY DEF Editing

\* Moving the ends of the selection changes no text.
LEMMA SelectingWhole ==
    ASSUME Inv, SoundDoc(doc), Selecting
    PROVE  SoundDoc(doc')
<1> DEFINE D == Dismissed(Now)
<1>1. /\ Now \in Editing /\ D \in Editing /\ Now.doc = doc /\ D.doc = doc
      /\ D.anchor = anchor /\ D.focus = focus
      /\ doc \in Document /\ anchor \in Points /\ focus \in Points
      /\ doc # <<>> => {anchor.block, focus.block} \subseteq IdsOf(doc)
  <2>1. /\ Now \in Editing /\ Now.doc = doc /\ Now.anchor = anchor /\ Now.focus = focus
        /\ doc \in Document /\ anchor \in Points /\ focus \in Points
    BY NowSettled, NowFacts
  <2>2. /\ D \in Editing /\ D.doc = Now.doc /\ D.anchor = Now.anchor /\ D.focus = Now.focus
    BY <2>1, DismissedFacts
  <2>3. ASSUME doc # <<>> PROVE {anchor.block, focus.block} \subseteq IdsOf(doc)
    <3>1. anchor \in Places(doc) /\ focus \in Places(doc)
      BY <2>3 DEF Inv, SelectionAnchored
    <3> QED BY <2>1, <3>1, PlaceFacts
  <2> HIDE DEF D
  <2> QED BY <2>1, <2>2, <2>3
<1>2. ASSUME NEW e \in Editing, e.doc = doc, Become(e) \/ Become(UpdateSlash(e))
      PROVE  doc' = doc
  BY <1>2, SlashFacts DEF Become
<1>4. ASSUME NEW to \in Places(doc), NEW extend \in BOOLEAN, Move(to, extend) PROVE doc' = doc
  <2> DEFINE a == IF extend THEN D.anchor ELSE to
             e == [D EXCEPT !.anchor = a, !.focus = to]
  <2>1. to \in Points /\ a \in Points
    BY <1>1, PlaceFacts
  <2>2. SetFocus(D, to, extend) = e
    BY DEF SetFocus
  <2>3. Become(UpdateSlash(e))
    BY <1>4, <2>2 DEF Move
  <2> HIDE DEF D, a
  <2>4. e \in Editing /\ e.doc = doc
    BY <1>1, <2>1, EndsSet
  <2> HIDE DEF e
  <2> QED BY <1>2, <2>3, <2>4
<1>5. ASSUME NEW end \in {anchor, focus}, CollapseKey(end) PROVE doc' = doc
  <2> DEFINE e == Caret(D, end)
  <2>1. end \in Points
    BY <1>1
  <2>2. Become(UpdateSlash(e))
    BY <1>5 DEF CollapseKey
  <2> HIDE DEF D
  <2>3. e \in Editing /\ e.doc = doc
    BY <1>1, <2>1, CaretSet
  <2> HIDE DEF e
  <2> QED BY <1>2, <2>2, <2>3
<1>6. ASSUME NEW from \in Places(doc), NEW to \in Places(doc), SelectSpan(from, to) PROVE doc' = doc
  <2> DEFINE e == [Now EXCEPT !.anchor = from, !.focus = to]
  <2>1. from \in Points /\ to \in Points
    BY <1>1, PlaceFacts
  <2>2. e \in Editing /\ e.doc = doc
    BY <1>1, <2>1, EndsSet
  <2>3. Become(e)
    BY <1>6 DEF SelectSpan
  <2> HIDE DEF e
  <2> QED BY <1>2, <2>2, <2>3
<1>7. ASSUME SelectAll PROVE doc' = doc
  <2> DEFINE a == At(doc[1].id, 0)
             f == At(Last(doc).id, Len(TextOf(Last(doc))))
             e == [D EXCEPT !.anchor = a, !.focus = f]
  <2>1. doc # <<>> /\ Become(UpdateSlash(e))
    BY <1>7 DEF SelectAll
  <2>2. a \in Points /\ f \in Points
    BY <1>1, <2>1, LastPlace, PlaceFacts
  <2> HIDE DEF a, f, D
  <2>3. e \in Editing /\ e.doc = doc
    BY <1>1, <2>2, EndsSet
  <2> HIDE DEF e
  <2> QED BY <1>2, <2>1, <2>3
<1> QED BY <1>4, <1>5, <1>6, <1>7 DEF Selecting

LEMMA StrippedSound ==
    ASSUME Inv, SoundDoc(doc), menu # None
    PROVE  SoundDoc(Stripped.doc)
<1> DEFINE i == IndexOf(doc, menu.block)
           none == <<>>
           w == Write(Taken, i, none)
           pos == At(doc[i].id, 0)
<1>1. doc \in Document /\ Taken \in Editing /\ Taken.doc = doc
  BY NowSettled, StrippedFacts
<1>2. Dirty(Taken).doc = doc
  BY <1>1, DirtySet
<1>3. Stripped = IF menu.slash /\ i # 0
                 THEN IF IsPrefix(Slash, TextOf(doc[i])) THEN Dirty(Caret(w, pos)) ELSE Dirty(Taken)
                 ELSE Taken
  BY <1>1 DEF Stripped, StripIn
<1>4. CASE i # 0
  <2>1. i \in 1 .. Len(doc) /\ doc[i] \in Blocks
    BY <1>1, <1>4, IndexFacts
  <2>2. none \in Seq(Bytes) /\ Whole(none)
    BY EmptySound
  <2> HIDE DEF i, none
  <2>3. pos \in Points
    <3>1. doc[i].id \in Ids
      BY <2>1, BlockFacts
    <3> QED BY <3>1, PointMade
  <2>4. w \in Editing
    <3>1. LET f == Write(Taken, i, none) IN f \in Editing
      BY <1>1, <2>1, <2>2, WriteFacts
    <3> QED BY <3>1
  <2>5. SoundDoc(w.doc)
    BY <1>1, <2>1, <2>2, WriteSound
  <2> HIDE DEF w, pos
  <2>6. Dirty(Caret(w, pos)).doc = w.doc
    BY <2>3, <2>4, CaretSet, DirtySet
  <2> QED BY <1>1, <1>2, <1>3, <2>5, <2>6
<1>5. CASE i = 0
  BY <1>1, <1>3, <1>5
<1> QED BY <1>4, <1>5

LEMMA InsertBlockWhole ==
    ASSUME Inv, SoundDoc(doc), NEW i \in 1 .. Max({1, Len(doc)}), NEW id \in Fresh,
           NEW past \in 0 .. Len(doc), InsertBlockBelow(i, id, past)
    PROVE  SoundDoc(doc')
<1> DEFINE S == {i, Len(doc)}
           j == Min(S) + 1
           b == Block(id, Paragraph, <<>>)
           new == Landed(doc, j, b, past)
           f == [Now EXCEPT !.doc = new]
           pos == At(id, 0)
<1>1. Now \in Editing /\ doc \in Document /\ Len(doc) \in Nat /\ Now.doc = doc /\ doc \in Seq(Blocks)
  BY NowSettled, NowFacts, DocumentFacts
<1>2. id \in Ids /\ id \notin IdsOf(doc)
  BY FreshIds
<1>3. j \in 1 .. Len(doc) + 1
  <2>1. S \in SUBSET Nat /\ S # {} /\ Len(doc) \in S
    BY <1>1
  <2> HIDE DEF S
  <2>2. Min(S) \in Nat /\ Min(S) <= Len(doc)
    BY <2>1, LeastIs
  <2> QED BY <1>1, <2>2
<1>4. b \in Blocks /\ b.id = id /\ pos \in Points /\ Sound(b)
  <2>1. b \in Blocks /\ b.id = id /\ pos \in Points
    BY <1>2, NoContent, MakeBlock, PointMade DEF Kinds
  <2>2. Sound(b)
    BY EmptySound DEF Sound, Block
  <2> QED BY <2>1, <2>2
<1>5. Become(Relaid(Dirty(Caret(f, pos)), doc))
  BY <1>1 DEF InsertBlockBelow
<1> HIDE DEF j, b, pos
<1>6. new \in Document /\ SoundDoc(new)
  <2>1. past \in Nat
    OBVIOUS
  <2>2. PICK k \in 1 .. Len(doc) + 1 : new = InsertAt(doc, k, b)
    BY <1>1, <1>3, <2>1, LandedFacts
  <2> QED BY <1>1, <1>2, <1>4, <2>2, BlockInserted, SoundInsert
<1> HIDE DEF new
<1>7. f \in Editing /\ f.doc = new
  BY <1>1, <1>6, DocSet
<1> HIDE DEF f
<1>8. Fit(Dirty(Caret(f, pos))) /\ Dirty(Caret(f, pos)).doc = new
  BY <1>4, <1>7, CaretSet, DirtySet
<1> QED BY <1>5, <1>6, <1>8, BecomeSound

LEMMA ConfirmKindWhole ==
    ASSUME Inv, SoundDoc(doc), NEW kind \in Kinds, ConfirmKind(kind)
    PROVE  SoundDoc(doc')
<1> DEFINE e == Stripped
           i == IndexOf(doc, menu.block)
           d == e.doc
           b == [d[i] EXCEPT !.kind = kind]
           new == BlockSet(d, i, b)
           f == SetKind(e, i, kind)
<1>1. menu # None /\ Become(Relaid(Dirty(f), doc))
  BY DEF ConfirmKind, Offered
<1>2. /\ doc \in Document /\ Fit(e) /\ e \in Editing /\ d \in Document /\ Len(d) = Len(doc)
      /\ SoundDoc(d)
  <2>1. doc \in Document /\ Fit(e) /\ Len(d) = Len(doc) /\ SoundDoc(d)
    BY <1>1, NowSettled, StrippedFacts, StrippedSound
  <2> QED BY <2>1, EditingFacts DEF Fit
<1> HIDE DEF e
<1>3. f \in Editing /\ SoundDoc(f.doc)
  <2>1. CASE i = 0
    BY <1>2, <2>1 DEF SetKind
  <2>2. CASE i # 0
    <3>1. i \in 1 .. Len(d)
      BY <1>2, <2>2, IndexFacts
    <3> HIDE DEF i
    <3>2. d[i] \in Blocks /\ Sound(d[i]) /\ d \in Seq(Blocks)
      BY <1>2, <3>1, SoundAt
    <3>3. b \in Blocks /\ b.id = d[i].id /\ Sound(b)
      <4> DEFINE c == d[i]
      <4> HIDE DEF c
      <4>1. /\ [c EXCEPT !.kind = kind] \in Blocks /\ [c EXCEPT !.kind = kind].id = c.id
            /\ [c EXCEPT !.kind = kind].runs = c.runs
        BY <3>2 DEF Blocks, c
      <4> QED BY <3>2, <4>1 DEF c, Sound
    <3>4. f = [e EXCEPT !.doc = new]
      BY <2>2 DEF SetKind, BlockSet, i
    <3> HIDE DEF b, f
    <3>5. new \in Document
      BY <1>2, <3>1, <3>3, SetDocument
    <3>6. SoundDoc(new)
      BY <1>2, <3>1, <3>2, <3>3, SoundSet
    <3> HIDE DEF new
    <3>7. [e EXCEPT !.doc = new] \in Editing /\ [e EXCEPT !.doc = new].doc = new
      BY <1>2, <3>5, DocSet
    <3> QED BY <3>4, <3>6, <3>7
  <2> QED BY <2>1, <2>2
<1> HIDE DEF f
<1>4. Fit(Dirty(f)) /\ SoundDoc(Dirty(f).doc)
  BY <1>3, DirtySet
<1> QED BY <1>1, <1>4, BecomeSound

LEMMA ConfirmRevivesWhole ==
    ASSUME Inv, SoundDoc(doc), NEW kind \in Kinds, NEW place \in 1 .. Len(doc) + 1,
           ConfirmRevives(kind, place)
    PROVE  SoundDoc(doc')
<1> DEFINE b == Emptied(menu.block, kind)
           new == InsertAt(doc, place, b)
           f == [Taken EXCEPT !.doc = new]
<1>1. menu # None /\ IndexOf(doc, menu.block) = 0
  BY DEF ConfirmRevives, Offered
<1>2. doc \in Document /\ Taken \in Editing /\ Taken.doc = doc /\ menu.block \in Ids /\ doc \in Seq(Blocks)
  BY <1>1, NowSettled, StrippedFacts, DocumentFacts
<1>3. Become(Relaid(Dirty(f), doc))
  BY <1>2 DEF ConfirmRevives
<1>4. b \in Blocks /\ b.id \notin IdsOf(doc) /\ Sound(b)
  <2>1. b \in Blocks /\ b.id = menu.block
    BY <1>2, NoContent, MakeBlock DEF Emptied
  <2>2. Sound(b)
    BY EmptySound DEF Sound, Block, Emptied
  <2> QED BY <1>1, <1>2, <2>1, <2>2, IndexFacts
<1> HIDE DEF b
<1>5. new \in Document /\ SoundDoc(new)
  BY <1>2, <1>4, BlockInserted, SoundInsert
<1> HIDE DEF new
<1>6. f \in Editing /\ f.doc = new
  BY <1>2, <1>5, DocSet
<1> HIDE DEF f
<1>7. Fit(Dirty(f)) /\ SoundDoc(Dirty(f).doc)
  BY <1>5, <1>6, DirtySet
<1> QED BY <1>3, <1>7, BecomeSound

LEMMA ConfirmDeleteWhole ==
    ASSUME Inv, SoundDoc(doc), ConfirmDelete
    PROVE  SoundDoc(doc')
<1> DEFINE i == IndexOf(doc, menu.block)
           h == i - 1
           new == RemoveAt(doc, i)
           f == [Taken EXCEPT !.doc = new]
           pos == At(doc[h].id, 0)
           e == DeleteIn(Taken, i)
<1>1. menu # None /\ Become(Relaid(Dirty(e), doc))
  BY DEF ConfirmDelete
<1>2. doc \in Document /\ Len(doc) \in Nat /\ Taken \in Editing /\ Taken.doc = doc /\ doc \in Seq(Blocks)
  BY <1>1, NowSettled, StrippedFacts, DocumentFacts
<1>3. e \in Editing /\ SoundDoc(e.doc)
  <2>1. CASE Len(doc) <= 1 \/ i = 0
    BY <1>2, <2>1 DEF DeleteIn
  <2>2. CASE ~ (Len(doc) <= 1 \/ i = 0)
    <3>1. i \in 1 .. Len(doc)
      BY <1>2, <2>2, IndexFacts
    <3>2. e = IF i > 1 THEN Caret(f, pos) ELSE f
      BY <1>2, <2>2 DEF DeleteIn
    <3> HIDE DEF i, e
    <3>3. new \in Document /\ SoundDoc(new)
      BY <1>2, <3>1, BlockRemoved, SoundRemove
    <3> HIDE DEF new
    <3>4. f \in Editing /\ f.doc = new
      BY <1>2, <3>3, DocSet
    <3>5. ASSUME i > 1 PROVE pos \in Points
      <4>1. h \in 1 .. Len(doc)
        BY <1>2, <3>1, <3>5
      <4> HIDE DEF h
      <4>2. doc[h].id \in Ids
        BY <1>2, <4>1, DocumentFacts, BlockFacts
      <4> QED BY <4>2, PointMade
    <3> HIDE DEF f, pos
    <3> QED BY <3>2, <3>3, <3>4, <3>5, CaretSet
  <2> QED BY <2>1, <2>2
<1> HIDE DEF e
<1>4. Fit(Dirty(e)) /\ SoundDoc(Dirty(e).doc)
  BY <1>3, DirtySet
<1> QED BY <1>1, <1>4, BecomeSound

LEMMA MenusWhole ==
    ASSUME Inv, SoundDoc(doc), Menus
    PROVE  SoundDoc(doc')
<1>1. ASSUME NEW i \in DOMAIN doc, OpenBlockMenu(i) PROVE SoundDoc(doc')
  BY <1>1, NowFacts DEF OpenBlockMenu, Become, Now
<1>2. ASSUME CloseMenu PROVE SoundDoc(doc')
  <2>1. menu # None /\ Become(Relaid(Stripped, doc))
    BY <1>2 DEF CloseMenu
  <2>2. Fit(Stripped) /\ SoundDoc(Stripped.doc)
    BY <2>1, StrippedFacts, StrippedSound
  <2> QED BY <2>1, <2>2, BecomeSound
<1> QED BY <1>1, <1>2, InsertBlockWhole, ConfirmKindWhole, ConfirmRevivesWhole, ConfirmDeleteWhole
        DEF Menus

LEMMA ChangedWhole ==
    ASSUME Inv, NEW d \in Document, SoundDoc(d), NEW undo \in BOOLEAN, Changed(d, undo)
    PROVE  SoundDoc(doc')
<1> DEFINE D == Dismissed(Now)
           f == [D EXCEPT !.doc = d]
           g == [Now EXCEPT !.doc = d]
<1>1. Now \in Editing /\ D \in Editing
  BY NowSettled, DismissedFacts
<1>2. Become(IF undo THEN AfterEdit(Dirty(f)) ELSE Relaid(Dirty(g), doc))
  BY DEF Changed
<1> HIDE DEF D
<1>3. f \in Editing /\ g \in Editing /\ f.doc = d /\ g.doc = d
  BY <1>1, DocSet
<1> HIDE DEF f, g
<1>4. Fit(Dirty(f)) /\ Fit(Dirty(g)) /\ SoundDoc(Dirty(f).doc) /\ SoundDoc(Dirty(g).doc)
  BY <1>3, DirtySet
<1> QED BY <1>2, <1>4, BecomeSound

LEMMA OthersWhole ==
    ASSUME Inv, SoundDoc(doc), Others
    PROVE  SoundDoc(doc')
<1>1. /\ doc \in Document /\ Len(doc) \in Nat /\ DOMAIN doc = 1 .. Len(doc) /\ doc \in Seq(Blocks)
      /\ PeerRuns \subseteq Contents /\ \A runs \in PeerRuns : Uncut(Marked(runs))
  BY NowSettled, DocumentFacts, ContentsAssumption, TextsAssumption DEF Contents
<1>2. ASSUME NEW i \in DOMAIN doc, NEW kind \in Kinds, NEW runs \in PeerRuns, NEW undo \in BOOLEAN,
             PeerWrites(i, kind, runs, undo)
      PROVE  SoundDoc(doc')
  <2> DEFINE b == Block(doc[i].id, kind, runs)
             new == BlockSet(doc, i, b)
  <2>1. doc[i].id \in Ids /\ runs \in Contents /\ i \in 1 .. Len(doc)
    BY <1>1, DocumentFacts, BlockFacts
  <2>2. b \in Blocks /\ b.id = doc[i].id /\ b.runs = runs
    BY <2>1, MakeBlock
  <2>3. Changed(new, undo)
    BY <1>2 DEF PeerWrites, BlockSet
  <2> HIDE DEF b
  <2>4. Sound(b)
    BY <1>1, <2>2 DEF Sound
  <2>5. new \in Document /\ SoundDoc(new)
    BY <1>1, <2>1, <2>2, <2>4, SetDocument, SoundSet
  <2> HIDE DEF new
  <2> QED BY <2>3, <2>5, ChangedWhole
<1>3. ASSUME NEW place \in 1 .. Len(doc) + 1, NEW id \in Ids, NEW runs \in PeerRuns,
             NEW undo \in BOOLEAN, PeerInserts(place, id, runs, undo)
      PROVE  SoundDoc(doc')
  <2> DEFINE b == Block(id, Paragraph, runs)
             new == InsertAt(doc, place, b)
  <2>1. id \notin IdsOf(doc) /\ Changed(new, undo)
    BY <1>3 DEF PeerInserts
  <2>2. b \in Blocks /\ b.id = id /\ b.runs = runs
    BY <1>1, MakeBlock DEF Kinds
  <2> HIDE DEF b
  <2>3. Sound(b)
    BY <1>1, <2>2 DEF Sound
  <2>4. new \in Document /\ SoundDoc(new)
    BY <1>1, <2>1, <2>2, <2>3, BlockInserted, SoundInsert
  <2> HIDE DEF new
  <2> QED BY <2>1, <2>4, ChangedWhole
<1>4. ASSUME NEW i \in DOMAIN doc, NEW undo \in BOOLEAN, PeerRemoves(i, undo) PROVE SoundDoc(doc')
  <2> DEFINE new == RemoveAt(doc, i)
  <2>1. Changed(new, undo)
    BY <1>4 DEF PeerRemoves
  <2>2. new \in Document /\ SoundDoc(new)
    BY <1>1, BlockRemoved, SoundRemove
  <2> HIDE DEF new
  <2> QED BY <2>1, <2>2, ChangedWhole
<1>5. ASSUME NEW i \in DOMAIN doc, NEW place \in DOMAIN doc, NEW id \in Ids, NEW runs \in PeerRuns,
             PeerReplaces(i, place, id, runs)
      PROVE  SoundDoc(doc')
  <2> DEFINE b == Block(id, Paragraph, runs)
             rest == RemoveAt(doc, i)
             new == InsertAt(rest, place, b)
             no == FALSE
  <2>1. id \notin IdsOf(doc) /\ Changed(new, no)
    BY <1>5 DEF PeerReplaces
  <2>2. b \in Blocks /\ b.id = id /\ b.runs = runs
    BY <1>1, MakeBlock DEF Kinds
  <2>3. /\ rest \in Document /\ Len(rest) = Len(doc) - 1 /\ IdsOf(rest) \subseteq IdsOf(doc)
        /\ SoundDoc(rest)
    BY <1>1, BlockRemoved, SoundRemove
  <2> HIDE DEF b, rest
  <2>4. place \in 1 .. Len(rest) + 1 /\ b.id \notin IdsOf(rest) /\ rest \in Seq(Blocks) /\ Sound(b)
    BY <1>1, <2>1, <2>2, <2>3, DocumentFacts DEF Sound
  <2>5. new \in Document /\ SoundDoc(new)
    BY <2>2, <2>3, <2>4, BlockInserted, SoundInsert
  <2>6. no \in BOOLEAN
    OBVIOUS
  <2> HIDE DEF new, no
  <2> QED BY <2>1, <2>5, <2>6, ChangedWhole
<1>6. ASSUME NEW d \in Pages, LoadDocument(d) PROVE SoundDoc(doc')
  BY <1>6, LoadedFacts, TextsAssumption DEF LoadDocument, Become, SoundDoc, Sound
<1> QED BY <1>2, <1>3, <1>4, <1>5, <1>6 DEF Others

LEMMA WholeInvariance == Spec => [](Inv /\ CharactersWhole)
<1>1. CharactersWhole <=> SoundDoc(doc)
  BY DEF CharactersWhole, SoundDoc, Sound
<1>2. Init => CharactersWhole
  BY TextsAssumption DEF Init, CharactersWhole
<1>3. Inv /\ CharactersWhole /\ [Next]_vars => CharactersWhole'
  <2>1. ASSUME Inv, SoundDoc(doc), Next PROVE SoundDoc(doc')
    BY <2>1, TypingWhole, SelectingWhole, MenusWhole, OthersWhole DEF Next
  <2>2. ASSUME CharactersWhole, UNCHANGED vars PROVE CharactersWhole'
    BY <2>2 DEF CharactersWhole, vars
  <2>3. SoundDoc(doc') => CharactersWhole'
    BY DEF CharactersWhole, SoundDoc, Sound
  <2> QED BY <1>1, <2>1, <2>2, <2>3
<1> QED BY <1>2, <1>3, Invariance, PTL DEF Spec

\* No edit, mark, menu, merge, undo or new page leaves a part of a character in a
\* run: every offset an edit cuts at lies between two characters of the text it
\* cuts, although the offset may come from a text that a merge has replaced.
THEOREM CharactersStayWhole == Spec => []CharactersWhole
BY WholeInvariance, PTL

-----------------------------------------------------------------------------
(* Where the caret stands in the text of a page. *)

\* The caret is in the i-th block, between two of its characters, at an offset of
\* the page.
Stands(e, i, p) ==
    /\ e \in Editing /\ i \in 1 .. Len(e.doc)
    /\ e.anchor = e.focus /\ e.focus.block = e.doc[i].id
    /\ e.focus.offset \in Boundaries(TextOf(e.doc[i]))
    /\ p = BlockStart(e.doc, i) + e.focus.offset

LEMMA IndexIs ==
    ASSUME NEW d \in Document, NEW i \in 1 .. Len(d)
    PROVE  IndexOf(d, d[i].id) = i
<1> DEFINE j == IndexOf(d, d[i].id)
<1>1. d[i].id \in IdsOf(d)
  BY DocumentFacts
<1>2. j \in 1 .. Len(d) /\ d[j].id = d[i].id
  BY <1>1, IndexFacts
<1> HIDE DEF j
<1>3. j = i
  BY <1>2, DocumentFacts
<1> QED BY <1>3 DEF j

LEMMA StandsAt ==
    ASSUME NEW e, NEW i, NEW p, Stands(e, i, p)
    PROVE  /\ Spot(e, i, e.focus.offset) /\ Collapsed(e) /\ CaretAt(e, p)
           /\ i = IndexOf(e.doc, e.focus.block)
           /\ e.doc # <<>> /\ e.doc \in Document
<1> DEFINE d == e.doc
           k == e.focus.offset
           b == d[i]
           t == TextOf(b)
<1>1. e \in Editing /\ i \in 1 .. Len(d) /\ d \in Document /\ d \in Seq(Blocks) /\ d # <<>>
  BY EditingFacts, DocumentFacts DEF Stands
<1>2. e.anchor = e.focus /\ e.focus.block = b.id /\ k \in Boundaries(t) /\ p = BlockStart(d, i) + k
  BY DEF Stands
<1>3. b \in Blocks
  BY <1>1, DocumentFacts
<1>4. IndexOf(d, b.id) = i
  BY <1>1, IndexIs
<1> HIDE DEF b
<1>5. b.id \in Ids /\ t \in Seq(Bytes)
  BY <1>3, BlockFacts
<1> HIDE DEF t
<1>6. k \in Nat /\ Clamp(t, k) = k /\ k <= Len(t) /\ Len(t) \in Nat /\ k \in 0 .. Len(t)
  <2>1. k \in Nat /\ Clamp(t, k) = k
    BY <1>2, <1>5, ClampFacts
  <2>2. Clamp(t, k) <= Len(t) /\ Len(t) \in Nat
    BY <1>5, <2>1, ClampIn
  <2> QED BY <2>1, <2>2
<1> HIDE DEF k
<1>7. Spot(e, i, k)
  BY <1>1, <1>2, <1>3, <1>4, <1>5, <1>6 DEF Spot, k, t, b
<1>8. i # 0
  BY <1>1
<1>9. Offset(d, e.focus) = OffsetIn(d, i, k)
  BY <1>2, <1>4 DEF Offset, k
<1>10. OffsetIn(d, i, k) = BlockStart(d, i) + Clamp(t, k)
  BY <1>8 DEF OffsetIn, t, b
<1>11. Collapsed(e) /\ CaretAt(e, p)
  BY <1>2, <1>6, <1>9, <1>10 DEF Collapsed, CaretAt
<1> QED BY <1>1, <1>2, <1>4, <1>7, <1>11 DEF k

\* Rebuilding the layouts leaves such a caret where it is.
LEMMA StandsRelaid ==
    ASSUME NEW e, NEW i, NEW p, Stands(e, i, p), NEW old \in Document
    PROVE  Relaid(e, old).doc = e.doc /\ Relaid(e, old).focus = e.focus /\ CaretAt(Relaid(e, old), p)
<1> DEFINE d == e.doc
           pos == e.focus
           b == d[i]
           t == TextOf(b)
           k == pos.offset
           r == Relaid(e, old)
<1>1. Spot(e, i, k) /\ CaretAt(e, p) /\ i = IndexOf(d, pos.block) /\ d \in Document
  BY StandsAt
<1>2. e \in Editing /\ e.anchor = pos /\ pos \in Points /\ k \in Boundaries(t) /\ i # 0
  BY EditingFacts DEF Stands
<1>3. CASE ~ e.dirty
  BY <1>1, <1>3 DEF Relaid
<1>4. CASE e.dirty
  <2>1. t \in Seq(Bytes)
    BY <1>1 DEF Spot
  <2>2. Clamp(t, k) = k
    <3> HIDE DEF t, k
    <3> QED BY <1>2, <2>1, ClampFacts
  <2>3. Clamped(pos, b) = At(pos.block, k)
    BY <2>2 DEF Clamped
  <2>4. At(pos.block, k) = pos
    <3> DEFINE q == pos
    <3>1. q \in [block : Ids \cup {Default1, Default2}, offset : Nat]
      BY <1>2 DEF Points
    <3> HIDE DEF q
    <3>2. [block |-> q.block, offset |-> q.offset] = q
      BY <3>1
    <3> QED BY <3>2 DEF At, q
  <2>5. Reconciled(pos, old, d) = pos
    BY <1>1, <1>2, <2>3, <2>4 DEF Reconciled, ReconciledIn
  <2>6. r = [e EXCEPT !.anchor = pos, !.focus = pos]
    BY <1>2, <1>4, <2>5 DEF Relaid
  <2>7. r.doc = d /\ r.anchor = pos /\ r.focus = pos
    BY <1>2, <2>6 DEF Editing
  <2> HIDE DEF r
  <2>8. CaretAt(r, p)
    BY <1>1, <2>7 DEF CaretAt, Collapsed
  <2> QED BY <2>7, <2>8 DEF r
<1> QED BY <1>3, <1>4

\* A page's offsets of the blocks up to the first that differs.
LEMMA StartsInSwap ==
    ASSUME NEW d \in Seq(Blocks), NEW a \in 1 .. Len(d), NEW f \in 1 .. Len(d), a <= f,
           NEW mid \in Seq(Blocks)
    PROVE  BlockStart(Swap(d, a, mid, f), a) = BlockStart(d, a)
<1> DEFINE new == Swap(d, a, mid, f)
<1>1. \A k \in 1 .. a - 1 : new[k] = d[k]
  BY SwapFacts
<1> HIDE DEF new
<1>2. [k \in 1 .. a - 1 |-> TextOf(new[k])] = [k \in 1 .. a - 1 |-> TextOf(d[k])]
  BY <1>1
<1> QED BY <1>2 DEF BlockStart, new

LEMMA StandsInSwap ==
    ASSUME NEW d \in Seq(Blocks), NEW a \in 1 .. Len(d), NEW f \in 1 .. Len(d), a <= f,
           NEW b \in Blocks, NEW k \in Boundaries(TextOf(b)),
           NEW e \in Editing, e.doc = Swap(d, a, <<b>>, f), e.anchor = e.focus, e.focus = At(b.id, k)
    PROVE  Stands(e, a, BlockStart(d, a) + k)
<1> DEFINE mid == <<b>>
           new == Swap(d, a, mid, f)
<1>1. mid \in Seq(Blocks) /\ Len(mid) = 1 /\ mid[1] = b
  OBVIOUS
<1>2. e.doc = new
  OBVIOUS
<1> HIDE DEF mid
<1>3. /\ new \in Seq(Blocks) /\ Len(new) = a - 1 + Len(mid) + (Len(d) - f)
      /\ \A j \in 1 .. Len(mid) : new[a - 1 + j] = mid[j]
  <2>1. mid \in Seq(Blocks)
    BY <1>1
  <2> QED BY <2>1, SwapFacts
<1>4. BlockStart(new, a) = BlockStart(d, a)
  BY <1>1, StartsInSwap
<1> HIDE DEF new
<1>5. a \in 1 .. Len(new) /\ new[a] = b
  <2>1. 1 \in 1 .. Len(mid) /\ a - 1 + 1 = a
    BY <1>1
  <2>2. new[a] = b
    BY <1>1, <1>3, <2>1
  <2> QED BY <1>1, <1>3, <2>2
<1>6. e.focus.block = b.id /\ e.focus.offset = k
  BY DEF At
<1> QED BY <1>2, <1>4, <1>5, <1>6 DEF Stands

LEMMA NowStands ==
    ASSUME Inv, doc # <<>>, Collapsed(Now)
    PROVE  Stands(Now, IndexOf(doc, focus.block), From) /\ From = To
<1> DEFINE i == IndexOf(doc, focus.block)
           k == focus.offset
<1>1. /\ Now \in Editing /\ Now.doc = doc /\ Now.anchor = anchor /\ Now.focus = focus
      /\ doc \in Document /\ anchor = focus /\ focus \in Places(doc)
  BY NowSettled, NowFacts DEF Inv, SelectionAnchored, Collapsed
<1>2. PICK j \in DOMAIN doc : focus \in {At(doc[j].id, x) : x \in Boundaries(TextOf(doc[j]))}
  BY <1>1 DEF Places
<1>3. PICK x \in Boundaries(TextOf(doc[j])) : focus = At(doc[j].id, x)
  BY <1>2
<1>4. j \in 1 .. Len(doc)
  BY <1>1, DocumentFacts
<1>5. focus.block = doc[j].id /\ focus.offset = x
  BY <1>3 DEF At
<1>6. i = j
  BY <1>1, <1>4, <1>5, IndexIs
<1> DEFINE p == BlockStart(doc, i) + k
<1>7. Stands(Now, i, p)
  <2> HIDE DEF i
  <2> QED BY <1>1, <1>3, <1>4, <1>5, <1>6 DEF Stands
<1>8. Offset(doc, focus) = p
  <2> HIDE DEF p, i
  <2>1. CaretAt(Now, p)
    BY <1>7, StandsAt
  <2> QED BY <1>1, <2>1 DEF CaretAt
<1>9. BlockStart(doc, i) \in Nat /\ k \in Nat
  <2>1. doc \in Seq(Blocks) /\ i \in 1 .. Len(doc) + 1 /\ k \in Nat
    BY <1>1, <1>4, <1>6, DocumentFacts, EditingFacts
  <2> HIDE DEF i
  <2> QED BY <2>1, StartsOfBlocks
<1>10. p \in Nat
  BY <1>9
<1> HIDE DEF p, i
<1>11. From = p /\ To = p
  <2>1. From = Min({p, p}) /\ To = Max({p, p})
    BY <1>1, <1>8 DEF From, To
  <2>2. p <= p
    BY <1>10
  <2> QED BY <1>10, <2>1, <2>2, MinMaxOf
<1> QED BY <1>7, <1>11 DEF i

LEMMA SplicedIs ==
    ASSUME NEW B, NEW s \in Seq(B), NEW from \in 0 .. Len(s), NEW to \in 0 .. Len(s), NEW new \in Seq(B)
    PROVE  /\ Spliced(s, from, new, to) = Cat(Cat(UpTo(s, from), new), After(s, to))
           /\ Spliced(s, from, <<>>, to) = Without(s, from, to)
<1>1. UpTo(s, from) \in Seq(B)
  BY PartTypes
<1> DEFINE x == UpTo(s, from)
<1> HIDE DEF x
<1>2. x \o <<>> = x
  BY <1>1 DEF x
<1>3. Spliced(s, from, <<>>, to) = (x \o <<>>) \o After(s, to)
  BY DEF Spliced, x
<1> QED BY <1>2, <1>3 DEF Spliced, Without, Cat, x

\* Nothing taken out of a text leaves it.
LEMMA WithoutNone ==
    ASSUME NEW B, NEW s \in Seq(B), NEW at \in 0 .. Len(s)
    PROVE  Without(s, at, at) = s
<1> DEFINE x == UpTo(s, at)
           y == After(s, at)
           n == Len(s)
           new == Without(s, at, at)
<1>1. /\ x \in Seq(B) /\ y \in Seq(B) /\ Len(x) = at /\ Len(y) = n - at /\ n \in Nat
      /\ \A k \in 1 .. at : x[k] = s[k]
      /\ \A k \in 1 .. n - at : y[k] = s[at + k]
  BY PartTypes
<1>2. new = x \o y
  BY DEF Without
<1> HIDE DEF x, y, new
<1>3. /\ new \in Seq(B) /\ Len(new) = at + (n - at)
      /\ \A k \in 1 .. at + (n - at) : new[k] = IF k <= at THEN x[k] ELSE y[k - at]
  BY <1>1, <1>2, ConcatProperties
<1>4. ASSUME NEW k \in 1 .. n PROVE new[k] = s[k]
  <2>1. k \in 1 .. at + (n - at)
    BY <1>1
  <2>2. CASE k <= at
    BY <1>1, <1>3, <2>1, <2>2
  <2>3. CASE ~(k <= at)
    <3>1. k - at \in 1 .. n - at /\ at + (k - at) = k
      BY <1>1, <2>3
    <3> QED BY <1>1, <1>3, <2>1, <2>3, <3>1
  <2> QED BY <2>2, <2>3
<1>5. Len(new) = Len(s)
  BY <1>1, <1>3 DEF n
<1> QED BY <1>3, <1>4, <1>5, SeqEqual DEF new, n

\* Text after a place between two characters begins with a whole one.
LEMMA CutBoundary ==
    ASSUME NEW x \in Seq(Bytes), NEW y \in Seq(Bytes), Whole(y)
    PROVE  Len(x) \in Boundaries(Cat(x, y))
<1> DEFINE n == Len(x)
           m == Len(y)
           new == Cat(x, y)
<1>1. /\ new \in Seq(Bytes) /\ Len(new) = n + m /\ n \in Nat /\ m \in Nat
      /\ \A k \in 1 .. n + m : new[k] = IF k <= n THEN x[k] ELSE y[k - n]
  BY ConcatProperties DEF Cat
<1>2. \A k \in 1 .. m : y[k] \in Continuations => k # 1
  <2>1. {} \in SUBSET Marks
    OBVIOUS
  <2> QED BY <2>1, WholeIs DEF Whole, WholeIn
<1>3. n \in 0 .. n + m
  BY <1>1
<1> HIDE DEF new, n, m
<1>4. CASE m = 0
  <2>1. n = Len(new)
    BY <1>1, <1>4
  <2> QED BY <1>1, <1>3, <2>1 DEF Boundaries, new, n
<1>5. CASE m # 0
  <2>1. n + 1 \in 1 .. n + m /\ ~(n + 1 <= n) /\ (n + 1) - n = 1 /\ 1 \in 1 .. m
    BY <1>1, <1>5
  <2>2. new[n + 1] = y[1]
    BY <1>1, <2>1
  <2>3. new[n + 1] \notin Continuations
    BY <1>2, <2>1, <2>2
  <2> QED BY <1>1, <1>3, <2>3 DEF Boundaries, new, n
<1> QED BY <1>4, <1>5

LEMMA JoinedStands ==
    ASSUME NEW e \in Editing, SoundDoc(e.doc), NEW s, NEW lower, NEW upper, Ranged(e, s, lower, upper)
    PROVE  /\ Stands(Joined(e, s), s.first, lower)
           /\ Plain(Joined(e, s).doc) = Without(Plain(e.doc), lower, upper)
<1> DEFINE d == e.doc
           a == s.first
           f == s.last
           ta == TextOf(d[a])
           tf == TextOf(d[f])
           x == UpTo(ta, s.from)
           y == After(tf, s.to)
           value == JoinedText(e, s)
           b == Written(d[a], value)
           j == Joined(e, s)
           none == <<>>
           pos == At(d[a].id, s.from)
<1>1. /\ a \in 1 .. Len(d) /\ f \in 1 .. Len(d) /\ a <= f /\ a # 0
      /\ s.from \in Boundaries(ta) /\ s.to \in Boundaries(tf)
      /\ s.from \in 0 .. Len(ta) /\ s.to \in 0 .. Len(tf)
      /\ lower = BlockStart(d, a) + s.from /\ upper = BlockStart(d, f) + s.to
  BY DEF Ranged
<1>2. Selects(e, s)
  BY DEF Ranged, Selects
<1>3. /\ d \in Seq(Blocks) /\ d[a] \in Blocks /\ ta \in Seq(Bytes) /\ tf \in Seq(Bytes)
      /\ Whole(ta) /\ Whole(tf)
  BY <1>1, SoundAt
<1>4. value = Cat(x, y) /\ value \in Seq(Bytes)
  BY <1>1, <1>2, JoinedTextType DEF JoinedText
<1>5. /\ j \in Editing /\ j.doc = Swap(d, a, <<b>>, f)
      /\ j.anchor = pos /\ j.focus = j.anchor
  BY <1>1, <1>2, JoinedIs
<1> HIDE DEF ta, tf, j
<1>6. x \in Seq(Bytes) /\ Len(x) = s.from /\ y \in Seq(Bytes) /\ Whole(y)
  <2>1. x \in Seq(Bytes) /\ Len(x) = s.from
    BY <1>1, <1>3, PartTypes
  <2>2. y \in Seq(Bytes) /\ Whole(y)
    BY <1>1, <1>3, WholeParts
  <2> QED BY <2>1, <2>2
<1> HIDE DEF x, y, value
<1>7. b \in Blocks /\ b.id = d[a].id /\ TextOf(b) = value
  BY <1>3, <1>4, WrittenFacts
<1>8. s.from \in Boundaries(TextOf(b))
  BY <1>4, <1>6, <1>7, CutBoundary
<1>9. none \in Seq(Bytes) /\ Cat(x, none) = x
  BY <1>6, CatNone
<1> HIDE DEF b, none
<1>10. TextOf(b) = Cat(Cat(UpTo(ta, s.from), none), After(tf, s.to))
  BY <1>4, <1>7, <1>9 DEF x, y
<1> DEFINE new == Swap(d, a, <<b>>, f)
<1>11. Plain(new) = Spliced(Plain(d), lower, none, upper)
  <2>1. /\ s.from \in 0 .. Len(TextOf(d[a])) /\ s.to \in 0 .. Len(TextOf(d[f]))
        /\ TextOf(b) = Cat(Cat(UpTo(TextOf(d[a]), s.from), none), After(TextOf(d[f]), s.to))
    BY <1>1, <1>10 DEF ta, tf
  <2> HIDE DEF d, a, f, new
  <2>2. Plain(Swap(d, a, <<b>>, f)) = Spliced(Plain(d), BlockStart(d, a) + s.from, none, BlockStart(d, f) + s.to)
    BY <1>1, <1>3, <1>7, <1>9, <2>1, SwapOne
  <2> QED BY <1>1, <2>2 DEF new
<1>12. Spliced(Plain(d), lower, none, upper) = Without(Plain(d), lower, upper)
  <2> DEFINE p == Plain(d)
  <2>1. p \in Seq(Glyphs) /\ lower \in 0 .. Len(p) /\ upper \in 0 .. Len(p)
    <3>1. p \in Seq(Glyphs)
      BY <1>3, TextFacts
    <3>2. lower \in Nat /\ lower <= Len(p)
      BY <1>1, <1>3, CutText DEF ta
    <3>3. upper \in Nat /\ upper <= Len(p)
      BY <1>1, <1>3, CutText DEF tf
    <3>4. Len(p) \in Nat
      BY <3>1
    <3> QED BY <3>1, <3>2, <3>3, <3>4
  <2> HIDE DEF p
  <2>2. <<>> \in Seq(Glyphs)
    OBVIOUS
  <2>3. Spliced(p, lower, <<>>, upper) = Without(p, lower, upper)
    BY <2>1, <2>2, SplicedIs
  <2> QED BY <2>3 DEF p, none
<1>13. Stands(j, a, BlockStart(d, a) + s.from)
  <2>1. j.focus = At(b.id, s.from) /\ j.anchor = j.focus
    BY <1>5, <1>7
  <2> HIDE DEF d, a, f
  <2> QED BY <1>1, <1>3, <1>5, <1>7, <1>8, <2>1, StandsInSwap
<1> QED BY <1>1, <1>5, <1>11, <1>12, <1>13 DEF j, new

\* delete_selection, collapsed or not: the page without what is selected, with the
\* caret where that was.
LEMMA DeletedStands ==
    ASSUME Inv, SoundDoc(doc), doc # <<>>
    PROVE  /\ \E i : Stands(DeleteSelection(Now), i, From)
           /\ Plain(DeleteSelection(Now).doc) = Without(Plain(doc), From, To)
           /\ From \in 0 .. Len(Plain(doc)) /\ To \in 0 .. Len(Plain(doc)) /\ From <= To
           /\ Plain(doc) \in Seq(Glyphs)
<1> DEFINE s == Selection(Now)
           p == Plain(doc)
<1>1. Now \in Editing /\ Now.doc = doc /\ doc \in Document /\ doc \in Seq(Blocks)
  BY NowSettled, NowFacts, DocumentFacts
<1>2. Ranged(Now, s, From, To)
  BY SelectionRanged
<1>3. DeleteSelection(Now) = Cut(Now, s)
  BY DEF DeleteSelection
<1> HIDE DEF s
<1>4. p \in Seq(Glyphs) /\ From \in 0 .. Len(p) /\ To \in 0 .. Len(p) /\ From <= To
  <2> DEFINE a == s.first
             f == s.last
             x == s.from
             y == s.to
             A == From
             F == To
  <2>1. p \in Seq(Glyphs) /\ Len(p) \in Nat
    BY <1>1, TextFacts
  <2>2. /\ a \in 1 .. Len(doc) /\ x \in 0 .. Len(TextOf(doc[a])) /\ A = BlockStart(doc, a) + x
        /\ f \in 1 .. Len(doc) /\ y \in 0 .. Len(TextOf(doc[f])) /\ F = BlockStart(doc, f) + y
        /\ A <= F
    BY <1>1, <1>2 DEF Ranged
  <2> HIDE DEF a, f, x, y, A, F
  <2>3. A \in Nat /\ A <= Len(p)
    BY <1>1, <2>2, CutText
  <2>4. F \in Nat /\ F <= Len(p)
    BY <1>1, <2>2, CutText
  <2> QED BY <2>1, <2>2, <2>3, <2>4 DEF A, F
<1>5. CASE Collapsed(Now)
  <2>1. DeleteSelection(Now) = Now
    BY <1>3, <1>5 DEF Cut
  <2>2. Stands(Now, IndexOf(doc, focus.block), From) /\ From = To
    BY <1>5, NowStands
  <2> HIDE DEF p
  <2>3. Without(p, From, From) = p
    <3> DEFINE x == From
    <3>1. x \in 0 .. Len(p)
      BY <1>4
    <3> HIDE DEF x
    <3>2. Without(p, x, x) = p
      BY <1>4, <3>1, WithoutNone
    <3> QED BY <3>2 DEF x
  <2> QED BY <1>1, <1>4, <2>1, <2>2, <2>3 DEF p
<1>6. CASE ~Collapsed(Now)
  <2>1. s.first # 0
    BY <1>2 DEF Ranged
  <2>2. DeleteSelection(Now) = Joined(Now, s)
    BY <1>3, <1>6, <2>1 DEF Cut
  <2> DEFINE A == From
             F == To
  <2>3. Ranged(Now, s, A, F)
    BY <1>2
  <2> HIDE DEF A, F
  <2>4. Stands(Joined(Now, s), s.first, A) /\ Plain(Joined(Now, s).doc) = Without(p, A, F)
    BY <1>1, <2>3, JoinedStands
  <2> QED BY <1>4, <2>2, <2>4 DEF A, F, p
<1> QED BY <1>5, <1>6

LEMMA CutFirst ==
    ASSUME NEW B, NEW x \in Seq(B), NEW y \in Seq(B)
    PROVE  UpTo(Cat(x, y), Len(x)) = x /\ After(Cat(x, y), Len(x)) = y
<1> DEFINE n == Len(x)
           m == Len(y)
           s == Cat(x, y)
           u == UpTo(s, n)
           v == After(s, n)
<1>1. /\ s \in Seq(B) /\ Len(s) = n + m /\ n \in Nat /\ m \in Nat
      /\ \A k \in 1 .. n + m : s[k] = IF k <= n THEN x[k] ELSE y[k - n]
  BY ConcatProperties DEF Cat
<1>2. n \in 0 .. Len(s)
  BY <1>1
<1> HIDE DEF s, n, m
<1>3. /\ u \in Seq(B) /\ v \in Seq(B) /\ Len(u) = n /\ Len(v) = Len(s) - n
      /\ \A k \in 1 .. n : u[k] = s[k]
      /\ \A k \in 1 .. Len(s) - n : v[k] = s[n + k]
  BY <1>1, <1>2, PartTypes
<1> HIDE DEF u, v
<1>4. u = x
  <2>1. \A k \in 1 .. Len(x) : u[k] = x[k]
    BY <1>1, <1>3 DEF n
  <2>2. Len(u) = Len(x)
    BY <1>3 DEF n
  <2> QED BY <1>3, <2>1, <2>2, SeqEqual
<1>5. v = y
  <2>1. Len(v) = Len(y)
    BY <1>1, <1>3 DEF m
  <2>2. ASSUME NEW k \in 1 .. Len(y) PROVE v[k] = y[k]
    <3>1. k \in 1 .. m /\ k \in 1 .. Len(s) - n /\ n + k \in 1 .. n + m /\ ~(n + k <= n) /\ (n + k) - n = k
      BY <1>1 DEF m
    <3> QED BY <1>1, <1>3, <3>1
  <2> QED BY <1>3, <2>1, <2>2, SeqEqual
<1> QED BY <1>4, <1>5 DEF u, v, n, s

\* First taking a part out and then putting something there.
LEMMA SplicedAgain ==
    ASSUME NEW B, NEW s \in Seq(B), NEW from \in 0 .. Len(s), NEW to \in 0 .. Len(s), NEW new \in Seq(B)
    PROVE  /\ from \in 0 .. Len(Without(s, from, to)) /\ Without(s, from, to) \in Seq(B)
           /\ Spliced(Without(s, from, to), from, new, from) = Spliced(s, from, new, to)
<1> DEFINE x == UpTo(s, from)
           y == After(s, to)
           w == Without(s, from, to)
<1>1. x \in Seq(B) /\ Len(x) = from /\ y \in Seq(B)
  BY PartTypes
<1>2. w = Cat(x, y)
  BY DEF Without, Cat
<1> HIDE DEF w, x, y
<1>3. UpTo(w, from) = x /\ After(w, from) = y
  BY <1>1, <1>2, CutFirst
<1>4. w \in Seq(B) /\ from \in 0 .. Len(w)
  <2>1. w \in Seq(B) /\ Len(w) = Len(x) + Len(y)
    BY <1>1, <1>2, CatFacts
  <2>2. Len(y) \in Nat /\ from \in Nat
    BY <1>1
  <2> QED BY <1>1, <2>1, <2>2
<1>5. Spliced(w, from, new, from) = (x \o new) \o y
  BY <1>3 DEF Spliced
<1>6. Spliced(s, from, new, to) = (x \o new) \o y
  BY DEF Spliced, x, y
<1> QED BY <1>4, <1>5, <1>6 DEF w

LEMMA EmptyPage ==
    ASSUME Inv, doc = <<>>
    PROVE  From = 0 /\ To = 0 /\ Plain(doc) = <<>> /\ DeleteSelection(Now) = Now
<1>1. Now \in Editing /\ Now.doc = doc /\ Now.anchor = anchor /\ Now.focus = focus /\ doc \in Document
  BY NowSettled, NowFacts
<1>2. Len(doc) = 0
  BY <1>1, DocumentFacts
<1>3. IndexOf(doc, anchor.block) = 0 /\ IndexOf(doc, focus.block) = 0
  BY <1>1, <1>2, IndexFacts
<1>4. Offset(doc, anchor) = 0 /\ Offset(doc, focus) = 0
  BY <1>3 DEF Offset, OffsetIn
<1>5. From = 0 /\ To = 0
  <2> DEFINE z == 0
  <2>1. z \in Nat /\ z <= z
    OBVIOUS
  <2>2. From = Min({z, z}) /\ To = Max({z, z})
    BY <1>4 DEF From, To
  <2> HIDE DEF z
  <2>3. From = z /\ To = z
    BY <2>1, <2>2, MinMaxOf
  <2> QED BY <2>3 DEF z
<1>6. Plain(doc) = <<>>
  <2>1. Reading(doc) = <<>>
    BY <1>1, DocumentFacts, ReadingIs
  <2>2. Unmarked(<<>>) = <<>>
    BY DEF Unmarked
  <2> QED BY <2>1, <2>2 DEF Plain
<1>7. Selection(Now).first = 0
  BY <1>1, <1>3 DEF Selection, Between, Ends
<1>8. DeleteSelection(Now) = Now
  BY <1>7 DEF DeleteSelection, Cut
<1> QED BY <1>5, <1>6, <1>8

LEMMA LonelyBlock ==
    ASSUME NEW b \in Blocks, b.runs = <<>>
    PROVE  <<b>> \in Seq(Blocks) /\ Plain(<<b>>) = <<>> /\ TextOf(b) = <<>> /\ BlockStart(<<b>>, 1) = 0
<1> DEFINE d == <<b>>
           none == <<>>
<1>1. RunsText(<<>>) = <<>>
  BY RunsTextEmpty
<1>2. TextOf(b) = none
  BY <1>1 DEF TextOf
<1>3. d \in Seq(Blocks) /\ d # <<>> /\ Text(d) = Break \o TextOf(b)
  BY TextSmall
<1> HIDE DEF d
<1>4. Text(d) = Break \o Plain(d) /\ Plain(d) \in Seq(Glyphs)
  BY <1>3, TextFacts
<1>5. Cat(Break, Plain(d)) = Cat(Break, none) /\ none \in Seq(Glyphs) /\ Break \in Seq(Glyphs)
  BY <1>2, <1>3, <1>4, BreakFacts DEF Cat
<1> HIDE DEF none
<1>6. Plain(d) = none
  BY <1>4, <1>5, CatCancels
<1>7. BlockStart(d, 1) = 0
  BY <1>3, StartsOfBlocks
<1> QED BY <1>2, <1>3, <1>6, <1>7 DEF d, none

\* Where text goes: what is selected is deleted, and an empty page gets a block.
LEMMA ReadyStands ==
    ASSUME Inv, SoundDoc(doc), NEW seed \in SeedIds, NEW g, g = Seeded(DeleteSelection(Now), seed)
    PROVE  /\ \E i : Stands(g, i, From)
           /\ Plain(g.doc) = Without(Plain(doc), From, To)
           /\ From \in 0 .. Len(Plain(doc)) /\ To \in 0 .. Len(Plain(doc))
           /\ Plain(doc) \in Seq(Glyphs)
           /\ Fit(g) /\ SoundDoc(g.doc) /\ IdsOf(g.doc) \subseteq IdsOf(doc) \cup {seed}
<1> DEFINE f == DeleteSelection(Now)
<1>1. Now \in Editing /\ Now.doc = doc /\ Fit(Now) /\ doc \in Document /\ doc \in Seq(Blocks)
  BY NowSettled, NowFacts, DocumentFacts
<1>2. doc = <<>> => seed \in Ids
  BY FreshIds
<1>3. Fit(f) /\ Within(Now, f) /\ SoundDoc(f.doc) /\ f \in Editing
  <2>1. Fit(f) /\ Within(Now, f) /\ SoundDoc(f.doc)
    BY <1>1, DeleteFacts, DeleteSound
  <2> QED BY <2>1 DEF Fit
<1> HIDE DEF f
<1>4. f.doc = <<>> => seed \in Ids
  BY <1>1, <1>2, <1>3 DEF Within
<1>5. g = Seeded(f, seed)
  BY DEF f
<1>6. Fit(g) /\ SoundDoc(g.doc) /\ IdsOf(g.doc) \subseteq IdsOf(doc) \cup {seed}
  <2>1. Fit(Seeded(f, seed)) /\ IdsOf(Seeded(f, seed).doc) \subseteq IdsOf(f.doc) \cup {seed}
    BY <1>3, <1>4, SeededFacts
  <2>2. SoundDoc(Seeded(f, seed).doc)
    BY <1>3, <1>4, SeededSound
  <2> QED BY <1>1, <1>3, <1>5, <2>1, <2>2 DEF Within
<1>7. CASE doc # <<>>
  <2>1. f.doc # <<>>
    BY <1>1, <1>3, <1>7 DEF Within
  <2>2. g = f
    BY <1>5, <2>1 DEF Seeded
  <2> QED BY <1>6, <1>7, <2>2, DeletedStands DEF f
<1>8. CASE doc = <<>>
  <2> DEFINE b == Block(seed, Paragraph, <<>>)
             pos == At(seed, 0)
             new == <<b>>
  <2>1. From = 0 /\ To = 0 /\ Plain(doc) = <<>> /\ f = Now
    BY <1>8, EmptyPage DEF f
  <2>2. b \in Blocks /\ b.id = seed /\ b.runs = <<>> /\ Puts(g, new, pos)
    BY <1>1, <1>2, <1>5, <1>8, <2>1, SeededIs DEF Block
  <2> HIDE DEF b
  <2>3. new \in Seq(Blocks) /\ Plain(new) = <<>> /\ TextOf(b) = <<>> /\ BlockStart(new, 1) = 0
    BY <2>2, LonelyBlock
  <2>4. Len(new) = 1 /\ new[1] = b
    OBVIOUS
  <2> HIDE DEF new
  <2>5. 0 \in Boundaries(TextOf(new[1]))
    <3>1. TextOf(new[1]) \in Seq(Bytes)
      BY <2>2, <2>4, BlockFacts
    <3> QED BY <3>1, BoundaryFacts
  <2>6. Stands(g, 1, 0)
    BY <2>2, <2>3, <2>4, <2>5 DEF Stands, Puts, At
  <2>7. Without(<<>>, 0, 0) = <<>>
    <3> DEFINE none == <<>>
               z == 0
    <3>1. none \in Seq(Glyphs) /\ z \in 0 .. Len(none)
      OBVIOUS
    <3> HIDE DEF none, z
    <3>2. Without(none, z, z) = none
      BY <3>1, WithoutNone
    <3> QED BY <3>2 DEF none, z
  <2>8. g.doc = new
    BY <2>2 DEF Puts
  <2>9. <<>> \in Seq(Glyphs) /\ 0 \in 0 .. Len(<<>>)
    OBVIOUS
  <2>10. Plain(g.doc) = Without(Plain(doc), From, To)
    BY <2>1, <2>3, <2>7, <2>8
  <2>11. From \in 0 .. Len(Plain(doc)) /\ To \in 0 .. Len(Plain(doc)) /\ Plain(doc) \in Seq(Glyphs)
    BY <2>1, <2>9
  <2>12. \E i : Stands(g, i, From)
    BY <2>1, <2>6
  <2> QED BY <1>6, <2>10, <2>11, <2>12
<1> QED BY <1>7, <1>8

LEMMA PairSwap ==
    ASSUME NEW d \in Seq(Blocks), NEW i \in 1 .. Len(d), NEW b \in Blocks, NEW c \in Blocks,
           NEW new, new = Swap(d, i, <<b, c>>, i)
    PROVE  /\ new \in Seq(Blocks) /\ i + 1 \in 1 .. Len(new) /\ new[i] = b /\ new[i + 1] = c
           /\ BlockStart(new, i + 1) = BlockStart(d, i) + Len(TextOf(b)) + 1
<1> DEFINE mid == <<b, c>>
           n == Len(d)
           two == Len(mid)
<1>1. mid \in Seq(Blocks) /\ two = 2 /\ mid[1] = b /\ mid[2] = c /\ n \in Nat /\ i <= i
  OBVIOUS
<1> HIDE DEF mid
<1>2. /\ new \in Seq(Blocks) /\ Len(new) = i - 1 + Len(mid) + (Len(d) - i)
      /\ \A k \in 1 .. Len(mid) : new[i - 1 + k] = mid[k]
  <2> DEFINE swapped == Swap(d, i, mid, i)
  <2>1. /\ swapped \in Seq(Blocks) /\ Len(swapped) = i - 1 + Len(mid) + (Len(d) - i)
        /\ \A k \in 1 .. Len(mid) : swapped[i - 1 + k] = mid[k]
    <3>1. mid \in Seq(Blocks) /\ i <= i
      BY <1>1
    <3>2. swapped \in Seq(Blocks) /\ Len(swapped) = i - 1 + Len(mid) + (Len(d) - i)
      BY <3>1, SwapShape
    <3>3. \A k \in 1 .. Len(mid) : swapped[i - 1 + k] = mid[k]
      BY <3>1, SwapFacts
    <3> QED BY <3>2, <3>3
  <2>2. new = swapped
    BY DEF mid
  <2> HIDE DEF swapped
  <2> QED BY <2>1, <2>2
<1>3. BlockStart(new, i) = BlockStart(d, i)
  BY <1>1, StartsInSwap DEF mid
<1>4. Len(new) = n + 1 /\ i \in 1 .. Len(new) /\ i + 1 \in 1 .. Len(new)
  BY <1>1, <1>2 DEF n, two
<1>5. new[i] = b /\ new[i + 1] = c
  <2>1. 1 \in 1 .. Len(mid) /\ 2 \in 1 .. Len(mid) /\ i - 1 + 1 = i /\ i - 1 + 2 = i + 1
    BY <1>1 DEF two
  <2> QED BY <1>1, <1>2, <2>1
<1>6. BlockStart(new, i + 1) = BlockStart(new, i) + Len(TextOf(new[i])) + 1
  BY <1>2, <1>4, StartsOfBlocks
<1> QED BY <1>2, <1>3, <1>4, <1>5, <1>6

\* split at a caret: a newline there, and the caret behind it.
LEMMA SplitStands ==
    ASSUME NEW e, Fit(e), NEW i, NEW p, Stands(e, i, p), NEW id \in Ids, id \notin IdsOf(e.doc)
    PROVE  /\ Stands(SplitAtFocus(e, id, 0), i + 1, p + 1)
           /\ Plain(SplitAtFocus(e, id, 0).doc) = Spliced(Plain(e.doc), p, Break, p)
<1> DEFINE d == e.doc
           at == e.focus.offset
           t == TextOf(d[i])
           x == UpTo(t, at)
           y == After(t, at)
           b == Written(d[i], x)
           c == BlockBelow(id, y)
           f == SplitAtFocus(e, id, 0)
           new == Swap(d, i, <<b, c>>, i)
<1>1. /\ Spot(e, i, at) /\ i \in 1 .. Len(d) /\ d \in Seq(Blocks) /\ d[i] \in Blocks
      /\ t \in Seq(Bytes) /\ at \in 0 .. Len(t) /\ at \in Nat /\ e \in Editing
      /\ p = BlockStart(d, i) + at
  BY StandsAt DEF Spot, Stands
<1>2. f = SplitAt(e, i, at, id, 0)
  BY <1>1, SplitAtFocusIs
<1>3. SplitAt(e, i, at, id, 0).doc = new
  BY <1>1, SplitIs
<1>4. SplitAt(e, i, at, id, 0).anchor = At(id, 0) /\ SplitAt(e, i, at, id, 0).focus = At(id, 0)
  BY <1>1, SplitIs
<1>5. f \in Editing
  BY SplitAtFacts DEF Fit
<1>6. f.doc = new /\ f.anchor = At(id, 0) /\ f.focus = At(id, 0)
  BY <1>2, <1>3, <1>4
<1> HIDE DEF f
<1>7. x \in Seq(Bytes) /\ Len(x) = at /\ y \in Seq(Bytes)
  <2> HIDE DEF t, at
  <2> QED BY <1>1, PartTypes
<1>8. b \in Blocks /\ TextOf(b) = x
  <2> HIDE DEF x
  <2> QED BY <1>1, <1>7, WrittenFacts
<1>9. c \in Blocks /\ c.id = id /\ TextOf(c) = y
  <2> HIDE DEF y
  <2> QED BY <1>7, BelowFacts
<1> HIDE DEF b, c
<1>10. Plain(new) = Spliced(Plain(d), p, Break, p)
  <2>1. TextOf(b) = UpTo(TextOf(d[i]), at) /\ TextOf(c) = After(TextOf(d[i]), at) /\ at \in 0 .. Len(TextOf(d[i]))
    BY <1>1, <1>8, <1>9
  <2> HIDE DEF d, at, new
  <2>2. Plain(Swap(d, i, <<b, c>>, i)) = Spliced(Plain(d), BlockStart(d, i) + at, Break, BlockStart(d, i) + at)
    BY <1>1, <1>8, <1>9, <2>1, SwapTwo
  <2> QED BY <1>1, <2>2 DEF new
<1>11. /\ i + 1 \in 1 .. Len(new) /\ new[i + 1] = c
       /\ BlockStart(new, i + 1) = BlockStart(d, i) + at + 1
  <2> HIDE DEF d, at, t, x, y, new
  <2>1. /\ new \in Seq(Blocks) /\ i + 1 \in 1 .. Len(new) /\ new[i] = b /\ new[i + 1] = c
        /\ BlockStart(new, i + 1) = BlockStart(d, i) + Len(TextOf(b)) + 1
    BY <1>1, <1>8, <1>9, PairSwap DEF new
  <2> QED BY <1>7, <1>8, <2>1
<1>12. 0 \in Boundaries(TextOf(c))
  BY <1>7, <1>9, BoundaryFacts
<1>13. BlockStart(d, i) \in Nat
  BY <1>1, StartsOfBlocks
<1> HIDE DEF new, d, at, t, x, y
<1>14. p + 1 = BlockStart(new, i + 1) + 0
  BY <1>1, <1>11, <1>13
<1>15. Stands(f, i + 1, p + 1)
  BY <1>5, <1>6, <1>9, <1>11, <1>12, <1>14 DEF Stands, At
<1> QED BY <1>6, <1>10, <1>15 DEF f, d

\* Between twins only the place of the new block is another.
LEMMA SplitLands ==
    ASSUME NEW e, Fit(e), NEW i, NEW p, Stands(e, i, p), NEW id \in Ids, id \notin IdsOf(e.doc),
           NEW past \in Nat, NEW f, f = SplitAtFocus(e, id, past)
    PROVE  \E k \in 1 .. Len(f.doc) :
              /\ i + 1 <= k /\ k <= i + 1 + past /\ k = IndexOf(f.doc, id)
              /\ Raised(f.doc, k, i + 1) = SplitAtFocus(e, id, 0).doc
              /\ f.anchor = At(id, 0) /\ f.focus = At(id, 0) /\ Stands(f, k, BlockStart(f.doc, k))
<1> DEFINE at == e.focus.offset
           t == TextOf(e.doc[i])
           x == UpTo(t, at)
           u == Write(e, i, x).doc
           c == BlockBelow(id, After(t, at))
           a == i + 1
           f0 == SplitAtFocus(e, id, 0)
<1>1. /\ Spot(e, i, at) /\ i \in 1 .. Len(e.doc) /\ e \in Editing /\ at \in 0 .. Len(t)
      /\ t \in Seq(Bytes)
  BY StandsAt DEF Spot, Stands
<1>2. ASSUME NEW q \in Nat
      PROVE  LET g == SplitAtFocus(e, id, q)
             IN  g.doc = Landed(u, a, c, q) /\ g.anchor = At(id, 0) /\ g.focus = At(id, 0)
  <2>1. SplitAtFocus(e, id, q) = SplitAt(e, i, at, id, q)
    BY <1>1, SplitAtFocusIs
  <2>2. x \in Seq(Bytes)
    <3> HIDE DEF t, at
    <3> QED BY <1>1, PartTypes
  <2>3. u = BlockSet(e.doc, i, Written(e.doc[i], x))
    BY <1>1, <2>2, WriteIs
  <2>4. /\ SplitAt(e, i, at, id, q).doc = Landed(BlockSet(e.doc, i, Written(e.doc[i], x)), a, c, q)
        /\ SplitAt(e, i, at, id, q).anchor = At(id, 0) /\ SplitAt(e, i, at, id, q).focus = At(id, 0)
    BY <1>1, SplitIs
  <2> QED BY <2>1, <2>3, <2>4
<1>3. x \in Seq(Bytes) /\ After(t, at) \in Seq(Bytes)
  <2> HIDE DEF t, at
  <2> QED BY <1>1, PartTypes
<1>4. u \in Document /\ Len(u) = Len(e.doc) /\ u \in Seq(Blocks) /\ Len(u) \in Nat
  <2> HIDE DEF x
  <2> QED BY <1>1, <1>3, WriteFacts, EditingFacts, DocumentFacts
<1>5. c \in Blocks /\ c.id = id
  BY <1>3, BelowFacts
<1>6. f.doc = Landed(u, a, c, past) /\ f.anchor = At(id, 0) /\ f.focus = At(id, 0)
  BY <1>2
<1>7. f0.doc = Landed(u, a, c, 0)
  BY <1>2
<1>8. Fit(f) /\ f \in Editing /\ f.doc \in Document
  <2>1. Fit(f)
    BY SplitAtFacts
  <2> QED BY <2>1, EditingFacts DEF Fit
<1> HIDE DEF u, c, f0
<1>9. a \in 1 .. Len(u) + 1
  BY <1>1, <1>4
<1> HIDE DEF a
<1>10. PICK k \in 1 .. Len(u) + 1 : a <= k /\ k <= a + past /\ f.doc = InsertAt(u, k, c)
  <2>1. PICK j \in 1 .. Len(u) + 1 : a <= j /\ j <= a + past /\ Landed(u, a, c, past) = InsertAt(u, j, c)
    BY <1>4, <1>9, LandedFacts
  <2>2. f.doc = InsertAt(u, j, c)
    BY <1>6, <2>1
  <2> QED BY <2>1, <2>2
<1>11. f0.doc = InsertAt(u, a, c)
  BY <1>4, <1>7, <1>9, LandedFacts
<1>12. Len(f.doc) = Len(u) + 1 /\ f.doc[k] = c /\ RemoveAt(f.doc, k) = u
  BY <1>4, <1>5, <1>10, InsertedAt
<1>13. Raised(f.doc, k, a) = f0.doc
  BY <1>11, <1>12 DEF Raised
<1>14. k \in 1 .. Len(f.doc) /\ k = IndexOf(f.doc, id)
  BY <1>5, <1>8, <1>12, IndexIs
<1>15. 0 \in Boundaries(TextOf(f.doc[k])) /\ BlockStart(f.doc, k) \in Nat
  <2>1. TextOf(c) \in Seq(Bytes)
    BY <1>5, BlockFacts
  <2>2. 0 \in Boundaries(TextOf(c))
    BY <2>1, BoundaryFacts
  <2>3. f.doc \in Seq(Blocks)
    BY <1>8, DocumentFacts
  <2>4. BlockStart(f.doc, k) \in Nat
    BY <1>14, <2>3, StartsOfBlocks
  <2> QED BY <1>12, <2>2, <2>4
<1>16. Stands(f, k, BlockStart(f.doc, k))
  BY <1>5, <1>6, <1>8, <1>12, <1>14, <1>15 DEF Stands, At
<1> QED BY <1>6, <1>10, <1>13, <1>14, <1>16 DEF f0, a

LEMMA EnterChecks ==
    ASSUME Inv, CharactersWhole
    PROVE  EnterSplits
<1> DEFINE p == Plain(doc)
           from == From
           to == To
           Splits(e) == Plain(e.doc) = Spliced(p, from, <<NewlineByte>>, to) /\ CaretAt(e, from + 1)
<1>1. SoundDoc(doc)
  BY DEF CharactersWhole, SoundDoc, Sound
<1>2. ASSUME NEW seed \in SeedIds, NEW id \in Fresh, NEW past \in 0 .. Len(doc), seed # id,
             NEW r, r = Relaid(Split(Now, seed, id, past), doc)
      PROVE  \E j \in 1 .. IndexOf(r.doc, id) :
                IndexOf(r.doc, id) <= j + past /\ Splits([r EXCEPT !.doc = Raised(@, IndexOf(r.doc, id), j)])
  <2> DEFINE g == Seeded(DeleteSelection(Now), seed)
             f == SplitAtFocus(g, id, past)
             f0 == SplitAtFocus(g, id, 0)
  <2>1. /\ \E i : Stands(g, i, from)
        /\ Plain(g.doc) = Without(p, from, to)
        /\ from \in 0 .. Len(p) /\ to \in 0 .. Len(p) /\ p \in Seq(Glyphs)
        /\ Fit(g) /\ SoundDoc(g.doc) /\ IdsOf(g.doc) \subseteq IdsOf(doc) \cup {seed}
    BY <1>1, ReadyStands
  <2>2. r = Relaid(f, doc) /\ past \in Nat
    BY <1>2 DEF Split
  <2> HIDE DEF g, p, from, to
  <2>3. PICK i : Stands(g, i, from)
    BY <2>1
  <2>4. id \in Ids /\ id \notin IdsOf(g.doc)
    BY <1>2, <2>1, FreshIds
  <2>5. Stands(f0, i + 1, from + 1) /\ Plain(f0.doc) = Spliced(Plain(g.doc), from, Break, from)
    BY <2>1, <2>3, <2>4, SplitStands
  <2>6. Break \in Seq(Glyphs)
    BY BreakFacts
  <2>7. Spliced(Without(p, from, to), from, Break, from) = Spliced(p, from, Break, to)
    BY <2>1, <2>6, SplicedAgain
  <2>8. doc \in Document /\ i \in Nat /\ 1 <= i
    BY <2>3, NowSettled DEF Stands
  <2>9. PICK k \in 1 .. Len(f.doc) :
              /\ i + 1 <= k /\ k <= i + 1 + past /\ k = IndexOf(f.doc, id)
              /\ Raised(f.doc, k, i + 1) = f0.doc
              /\ f.anchor = At(id, 0) /\ f.focus = At(id, 0) /\ Stands(f, k, BlockStart(f.doc, k))
    BY <2>1, <2>2, <2>3, <2>4, SplitLands
  <2>10. Fit(f)
    BY <2>1, <2>2, <2>4, SplitAtFacts
  <2>11. f0.anchor = f0.focus /\ f0.focus = At(id, 0)
    <3>1. 0 \in Nat
      OBVIOUS
    <3> QED BY <2>1, <2>3, <2>4, <3>1, SplitLands
  <2>12. CaretAt(f0, from + 1)
    BY <2>5, StandsAt
  <2> HIDE DEF f, f0
  <2>13. r \in Editing /\ r.doc = f.doc /\ r.focus = At(id, 0) /\ r.anchor = r.focus
    <3>1. r \in Editing
      BY <2>2, <2>8, <2>10, RelaidFacts
    <3>2. r.doc = f.doc /\ r.focus = f.focus /\ CaretAt(r, BlockStart(f.doc, k))
      BY <2>2, <2>8, <2>9, StandsRelaid
    <3> QED BY <2>9, <3>1, <3>2 DEF CaretAt, Collapsed
  <2> DEFINE h == [r EXCEPT !.doc = Raised(@, k, i + 1)]
  <2>14. h.doc = f0.doc /\ h.focus = f0.focus /\ h.anchor = f0.anchor
    BY <2>9, <2>11, <2>13 DEF Editing
  <2>15. Splits(h)
    <3> HIDE DEF h
    <3>1. CaretAt(h, from + 1)
      BY <2>12, <2>14 DEF CaretAt, Collapsed
    <3>2. Plain(h.doc) = Spliced(p, from, <<NewlineByte>>, to)
      BY <2>1, <2>5, <2>7, <2>14 DEF Break
    <3> QED BY <3>1, <3>2
  <2>16. k = IndexOf(r.doc, id)
    BY <2>9, <2>13
  <2> HIDE DEF Splits
  <2>17. i + 1 \in 1 .. k /\ k <= (i + 1) + past
    BY <2>2, <2>8, <2>9
  <2> QED BY <2>15, <2>16, <2>17
<1> QED BY <1>2 DEF EnterSplits

\* Enter, wherever the selection is and whatever is selected: the page reads as
\* before with what was selected replaced by a newline, and the caret is behind it;
\* only between twins, blocks that share a position, is the new block further down,
\* by as many blocks as it landed past its place.
THEOREM EnterAlwaysSplits == Spec => []EnterSplits
<1>1. Inv /\ CharactersWhole => EnterSplits
  BY EnterChecks
<1> QED BY <1>1, WholeInvariance, PTL

-----------------------------------------------------------------------------
(* Characters before and after the caret, in the text of the page. *)

\* Where the bytes of a block are in the text of the page.
LEMMA PlainFrame ==
    ASSUME NEW d \in Seq(Blocks), NEW i \in 1 .. Len(d), NEW t, t = TextOf(d[i])
    PROVE  /\ Plain(d) \in Seq(Glyphs) /\ Len(Plain(d)) \in Nat
           /\ t \in Seq(Bytes) /\ Len(t) \in Nat
           /\ BlockStart(d, i) \in Nat /\ BlockStart(d, i) + Len(t) <= Len(Plain(d))
           /\ \A k \in 1 .. Len(t) : Plain(d)[BlockStart(d, i) + k] = t[k]
           /\ i # 1 => Plain(d)[BlockStart(d, i)] = NewlineByte
           /\ i = Len(d) => BlockStart(d, i) + Len(t) = Len(Plain(d))
           /\ i # Len(d) => BlockStart(d, i + 1) = BlockStart(d, i) + Len(t) + 1
           /\ i = 1 => BlockStart(d, i) = 0
<1> DEFINE R == Reading(d)
           P == Plain(d)
           M == Marked(d[i].runs)
           B == BlockStart(d, i)
           n == Len(t)
<1>1. d[i] \in Blocks /\ d # <<>> /\ Len(d) \in Nat
  OBVIOUS
<1>2. t \in Seq(Bytes) /\ n \in Nat /\ t = Unmarked(M) /\ M \in Seq(Letters) /\ Len(M) = n
  BY <1>1, BlockFacts, TextOfMarked, LineFacts DEF TextOf
<1>3. P \in Seq(Glyphs)
  BY TextFacts
<1>4. R \in Seq(Signs) /\ P = Unmarked(R) /\ Len(P) = Len(R) /\ Len(R) \in Nat
      /\ \A k \in 1 .. Len(R) : P[k] = R[k][1]
  <2>1. R \in Seq(Signs)
    BY ReadingIs
  <2> HIDE DEF R
  <2>2. Len(Unmarked(R)) = Len(R) /\ Len(R) \in Nat /\ \A k \in 1 .. Len(R) : Unmarked(R)[k] = R[k][1]
    BY <2>1, PlainFacts
  <2> QED BY <2>1, <2>2 DEF R, Plain
<1>5. /\ B + n <= Len(R)
      /\ \A k \in 1 .. n : R[B + k] = M[k]
      /\ i # 1 => R[B] = Newline
      /\ Len(R) = BlockStart(d, Len(d) + 1) - 1
  BY <1>1, ReadingFrame
<1>6. B \in Nat /\ BlockStart(d, i + 1) = B + n + 1 /\ BlockStart(d, 1) = 0
  <2>1. i \in 1 .. Len(d) + 1
    BY <1>1
  <2> QED BY <2>1, StartsOfBlocks
<1>7. \A k \in 1 .. n : t[k] = M[k][1]
  <2> HIDE DEF M
  <2> QED BY <1>2, UnmarkedFacts
<1>8. i # 1 => B # 0
  <2>1. CASE i # 1
    <3>1. i - 1 \in 1 .. Len(d) /\ i - 1 + 1 = i /\ 1 < i /\ 1 \in 1 .. Len(d)
      BY <1>1, <2>1
    <3>2. BlockStart(d, 1) + Len(TextOf(d[1])) < B
      BY <3>1, BlocksApart
    <3>3. Len(TextOf(d[1])) \in Nat
      BY <3>1, BlockFacts
    <3> QED BY <1>6, <3>2, <3>3
  <2> QED BY <2>1
<1> HIDE DEF R, P, M, B, n
<1>9. ASSUME NEW k \in 1 .. n PROVE P[B + k] = t[k]
  <2>1. B + k \in 1 .. Len(R)
    BY <1>2, <1>4, <1>5, <1>6
  <2> QED BY <1>4, <1>5, <1>7, <2>1
<1>10. i # 1 => P[B] = NewlineByte
  <2>1. CASE i # 1
    <3>1. B \in 1 .. Len(R)
      BY <1>2, <1>4, <1>5, <1>6, <1>8, <2>1
    <3>2. Newline[1] = NewlineByte
      BY SignFacts
    <3> QED BY <1>4, <1>5, <2>1, <3>1, <3>2
  <2> QED BY <2>1
<1>11. i = Len(d) => B + n = Len(P)
  BY <1>2, <1>4, <1>5, <1>6
<1>12. B + n <= Len(P)
  BY <1>4, <1>5
<1>13. i = 1 => B = 0
  BY <1>6 DEF B
<1> QED BY <1>2, <1>3, <1>4, <1>6, <1>9, <1>10, <1>11, <1>12, <1>13 DEF P, B, n

\* A place between two characters of a block is one of the page, and no other.
LEMMA BoundaryInPlain ==
    ASSUME NEW d \in Seq(Blocks), SoundDoc(d), NEW i \in 1 .. Len(d), NEW t, t = TextOf(d[i]),
           NEW k \in 0 .. Len(t)
    PROVE  BlockStart(d, i) + k \in Boundaries(Plain(d)) <=> k \in Boundaries(t)
<1> DEFINE P == Plain(d)
           B == BlockStart(d, i)
           n == Len(t)
           N == Len(P)
           at == B + k
<1>1. /\ N \in Nat /\ t \in Seq(Bytes) /\ n \in Nat /\ B \in Nat /\ B + n <= N
      /\ \A j \in 1 .. n : P[B + j] = t[j]
      /\ i = Len(d) => B + n = N
      /\ i # Len(d) => BlockStart(d, i + 1) = B + n + 1
  BY PlainFrame
<1>2. d[i] \in Blocks /\ Sound(d[i])
  BY DEF SoundDoc
<1>3. \A j \in 1 .. n : t[j] \in Continuations => j # 1
  <2>1. Whole(t)
    BY <1>2, SoundText
  <2>2. {} \in SUBSET Marks
    OBVIOUS
  <2> QED BY <1>1, <2>1, <2>2, WholeIs DEF Whole, WholeIn
<1>4. n = Len(t) /\ k \in 0 .. n
  OBVIOUS
<1>5. i # Len(d) => P[B + n + 1] = NewlineByte /\ B + n + 1 <= N
  <2>1. CASE i # Len(d)
    <3>1. i + 1 \in 1 .. Len(d) /\ i + 1 # 1
      BY <2>1
    <3> DEFINE u == TextOf(d[i + 1])
               C == BlockStart(d, i + 1)
    <3>2. P[C] = NewlineByte /\ C \in Nat /\ Len(u) \in Nat /\ C + Len(u) <= N
      BY <3>1, PlainFrame
    <3> HIDE DEF u
    <3> QED BY <1>1, <2>1, <3>2
  <2> QED BY <2>1
<1> HIDE DEF P, B, n, N
<1>6. at \in 0 .. N /\ at \in Nat
  BY <1>1, <1>4
<1>7. CASE k = n
  <2>1. k \in Boundaries(t)
    BY <1>1, <1>4, <1>7 DEF Boundaries
  <2>2. CASE i = Len(d)
    <3>1. at = N
      BY <1>1, <1>7, <2>2
    <3> QED BY <1>6, <2>1, <3>1 DEF Boundaries, N, at, B, P
  <2>3. CASE i # Len(d)
    <3>1. P[at + 1] \notin Continuations
      BY <1>5, <1>7, <2>3, TextsAssumption
    <3> QED BY <1>6, <2>1, <3>1 DEF Boundaries, N, at, B, P
  <2> QED BY <2>2, <2>3
<1>8. CASE k # n
  <2>1. k + 1 \in 1 .. n /\ at + 1 = B + (k + 1)
    BY <1>1, <1>4, <1>8
  <2>2. P[at + 1] = t[k + 1]
    BY <1>1, <2>1
  <2>3. CASE k = 0
    <3>1. t[k + 1] \notin Continuations
      BY <1>3, <2>1, <2>3
    <3>2. k \in Boundaries(t)
      BY <1>4, <2>3 DEF Boundaries, n
    <3> HIDE DEF at
    <3>3. at \in Boundaries(P)
      BY <1>6, <2>2, <3>1 DEF Boundaries, N
    <3> QED BY <3>2, <3>3 DEF at, B, P
  <2>4. CASE k # 0
    <3>1. at # 0 /\ at # N
      BY <1>1, <1>4, <1>8, <2>4
    <3>2. at \in Boundaries(P) <=> t[k + 1] \notin Continuations
      <4> HIDE DEF at
      <4> QED BY <1>6, <2>2, <3>1 DEF Boundaries, N
    <3>3. k \in Boundaries(t) <=> t[k + 1] \notin Continuations
      BY <1>4, <1>8, <2>4 DEF Boundaries, n
    <3> QED BY <3>2, <3>3 DEF at, B, P
  <2> QED BY <2>3, <2>4
<1> QED BY <1>7, <1>8

LEMMA PrevUnique ==
    ASSUME NEW p \in Seq(Glyphs), NEW q \in Nat, NEW v \in Boundaries(p), v < q,
           \A k \in Boundaries(p) : k < q => k <= v
    PROVE  PrevBoundary(p, q) = v
<1> DEFINE n == Len(p)
           E == Boundaries(p)
           S == {0} \cup {k \in E : k < q}
           m == PrevBoundary(p, q)
<1>1. n \in Nat /\ E \in SUBSET (0 .. n)
  BY DEF Boundaries
<1>2. m = Max(S) /\ v \in E
  BY DEF PrevBoundary
<1> HIDE DEF E, n, m
<1>3. S \in SUBSET (0 .. n) /\ S # {} /\ v \in S /\ v \in Nat
  <2>1. v \in 0 .. n /\ v < q
    BY <1>1, <1>2
  <2>2. 0 \in 0 .. n
    BY <1>1
  <2>3. v \in S
    BY <1>2, <2>1
  <2>4. \A k \in S : k \in 0 .. n
    BY <1>1, <2>2
  <2> HIDE DEF S
  <2> QED BY <2>1, <2>3, <2>4
<1>4. \A k \in S : k <= v
  BY <1>3 DEF E
<1> HIDE DEF S
<1>5. m \in S /\ m \in 0 .. n /\ \A x \in S : x <= m
  BY <1>1, <1>2, <1>3, GreatestIs
<1>6. m <= v /\ v <= m
  BY <1>3, <1>4, <1>5
<1>7. m \in Nat
  BY <1>1, <1>5
<1> QED BY <1>3, <1>6, <1>7 DEF m

LEMMA NextUnique ==
    ASSUME NEW p \in Seq(Glyphs), NEW q \in Nat, NEW v \in Boundaries(p), q < v,
           \A k \in Boundaries(p) : q < k => v <= k
    PROVE  NextBoundary(p, q) = v
<1> DEFINE n == Len(p)
           E == Boundaries(p)
           S == {n} \cup {k \in E : k > q}
           m == NextBoundary(p, q)
<1>1. n \in Nat /\ E \in SUBSET (0 .. n)
  BY DEF Boundaries
<1>2. m = Min(S) /\ v \in E
  BY DEF NextBoundary
<1> HIDE DEF E, n, m
<1>3. S \in SUBSET Nat /\ S # {} /\ v \in S /\ v \in Nat /\ v <= n
  <2>1. v \in 0 .. n /\ v > q
    BY <1>1, <1>2
  <2>2. \A k \in 0 .. n : k \in Nat
    BY <1>1
  <2>3. v \in S
    BY <1>2, <2>1
  <2>4. \A k \in S : k \in Nat
    BY <1>1, <2>2
  <2> HIDE DEF S
  <2> QED BY <1>1, <2>1, <2>3, <2>4
<1>4. \A k \in S : v <= k
  <2> TAKE k \in S
  <2>1. CASE k = n
    BY <1>3, <2>1
  <2>2. CASE k \in E /\ k > q
    <3>1. q < k
      BY <1>1, <2>2
    <3> QED BY <2>2, <3>1 DEF E
  <2> QED BY <2>1, <2>2
<1> HIDE DEF S
<1>5. m \in S /\ \A x \in S : m <= x
  BY <1>2, <1>3, LeastIs
<1>6. m <= v /\ v <= m /\ m \in Nat
  BY <1>3, <1>4, <1>5
<1> QED BY <1>3, <1>6 DEF m

\* The character before a place of the page, and the one after it.
LEMMA PrevInside ==
    ASSUME NEW d \in Seq(Blocks), SoundDoc(d), NEW i \in 1 .. Len(d), NEW t, t = TextOf(d[i]),
           NEW at \in 0 .. Len(t), at # 0
    PROVE  PrevBoundary(Plain(d), BlockStart(d, i) + at) = BlockStart(d, i) + PrevBoundary(t, at)
<1> DEFINE P == Plain(d)
           B == BlockStart(d, i)
           n == Len(t)
           v == PrevBoundary(t, at)
<1>1. P \in Seq(Glyphs) /\ t \in Seq(Bytes) /\ n \in Nat /\ B \in Nat /\ at \in 0 .. n
  BY PlainFrame
<1>2. v \in Boundaries(t) /\ v \in 0 .. n /\ v < at /\ \A k \in Boundaries(t) : k < at => k <= v
  BY <1>1, PrevIs
<1>3. \A k \in 0 .. n : B + k \in Boundaries(P) <=> k \in Boundaries(t)
  BY BoundaryInPlain
<1>4. Boundaries(P) \subseteq Nat
  BY <1>1 DEF Boundaries
<1> HIDE DEF P, B, n, v
<1>5. B + v \in Boundaries(P) /\ B + v < B + at /\ B + at \in Nat
  BY <1>1, <1>2, <1>3
<1>6. ASSUME NEW k \in Boundaries(P), k < B + at PROVE k <= B + v
  <2>1. k \in Nat
    BY <1>4
  <2>2. CASE k <= B
    BY <1>1, <1>2, <2>1, <2>2
  <2>3. CASE ~(k <= B)
    <3>1. k - B \in 0 .. n /\ k - B < at /\ B + (k - B) = k
      BY <1>1, <1>6, <2>1, <2>3
    <3> DEFINE j == k - B
    <3>2. B + j \in Boundaries(P) /\ j \in 0 .. n
      BY <3>1
    <3>3. j \in Boundaries(t) /\ j < at
      BY <1>3, <3>1, <3>2
    <3>4. j <= v
      BY <1>2, <3>3
    <3> QED BY <1>1, <1>2, <2>1, <3>4
  <2> QED BY <2>2, <2>3
<1> DEFINE q == B + at
           w == B + v
<1>7. q \in Nat /\ w \in Boundaries(P) /\ w < q /\ \A k \in Boundaries(P) : k < q => k <= w
  BY <1>5, <1>6
<1> HIDE DEF q, w
<1>8. PrevBoundary(P, q) = w
  BY <1>1, <1>7, PrevUnique
<1> QED BY <1>8 DEF q, w, P, B, v

LEMMA PrevBorder ==
    ASSUME NEW d \in Seq(Blocks), SoundDoc(d), NEW i \in 1 .. Len(d), i > 1
    PROVE  /\ PrevBoundary(Plain(d), BlockStart(d, i)) = BlockStart(d, i - 1) + Len(TextOf(d[i - 1]))
           /\ BlockStart(d, i) = BlockStart(d, i - 1) + Len(TextOf(d[i - 1])) + 1
<1> DEFINE P == Plain(d)
           h == i - 1
           t == TextOf(d[h])
           n == Len(t)
           B == BlockStart(d, h)
           C == BlockStart(d, i)
<1>1. h \in 1 .. Len(d) /\ h # Len(d) /\ h + 1 = i
  OBVIOUS
<1> HIDE DEF h
<1>2. P \in Seq(Glyphs) /\ t \in Seq(Bytes) /\ n \in Nat /\ B \in Nat /\ C = B + n + 1
  BY <1>1, PlainFrame
<1>3. n \in Boundaries(t) /\ n \in 0 .. n
  BY <1>2, BoundaryFacts
<1>4. B + n \in Boundaries(P)
  BY <1>1, <1>3, BoundaryInPlain
<1>5. Boundaries(P) \subseteq Nat
  BY <1>2 DEF Boundaries
<1> DEFINE w == B + n
<1>6. C \in Nat /\ w < C /\ w \in Boundaries(P) /\ \A k \in Nat : k < C => k <= w
  <2> HIDE DEF B, C, n, P
  <2> QED BY <1>2, <1>4
<1> HIDE DEF w, C, P
<1>7. \A k \in Boundaries(P) : k < C => k <= w
  BY <1>5, <1>6
<1>8. PrevBoundary(P, C) = w
  BY <1>2, <1>6, <1>7, PrevUnique
<1> QED BY <1>2, <1>8 DEF w, C, P, h

LEMMA PrevFirst ==
    ASSUME NEW p \in Seq(Glyphs)
    PROVE  PrevBoundary(p, 0) = 0
<1> DEFINE n == Len(p)
           E == Boundaries(p)
           z == 0
           S == {0} \cup {k \in E : k < z}
<1>1. E \in SUBSET Nat
  BY DEF Boundaries
<1>2. PrevBoundary(p, z) = Max(S)
  BY DEF PrevBoundary
<1> HIDE DEF E
<1>3. S = {0}
  <2>1. \A k \in E : ~(k < z)
    BY <1>1
  <2> QED BY <2>1
<1>4. 0 \in Nat /\ S \in SUBSET (0 .. 0) /\ S # {}
  BY <1>3
<1> HIDE DEF S
<1>5. Max(S) \in S
  BY <1>4, GreatestIs
<1> QED BY <1>2, <1>3, <1>5

LEMMA NextInside ==
    ASSUME NEW d \in Seq(Blocks), SoundDoc(d), NEW i \in 1 .. Len(d), NEW t, t = TextOf(d[i]),
           NEW at \in 0 .. Len(t), at # Len(t)
    PROVE  NextBoundary(Plain(d), BlockStart(d, i) + at) = BlockStart(d, i) + NextBoundary(t, at)
<1> DEFINE P == Plain(d)
           B == BlockStart(d, i)
           n == Len(t)
           v == NextBoundary(t, at)
<1>1. P \in Seq(Glyphs) /\ t \in Seq(Bytes) /\ n \in Nat /\ B \in Nat /\ at \in 0 .. n /\ at # n
  BY PlainFrame
<1>2. v \in Boundaries(t) /\ v \in 0 .. n /\ at < v /\ \A k \in Boundaries(t) : at < k => v <= k
  BY <1>1, NextIs
<1>3. \A k \in 0 .. n : B + k \in Boundaries(P) <=> k \in Boundaries(t)
  BY BoundaryInPlain
<1>4. Boundaries(P) \subseteq Nat
  BY <1>1 DEF Boundaries
<1> HIDE DEF P, B, n, v
<1>5. B + v \in Boundaries(P) /\ B + at < B + v /\ B + at \in Nat
  BY <1>1, <1>2, <1>3
<1>6. ASSUME NEW k \in Boundaries(P), B + at < k PROVE B + v <= k
  <2>1. k \in Nat
    BY <1>4
  <2>2. CASE k >= B + n
    BY <1>1, <1>2, <2>1, <2>2
  <2>3. CASE ~(k >= B + n)
    <3>1. k - B \in 0 .. n /\ at < k - B /\ B + (k - B) = k
      BY <1>1, <1>6, <2>1, <2>3
    <3> DEFINE j == k - B
    <3>2. B + j \in Boundaries(P) /\ j \in 0 .. n
      BY <3>1
    <3>3. j \in Boundaries(t) /\ at < j
      BY <1>3, <3>1, <3>2
    <3>4. v <= j
      BY <1>2, <3>3
    <3> QED BY <1>1, <1>2, <2>1, <3>4
  <2> QED BY <2>2, <2>3
<1> DEFINE q == B + at
           w == B + v
<1>7. q \in Nat /\ w \in Boundaries(P) /\ q < w /\ \A k \in Boundaries(P) : q < k => w <= k
  BY <1>5, <1>6
<1> HIDE DEF q, w
<1>8. NextBoundary(P, q) = w
  BY <1>1, <1>7, NextUnique
<1> QED BY <1>8 DEF q, w, P, B, v

LEMMA NextBorder ==
    ASSUME NEW d \in Seq(Blocks), SoundDoc(d), NEW i \in 1 .. Len(d), i < Len(d)
    PROVE  /\ NextBoundary(Plain(d), BlockStart(d, i) + Len(TextOf(d[i]))) = BlockStart(d, i + 1)
           /\ BlockStart(d, i + 1) = BlockStart(d, i) + Len(TextOf(d[i])) + 1
<1> DEFINE P == Plain(d)
           h == i + 1
           t == TextOf(d[i])
           u == TextOf(d[h])
           n == Len(t)
           B == BlockStart(d, i)
           C == BlockStart(d, h)
           q == B + n
<1>1. h \in 1 .. Len(d) /\ i # Len(d)
  OBVIOUS
<1>2. P \in Seq(Glyphs) /\ n \in Nat /\ B \in Nat /\ C = B + n + 1
  BY <1>1, PlainFrame
<1> HIDE DEF h
<1>3. u \in Seq(Bytes) /\ C \in Nat /\ 0 \in 0 .. Len(u)
  <2>1. u \in Seq(Bytes) /\ C \in Nat
    BY <1>1, PlainFrame
  <2> QED BY <2>1
<1>4. 0 \in Boundaries(u)
  BY <1>3, BoundaryFacts
<1>5. C + 0 \in Boundaries(P)
  BY <1>1, <1>3, <1>4, BoundaryInPlain
<1>6. Boundaries(P) \subseteq Nat
  BY <1>2 DEF Boundaries
<1> HIDE DEF B, C, n, P
<1>7. q \in Nat /\ q < C /\ C \in Boundaries(P) /\ \A k \in Nat : q < k => C <= k
  BY <1>2, <1>3, <1>5
<1> HIDE DEF q
<1>8. \A k \in Boundaries(P) : q < k => C <= k
  BY <1>6, <1>7
<1>9. NextBoundary(P, q) = C
  BY <1>2, <1>7, <1>8, NextUnique
<1> QED BY <1>2, <1>9 DEF q, C, P, h, B, n

LEMMA NextLast ==
    ASSUME NEW p \in Seq(Glyphs)
    PROVE  NextBoundary(p, Len(p)) = Len(p)
<1> DEFINE n == Len(p)
           E == Boundaries(p)
           S == {n} \cup {k \in E : k > n}
<1>1. E \in SUBSET (0 .. n) /\ n \in Nat
  BY DEF Boundaries
<1>2. NextBoundary(p, n) = Min(S)
  BY DEF NextBoundary
<1> HIDE DEF E, n
<1>3. S = {n}
  <2>1. \A k \in E : ~(k > n)
    BY <1>1
  <2> QED BY <2>1
<1>4. S \in SUBSET Nat /\ S # {}
  BY <1>1, <1>3
<1> HIDE DEF S
<1>5. Min(S) \in S
  BY <1>4, LeastIs
<1> QED BY <1>2, <1>3, <1>5 DEF n

LEMMA WholeCut ==
    ASSUME NEW B, NEW s \in Seq(B)
    PROVE  UpTo(s, Len(s)) = s /\ After(s, 0) = s
<1>1. SubSeq(s, 1, Len(s)) = s
  BY PrefixFacts
<1>2. 0 + 1 = 1
  OBVIOUS
<1> QED BY <1>1, <1>2 DEF UpTo, After

\* Blocks that become one, without what is between two of their places.
LEMMA Rejoined ==
    ASSUME NEW d \in Seq(Blocks), SoundDoc(d), NEW a \in 1 .. Len(d), NEW f \in 1 .. Len(d), a <= f,
           NEW ta, ta = TextOf(d[a]), NEW tf, tf = TextOf(d[f]),
           NEW x \in Boundaries(ta), NEW y \in Boundaries(tf),
           NEW value, value = Cat(UpTo(ta, x), After(tf, y)),
           NEW b, b = Written(d[a], value)
    PROVE  /\ b \in Blocks /\ b.id = d[a].id /\ x \in Boundaries(TextOf(b))
           /\ Plain(Swap(d, a, <<b>>, f)) = Without(Plain(d), BlockStart(d, a) + x, BlockStart(d, f) + y)
           /\ value \in Seq(Bytes) /\ TextOf(b) = value
<1> DEFINE u == UpTo(ta, x)
           v == After(tf, y)
           none == <<>>
           lower == BlockStart(d, a) + x
           upper == BlockStart(d, f) + y
           p == Plain(d)
<1>1. /\ d[a] \in Blocks /\ d[f] \in Blocks /\ Sound(d[a]) /\ Sound(d[f])
  BY DEF SoundDoc
<1>2. ta \in Seq(Bytes) /\ tf \in Seq(Bytes) /\ Whole(ta) /\ Whole(tf)
  BY <1>1, SoundText
<1>3. x \in 0 .. Len(ta) /\ y \in 0 .. Len(tf)
  BY <1>2, BoundaryFacts
<1>4. u \in Seq(Bytes) /\ Len(u) = x /\ v \in Seq(Bytes) /\ Whole(v)
  <2>1. u \in Seq(Bytes) /\ Len(u) = x
    BY <1>2, <1>3, PartTypes
  <2>2. v \in Seq(Bytes) /\ Whole(v)
    BY <1>2, WholeParts
  <2> QED BY <2>1, <2>2
<1>5. value = Cat(u, v)
  OBVIOUS
<1> HIDE DEF u, v, none
<1>6. value \in Seq(Bytes)
  BY <1>4, <1>5, CatFacts
<1>7. b \in Blocks /\ b.id = d[a].id /\ TextOf(b) = value
  BY <1>1, <1>6, WrittenFacts
<1>8. x \in Boundaries(TextOf(b))
  BY <1>4, <1>5, <1>7, CutBoundary
<1>9. none \in Seq(Bytes) /\ none \in Seq(Glyphs) /\ Cat(u, none) = u
  <2>1. none \in Seq(Bytes) /\ none \in Seq(Glyphs)
    BY DEF none
  <2>2. Cat(u, none) = u
    BY <1>4, CatNone DEF none
  <2> QED BY <2>1, <2>2
<1>10. TextOf(b) = Cat(Cat(UpTo(TextOf(d[a]), x), none), After(TextOf(d[f]), y))
  BY <1>5, <1>7, <1>9 DEF u, v
<1>11. Plain(Swap(d, a, <<b>>, f)) = Spliced(p, lower, none, upper)
  <2>1. x \in 0 .. Len(TextOf(d[a])) /\ y \in 0 .. Len(TextOf(d[f]))
    BY <1>3
  <2> QED BY <1>7, <1>9, <1>10, <2>1, SwapOne
<1>12. Spliced(p, lower, none, upper) = Without(p, lower, upper)
  <2>1. p \in Seq(Glyphs) /\ Len(p) \in Nat
    BY PlainFrame
  <2>2. BlockStart(d, a) \in Nat /\ BlockStart(d, a) + Len(ta) <= Len(p) /\ Len(ta) \in Nat
    BY PlainFrame
  <2>3. BlockStart(d, f) \in Nat /\ BlockStart(d, f) + Len(tf) <= Len(p) /\ Len(tf) \in Nat
    BY PlainFrame
  <2> HIDE DEF p
  <2>4. lower \in 0 .. Len(p) /\ upper \in 0 .. Len(p)
    BY <1>3, <2>1, <2>2, <2>3
  <2> HIDE DEF lower, upper
  <2>5. Spliced(p, lower, <<>>, upper) = Without(p, lower, upper)
    <3>1. <<>> \in Seq(Glyphs)
      OBVIOUS
    <3> QED BY <2>1, <2>4, <3>1, SplicedIs
  <2> QED BY <2>5 DEF none
<1> QED BY <1>6, <1>7, <1>8, <1>11, <1>12

\* A document in which blocks became one, with the caret in it.
LEMMA RejoinedStands ==
    ASSUME NEW d \in Seq(Blocks), SoundDoc(d), NEW a \in 1 .. Len(d), NEW f \in 1 .. Len(d), a <= f,
           NEW x \in Boundaries(TextOf(d[a])), NEW y \in Boundaries(TextOf(d[f])),
           NEW value, value = Cat(UpTo(TextOf(d[a]), x), After(TextOf(d[f]), y)),
           NEW e \in Editing, e.doc = Swap(d, a, <<Written(d[a], value)>>, f),
           e.anchor = e.focus, e.focus = At(d[a].id, x)
    PROVE  /\ Stands(e, a, BlockStart(d, a) + x)
           /\ Plain(e.doc) = Without(Plain(d), BlockStart(d, a) + x, BlockStart(d, f) + y)
<1> DEFINE b == Written(d[a], value)
<1>1. /\ b \in Blocks /\ b.id = d[a].id /\ x \in Boundaries(TextOf(b))
      /\ Plain(Swap(d, a, <<b>>, f)) = Without(Plain(d), BlockStart(d, a) + x, BlockStart(d, f) + y)
  BY Rejoined
<1>2. e.doc = Swap(d, a, <<b>>, f) /\ e.focus = At(b.id, x)
  BY <1>1
<1> HIDE DEF b
<1>3. Stands(e, a, BlockStart(d, a) + x)
  BY <1>1, <1>2, StandsInSwap
<1> QED BY <1>1, <1>2, <1>3

Erased(f, p, from, to) == (\E j : Stands(f, j, from)) /\ Plain(f.doc) = Without(p, from, to)

\* Nothing to erase at an end of the page.
LEMMA DirtyStands ==
    ASSUME NEW e, NEW i, NEW p, Stands(e, i, p)
    PROVE  Erased(Dirty(e), Plain(e.doc), p, p)
<1> DEFINE s == Plain(e.doc)
           d == e.doc
           t == TextOf(d[i])
           k == e.focus.offset
<1>1. e \in Editing /\ i \in 1 .. Len(d) /\ p = BlockStart(d, i) + k /\ k \in Boundaries(t)
  BY DEF Stands
<1>2. Dirty(e) \in Editing /\ Dirty(e).doc = d /\ Dirty(e).anchor = e.anchor /\ Dirty(e).focus = e.focus
  BY <1>1, DirtySet
<1>3. Stands(Dirty(e), i, p)
  BY <1>2 DEF Stands
<1>4. d \in Seq(Blocks)
  BY <1>1, EditingFacts, DocumentFacts
<1>5. /\ s \in Seq(Glyphs) /\ t \in Seq(Bytes) /\ BlockStart(d, i) \in Nat /\ Len(t) \in Nat
      /\ BlockStart(d, i) + Len(t) <= Len(s) /\ Len(s) \in Nat
  BY <1>1, <1>4, PlainFrame
<1>6. k \in 0 .. Len(t)
  <2> HIDE DEF t, k
  <2> QED BY <1>1, <1>5, BoundaryFacts
<1>7. p \in 0 .. Len(s)
  <2> HIDE DEF s, t, k, d
  <2> QED BY <1>1, <1>5, <1>6
<1>8. Without(s, p, p) = s
  <2> HIDE DEF s
  <2> QED BY <1>5, <1>7, WithoutNone
<1> QED BY <1>2, <1>3, <1>8 DEF Erased

\* Backspace at a caret.
LEMMA BackErases ==
    ASSUME NEW e, NEW i, NEW p, Stands(e, i, p), SoundDoc(e.doc)
    PROVE  Erased(BackIn(e, i), Plain(e.doc), PrevBoundary(Plain(e.doc), p), p)
<1> DEFINE d == e.doc
           P == Plain(d)
           t == TextOf(d[i])
           at == e.focus.offset
           f == BackIn(e, i)
           prev == PrevBoundary(t, at)
<1>1. /\ Spot(e, i, at) /\ e \in Editing /\ i \in 1 .. Len(d) /\ p = BlockStart(d, i) + at
      /\ e.focus.block = d[i].id /\ at \in Boundaries(t)
  BY StandsAt DEF Stands
<1>2. d \in Seq(Blocks) /\ t \in Seq(Bytes) /\ at \in 0 .. Len(t) /\ at \in Nat
  BY <1>1 DEF Spot
<1>3. P \in Seq(Glyphs) /\ BlockStart(d, i) \in Nat /\ (i = 1 => BlockStart(d, i) = 0)
  BY <1>1, <1>2, PlainFrame
<1>4. i - 1 \in Nat /\ i \in Nat /\ SoundDoc(d) /\ i <= i
  BY <1>1
<1>5. CASE at > 0
  <2> DEFINE b == Written(d[i], Without(t, prev, at))
             new == BlockSet(d, i, b)
             value == Cat(UpTo(t, prev), After(t, at))
  <2>1. Puts(f, new, At(e.focus.block, prev))
    BY <1>1, <1>5, BackIs
  <2>2. prev \in Boundaries(t) /\ prev \in 0 .. Len(t) /\ at # 0
    <3>1. at # 0
      BY <1>2, <1>5
    <3> HIDE DEF t, at
    <3> QED BY <1>2, <3>1, PrevIs
  <2>3. Without(t, prev, at) = value
    <3> HIDE DEF t, at, prev
    <3> QED BY <1>2, <2>2, WithoutType
  <2>4. new = Swap(d, i, <<Written(d[i], value)>>, i)
    <3>1. Written(d[i], value) \in Blocks
      <4> HIDE DEF d, t, at, prev, value
      <4>1. t = TextOf(d[i]) /\ value = Cat(UpTo(t, prev), After(t, at))
        BY DEF t, value
      <4> QED BY <1>1, <1>2, <1>4, <2>2, <4>1, Rejoined
    <3> HIDE DEF value
    <3>2. new = BlockSet(d, i, Written(d[i], value))
      BY <2>3
    <3> QED BY <1>1, <1>2, <3>1, <3>2, SetIsSwap
  <2>5. f \in Editing /\ f.doc = Swap(d, i, <<Written(d[i], value)>>, i) /\ f.anchor = f.focus
        /\ f.focus = At(d[i].id, prev)
    <3> HIDE DEF f, new
    <3> QED BY <1>1, <2>1, <2>4 DEF Puts
  <2>6. i <= i
    BY <1>4
  <2> HIDE DEF f
  <2>7. /\ Stands(f, i, BlockStart(d, i) + prev)
        /\ Plain(f.doc) = Without(P, BlockStart(d, i) + prev, BlockStart(d, i) + at)
    <3>1. prev \in Boundaries(TextOf(d[i])) /\ at \in Boundaries(TextOf(d[i]))
          /\ value = Cat(UpTo(TextOf(d[i]), prev), After(TextOf(d[i]), at))
      BY <1>1, <2>2
    <3> HIDE DEF d, at, prev, value, P
    <3>2. Plain(f.doc) = Without(Plain(d), BlockStart(d, i) + prev, BlockStart(d, i) + at)
      BY <1>1, <1>2, <1>4, <2>5, <3>1, RejoinedStands
    <3>3. Stands(f, i, BlockStart(d, i) + prev)
      BY <1>1, <1>2, <1>4, <2>5, <3>1, RejoinedStands
    <3> QED BY <3>2, <3>3 DEF P
  <2>8. PrevBoundary(P, p) = BlockStart(d, i) + prev
    <3>1. PrevBoundary(P, BlockStart(d, i) + at) = BlockStart(d, i) + prev
      <4> HIDE DEF at
      <4> QED BY <1>1, <1>2, <2>2, PrevInside
    <3> QED BY <1>1, <3>1
  <2> QED BY <1>1, <2>7, <2>8 DEF Erased, f
<1>6. CASE ~(at > 0) /\ i > 1
  <2> DEFINE h == i - 1
             u == TextOf(d[h])
             n == Len(u)
             value == Cat(u, t)
             z == 0
  <2>1. at = 0
    BY <1>2, <1>6
  <2>2. Puts(f, Swap(d, h, <<Written(d[h], value)>>, i), At(d[h].id, n))
    BY <1>1, <1>6, BackIs
  <2>3. h \in 1 .. Len(d) /\ h <= i
    BY <1>1, <1>6
  <2> HIDE DEF h
  <2>4. u \in Seq(Bytes) /\ n \in Boundaries(u) /\ z \in Boundaries(t)
    <3>1. u \in Seq(Bytes)
      BY <1>2, <2>3, PlainFrame
    <3> HIDE DEF u, t
    <3> QED BY <1>2, <3>1, BoundaryFacts
  <2>5. value = Cat(UpTo(u, n), After(t, z))
    <3> HIDE DEF u, t
    <3>1. UpTo(u, n) = u /\ After(t, z) = t
      BY <1>2, <2>4, WholeCut
    <3> QED BY <3>1
  <2>6. f \in Editing /\ f.doc = Swap(d, h, <<Written(d[h], value)>>, i) /\ f.anchor = f.focus
        /\ f.focus = At(d[h].id, n)
    <3> HIDE DEF f
    <3> QED BY <2>2 DEF Puts
  <2> HIDE DEF f, value, z, n
  <2>7. /\ Stands(f, h, BlockStart(d, h) + n)
        /\ Plain(f.doc) = Without(P, BlockStart(d, h) + n, BlockStart(d, i) + z)
    <3>1. n \in Boundaries(TextOf(d[h])) /\ z \in Boundaries(TextOf(d[i]))
          /\ value = Cat(UpTo(TextOf(d[h]), n), After(TextOf(d[i]), z))
      BY <1>1, <2>4, <2>5
    <3> HIDE DEF d, P
    <3>2. Plain(f.doc) = Without(Plain(d), BlockStart(d, h) + n, BlockStart(d, i) + z)
      BY <1>1, <1>2, <1>4, <2>3, <2>6, <3>1, RejoinedStands
    <3>3. Stands(f, h, BlockStart(d, h) + n)
      BY <1>1, <1>2, <1>4, <2>3, <2>6, <3>1, RejoinedStands
    <3> QED BY <3>2, <3>3 DEF P
  <2>8. PrevBoundary(P, BlockStart(d, i)) = BlockStart(d, h) + n
    BY <1>1, <1>2, <1>6, PrevBorder DEF h, n
  <2>9. p = BlockStart(d, i) + z /\ p = BlockStart(d, i)
    BY <1>1, <1>3, <2>1 DEF z
  <2> QED BY <2>7, <2>8, <2>9 DEF Erased, f
<1>7. CASE ~(at > 0) /\ ~(i > 1)
  <2>1. at = 0 /\ i = 1
    BY <1>1, <1>2, <1>4, <1>7
  <2>2. f = Dirty(e)
    BY <1>1, <1>7, BackIs
  <2>3. p = 0
    BY <1>1, <1>3, <2>1
  <2>4. PrevBoundary(P, p) = p
    <3> HIDE DEF P
    <3> QED BY <1>3, <2>3, PrevFirst
  <2>5. Erased(Dirty(e), P, p, p)
    BY DirtyStands
  <2> QED BY <2>2, <2>4, <2>5
<1> QED BY <1>5, <1>6, <1>7

\* Delete at a caret.
LEMMA ForwardErases ==
    ASSUME NEW e, NEW i, NEW p, Stands(e, i, p), SoundDoc(e.doc)
    PROVE  Erased(ForwardIn(e, i), Plain(e.doc), p, NextBoundary(Plain(e.doc), p))
<1> DEFINE d == e.doc
           P == Plain(d)
           t == TextOf(d[i])
           at == e.focus.offset
           f == ForwardIn(e, i)
           next == NextBoundary(t, at)
<1>1. /\ Spot(e, i, at) /\ e \in Editing /\ i \in 1 .. Len(d) /\ p = BlockStart(d, i) + at
      /\ e.focus.block = d[i].id /\ at \in Boundaries(t) /\ e.anchor = e.focus /\ e.focus \in Points
  BY StandsAt, EditingFacts DEF Stands
<1>2. d \in Seq(Blocks) /\ t \in Seq(Bytes) /\ at \in 0 .. Len(t) /\ at \in Nat /\ Len(t) \in Nat
  BY <1>1 DEF Spot
<1>3. P \in Seq(Glyphs) /\ BlockStart(d, i) \in Nat /\ (i = Len(d) => BlockStart(d, i) + Len(t) = Len(P))
  BY <1>1, <1>2, PlainFrame
<1>4. i \in Nat /\ Len(d) \in Nat /\ SoundDoc(d) /\ i <= i
  BY <1>1
<1>5. e.focus = At(d[i].id, at)
  <2> DEFINE q == e.focus
  <2>1. q \in [block : Ids \cup {Default1, Default2}, offset : Nat] /\ q.block = d[i].id
    BY <1>1 DEF Points
  <2> HIDE DEF q
  <2>2. q = [block |-> q.block, offset |-> q.offset]
    BY <2>1
  <2> QED BY <2>1, <2>2 DEF q, At
<1>6. CASE at < Len(t)
  <2> DEFINE b == Written(d[i], Without(t, at, next))
             new == BlockSet(d, i, b)
             value == Cat(UpTo(t, at), After(t, next))
  <2>1. Leaves(f, e, new)
    BY <1>1, <1>6, ForwardIs
  <2>2. next \in Boundaries(t) /\ next \in 0 .. Len(t) /\ at # Len(t)
    <3>1. at # Len(t)
      BY <1>2, <1>6
    <3> HIDE DEF t, at
    <3> QED BY <1>2, <3>1, NextIs
  <2>3. Without(t, at, next) = value
    <3> HIDE DEF t, at, next
    <3> QED BY <1>2, <2>2, WithoutType
  <2>4. new = Swap(d, i, <<Written(d[i], value)>>, i)
    <3>1. Written(d[i], value) \in Blocks
      <4> HIDE DEF d, t, at, next, value
      <4>1. t = TextOf(d[i]) /\ value = Cat(UpTo(t, at), After(t, next))
        BY DEF t, value
      <4> QED BY <1>1, <1>2, <1>4, <2>2, <4>1, Rejoined
    <3> HIDE DEF value
    <3>2. new = BlockSet(d, i, Written(d[i], value))
      BY <2>3
    <3> QED BY <1>1, <1>2, <3>1, <3>2, SetIsSwap
  <2>5. f \in Editing /\ f.doc = Swap(d, i, <<Written(d[i], value)>>, i) /\ f.anchor = f.focus
        /\ f.focus = At(d[i].id, at)
    <3> HIDE DEF f, new, value, next
    <3> QED BY <1>1, <1>5, <2>1, <2>4 DEF Leaves
  <2>6. i <= i
    BY <1>4
  <2> HIDE DEF f
  <2>7. /\ Stands(f, i, BlockStart(d, i) + at)
        /\ Plain(f.doc) = Without(P, BlockStart(d, i) + at, BlockStart(d, i) + next)
    <3>1. at \in Boundaries(TextOf(d[i])) /\ next \in Boundaries(TextOf(d[i]))
          /\ value = Cat(UpTo(TextOf(d[i]), at), After(TextOf(d[i]), next))
      BY <1>1, <2>2
    <3> HIDE DEF d, at, next, value, P
    <3>2. Plain(f.doc) = Without(Plain(d), BlockStart(d, i) + at, BlockStart(d, i) + next)
      BY <1>1, <1>2, <1>4, <2>5, <3>1, RejoinedStands
    <3>3. Stands(f, i, BlockStart(d, i) + at)
      BY <1>1, <1>2, <1>4, <2>5, <3>1, RejoinedStands
    <3> QED BY <3>2, <3>3 DEF P
  <2>8. NextBoundary(P, p) = BlockStart(d, i) + next
    <3>1. NextBoundary(P, BlockStart(d, i) + at) = BlockStart(d, i) + next
      <4> HIDE DEF at
      <4> QED BY <1>1, <1>2, <2>2, NextInside
    <3> QED BY <1>1, <3>1
  <2> QED BY <1>1, <2>7, <2>8 DEF Erased, f
<1>7. CASE ~(at < Len(t)) /\ i < Len(d)
  <2> DEFINE h == i + 1
             u == TextOf(d[h])
             value == Cat(t, u)
             z == 0
  <2>1. at = Len(t)
    BY <1>2, <1>7
  <2>2. Leaves(f, e, Swap(d, i, <<Written(d[i], value)>>, h))
    BY <1>1, <1>7, ForwardIs
  <2>3. h \in 1 .. Len(d) /\ i <= h
    BY <1>1, <1>7
  <2> HIDE DEF h
  <2>4. u \in Seq(Bytes) /\ z \in Boundaries(u) /\ BlockStart(d, h) \in Nat
    <3>1. u \in Seq(Bytes) /\ BlockStart(d, h) \in Nat
      BY <1>2, <2>3, PlainFrame
    <3> HIDE DEF u
    <3> QED BY <3>1, BoundaryFacts
  <2>5. value = Cat(UpTo(t, at), After(u, z))
    <3> HIDE DEF u, t
    <3>1. UpTo(t, Len(t)) = t /\ After(u, z) = u
      BY <1>2, <2>4, WholeCut
    <3> QED BY <2>1, <3>1
  <2>6. f \in Editing /\ f.doc = Swap(d, i, <<Written(d[i], value)>>, h) /\ f.anchor = f.focus
        /\ f.focus = At(d[i].id, at)
    <3> HIDE DEF f, value
    <3> QED BY <1>1, <1>5, <2>2 DEF Leaves
  <2> HIDE DEF f, value, z
  <2>7. /\ Stands(f, i, BlockStart(d, i) + at)
        /\ Plain(f.doc) = Without(P, BlockStart(d, i) + at, BlockStart(d, h) + z)
    <3>1. at \in Boundaries(TextOf(d[i])) /\ z \in Boundaries(TextOf(d[h]))
          /\ value = Cat(UpTo(TextOf(d[i]), at), After(TextOf(d[h]), z))
      BY <1>1, <2>4, <2>5
    <3> HIDE DEF d, P, at
    <3>2. Plain(f.doc) = Without(Plain(d), BlockStart(d, i) + at, BlockStart(d, h) + z)
      BY <1>1, <1>2, <1>4, <2>3, <2>6, <3>1, RejoinedStands
    <3>3. Stands(f, i, BlockStart(d, i) + at)
      BY <1>1, <1>2, <1>4, <2>3, <2>6, <3>1, RejoinedStands
    <3> QED BY <3>2, <3>3 DEF P
  <2>8. NextBoundary(P, p) = BlockStart(d, h)
    <3>1. NextBoundary(P, BlockStart(d, i) + Len(t)) = BlockStart(d, h)
      BY <1>1, <1>2, <1>7, NextBorder DEF h
    <3> QED BY <1>1, <2>1, <3>1
  <2>9. BlockStart(d, h) = BlockStart(d, h) + z
    BY <2>4 DEF z
  <2> QED BY <1>1, <2>7, <2>8, <2>9 DEF Erased, f
<1>8. CASE ~(at < Len(t)) /\ ~(i < Len(d))
  <2>1. at = Len(t) /\ i = Len(d)
    BY <1>1, <1>2, <1>4, <1>8
  <2>2. f = Dirty(e)
    BY <1>1, <1>8, ForwardIs
  <2>3. p = Len(P)
    BY <1>1, <1>3, <2>1
  <2>4. NextBoundary(P, p) = p
    <3> HIDE DEF P
    <3> QED BY <1>3, <2>3, NextLast
  <2>5. Erased(Dirty(e), P, p, p)
    BY DirtyStands
  <2> QED BY <2>2, <2>4, <2>5
<1> QED BY <1>6, <1>7, <1>8

-----------------------------------------------------------------------------
(* What is selected, in the text of the page. *)

\* Parts of a sequence that follow each other, joined.
LEMMA FlattenParts ==
    ASSUME NEW B, NEW p \in Seq(B), NEW pieces \in Seq(Seq(B)), NEW ends,
           ends \in [0 .. Len(pieces) -> 0 .. Len(p)],
           \A k \in 1 .. Len(pieces) :
               /\ ends[k - 1] <= ends[k]
               /\ pieces[k] = SubSeq(p, ends[k - 1] + 1, ends[k])
    PROVE  FlattenSeq(pieces) = SubSeq(p, ends[0] + 1, ends[Len(pieces)])
<1> DEFINE m == Len(pieces)
           Upto(k) == FlattenSeq(SubSeq(pieces, 1, k))
           Part(k) == SubSeq(p, ends[0] + 1, ends[k])
           S == {k \in 0 .. m : ~ (ends[0] <= ends[k] /\ Upto(k) = Part(k))}
<1>1. m \in Nat /\ Len(p) \in Nat /\ SubSeq(pieces, 1, m) = pieces /\ SubSeq(pieces, 1, 0) = <<>>
  BY PrefixFacts
<1>2. \A k \in 0 .. m : ends[k] \in 0 .. Len(p)
  OBVIOUS
<1>3. ASSUME S # {} PROVE FALSE
  <2>1. S \in SUBSET Nat
    BY <1>1
  <2>2. PICK k \in S : \A x \in S : k <= x
    <3> HIDE DEF S
    <3> QED BY <1>3, <2>1, LeastIs
  <2>3. k \in 0 .. m /\ ~ (ends[0] <= ends[k] /\ Upto(k) = Part(k))
    BY <2>2
  <2>4. CASE k = 0
    <3> DEFINE z == ends[0]
    <3>1. z \in Nat /\ z + 1 \in Int /\ z \in Int /\ z < z + 1 /\ z <= z
      BY <1>1, <1>2
    <3> HIDE DEF z
    <3>2. SubSeq(p, z + 1, z) = <<>>
      BY <3>1, SubSeqEmpty
    <3>3. FlattenSeq(<<>>) = <<>>
      BY DEF FlattenSeq
    <3>4. Upto(k) = <<>>
      BY <1>1, <2>4, <3>3
    <3>5. Part(k) = <<>>
      BY <2>4, <3>2 DEF z
    <3> QED BY <2>3, <2>4, <3>1, <3>4, <3>5 DEF z
  <2>5. CASE k # 0
    <3> DEFINE l == k - 1
               x == ends[0]
               y == ends[l]
               z == ends[k]
               front == SubSeq(pieces, 1, l)
               piece == pieces[k]
    <3>1. l \in 0 .. m /\ k \in 1 .. m /\ ~ (k <= l) /\ l + 1 = k /\ 0 \in 0 .. m
      BY <1>1, <2>3, <2>5
    <3> HIDE DEF S
    <3>2. l \notin S
      BY <2>2, <3>1
    <3>3. x <= y /\ Upto(l) = Part(l)
      BY <3>1, <3>2 DEF S
    <3>4. /\ y <= z /\ piece = SubSeq(p, y + 1, z)
          /\ x \in 0 .. Len(p) /\ y \in 0 .. Len(p) /\ z \in 0 .. Len(p)
      BY <1>2, <3>1
    <3>5. front \in Seq(Seq(B)) /\ piece \in Seq(B) /\ SubSeq(pieces, 1, k) = Append(front, piece)
      <4> DEFINE D == Seq(B)
      <4>1. pieces \in Seq(D)
        OBVIOUS
      <4> HIDE DEF D, l
      <4>2. SubSeq(pieces, 1, l) \in Seq(D)
        BY <3>1, <4>1, PrefixFacts
      <4>3. SubSeq(pieces, 1, k) = Append(SubSeq(pieces, 1, k - 1), pieces[k]) /\ pieces[k] \in D
        BY <3>1, <4>1, PrefixFacts
      <4> QED BY <4>2, <4>3 DEF D, l
    <3> HIDE DEF l, x, y, z
    <3>6. Upto(k) = Upto(l) \o piece
      <4> HIDE DEF front, piece
      <4>1. FlattenSeq(Append(front, piece)) = FlattenSeq(front) \o piece
        BY <3>5, FlattenAppend
      <4> QED BY <3>5, <4>1 DEF front
    <3>7. SubSeq(p, x + 1, y) \o SubSeq(p, y + 1, z) = SubSeq(p, x + 1, z)
      <4> DEFINE a == x + 1
      <4>1. a \in 1 .. Len(p) + 1 /\ y \in a - 1 .. Len(p) /\ z \in y .. Len(p)
        BY <1>1, <3>3, <3>4
      <4> HIDE DEF a
      <4>2. SubSeq(p, a, y) \o SubSeq(p, y + 1, z) = SubSeq(p, a, z)
        BY <4>1, ConcatAdjacentSubSeq
      <4> QED BY <4>2 DEF a
    <3>8. Upto(l) = SubSeq(p, x + 1, y) /\ Part(k) = SubSeq(p, x + 1, z)
      BY <3>3 DEF x, y, z
    <3>9. Upto(k) = Part(k)
      BY <3>4, <3>6, <3>7, <3>8
    <3>10. x <= z
      <4>1. x \in Nat /\ y \in Nat /\ z \in Nat
        BY <1>1, <3>4
      <4> QED BY <3>3, <3>4, <4>1
    <3> QED BY <2>3, <3>9, <3>10 DEF x, z
  <2> QED BY <2>4, <2>5
<1>4. m \in 0 .. m
  BY <1>1
<1>5. Upto(m) = Part(m)
  BY <1>3, <1>4
<1> QED BY <1>1, <1>5

Part(s, x, y) == SubSeq(s, x + 1, y)

\* What is selected of a block, in the text of the page.
LEMMA PlainPart ==
    ASSUME NEW d \in Seq(Blocks), NEW i \in 1 .. Len(d), NEW t, t = TextOf(d[i]),
           NEW x \in 0 .. Len(t), NEW y \in 0 .. Len(t), x <= y
    PROVE  Part(t, x, y) = Part(Plain(d), BlockStart(d, i) + x, BlockStart(d, i) + y)
<1> DEFINE P == Plain(d)
           B == BlockStart(d, i)
           m == x + 1
           M == B + x + 1
           N == B + y
           u == SubSeq(t, m, y)
           v == SubSeq(P, M, N)
<1>1. /\ P \in Seq(Glyphs) /\ Len(P) \in Nat /\ t \in Seq(Bytes) /\ Len(t) \in Nat
      /\ B \in Nat /\ B + Len(t) <= Len(P) /\ \A k \in 1 .. Len(t) : P[B + k] = t[k]
  BY PlainFrame
<1> HIDE DEF P, B
<1>2. t \in Seq(Glyphs)
  BY <1>1, BreakFacts
<1>3. /\ m \in Nat /\ y \in Nat /\ 1 <= m /\ y <= Len(t) /\ x \in Nat
      /\ M \in Nat /\ N \in Nat /\ 1 <= M /\ N <= Len(P)
  BY <1>1
<1> HIDE DEF m, M, N
<1>4. /\ u \in Seq(Glyphs) /\ Len(u) = (IF m <= y THEN y - m + 1 ELSE 0)
      /\ \A i_1 \in 1 .. y - m + 1 : u[i_1] = t[m + i_1 - 1]
  BY <1>2, <1>3, PartFacts
<1>5. /\ v \in Seq(Glyphs) /\ Len(v) = (IF M <= N THEN N - M + 1 ELSE 0)
      /\ \A i_1 \in 1 .. N - M + 1 : v[i_1] = P[M + i_1 - 1]
  BY <1>1, <1>3, PartFacts
<1> HIDE DEF u, v
<1>6. Len(u) = y - x /\ Len(v) = y - x
  BY <1>1, <1>3, <1>4, <1>5 DEF m, M, N
<1>7. ASSUME NEW k \in 1 .. y - x PROVE u[k] = v[k]
  <2>1. /\ k \in 1 .. y - m + 1 /\ k \in 1 .. N - M + 1
        /\ m + k - 1 = x + k /\ M + k - 1 = B + (x + k) /\ x + k \in 1 .. Len(t)
    BY <1>1, <1>3 DEF m, M, N
  <2>2. u[k] = t[x + k]
    BY <1>4, <2>1
  <2>3. v[k] = P[B + (x + k)]
    BY <1>5, <2>1
  <2> QED BY <1>1, <2>1, <2>2, <2>3
<1>8. u = v
  BY <1>4, <1>5, <1>6, <1>7, SeqEqual
<1> QED BY <1>8 DEF Part, u, v, m, M, N, P, B

LEMMA BreakPart ==
    ASSUME NEW d \in Seq(Blocks), NEW i \in 1 .. Len(d), i # 1, NEW t, t = TextOf(d[i]),
           NEW y \in 0 .. Len(t)
    PROVE  Break \o SubSeq(t, 1, y) = SubSeq(Plain(d), BlockStart(d, i), BlockStart(d, i) + y)
           /\ BlockStart(d, i) # 0
<1> DEFINE P == Plain(d)
           B == BlockStart(d, i)
           N == B + y
           z == 0
<1>1. /\ P \in Seq(Glyphs) /\ Len(P) \in Nat /\ Len(t) \in Nat
      /\ B \in Nat /\ B + Len(t) <= Len(P) /\ P[B] = NewlineByte
  BY PlainFrame
<1>2. B # 0
  <2>1. 1 < i /\ 1 \in 1 .. Len(d) /\ i \in 1 .. Len(d) + 1
    OBVIOUS
  <2>2. BlockStart(d, 1) + Len(TextOf(d[1])) < B
    BY <2>1, BlocksApart
  <2>3. BlockStart(d, 1) = 0 /\ Len(TextOf(d[1])) \in Nat
    BY <2>1, PlainFrame
  <2> QED BY <1>1, <2>2, <2>3
<1>3. Part(t, z, y) = Part(P, B + z, B + y)
  <2>1. z \in 0 .. Len(t) /\ z <= y
    BY <1>1
  <2>2. d \in Seq(Blocks) /\ i \in 1 .. Len(d) /\ t = TextOf(d[i]) /\ y \in 0 .. Len(t)
    OBVIOUS
  <2> HIDE DEF z
  <2> QED BY <2>1, <2>2, PlainPart
<1> HIDE DEF P, B
<1>4. B \in 1 .. Len(P) /\ N \in B .. Len(P)
  BY <1>1, <1>2
<1> HIDE DEF N
<1>5. SubSeq(P, B, N) = <<P[B]>> \o SubSeq(P, B + 1, N)
  BY <1>1, <1>4, SubSeqRecursiveFirst
<1>6. SubSeq(t, 1, y) = SubSeq(P, B + 1, N)
  <2>1. z + 1 = 1 /\ B + z + 1 = B + 1
    BY <1>1
  <2> QED BY <1>3, <2>1 DEF N, Part
<1> QED BY <1>1, <1>2, <1>5, <1>6 DEF Break, P, B, N

\* What a selection has of one of its blocks, and where that is in the page.
Piece(t, s, i) == (IF i = s.first THEN <<>> ELSE Break) \o PartOf(t, i, s)
LeftEnd(d, s, lower, i) == IF i = s.first THEN lower ELSE BlockStart(d, i) - 1
RightEnd(d, s, upper, i) == IF i = s.last THEN upper ELSE BlockStart(d, i) + Len(TextOf(d[i]))

LEMMA PieceIs ==
    ASSUME NEW e, e.doc \in Seq(Blocks), NEW s, NEW lower, NEW upper, Ranged(e, s, lower, upper),
           NEW i \in s.first .. s.last, NEW t, t = TextOf(e.doc[i]),
           NEW x, x = LeftEnd(e.doc, s, lower, i), NEW y, y = RightEnd(e.doc, s, upper, i)
    PROVE  /\ x \in 0 .. Len(Plain(e.doc)) /\ y \in 0 .. Len(Plain(e.doc)) /\ x <= y
           /\ Piece(t, s, i) \in Seq(Glyphs)
           /\ Piece(t, s, i) = Part(Plain(e.doc), x, y)
           /\ i # s.first => x = RightEnd(e.doc, s, upper, i - 1)
<1> DEFINE d == e.doc
           P == Plain(d)
           a == s.first
           f == s.last
           B == BlockStart(d, i)
           from == s.from
           hi == IF i = f THEN s.to ELSE Len(t)
           n == Len(t)
           u == PartOf(t, i, s)
<1>1. /\ a \in 1 .. Len(d) /\ f \in 1 .. Len(d) /\ d \in Seq(Blocks) /\ Len(d) \in Nat
      /\ (a = f => from <= s.to) /\ from \in Nat /\ from <= Len(TextOf(d[a]))
      /\ s.to \in Nat /\ s.to <= Len(TextOf(d[f]))
      /\ lower = BlockStart(d, a) + from /\ upper = BlockStart(d, f) + s.to
  BY DEF Ranged
<1>2. i \in 1 .. Len(d) /\ a <= i /\ i <= f /\ i \in a .. f
  BY <1>1
<1>3. /\ P \in Seq(Glyphs) /\ Len(P) \in Nat /\ t \in Seq(Bytes) /\ n \in Nat
      /\ B \in Nat /\ B + n <= Len(P)
  BY <1>1, <1>2, PlainFrame
<1>4. hi \in 0 .. n /\ y = B + hi
  <2>1. CASE i = f
    BY <1>1, <1>3, <2>1 DEF RightEnd
  <2>2. CASE i # f
    BY <1>1, <1>3, <2>2 DEF RightEnd
  <2> QED BY <2>1, <2>2
<1>5. u = SubSeq(t, IF i = a THEN from + 1 ELSE 1, hi)
  BY DEF PartOf
<1>6. t \in Seq(Glyphs)
  BY <1>3, BreakFacts
<1>7. CASE i = a
  <2>1. x = B + from /\ from \in 0 .. n
    BY <1>1, <1>3, <1>7 DEF LeftEnd
  <2>2. from <= hi
    <3>1. CASE i = f
      BY <1>1, <1>7, <3>1
    <3>2. CASE i # f
      BY <2>1, <1>3, <3>2
    <3> QED BY <3>1, <3>2
  <2>3. u = Part(t, from, hi)
    BY <1>5, <1>7 DEF Part
  <2>4. u \in Seq(Glyphs)
    <3> DEFINE m == from + 1
    <3>1. m \in Nat /\ 1 <= m /\ hi \in Nat /\ hi <= n
      BY <1>1, <1>3, <1>4
    <3>2. u = SubSeq(t, m, hi)
      BY <1>5, <1>7
    <3> HIDE DEF m, u, hi
    <3> QED BY <1>6, <3>1, <3>2, PartFacts
  <2> HIDE DEF u, hi, from, d
  <2>5. Part(t, from, hi) = Part(Plain(d), BlockStart(d, i) + from, BlockStart(d, i) + hi)
    <3>1. t = TextOf(d[i])
      BY DEF d
    <3> QED BY <1>1, <1>2, <1>4, <2>1, <2>2, <3>1, PlainPart
  <2>6. Piece(t, s, i) = <<>> \o u
    BY <1>7 DEF Piece, u, a
  <2>7. <<>> \o u = u
    BY <2>4
  <2>8. x \in 0 .. Len(P) /\ y \in 0 .. Len(P) /\ x <= y
    <3> HIDE DEF B, P, n
    <3> QED BY <1>3, <1>4, <2>1, <2>2
  <2> QED BY <1>4, <1>7, <2>1, <2>3, <2>4, <2>5, <2>6, <2>7, <2>8 DEF d, a
<1>8. CASE i # a
  <2> DEFINE h == i - 1
  <2>1. i # 1 /\ h \in 1 .. Len(d) /\ h # Len(d) /\ h # f /\ h + 1 = i
    BY <1>1, <1>2, <1>8
  <2> HIDE DEF h
  <2>2. x = B - 1
    BY <1>8 DEF LeftEnd
  <2>3. u = SubSeq(t, 1, hi)
    BY <1>5, <1>8
  <2>4. u \in Seq(Glyphs)
    <3>1. 1 \in Nat /\ hi \in Nat /\ hi <= n
      BY <1>3, <1>4
    <3> HIDE DEF u, hi
    <3> QED BY <1>6, <2>3, <3>1, PartFacts
  <2> HIDE DEF hi, u
  <2>5. Break \o SubSeq(t, 1, hi) = SubSeq(P, B, B + hi) /\ B # 0
    BY <1>1, <1>2, <1>4, <2>1, BreakPart
  <2>6. Piece(t, s, i) = Break \o u
    BY <1>8 DEF Piece, u
  <2>7. Break \o u \in Seq(Glyphs)
    BY <2>4, BreakFacts
  <2>8. x \in 0 .. Len(P) /\ y \in 0 .. Len(P) /\ x <= y /\ x + 1 = B
    <3> HIDE DEF B, P, n
    <3> QED BY <1>3, <1>4, <2>2, <2>5
  <2>9. Part(P, x, y) = SubSeq(P, B, B + hi)
    BY <1>4, <2>8 DEF Part
  <2>10. x = RightEnd(d, s, upper, h)
    <3>1. BlockStart(d, h + 1) = BlockStart(d, h) + Len(TextOf(d[h])) + 1 /\ BlockStart(d, h) \in Nat
          /\ Len(TextOf(d[h])) \in Nat
      BY <1>1, <2>1, PlainFrame
    <3> QED BY <1>3, <2>1, <2>2, <3>1 DEF RightEnd
  <2> QED BY <2>3, <2>5, <2>6, <2>7, <2>8, <2>9, <2>10 DEF h
<1> QED BY <1>7, <1>8

LEMMA CountedFrom ==
    ASSUME NEW a \in Int, NEW f \in Int, NEW c, c = f - a + 1, NEW k \in 1 .. c, NEW i, i = a + k - 1
    PROVE  /\ i \in a .. f /\ k \in 0 .. c /\ k - 1 \in 0 .. c /\ k # 0 /\ (k - 1 = 0 <=> i = a)
           /\ a + (k - 1) - 1 = i - 1
OBVIOUS

LEMMA SelectedIs ==
    ASSUME NEW e, e.doc \in Seq(Blocks), NEW s, NEW lower, NEW upper, Ranged(e, s, lower, upper),
           ~Collapsed(e)
    PROVE  SelectedIn(e, s) = Part(Plain(e.doc), lower, upper)
<1> DEFINE d == e.doc
           P == Plain(d)
           a == s.first
           f == s.last
           m == f - a + 1
           pieces == [k \in 1 .. m |-> Piece(TextOf(d[a + k - 1]), s, a + k - 1)]
           ends == [k \in 0 .. m |-> IF k = 0 THEN lower ELSE RightEnd(d, s, upper, a + k - 1)]
<1>1. a \in 1 .. Len(d) /\ f \in 1 .. Len(d) /\ a <= f /\ a # 0 /\ a \in Int /\ f \in Int
  BY DEF Ranged
<1>2. m \in Nat /\ 1 <= m /\ a + m - 1 = f /\ a + 1 - 1 = a
  BY <1>1
<1>3. SelectedIn(e, s) = FlattenSeq(pieces)
  <2>1. \A k \in 1 .. m : k = 1 <=> a + k - 1 = a
    BY <1>1
  <2>2. pieces = [k \in 1 .. f - a + 1 |-> (IF k = 1 THEN <<>> ELSE <<NewlineByte>>)
                                           \o PartOf(TextOf(d[a + k - 1]), a + k - 1, s)]
    BY <2>1 DEF Piece, Break
  <2> QED BY <1>1, <2>2 DEF SelectedIn
<1>4. ASSUME NEW k \in 1 .. m
      PROVE  /\ ends[k - 1] \in 0 .. Len(P) /\ ends[k] \in 0 .. Len(P) /\ ends[k - 1] <= ends[k]
             /\ pieces[k] \in Seq(Glyphs)
             /\ pieces[k] = SubSeq(P, ends[k - 1] + 1, ends[k])
  <2> DEFINE i == a + k - 1
             x == LeftEnd(d, s, lower, i)
             y == RightEnd(d, s, upper, i)
             t == TextOf(d[i])
  <2>1. i \in a .. f /\ k \in 0 .. m /\ k - 1 \in 0 .. m /\ k # 0 /\ (k - 1 = 0 <=> i = a)
        /\ a + (k - 1) - 1 = i - 1
    <3> DEFINE c == m
    <3>1. c = f - a + 1 /\ k \in 1 .. c /\ i = a + k - 1
      OBVIOUS
    <3> HIDE DEF a, f, c, i
    <3> QED BY <1>1, <3>1, CountedFrom
  <2>2. ends[k] = y /\ pieces[k] = Piece(t, s, i)
    BY <2>1
  <2>3. ends[k - 1] = IF i = a THEN lower ELSE RightEnd(d, s, upper, i - 1)
    BY <2>1
  <2> HIDE DEF i, x, y, t, ends, pieces
  <2>4. /\ x \in 0 .. Len(P) /\ y \in 0 .. Len(P) /\ x <= y
        /\ Piece(t, s, i) \in Seq(Glyphs)
        /\ Piece(t, s, i) = Part(P, x, y)
        /\ i # a => x = RightEnd(d, s, upper, i - 1)
    <3>1. i \in s.first .. s.last /\ t = TextOf(d[i]) /\ x = LeftEnd(d, s, lower, i)
          /\ y = RightEnd(d, s, upper, i)
      BY <2>1 DEF t, x, y
    <3> QED BY <3>1, PieceIs
  <2>5. ends[k - 1] = x
    <3>1. CASE i = a
      BY <2>3, <3>1 DEF x, LeftEnd
    <3>2. CASE i # a
      BY <2>3, <2>4, <3>2
    <3> QED BY <3>1, <3>2
  <2> QED BY <2>2, <2>4, <2>5 DEF Part
<1>5. Len(pieces) = m /\ pieces \in Seq(Seq(Glyphs))
  <2> DEFINE D == Seq(Glyphs)
  <2>1. \A k \in 1 .. m : pieces[k] \in D
    BY <1>4
  <2> HIDE DEF D
  <2>2. pieces \in [1 .. m -> D]
    <3> DEFINE Q(k) == Piece(TextOf(d[a + k - 1]), s, a + k - 1)
    <3>1. \A k \in 1 .. m : Q(k) \in D
      BY <2>1
    <3>2. pieces = [k \in 1 .. m |-> Q(k)]
      OBVIOUS
    <3> HIDE DEF Q, pieces
    <3> QED BY <3>1, <3>2
  <2> HIDE DEF pieces, m
  <2>3. pieces \in Seq(D) /\ Len(pieces) = m
    BY <1>2, <2>2
  <2> QED BY <2>3 DEF D
<1>6. ends \in [0 .. m -> 0 .. Len(P)]
  <2>1. \A k \in 0 .. m : ends[k] \in 0 .. Len(P)
    <3> TAKE k \in 0 .. m
    <3>1. CASE k = 0
      <4>1. 1 \in 1 .. m /\ 1 - 1 = 0
        BY <1>2
      <4> HIDE DEF ends, m, pieces, P
      <4>2. ends[1 - 1] \in 0 .. Len(P)
        BY <1>4, <4>1
      <4> QED BY <3>1, <4>1, <4>2
    <3>2. CASE k # 0
      <4>1. k \in 1 .. m
        BY <1>2, <3>2
      <4> QED BY <1>4, <4>1
    <3> QED BY <3>1, <3>2
  <2> DEFINE E(k) == IF k = 0 THEN lower ELSE RightEnd(d, s, upper, a + k - 1)
             L == 0 .. Len(P)
  <2>2. ends = [k \in 0 .. m |-> E(k)]
    OBVIOUS
  <2>3. \A k \in 0 .. m : E(k) \in L
    BY <2>1
  <2> HIDE DEF E, ends, L
  <2>4. ends \in [0 .. m -> L]
    BY <2>2, <2>3
  <2> QED BY <2>4 DEF L
<1>7. ends[0] = lower /\ ends[m] = upper
  <2>1. 0 \in 0 .. m /\ m \in 0 .. m /\ m # 0
    BY <1>2
  <2>2. ends[m] = RightEnd(d, s, upper, a + m - 1)
    BY <2>1
  <2>3. RightEnd(d, s, upper, f) = upper
    BY DEF RightEnd
  <2>4. ends[m] = upper
    <3> HIDE DEF ends, m
    <3> QED BY <1>2, <2>2, <2>3
  <2> QED BY <2>1, <2>4
<1>8. P \in Seq(Glyphs)
  BY <1>1, PlainFrame
<1> HIDE DEF P, ends, pieces, m
<1>9. FlattenSeq(pieces) = SubSeq(P, ends[0] + 1, ends[Len(pieces)])
  <2>1. \A k \in 1 .. Len(pieces) : ends[k - 1] <= ends[k] /\ pieces[k] = SubSeq(P, ends[k - 1] + 1, ends[k])
    BY <1>4, <1>5
  <2>2. ends \in [0 .. Len(pieces) -> 0 .. Len(P)]
    BY <1>5, <1>6
  <2> QED BY <1>5, <1>8, <2>1, <2>2, FlattenParts
<1> QED BY <1>3, <1>5, <1>7, <1>9 DEF Part, P

LEMMA OffsetAt ==
    ASSUME NEW d \in Document, NEW i \in 1 .. Len(d), NEW k \in Boundaries(TextOf(d[i]))
    PROVE  /\ Offset(d, At(d[i].id, k)) = BlockStart(d, i) + k
           /\ k \in Nat /\ k <= Len(TextOf(d[i])) /\ BlockStart(d, i) \in Nat
<1> DEFINE id == d[i].id
           t == TextOf(d[i])
           pos == At(id, k)
<1>1. d \in Seq(Blocks) /\ IndexOf(d, id) = i /\ i # 0
  BY DocumentFacts, IndexIs
<1>2. t \in Seq(Bytes) /\ Len(t) \in Nat /\ BlockStart(d, i) \in Nat
  BY <1>1, PlainFrame
<1>3. k \in Boundaries(t)
  OBVIOUS
<1> HIDE DEF t
<1>4. k \in Nat /\ Clamp(t, k) = k /\ k <= Len(t)
  <2>1. k \in Nat /\ Clamp(t, k) = k
    BY <1>2, <1>3, ClampFacts
  <2>2. Boundaries(t) \in SUBSET (0 .. Len(t))
    BY <1>2, BoundaryFacts
  <2> QED BY <1>2, <1>3, <2>1, <2>2
<1>5. pos.block = id /\ pos.offset = k
  BY DEF At
<1> HIDE DEF pos, id
<1>6. Offset(d, pos) = BlockStart(d, i) + Clamp(t, k)
  BY <1>1, <1>5 DEF Offset, OffsetIn, t
<1> QED BY <1>2, <1>4, <1>6 DEF pos, id, t

\* Different places have different offsets.
LEMMA PlacesApart ==
    ASSUME NEW d \in Document, NEW p \in Places(d), NEW q \in Places(d), Offset(d, p) = Offset(d, q)
    PROVE  p = q
<1>1. PICK i \in DOMAIN d : p \in {At(d[i].id, x) : x \in Boundaries(TextOf(d[i]))}
  BY DEF Places
<1>2. PICK k \in Boundaries(TextOf(d[i])) : p = At(d[i].id, k)
  BY <1>1
<1>3. PICK j \in DOMAIN d : q \in {At(d[j].id, x) : x \in Boundaries(TextOf(d[j]))}
  BY DEF Places
<1>4. PICK l \in Boundaries(TextOf(d[j])) : q = At(d[j].id, l)
  BY <1>3
<1>5. d \in Seq(Blocks) /\ i \in 1 .. Len(d) /\ j \in 1 .. Len(d) /\ Len(d) \in Nat
  BY DocumentFacts
<1>6. Offset(d, p) = BlockStart(d, i) + k /\ k \in Nat /\ k <= Len(TextOf(d[i])) /\ BlockStart(d, i) \in Nat
  BY <1>2, <1>5, OffsetAt
<1>7. Offset(d, q) = BlockStart(d, j) + l /\ l \in Nat /\ l <= Len(TextOf(d[j])) /\ BlockStart(d, j) \in Nat
  BY <1>4, <1>5, OffsetAt
<1>8. Len(TextOf(d[i])) \in Nat /\ Len(TextOf(d[j])) \in Nat
  BY <1>5, PlainFrame
<1> DEFINE B == BlockStart(d, i)
           C == BlockStart(d, j)
           n == Len(TextOf(d[i]))
           m == Len(TextOf(d[j]))
<1>9. /\ B \in Nat /\ C \in Nat /\ n \in Nat /\ m \in Nat /\ k \in Nat /\ l \in Nat
      /\ k <= n /\ l <= m /\ B + k = C + l
  BY <1>6, <1>7, <1>8
<1>10. (i < j => B + n < C) /\ (j < i => C + m < B)
  BY <1>5, BlocksApart
<1>11. i = j
  <2> HIDE DEF B, C, n, m
  <2>1. ~(B + n < C) /\ ~(C + m < B)
    BY <1>9
  <2> QED BY <1>5, <1>10, <2>1
<1>12. B = C
  BY <1>11
<1>13. k = l
  <2> HIDE DEF B, C, n, m
  <2> QED BY <1>9, <1>12
<1> QED BY <1>2, <1>4, <1>11, <1>13

LEMMA SomethingSelected ==
    ASSUME Inv, doc # <<>>, ~Collapsed(Now)
    PROVE  From \in Nat /\ To \in Nat /\ From < To
<1> DEFINE x == Offset(doc, anchor)
           y == Offset(doc, focus)
<1>1. /\ Now.anchor = anchor /\ Now.focus = focus /\ doc \in Document
      /\ anchor \in Places(doc) /\ focus \in Places(doc)
  BY NowSettled, NowFacts DEF Inv, SelectionAnchored
<1>2. anchor # focus
  BY <1>1 DEF Collapsed
<1>3. x # y
  BY <1>1, <1>2, PlacesApart
<1>4. ASSUME NEW p \in Places(doc) PROVE Offset(doc, p) \in Nat
  <2>1. PICK i \in DOMAIN doc : p \in {At(doc[i].id, k) : k \in Boundaries(TextOf(doc[i]))}
    BY DEF Places
  <2>2. PICK k \in Boundaries(TextOf(doc[i])) : p = At(doc[i].id, k)
    BY <2>1
  <2>3. i \in 1 .. Len(doc)
    BY <1>1, DocumentFacts
  <2>4. Offset(doc, At(doc[i].id, k)) = BlockStart(doc, i) + k /\ k \in Nat /\ BlockStart(doc, i) \in Nat
    BY <1>1, <2>3, OffsetAt
  <2> QED BY <2>2, <2>4
<1>5. x \in Nat /\ y \in Nat
  BY <1>1, <1>4
<1> HIDE DEF x, y
<1>6. From = Min({x, y}) /\ To = Max({x, y}) /\ {x, y} = {y, x}
  BY DEF From, To, x, y
<1>7. CASE x < y
  <2>1. x <= y
    BY <1>5, <1>7
  <2> QED BY <1>5, <1>6, <1>7, <2>1, MinMaxOf
<1>8. CASE y < x
  <2>1. y <= x
    BY <1>5, <1>8
  <2>2. Min({y, x}) = y /\ Max({y, x}) = x
    BY <1>5, <2>1, MinMaxOf
  <2> QED BY <1>5, <1>6, <1>8, <2>2
<1> QED BY <1>3, <1>5, <1>7, <1>8

LEMMA ErasedRelaid ==
    ASSUME NEW f, NEW p, NEW from, NEW to, Erased(f, p, from, to), NEW old \in Document
    PROVE  Erases(Relaid(f, old), p, from, to)
<1>1. PICK j : Stands(f, j, from)
  BY DEF Erased
<1>2. Relaid(f, old).doc = f.doc /\ CaretAt(Relaid(f, old), from)
  BY <1>1, StandsRelaid
<1> QED BY <1>2 DEF Erased, Erases

LEMMA NothingThere ==
    ASSUME Inv, doc = <<>>
    PROVE  Backspace(Now).doc = <<>> /\ DeleteForward(Now).doc = <<>>
<1>1. Now \in Editing /\ Now.doc = doc /\ Now.focus = focus /\ doc \in Document
  BY NowSettled, NowFacts
<1>2. Len(doc) = 0
  BY <1>1, DocumentFacts
<1>3. IndexOf(Now.doc, Now.focus.block) = 0
  BY <1>1, <1>2, IndexFacts
<1>4. DeleteSelection(Now) = Now
  BY EmptyPage
<1>5. BackIn(Now, 0) = Now /\ ForwardIn(Now, 0) = Now
  BY DEF BackIn, ForwardIn
<1> QED BY <1>1, <1>3, <1>4, <1>5 DEF Backspace, DeleteForward

LEMMA DeleteChecks ==
    ASSUME Inv, CharactersWhole
    PROVE  DeletesSplice
<1> DEFINE P == Plain(doc)
           from == From
           to == To
<1>1. SoundDoc(doc) /\ Now.doc = doc /\ Now.focus = focus /\ doc \in Document /\ doc \in Seq(Blocks)
  BY NowSettled, NowFacts, DocumentFacts DEF CharactersWhole, SoundDoc, Sound
<1>2. CASE doc = <<>>
  BY <1>2, NothingThere DEF DeletesSplice
<1>3. CASE doc # <<>>
  <2>1. /\ Erased(DeleteSelection(Now), P, from, to)
        /\ P \in Seq(Glyphs) /\ from \in 0 .. Len(P) /\ to \in 0 .. Len(P)
    BY <1>1, <1>3, DeletedStands DEF Erased
  <2>2. CASE Collapsed(Now)
    <3> DEFINE i == IndexOf(doc, focus.block)
    <3>1. Stands(Now, i, from) /\ from = to
      BY <1>3, <2>2, NowStands
    <3>2. Backspace(Now) = BackIn(Now, i) /\ DeleteForward(Now) = ForwardIn(Now, i)
      BY <1>1, <2>2 DEF Backspace, DeleteForward
    <3> HIDE DEF i, from, to
    <3>3. SoundDoc(Now.doc)
      BY <1>1
    <3>4. Erased(BackIn(Now, i), Plain(Now.doc), PrevBoundary(Plain(Now.doc), from), from)
      BY <3>1, <3>3, BackErases
    <3>5. Erased(ForwardIn(Now, i), Plain(Now.doc), from, NextBoundary(Plain(Now.doc), from))
      BY <3>1, <3>3, ForwardErases
    <3> HIDE DEF P
    <3>6. Erases(Relaid(Backspace(Now), doc), P, PrevBoundary(P, from), from)
      BY <1>1, <3>2, <3>4, ErasedRelaid DEF P
    <3>7. Erases(Relaid(DeleteForward(Now), doc), P, from, NextBoundary(P, from))
      BY <1>1, <3>2, <3>5, ErasedRelaid DEF P
    <3>8. SelectedText(Now) = <<>>
      BY <2>2 DEF SelectedText, SelectedIn
    <3>9. SubSeq(P, from + 1, to) = <<>>
      <4>1. from + 1 \in Int /\ to \in Int /\ to < from + 1
        BY <2>1, <3>1
      <4> DEFINE m == from + 1
      <4> HIDE DEF m
      <4>2. SubSeq(P, m, to) = <<>>
        BY <4>1, SubSeqEmpty DEF m
      <4> QED BY <4>2 DEF m
    <3>10. ErasesBack(Relaid(Backspace(Now), doc), P, from, to)
      BY <2>2, <3>1, <3>6 DEF ErasesBack
    <3>11. ErasesForward(Relaid(DeleteForward(Now), doc), P, from, to)
      BY <2>2, <3>1, <3>7 DEF ErasesForward
    <3> QED BY <1>3, <2>2, <3>8, <3>9, <3>10, <3>11 DEF DeletesSplice, from, to, P
  <2>3. CASE ~Collapsed(Now)
    <3>1. Backspace(Now) = DeleteSelection(Now) /\ DeleteForward(Now) = DeleteSelection(Now)
      BY <2>3 DEF Backspace, DeleteForward
    <3>2. from \in Nat /\ to \in Nat /\ from < to
      BY <1>3, <2>3, SomethingSelected
    <3>3. Ranged(Now, Selection(Now), from, to)
      BY <1>3, SelectionRanged
    <3> HIDE DEF from, to, P
    <3>4. SelectedText(Now) = Part(P, from, to)
      <4> DEFINE s == Selection(Now)
      <4>1. Now.doc \in Seq(Blocks) /\ Ranged(Now, s, from, to)
        BY <1>1, <3>3
      <4>2. SelectedText(Now) = SelectedIn(Now, s)
        BY DEF SelectedText
      <4> HIDE DEF s
      <4>3. SelectedIn(Now, s) = Part(Plain(Now.doc), from, to)
        BY <2>3, <4>1, SelectedIs
      <4> QED BY <1>1, <4>2, <4>3 DEF P
    <3>5. Part(P, from, to) # <<>>
      <4> DEFINE m == from + 1
                 w == SubSeq(P, m, to)
      <4>1. m \in Nat /\ 1 <= m /\ m <= to /\ to <= Len(P)
        BY <2>1, <3>2
      <4>2. w = Part(P, from, to)
        BY DEF Part
      <4> HIDE DEF m
      <4>3. Len(w) = to - m + 1
        BY <2>1, <3>2, <4>1, PartFacts
      <4>4. Len(w) # 0
        <5> HIDE DEF w
        <5> QED BY <3>2, <4>1, <4>3
      <4> QED BY <4>2, <4>4
    <3>6. CutSelection(Now) = DeleteSelection(Now)
      BY <3>4, <3>5 DEF CutSelection
    <3>7. Erases(Relaid(DeleteSelection(Now), doc), P, from, to)
      BY <1>1, <2>1, ErasedRelaid
    <3>8. ErasesBack(Relaid(Backspace(Now), doc), P, from, to)
      BY <2>3, <3>1, <3>7 DEF ErasesBack
    <3>9. ErasesForward(Relaid(DeleteForward(Now), doc), P, from, to)
      BY <2>3, <3>1, <3>7 DEF ErasesForward
    <3>10. SelectedText(Now) = SubSeq(P, from + 1, to)
      BY <3>4 DEF Part
    <3> QED BY <1>3, <3>6, <3>7, <3>8, <3>9, <3>10 DEF DeletesSplice, from, to, P
  <2> QED BY <2>2, <2>3
<1> QED BY <1>2, <1>3

\* Backspace, Delete and Cut take from the page what is selected, else the
\* character or the newline beside the caret, and nothing else, whatever the page
\* and the selection; and what Cut takes is what it copies.
THEOREM DeletingIsExact == Spec => []DeletesSplice
<1>1. Inv /\ CharactersWhole => DeletesSplice
  BY DeleteChecks
<1> QED BY <1>1, WholeInvariance, PTL

-----------------------------------------------------------------------------
(* Typing. *)

\* A marker is at the beginning of a block's text if it is at the beginning of
\* what follows on the page, since it has no newline.
LEMMA MarkerBefore ==
    ASSUME NEW v \in Seq(Bytes), NEW rest \in Seq(Glyphs), rest = <<>> \/ rest[1] = NewlineByte
    PROVE  IsPrefix(Marker, Cat(v, rest)) <=> IsPrefix(Marker, v)
<1> DEFINE m == Len(Marker)
           n == Len(v)
           r == Len(rest)
           w == Cat(v, rest)
<1>1. /\ Marker \in Seq(Bytes) /\ m \in Nat /\ n \in Nat /\ r \in Nat
      /\ \A k \in 1 .. m : Marker[k] # NewlineByte
  <2>1. Marker \in Seq(Bytes)
    BY ContentsAssumption
  <2> QED BY <2>1, TextsAssumption
<1>2. v \in Seq(Glyphs)
  BY BreakFacts
<1>3. /\ w \in Seq(Glyphs) /\ Len(w) = n + r
      /\ \A k \in 1 .. n + r : w[k] = IF k <= n THEN v[k] ELSE rest[k - n]
  BY <1>2, ConcatProperties DEF Cat
<1>4. r # 0 => rest[1] = NewlineByte
  OBVIOUS
<1> HIDE DEF w
<1>5. IsPrefix(Marker, w) <=> m <= Len(w) /\ \A k \in 1 .. m : Marker[k] = w[k]
  BY <1>1 DEF IsPrefix
<1>6. IsPrefix(Marker, v) <=> m <= n /\ \A k \in 1 .. m : Marker[k] = v[k]
  BY <1>1 DEF IsPrefix
<1> HIDE DEF m, n, r
<1>7. CASE m <= n
  <2>1. m <= Len(w)
    BY <1>1, <1>3, <1>7
  <2>2. \A k \in 1 .. m : w[k] = v[k]
    <3> TAKE k \in 1 .. m
    <3>1. k \in 1 .. n + r /\ k <= n
      BY <1>1, <1>7
    <3> QED BY <1>3, <3>1
  <2> QED BY <1>5, <1>6, <1>7, <2>1, <2>2 DEF w
<1>8. CASE ~(m <= n)
  <2>1. ASSUME IsPrefix(Marker, w) PROVE FALSE
    <3>1. n + 1 \in 1 .. m /\ n + 1 \in 1 .. n + r /\ ~(n + 1 <= n) /\ (n + 1) - n = 1 /\ r # 0
      BY <1>1, <1>3, <1>5, <1>8, <2>1
    <3>2. Marker[n + 1] = w[n + 1]
      BY <1>5, <2>1, <3>1
    <3>3. w[n + 1] = rest[1]
      BY <1>3, <3>1
    <3> QED BY <1>1, <1>4, <3>1, <3>2, <3>3
  <2> QED BY <1>6, <1>8, <2>1 DEF w
<1> QED BY <1>7, <1>8

\* What follows the beginning of a block on the page.
LEMMA AfterStart ==
    ASSUME NEW d \in Seq(Blocks), NEW i \in 1 .. Len(d)
    PROVE  IsPrefix(Marker, After(Plain(d), BlockStart(d, i))) <=> IsPrefix(Marker, TextOf(d[i]))
<1> DEFINE t == TextOf(d[i])
           B == BlockStart(d, i)
           Q == SubSeq(d, i + 1, Len(d))
           rest == Text(Q)
           P == Plain(d)
           z == 0
           one == Len(Break)
<1>1. P \in Seq(Glyphs) /\ Len(P) \in Nat /\ t \in Seq(Bytes) /\ B \in Nat /\ B + Len(t) <= Len(P)
      /\ Len(t) \in Nat
  BY PlainFrame
<1>2. d # <<>> /\ i \in Nat
  OBVIOUS
<1>3. Text(d) = Break \o P
  BY <1>2, TextFacts
<1>4. z \in 0 .. Len(t) /\ one = 1 /\ Break \in Seq(Glyphs)
  BY <1>1, BreakFacts
<1>5. Q \in Seq(Blocks) /\ After(Text(d), 1 + (B + z)) = Cat(After(t, z), rest)
  BY <1>4, CutText
<1>6. After(t, z) = t
  BY <1>1, WholeCut
<1>7. 1 + (B + z) = one + B
  BY <1>1, <1>4
<1>8. After(Break \o P, one + B) = After(P, B)
  <2>1. B \in 0 .. Len(P)
    BY <1>1
  <2> HIDE DEF P, B
  <2> QED BY <1>1, <1>4, <2>1, CutSecond DEF one
<1>9. After(P, B) = Cat(t, rest)
  BY <1>3, <1>5, <1>6, <1>7, <1>8
<1>10. rest \in Seq(Glyphs) /\ (rest = <<>> \/ rest[1] = NewlineByte)
  <2> HIDE DEF Q
  <2>1. rest \in Seq(Glyphs)
    BY <1>5, TextFacts
  <2>2. CASE Q = <<>>
    BY <2>1, <2>2, TextSmall
  <2>3. CASE Q # <<>>
    <3> DEFINE p == Plain(Q)
    <3>1. rest = Break \o p /\ p \in Seq(Glyphs)
      BY <1>5, <2>3, TextFacts
    <3>2. Break \in Seq(Glyphs) /\ Len(Break) = 1 /\ Break[1] = NewlineByte
      BY BreakFacts
    <3> HIDE DEF p, rest
    <3>3. rest[1] = NewlineByte
      <4> DEFINE n == Len(p)
                 c == Len(Break)
                 w == Break \o p
      <4>1. n \in Nat /\ c = 1
        BY <3>1, <3>2
      <4>2. \A k \in 1 .. c + n : w[k] = IF k <= c THEN Break[k] ELSE p[k - c]
        BY <3>1, <3>2, ConcatProperties
      <4>3. rest = w
        BY <3>1
      <4> HIDE DEF n, c, w
      <4>4. 1 \in 1 .. c + n /\ 1 <= c
        BY <4>1
      <4>5. w[1] = Break[1]
        BY <4>2, <4>4
      <4> QED BY <3>2, <4>3, <4>5
    <3> QED BY <2>1, <3>3
  <2> QED BY <2>2, <2>3
<1> HIDE DEF P, B, t, rest
<1>11. IsPrefix(Marker, Cat(t, rest)) <=> IsPrefix(Marker, t)
  BY <1>1, <1>10, MarkerBefore
<1> QED BY <1>9, <1>11 DEF P, B, t

LEMMA SwapHas ==
    ASSUME NEW d \in Seq(Blocks), NEW a \in 1 .. Len(d), NEW f \in 1 .. Len(d), a <= f, NEW b \in Blocks,
           NEW new, new = Swap(d, a, <<b>>, f)
    PROVE  new \in Seq(Blocks) /\ a \in 1 .. Len(new) /\ new[a] = b
<1> DEFINE mid == <<b>>
           swapped == Swap(d, a, mid, f)
<1>1. mid \in Seq(Blocks) /\ Len(mid) = 1 /\ mid[1] = b
  OBVIOUS
<1>2. new = swapped
  OBVIOUS
<1> HIDE DEF mid
<1>3. /\ swapped \in Seq(Blocks) /\ Len(swapped) = a - 1 + Len(mid) + (Len(d) - f)
      /\ \A j \in 1 .. Len(mid) : swapped[a - 1 + j] = mid[j]
  <2>1. mid \in Seq(Blocks)
    BY <1>1
  <2> QED BY <2>1, SwapFacts
<1> HIDE DEF swapped
<1>4. 1 \in 1 .. Len(mid) /\ a - 1 + 1 = a
  BY <1>1
<1>5. swapped[a] = b
  BY <1>1, <1>3, <1>4
<1> QED BY <1>1, <1>2, <1>3, <1>5

WasParagraph(id) == IndexOf(doc, id) = 0 \/ doc[IndexOf(doc, id)].kind = Paragraph

\* The block where text goes is of the kind it was of.
LEMMA ReadyKind ==
    ASSUME Inv, NEW seed \in SeedIds, NEW g, g = Seeded(DeleteSelection(Now), seed),
           NEW i, NEW p, Stands(g, i, p)
    PROVE  WasParagraph(g.focus.block) <=> g.doc[i].kind = Paragraph
<1> DEFINE id == g.focus.block
           h == IndexOf(doc, id)
           f == DeleteSelection(Now)
           s == Selection(Now)
<1>1. Now \in Editing /\ Now.doc = doc /\ doc \in Document /\ doc \in Seq(Blocks) /\ Len(doc) \in Nat
  BY NowSettled, NowFacts, DocumentFacts
<1>2. i \in 1 .. Len(g.doc) /\ id = g.doc[i].id /\ g.doc \in Document
  BY StandsAt DEF Stands
<1>3. CASE doc = <<>>
  <2> DEFINE b == Block(seed, Paragraph, <<>>)
  <2>1. h = 0
    BY <1>1, <1>3, DocumentFacts, IndexFacts
  <2>2. f = Now /\ seed \in Ids
    BY <1>3, EmptyPage, FreshIds
  <2>3. g = Seeded(Now, seed)
    BY <2>2
  <2>4. Puts(Seeded(Now, seed), <<b>>, At(seed, 0))
    BY <1>1, <1>3, <2>2, SeededIs
  <2>5. g.doc = <<b>>
    BY <2>3, <2>4 DEF Puts
  <2>6. i = 1
    BY <1>2, <2>5
  <2>7. g.doc[i].kind = Paragraph
    BY <2>5, <2>6 DEF Block
  <2> QED BY <2>1, <2>7 DEF WasParagraph
<1>4. CASE doc # <<>> /\ (Collapsed(Now) \/ s.first = 0)
  <2>1. f = Now
    BY <1>4 DEF DeleteSelection, Cut
  <2>2. g = Now
    BY <1>1, <1>4, <2>1 DEF Seeded
  <2>3. h = i
    BY <1>1, <1>2, <2>2, IndexIs
  <2>4. h # 0 /\ g.doc = doc
    BY <1>1, <1>2, <2>2, <2>3
  <2> QED BY <2>3, <2>4 DEF WasParagraph
<1>5. CASE doc # <<>> /\ ~(Collapsed(Now) \/ s.first = 0)
  <2> DEFINE a == s.first
             l == s.last
             value == JoinedText(Now, s)
             b == Written(doc[a], value)
  <2>1. Selects(Now, s)
    BY <1>1, SelectionFacts
  <2>2. f = Joined(Now, s)
    BY <1>5 DEF DeleteSelection, Cut
  <2> HIDE DEF s, f
  <2>3. Now.doc = doc /\ Selects(Now, s) /\ a # 0
    BY <1>1, <1>5, <2>1
  <2>4. a \in 1 .. Len(doc) /\ l \in 1 .. Len(doc) /\ a <= l
    BY <2>3 DEF Selects
  <2>5. value \in Seq(Bytes) /\ doc[a] \in Blocks
    BY <1>1, <2>3, <2>4, JoinedTextType
  <2>6. f.doc = Swap(doc, a, <<b>>, l) /\ f.anchor = At(doc[a].id, s.from) /\ f.focus = f.anchor
    BY <1>1, <2>2, <2>3, JoinedIs
  <2>7. b \in Blocks /\ b.id = doc[a].id /\ b.kind = doc[a].kind
    <3> HIDE DEF value
    <3> QED BY <2>5, WrittenFacts
  <2> HIDE DEF b, value
  <2> DEFINE new == Swap(doc, a, <<b>>, l)
  <2>8. f.doc = new
    BY <2>6
  <2> HIDE DEF a, l
  <2>9. new \in Seq(Blocks) /\ a \in 1 .. Len(new) /\ new[a] = b
    BY <1>1, <2>4, <2>7, SwapHas
  <2> HIDE DEF new
  <2>13. new # <<>>
    BY <2>9
  <2>14. g = f
    BY <2>8, <2>13 DEF Seeded, f
  <2>15. id = doc[a].id
    BY <2>6, <2>14 DEF At
  <2>16. g.doc = new /\ i = a
    <3>1. g.doc = new
      BY <2>8, <2>14
    <3>2. new[i].id = new[a].id
      BY <1>2, <2>7, <2>9, <2>15, <3>1
    <3> QED BY <1>2, <2>9, <3>1, <3>2, DocumentFacts
  <2>17. h = a
    BY <1>1, <2>4, <2>15, IndexIs
  <2>18. h # 0
    BY <2>4, <2>17
  <2> QED BY <2>7, <2>9, <2>16, <2>17, <2>18 DEF WasParagraph
<1> QED BY <1>3, <1>4, <1>5

\* Text typed at a caret, before the rules for what a paragraph begins with.
LEMMA EnteredStands ==
    ASSUME NEW e, NEW i, NEW p, Stands(e, i, p), SoundDoc(e.doc), NEW text \in Seq(Bytes),
           NEW at, at = e.focus.offset, NEW h, h = Entered(e, i, at, text),
           NEW value, value = TypedText(TextOf(e.doc[i]), at, text)
    PROVE  /\ Stands(h, i, p + Len(text)) /\ Plain(h.doc) = Spliced(Plain(e.doc), p, text, p)
           /\ value \in Seq(Bytes) /\ TextOf(h.doc[i]) = value
           /\ h.doc[i].kind = e.doc[i].kind /\ h.focus.block = e.focus.block
           /\ h.focus.block \in Ids
           /\ TypeAtFocus(e, text) = Converted(h, i, value)
<1> DEFINE d == e.doc
           t == TextOf(d[i])
           u == UpTo(t, at)
           v == After(t, at)
           x == Cat(u, text)
           b == Written(d[i], value)
           k == at + Len(text)
<1>1. /\ Spot(e, i, at) /\ i \in 1 .. Len(d) /\ d \in Seq(Blocks) /\ d[i] \in Blocks
      /\ t \in Seq(Bytes) /\ at \in 0 .. Len(t) /\ at \in Nat /\ e \in Editing
      /\ p = BlockStart(d, i) + at /\ e.focus.block = d[i].id /\ d[i].id \in Ids
      /\ at \in Boundaries(t)
  BY StandsAt DEF Spot, Stands
<1>2. value = TypedText(t, at, text)
  OBVIOUS
<1>3. Puts(h, BlockSet(d, i, b), At(d[i].id, k)) /\ TypeAt(e, i, at, text) = Converted(h, i, value)
  BY <1>1, EnteredIs
<1>4. Whole(t)
  BY <1>1, SoundAt
<1>5. u \in Seq(Bytes) /\ Len(u) = at /\ v \in Seq(Bytes) /\ Whole(v)
  <2> HIDE DEF t
  <2>1. u \in Seq(Bytes) /\ Len(u) = at
    BY <1>1, PartTypes
  <2>2. v \in Seq(Bytes) /\ Whole(v)
    BY <1>1, <1>4, WholeParts
  <2> QED BY <2>1, <2>2
<1>6. value = Cat(x, v)
  BY <1>2 DEF TypedText
<1> HIDE DEF u, v
<1>7. x \in Seq(Bytes) /\ Len(x) = k
  BY <1>5, CatFacts
<1> HIDE DEF x
<1>8. value \in Seq(Bytes) /\ k \in Boundaries(value)
  BY <1>5, <1>6, <1>7, CutBoundary, CatFacts
<1>9. b \in Blocks /\ b.id = d[i].id /\ b.kind = d[i].kind /\ TextOf(b) = value
  BY <1>1, <1>8, WrittenFacts
<1>10. TextOf(b) = Cat(Cat(UpTo(TextOf(d[i]), at), text), After(TextOf(d[i]), at))
  BY <1>6, <1>9 DEF x, u, v
<1> HIDE DEF b, k
<1>11. BlockSet(d, i, b) = Swap(d, i, <<b>>, i)
  BY <1>1, <1>9, SetIsSwap
<1>12. h \in Editing /\ h.doc = Swap(d, i, <<b>>, i) /\ h.anchor = h.focus /\ h.focus = At(b.id, k)
  BY <1>3, <1>9, <1>11 DEF Puts
<1>13. i <= i /\ Len(text) \in Nat
  BY <1>1
<1>14. k \in Boundaries(TextOf(b))
  BY <1>8, <1>9
<1>15. Stands(h, i, BlockStart(d, i) + k)
  <2> HIDE DEF d
  <2> QED BY <1>1, <1>9, <1>12, <1>13, <1>14, StandsInSwap
<1>16. BlockStart(d, i) + k = p + Len(text)
  <2>1. BlockStart(d, i) \in Nat
    BY <1>1, PlainFrame
  <2> QED BY <1>1, <1>13, <2>1 DEF k
<1>17. Plain(h.doc) = Spliced(Plain(d), p, text, p)
  <2>1. at \in 0 .. Len(TextOf(d[i]))
    BY <1>1
  <2> HIDE DEF d
  <2>2. Plain(Swap(d, i, <<b>>, i)) = Spliced(Plain(d), BlockStart(d, i) + at, text, BlockStart(d, i) + at)
    BY <1>1, <1>9, <1>10, <1>13, <2>1, SwapOne
  <2> QED BY <1>1, <1>12, <2>2
<1>18. h.doc[i] = b
  BY <1>1, <1>9, <1>12, <1>13, SwapHas
<1>19. h.focus.block = d[i].id
  BY <1>9, <1>12 DEF At
<1>20. TypeAtFocus(e, text) = TypeAt(e, i, at, text)
  BY <1>1, TypeAtFocusIs
<1> QED BY <1>1, <1>3, <1>8, <1>9, <1>15, <1>16, <1>17, <1>18, <1>19, <1>20

\* A paragraph that begins with a marker becomes a heading without it.
LEMMA ConvertedStands ==
    ASSUME NEW e, NEW i, NEW p, Stands(e, i, p), NEW value \in Seq(Bytes), value = TextOf(e.doc[i]),
           IsPrefix(Marker, value), e.doc[i].kind = Paragraph,
           NEW f, f = Converted(e, i, value), NEW start, start = BlockStart(e.doc, i)
    PROVE  /\ Stands(f, i, start) /\ f.focus.block = e.focus.block
           /\ Plain(f.doc) = Without(Plain(e.doc), start, start + Len(Marker))
           /\ f.doc[i].kind = Heading /\ BlockStart(f.doc, i) = start
<1> DEFINE d == e.doc
           m == Len(Marker)
           none == <<>>
           z == 0
           rest == After(value, m)
           b == Converting(e, i, value)
           new == Swap(d, i, <<b>>, i)
           P == Plain(d)
<1>1. /\ e \in Editing /\ i \in 1 .. Len(d) /\ d \in Seq(Blocks) /\ d[i] \in Blocks
      /\ e.focus.block = d[i].id /\ e.focus.block \in Ids /\ i <= i
  BY StandsAt DEF Spot, Stands
<1>2. Marker \in Seq(Bytes) /\ m \in Nat /\ m <= Len(value) /\ Len(value) \in Nat
  <2>1. Marker \in Seq(Bytes)
    BY ContentsAssumption
  <2> QED BY <2>1 DEF IsPrefix
<1>3. Converts(e, i, value)
  BY DEF Converts
<1>4. /\ f \in Editing /\ f.doc = BlockSet(d, i, b)
      /\ f.anchor = At(d[i].id, 0) /\ f.focus = At(d[i].id, 0)
  BY <1>1, <1>3, ConvertedIs
<1>5. rest \in Seq(Bytes)
  <2>1. m \in 0 .. Len(value)
    BY <1>2
  <2> HIDE DEF m
  <2> QED BY <2>1, PartTypes
<1> HIDE DEF rest
<1>6. b \in Blocks /\ b.id = d[i].id /\ b.kind = Heading /\ TextOf(b) = rest
  <2> DEFINE c == Headed(d[i])
  <2>1. c \in Blocks /\ c.id = d[i].id /\ c.kind = Heading
    BY <1>1, HeadedFacts
  <2>2. b = Written(c, rest)
    BY DEF Converting, rest
  <2> HIDE DEF b, c
  <2> QED BY <1>5, <2>1, <2>2, WrittenFacts
<1> HIDE DEF b
<1>7. none \in Seq(Bytes) /\ UpTo(value, z) = none /\ Cat(Cat(none, none), rest) = rest
  <2>1. none \in Seq(Bytes)
    OBVIOUS
  <2>2. UpTo(value, 0) = <<>>
    BY PrefixFacts DEF UpTo
  <2> HIDE DEF none
  <2>3. Cat(none, none) = none /\ Cat(none, rest) = rest
    BY <1>5, <2>1, CatNone DEF none
  <2> QED BY <2>1, <2>2, <2>3 DEF none
<1> HIDE DEF none
<1>8. TextOf(b) = Cat(Cat(UpTo(TextOf(d[i]), z), none), After(TextOf(d[i]), m))
  BY <1>6, <1>7 DEF rest
<1>9. z \in 0 .. Len(TextOf(d[i])) /\ m \in 0 .. Len(TextOf(d[i]))
  BY <1>2
<1> HIDE DEF z
<1>10. Plain(new) = Spliced(P, BlockStart(d, i) + z, none, BlockStart(d, i) + m)
  <2> HIDE DEF d, m, P, new
  <2> QED BY <1>1, <1>6, <1>7, <1>8, <1>9, SwapOne DEF P, new
<1>11. /\ P \in Seq(Glyphs) /\ Len(P) \in Nat /\ start \in Nat /\ start + Len(value) <= Len(P)
  BY <1>1, PlainFrame
<1>12. BlockStart(d, i) + z = start /\ BlockStart(d, i) + m = start + m
  BY <1>11 DEF z
<1>13. Spliced(P, start, none, start + m) = Without(P, start, start + m)
  <2> DEFINE q == start + m
  <2> HIDE DEF P, m
  <2>1. start \in 0 .. Len(P) /\ q \in 0 .. Len(P)
    BY <1>2, <1>11
  <2> HIDE DEF q
  <2>2. <<>> \in Seq(Glyphs)
    OBVIOUS
  <2>3. Spliced(P, start, <<>>, q) = Without(P, start, q)
    BY <1>11, <2>1, <2>2, SplicedIs
  <2> QED BY <2>3 DEF q, none
<1>14. f.doc = new
  BY <1>1, <1>4, <1>6, SetIsSwap
<1>15. z \in Boundaries(TextOf(b))
  BY <1>5, <1>6, BoundaryFacts DEF z
<1>16. f.anchor = f.focus /\ f.focus = At(b.id, z)
  BY <1>4, <1>6 DEF z
<1>17. Stands(f, i, BlockStart(d, i) + z)
  <2> HIDE DEF d
  <2> QED BY <1>1, <1>4, <1>6, <1>14, <1>15, <1>16, StandsInSwap DEF new
<1>18. new[i] = b
  BY <1>1, <1>6, SwapHas
<1>19. BlockStart(new, i) = BlockStart(d, i)
  <2> DEFINE mid == <<b>>
  <2>1. mid \in Seq(Blocks)
    BY <1>6
  <2> HIDE DEF mid
  <2>2. BlockStart(Swap(d, i, mid, i), i) = BlockStart(d, i)
    BY <1>1, <2>1, StartsInSwap
  <2> QED BY <2>2 DEF mid
<1>20. f.focus.block = e.focus.block
  BY <1>1, <1>4 DEF At
<1> QED BY <1>6, <1>10, <1>12, <1>13, <1>14, <1>17, <1>18, <1>19, <1>20

LEMMA KeptByConverted ==
    ASSUME NEW e, NEW i, NEW p, Stands(e, i, p), NEW value \in Seq(Bytes), ~Converts(e, i, value),
           NEW f, f = Converted(e, i, value)
    PROVE  Stands(f, i, p) /\ f.doc = e.doc /\ f.focus = e.focus
<1>1. e \in Editing /\ i \in 1 .. Len(e.doc) /\ e.focus.block \in Ids
  BY StandsAt DEF Spot, Stands
<1>2. f \in Editing /\ f.doc = e.doc /\ f.anchor = e.anchor /\ f.focus = e.focus
  BY <1>1, ConvertedIs
<1> QED BY <1>1, <1>2 DEF Stands

LEMMA TypesConverted ==
    ASSUME doc \in Document, NEW f, NEW i, NEW text, NEW typed, NEW from, NEW id, NEW start,
           Stands(f, i, start), f.focus.block = id, BlockStart(f.doc, i) = start,
           WasParagraph(id), IsPrefix(Marker, After(typed, start)),
           Plain(f.doc) = Without(typed, start, start + Len(Marker)), f.doc[i].kind = Heading
    PROVE  TypesAs(Relaid(f, doc), text, typed, from)
<1> DEFINE e == Relaid(f, doc)
<1>1. e.doc = f.doc /\ e.focus = f.focus /\ CaretAt(e, start)
  BY StandsRelaid
<1>2. IndexOf(f.doc, f.focus.block) = i
  BY StandsAt
<1> HIDE DEF e
<1>3. IndexOf(e.doc, e.focus.block) = i /\ e.focus.block = id /\ BlockStart(e.doc, i) = start
  BY <1>1, <1>2
<1>4. IndexOf(doc, id) = 0 \/ doc[IndexOf(doc, id)].kind = Paragraph
  BY DEF WasParagraph
<1>5. Plain(e.doc) = Without(typed, start, start + Len(Marker)) /\ e.doc[i].kind = Heading
  BY <1>1
<1>6. TypesAs(e, text, typed, from)
  BY <1>1, <1>3, <1>4, <1>5 DEF TypesAs
<1> QED BY <1>6 DEF e

LEMMA TypesKept ==
    ASSUME doc \in Document, NEW f, NEW i, NEW text, NEW typed, NEW from, NEW id, NEW start,
           Stands(f, i, from + Len(text)), f.focus.block = id, BlockStart(f.doc, i) = start,
           ~(WasParagraph(id) /\ IsPrefix(Marker, After(typed, start))),
           Plain(f.doc) = typed, WasParagraph(id) <=> f.doc[i].kind = Paragraph
    PROVE  TypesAs(Relaid(f, doc), text, typed, from)
<1> DEFINE e == Relaid(f, doc)
           q == from + Len(text)
<1>1. e.doc = f.doc /\ e.focus = f.focus /\ CaretAt(e, q)
  BY StandsRelaid
<1>2. IndexOf(f.doc, f.focus.block) = i
  BY StandsAt
<1> HIDE DEF e
<1>3. IndexOf(e.doc, e.focus.block) = i /\ e.focus.block = id /\ BlockStart(e.doc, i) = start
  BY <1>1, <1>2
<1>4. WasParagraph(id) <=> (IndexOf(doc, id) = 0 \/ doc[IndexOf(doc, id)].kind = Paragraph)
  BY DEF WasParagraph
<1>5. Plain(e.doc) = typed /\ (WasParagraph(id) <=> e.doc[i].kind = Paragraph)
  BY <1>1
<1>6. TypesAs(e, text, typed, from)
  BY <1>1, <1>3, <1>4, <1>5 DEF TypesAs
<1> QED BY <1>6 DEF e

LEMMA TypedChecks ==
    ASSUME Inv, SoundDoc(doc), NEW text \in Chars, NEW seed \in SeedIds
    PROVE  TypesAs(Relaid(InsertText(Now, text, seed), doc), text, Spliced(Plain(doc), From, text, To), From)
<1> DEFINE P == Plain(doc)
           from == From
           to == To
           g == Seeded(DeleteSelection(Now), seed)
           typed == Spliced(P, from, text, to)
           f == InsertText(Now, text, seed)
           e == Relaid(f, doc)
           m == Len(Marker)
<1>1. /\ \E i : Stands(g, i, from)
      /\ Plain(g.doc) = Without(P, from, to)
      /\ from \in 0 .. Len(P) /\ to \in 0 .. Len(P) /\ P \in Seq(Glyphs)
      /\ SoundDoc(g.doc)
  BY ReadyStands
<1>2. PICK i : Stands(g, i, from)
  BY <1>1
<1>3. WasParagraph(g.focus.block) <=> g.doc[i].kind = Paragraph
  BY <1>2, ReadyKind
<1>4. f = TypeAtFocus(g, text)
  BY DEF InsertText
<1>5. text \in Seq(Bytes) /\ doc \in Document
  BY CharWhole, NowSettled
<1> HIDE DEF g, f, P, from, to
<1> DEFINE at == g.focus.offset
           h == Entered(g, i, at, text)
           value == TypedText(TextOf(g.doc[i]), at, text)
           start == BlockStart(h.doc, i)
<1>6. /\ Stands(h, i, from + Len(text)) /\ Plain(h.doc) = Spliced(Plain(g.doc), from, text, from)
      /\ value \in Seq(Bytes) /\ TextOf(h.doc[i]) = value
      /\ h.doc[i].kind = g.doc[i].kind /\ h.focus.block = g.focus.block
      /\ f = Converted(h, i, value)
  BY <1>1, <1>2, <1>4, <1>5, EnteredStands
<1> HIDE DEF h, value, at
<1>7. Plain(h.doc) = typed
  <2>1. text \in Seq(Glyphs)
    BY <1>5, BreakFacts
  <2>2. Spliced(Without(P, from, to), from, text, from) = Spliced(P, from, text, to)
    BY <1>1, <2>1, SplicedAgain
  <2> QED BY <1>1, <1>6, <2>2
<1>8. h.doc \in Seq(Blocks) /\ i \in 1 .. Len(h.doc)
  BY <1>6, StandsAt DEF Spot
<1>9. IsPrefix(Marker, After(typed, start)) <=> IsPrefix(Marker, value)
  BY <1>6, <1>7, <1>8, AfterStart
<1> DEFINE id == g.focus.block
           was == WasParagraph(id)
<1>10. was <=> h.doc[i].kind = Paragraph
  BY <1>3, <1>6
<1> HIDE DEF e, was, id
<1>12. CASE Converts(h, i, value)
  <2>1. IsPrefix(Marker, value) /\ h.doc[i].kind = Paragraph
    BY <1>12 DEF Converts
  <2> HIDE DEF start, typed
  <2>2. /\ Stands(f, i, start) /\ f.focus.block = h.focus.block
        /\ Plain(f.doc) = Without(Plain(h.doc), start, start + m)
        /\ f.doc[i].kind = Heading /\ BlockStart(f.doc, i) = start
    BY <1>6, <2>1, ConvertedStands DEF start
  <2>3. was /\ IsPrefix(Marker, After(typed, start))
    BY <1>9, <1>10, <2>1
  <2>4. f.focus.block = id
    BY <1>6, <2>2 DEF id
  <2>5. WasParagraph(id) /\ IsPrefix(Marker, After(typed, start))
    BY <2>3 DEF was
  <2>6. Plain(f.doc) = Without(typed, start, start + Len(Marker))
    BY <1>7, <2>2 DEF m
  <2> HIDE DEF id
  <2>7. TypesAs(Relaid(f, doc), text, typed, from)
    BY <1>5, <2>2, <2>4, <2>5, <2>6, TypesConverted
  <2> QED BY <2>7 DEF e, f, typed, P, from, to
<1>13. CASE ~Converts(h, i, value)
  <2>1. ~(was /\ IsPrefix(Marker, After(typed, start)))
    BY <1>9, <1>10, <1>13 DEF Converts
  <2> DEFINE q == from + Len(text)
  <2>2. Stands(f, i, q) /\ f.doc = h.doc /\ f.focus = h.focus
    BY <1>6, <1>13, KeptByConverted
  <2>3. f.focus.block = id /\ BlockStart(f.doc, i) = start
    BY <1>6, <2>2 DEF id
  <2>4. Plain(f.doc) = typed /\ q = from + Len(text) /\ (was <=> f.doc[i].kind = Paragraph)
    BY <1>7, <1>10, <2>2
  <2>5. ~(WasParagraph(id) /\ IsPrefix(Marker, After(typed, start)))
    BY <2>1 DEF was
  <2>6. WasParagraph(id) <=> f.doc[i].kind = Paragraph
    BY <2>4 DEF was
  <2>7. Stands(f, i, from + Len(text))
    BY <2>2 DEF q
  <2> HIDE DEF q, start, typed, id
  <2>8. TypesAs(Relaid(f, doc), text, typed, from)
    BY <1>5, <2>3, <2>4, <2>5, <2>6, <2>7, TypesKept
  <2> QED BY <2>8 DEF e, f, typed, P, from, to
<1> QED BY <1>12, <1>13 DEF e, f, typed, P, from, to

\* Typing, on any page and over any selection: the page reads as before with what
\* was selected replaced by what was typed, and only a paragraph that now begins
\* with the marker becomes a heading and loses it.
THEOREM TypingAlwaysSplices == Spec => []TypingSplices
<1>1. Inv /\ CharactersWhole => TypingSplices
  <2> SUFFICES ASSUME Inv, CharactersWhole
               PROVE  TypingSplices
    OBVIOUS
  <2>1. SoundDoc(doc)
    BY DEF CharactersWhole, SoundDoc, Sound
  <2>2. \A text \in Chars, seed \in SeedIds :
           TypesAs(Relaid(InsertText(Now, text, seed), doc), text, Spliced(Plain(doc), From, text, To), From)
    BY <2>1, TypedChecks
  <2> QED BY <2>2 DEF TypingSplices
<1> QED BY <1>1, WholeInvariance, PTL

-----------------------------------------------------------------------------
(* What typing does to the marks. *)

\* A text with another one put into it.
TypedInto(old, at, text, value) ==
    /\ old \in Seq(Bytes) /\ text \in Seq(Bytes) /\ value \in Seq(Bytes)
    /\ Len(old) \in Nat /\ Len(text) \in Nat /\ Len(text) # 0 /\ at \in Nat /\ at <= Len(old)
    /\ Len(value) = Len(old) + Len(text)
    /\ \A k \in 1 .. at : value[k] = old[k]
    /\ \A k \in 1 .. Len(text) : value[at + k] = text[k]
    /\ \A k \in 1 .. Len(old) - at : value[at + Len(text) + k] = old[at + k]
    /\ at \in Boundaries(old) /\ at \in Boundaries(value) /\ at + Len(text) \in Boundaries(value)

LEMMA TypedIntoIs ==
    ASSUME NEW old \in Seq(Bytes), Whole(old), NEW at \in Boundaries(old), NEW text \in Seq(Bytes), text # <<>>,
           Whole(text), NEW value, value = TypedText(old, at, text)
    PROVE  TypedInto(old, at, text, value)
<1> DEFINE u == UpTo(old, at)
           v == After(old, at)
           l == Len(old)
           n == Len(text)
<1>1. at \in 0 .. l /\ at \in Nat /\ l \in Nat /\ n \in Nat /\ n # 0 /\ at <= l
  <2>1. at \in 0 .. Len(old)
    BY BoundaryFacts
  <2>2. l \in Nat /\ n \in Nat /\ n # 0
    OBVIOUS
  <2> HIDE DEF n
  <2> QED BY <2>1, <2>2
<1>2. /\ u \in Seq(Bytes) /\ v \in Seq(Bytes) /\ Len(u) = at /\ Len(v) = l - at
      /\ \A k \in 1 .. at : u[k] = old[k]
      /\ \A k \in 1 .. l - at : v[k] = old[at + k]
  BY <1>1, PartTypes
<1>3. value = (u \o text) \o v
  BY DEF TypedText, Cat
<1> HIDE DEF u, v
<1>4. /\ Len(value) = (at + n) + (l - at)
      /\ \A i \in 1 .. (at + n) + (l - at) :
            value[i] = IF i <= at THEN u[i] ELSE IF i <= at + n THEN text[i - at] ELSE v[i - (at + n)]
  <2> DEFINE w == (u \o text) \o v
  <2>1. InThree(u, text, v)
    BY <1>2, ThreeParts
  <2>2. /\ Len(w) = (Len(u) + Len(text)) + Len(v)
        /\ \A i \in 1 .. (Len(u) + Len(text)) + Len(v) :
              w[i] = IF i <= Len(u) THEN u[i] ELSE IF i <= Len(u) + Len(text) THEN text[i - Len(u)]
                     ELSE v[i - (Len(u) + Len(text))]
    BY <2>1 DEF InThree
  <2> HIDE DEF w
  <2>3. value = w
    BY <1>3 DEF w
  <2> QED BY <1>2, <2>2, <2>3
<1>5. value \in Seq(Bytes)
  <2>1. u \o text \in Seq(Bytes)
    BY <1>2, ConcatProperties
  <2> QED BY <1>2, <1>3, <2>1, ConcatProperties
<1> HIDE DEF l, n
<1>6. Len(value) = l + n
  BY <1>1, <1>4
<1>7. \A k \in 1 .. at : value[k] = old[k]
  <2> TAKE k \in 1 .. at
  <2>1. k \in 1 .. (at + n) + (l - at) /\ k <= at
    BY <1>1
  <2> QED BY <1>2, <1>4, <2>1
<1>8. \A k \in 1 .. n : value[at + k] = text[k]
  <2> TAKE k \in 1 .. n
  <2> DEFINE i == at + k
  <2>1. i \in 1 .. (at + n) + (l - at) /\ ~(i <= at) /\ i <= at + n /\ i - at = k
    BY <1>1
  <2> HIDE DEF i
  <2>2. value[i] = text[k]
    BY <1>4, <2>1
  <2> QED BY <2>2 DEF i
<1>9. \A k \in 1 .. l - at : value[at + n + k] = old[at + k]
  <2> TAKE k \in 1 .. l - at
  <2> DEFINE i == at + n + k
  <2>1. i \in 1 .. (at + n) + (l - at) /\ ~(i <= at) /\ ~(i <= at + n) /\ i - (at + n) = k
    BY <1>1
  <2> HIDE DEF i
  <2>2. value[i] = v[k]
    BY <1>4, <2>1
  <2> QED BY <1>2, <2>2 DEF i
<1>10. at \in Boundaries(value)
  <2>1. 1 \in 1 .. n
    BY <1>1
  <2>2. text[1] \notin Continuations
    <3>1. \A k \in 1 .. Len(text) : text[k] \in Continuations => WholeIn(text, k)
      BY WholeIs DEF Whole
    <3> QED BY <2>1, <3>1 DEF WholeIn, n
  <2>3. value[at + 1] = text[1]
    BY <1>8, <2>1
  <2>4. at \in 0 .. Len(value)
    BY <1>1, <1>6
  <2> QED BY <2>2, <2>3, <2>4 DEF Boundaries
<1>11. at + n \in Boundaries(value)
  <2> DEFINE c == at + n
  <2>1. c \in 0 .. Len(value)
    BY <1>1, <1>6
  <2>2. CASE at = l
    <3>1. c = Len(value)
      BY <1>1, <1>6, <2>2
    <3> QED BY <2>1, <3>1 DEF Boundaries
  <2>3. CASE at # l
    <3>1. 1 \in 1 .. l - at
      BY <1>1, <2>3
    <3>2. value[c + 1] = old[at + 1]
      BY <1>9, <3>1
    <3>3. old[at + 1] \notin Continuations
      <4>1. at \in {0, Len(old)} \/ old[at + 1] \notin Continuations
        BY DEF Boundaries
      <4>2. \A k \in 1 .. Len(old) : old[k] \in Continuations => WholeIn(old, k)
        BY WholeIs DEF Whole
      <4>3. at = 0 => at + 1 = 1 /\ 1 \in 1 .. Len(old)
        BY <1>1, <2>3 DEF l
      <4> QED BY <2>3, <4>1, <4>2, <4>3 DEF WholeIn, l
    <3> QED BY <2>1, <3>2, <3>3 DEF Boundaries
  <2> QED BY <2>2, <2>3
<1> QED BY <1>1, <1>5, <1>6, <1>7, <1>8, <1>9, <1>10, <1>11 DEF TypedInto, l, n

LEMMA SameSuffixWhen ==
    ASSUME NEW B, NEW a \in Seq(B), NEW b \in Seq(B), NEW n \in Nat,
           NEW l \in Nat, Len(a) = l + n, NEW m \in Nat, Len(b) = m + n,
           \A k \in 1 .. n : a[l + k] = b[m + k]
    PROVE  SameSuffix(a, b, n)
<1> DEFINE x == After(a, l)
           y == After(b, m)
<1>1. l \in 0 .. Len(a) /\ m \in 0 .. Len(b) /\ Len(a) - l = n /\ Len(b) - m = n
  OBVIOUS
<1>2. /\ x \in Seq(B) /\ Len(x) = n /\ \A k \in 1 .. n : x[k] = a[l + k]
      /\ y \in Seq(B) /\ Len(y) = n /\ \A k \in 1 .. n : y[k] = b[m + k]
  <2>1. x \in Seq(B) /\ Len(x) = Len(a) - l /\ \A k \in 1 .. Len(a) - l : x[k] = a[l + k]
    BY <1>1, PartTypes
  <2>2. y \in Seq(B) /\ Len(y) = Len(b) - m /\ \A k \in 1 .. Len(b) - m : y[k] = b[m + k]
    BY <1>1, PartTypes
  <2> HIDE DEF x, y
  <2> QED BY <1>1, <2>1, <2>2
<1> HIDE DEF x, y
<1>3. x = y
  BY <1>2, SeqEqual
<1>4. Len(a) - n + 1 = l + 1 /\ Len(b) - n + 1 = m + 1
  OBVIOUS
<1> QED BY <1>3, <1>4 DEF SameSuffix, x, y, After

\* Where a character the text does not have was put in, the two differ, and
\* nowhere else.
LEMMA EdgesOfTyped ==
    ASSUME NEW old, NEW at, NEW text, NEW value, TypedInto(old, at, text, value), IsCharacter(text),
           \A k \in 1 .. Len(old) : old[k] # text[Len(text)]
    PROVE  CommonPrefix(old, value) = at /\ CommonSuffix(old, value) = Len(old) - at
<1> DEFINE p == CommonPrefix(old, value)
           l == Len(old)
           n == Len(text)
<1>1. /\ old \in Seq(Bytes) /\ text \in Seq(Bytes) /\ value \in Seq(Bytes)
      /\ l \in Nat /\ n \in Nat /\ n # 0 /\ at \in Nat /\ at <= l /\ Len(value) = l + n
      /\ \A k \in 1 .. at : value[k] = old[k]
      /\ \A k \in 1 .. n : value[at + k] = text[k]
      /\ \A k \in 1 .. l - at : value[at + n + k] = old[at + k]
      /\ at \in Boundaries(old) /\ at \in Boundaries(value) /\ at + n \in Boundaries(value)
  BY DEF TypedInto
<1>2. p \in Nat /\ p <= l /\ p <= Len(value) /\ SamePrefix(old, value, p) /\ p \in Boundaries(value)
  BY <1>1, PrefixEdge
<1>3. at <= p
  <2>1. at <= Len(value)
    <3> HIDE DEF l, n
    <3> QED BY <1>1
  <2>2. SamePrefix(old, value, at)
    BY <1>1, <2>1, SamePrefixIs
  <2> QED BY <1>1, <2>1, <2>2, PrefixLongest
<1>4. \A k \in 1 .. p : old[k] = value[k]
  <2> HIDE DEF p, n
  <2>1. old \in Seq(Bytes) /\ value \in Seq(Bytes) /\ p \in Nat /\ p <= Len(old) /\ p <= Len(value)
    BY <1>1, <1>2
  <2>2. SamePrefix(old, value, p) <=> \A k \in 1 .. p : old[k] = value[k]
    BY <2>1, SamePrefixIs
  <2> QED BY <1>2, <2>2
<1>5. p <= at
  <2> SUFFICES ASSUME ~(p <= at) PROVE FALSE
    OBVIOUS
  <2> HIDE DEF p
  <2>1. CASE at + n <= p
    <3>1. at + n \in 1 .. p /\ at + n \in 1 .. l /\ n \in 1 .. n
      <4> HIDE DEF l, n
      <4> QED BY <1>1, <1>2, <2>1
    <3>2. old[at + n] = text[n]
      BY <1>1, <1>4, <3>1
    <3> QED BY <3>1, <3>2
  <2>2. CASE ~(at + n <= p)
    <3> DEFINE c == p - at
    <3>1. c \in 0 .. n /\ c # 0 /\ c # n /\ c + 1 \in 1 .. n /\ at + (c + 1) = p + 1 /\ p # 0 /\ p # Len(value)
      <4> HIDE DEF l, n
      <4> QED BY <1>1, <1>2, <2>2
    <3>2. value[p + 1] \notin Continuations
      BY <1>2, <3>1 DEF Boundaries
    <3>3. value[at + (c + 1)] = text[c + 1]
      BY <1>1, <3>1
    <3> HIDE DEF c
    <3>4. c \in Boundaries(text)
      BY <3>1, <3>2, <3>3 DEF Boundaries
    <3> QED BY <3>1, <3>4 DEF IsCharacter
  <2> QED BY <2>1, <2>2
<1>6. p = at
  <2> HIDE DEF p
  <2> QED BY <1>1, <1>2, <1>3, <1>5
<1> DEFINE max == l - at
<1>7. CommonSuffix(old, value) = SuffixWithin(old, value, max)
  <2>1. Min({l, l + n}) = l
    <3> HIDE DEF l, n
    <3> QED BY <1>1, MinMaxOf
  <2> QED BY <1>1, <1>6, <2>1 DEF CommonSuffix
<1>8. /\ max \in Nat /\ max <= l /\ max <= Len(value) /\ l - max = at /\ Len(value) - max = at + n
      /\ l = at + max /\ Len(value) = (at + n) + max /\ at + n \in Nat /\ max \in 0 .. max
  <2> HIDE DEF l, n
  <2> QED BY <1>1
<1>9. SuffixWithin(old, value, max) \in Nat /\ SuffixWithin(old, value, max) <= max
  <2> HIDE DEF max
  <2> QED BY <1>1, <1>8, SuffixEdge
<1>10. SameSuffix(old, value, max)
  <2> DEFINE c == at + n
  <2>1. \A k \in 1 .. max : old[at + k] = value[c + k]
    BY <1>1
  <2>2. Len(old) = at + max /\ Len(value) = c + max /\ c \in Nat
    BY <1>8
  <2> HIDE DEF max, c
  <2> QED BY <1>1, <1>8, <2>1, <2>2, SameSuffixWhen
<1>11. max <= SuffixWithin(old, value, max)
  <2> HIDE DEF max
  <2> QED BY <1>1, <1>8, <1>10, SuffixLongest
<1>12. SuffixWithin(old, value, max) = max
  <2> DEFINE c == SuffixWithin(old, value, max)
  <2> HIDE DEF max, c
  <2>1. c = max
    BY <1>8, <1>9, <1>11 DEF c
  <2> QED BY <2>1 DEF c
<1> QED BY <1>6, <1>7, <1>12

\* What set_text makes of a run list when a character is typed.
LEMMA SetTextTyped ==
    ASSUME NEW runs \in Contents, NEW M, M = Marked(runs), NEW old, old = RunsText(runs), Whole(old),
           NEW at \in Boundaries(old), NEW text \in Seq(Bytes), Whole(text), IsCharacter(text),
           \A k \in 1 .. Len(old) : old[k] # text[Len(text)],
           NEW value, value = TypedText(old, at, text), NEW w, w = Styled(text, MarksAt(runs, at))
    PROVE  /\ w \in Seq(Letters)
           /\ Marked(SetText(runs, value)) = Cat(Cat(UpTo(M, at), w), After(M, at))
<1> DEFINE l == Len(old)
           n == Len(text)
           suffix == l - at
<1>1. runs \in Seq(TextRun) /\ old \in Seq(Bytes) /\ text # <<>>
  BY ContentIs, TextOfMarked DEF IsCharacter
<1>2. TypedInto(old, at, text, value)
  BY <1>1, TypedIntoIs
<1>3. /\ value \in Seq(Bytes) /\ l \in Nat /\ n \in Nat /\ n # 0 /\ at \in Nat /\ at <= l
      /\ Len(value) = l + n /\ \A k \in 1 .. n : value[at + k] = text[k]
  BY <1>2 DEF TypedInto
<1>4. CommonPrefix(old, value) = at /\ CommonSuffix(old, value) = suffix
  BY <1>2, EdgesOfTyped
<1>5. old # value
  <2>1. l # Len(value)
    <3> HIDE DEF l, n
    <3> QED BY <1>3
  <2> QED BY <2>1
<1>6. l - suffix = at /\ Len(value) - suffix = at + n
  <2> HIDE DEF l, n
  <2> QED BY <1>3
<1>7. SetText(runs, value) = Splice(runs, at, at, SubSeq(value, at + 1, at + n))
  BY <1>4, <1>5, <1>6 DEF SetText, Differing
<1>8. SubSeq(value, at + 1, at + n) = text
  <2> DEFINE m == at + 1
             x == at + n
             s == SubSeq(value, m, x)
  <2>1. /\ m \in Nat /\ 1 <= m /\ x \in Nat /\ x <= Len(value) /\ m <= x /\ x - m + 1 = n
        /\ \A k \in 1 .. n : m + k - 1 = at + k
    <3> HIDE DEF l, n
    <3> QED BY <1>3
  <2> HIDE DEF m, x
  <2>2. s \in Seq(Bytes) /\ Len(s) = x - m + 1 /\ \A k \in 1 .. x - m + 1 : s[k] = value[m + k - 1]
    BY <1>3, <2>1, PartFacts
  <2> HIDE DEF s
  <2>3. \A k \in 1 .. n : s[k] = text[k]
    BY <1>3, <2>1, <2>2
  <2>4. Len(s) = n
    BY <2>1, <2>2
  <2>5. s = text
    BY <2>2, <2>3, <2>4, SeqEqual
  <2> QED BY <2>5 DEF s, m, x
<1> DEFINE marks == MarksAt(runs, at)
<1>9. marks \in SUBSET Marks
  BY <1>1, MarksAtType
<1> HIDE DEF marks
<1>10. w = Styled(text, marks)
  BY DEF marks
<1>11. w \in Seq(Letters)
  BY <1>9, <1>10, StyledFacts
<1>12. Marked(Splice(runs, at, at, text))
       = (SubSeq(M, 1, at) \o [j \in 1 .. Len(text) |-> <<text[j], MarksAt(runs, at)>>])
         \o SubSeq(M, at + 1, Len(M))
  <2>1. at <= at /\ at <= Len(RunsText(runs))
    BY <1>3
  <2> QED BY <1>1, <1>3, <2>1, SpliceKeepsAround
<1>13. w = [j \in 1 .. Len(text) |-> <<text[j], MarksAt(runs, at)>>]
  BY DEF Styled
<1>14. Marked(Splice(runs, at, at, text)) = Cat(Cat(UpTo(M, at), w), After(M, at))
  BY <1>12, <1>13 DEF Cat, UpTo, After
<1> QED BY <1>7, <1>8, <1>11, <1>14

\* Cutting lines inside one of them, and behind a first sign.
LEMMA CutHead ==
    ASSUME NEW B, NEW k \in Seq(B), Len(k) = 1, NEW s \in Seq(B), NEW x \in 0 .. Len(s)
    PROVE  UpTo(Cat(k, s), 1 + x) = Cat(k, UpTo(s, x)) /\ After(Cat(k, s), 1 + x) = After(s, x)
<1>1. UpTo(k \o s, Len(k) + x) = k \o UpTo(s, x)
  BY CutSecond
<1>2. After(k \o s, Len(k) + x) = After(s, x)
  BY CutSecond
<1> QED BY <1>1, <1>2 DEF Cat

LEMMA CutInLine ==
    ASSUME NEW B, NEW p \in Seq(B), NEW k \in Seq(B), Len(k) = 1, NEW s \in Seq(B), NEW q \in Seq(B),
           NEW x \in 0 .. Len(s), NEW at, at = Len(p) + (1 + x)
    PROVE  /\ UpTo(Cat(Cat(p, Cat(k, s)), q), at) = Cat(p, Cat(k, UpTo(s, x)))
           /\ After(Cat(Cat(p, Cat(k, s)), q), at) = Cat(After(s, x), q)
<1> DEFINE r == Cat(k, s)
           c == 1 + x
<1>1. UpTo(r, c) = Cat(k, UpTo(s, x)) /\ After(r, c) = After(s, x)
  BY CutHead
<1>2. r \in Seq(B) /\ Len(r) = Len(k) + Len(s)
  BY CatFacts
<1>3. c \in 0 .. Len(r) /\ at = Len(p) + c
  <2>1. Len(s) \in Nat
    OBVIOUS
  <2> HIDE DEF r
  <2> QED BY <1>2, <2>1
<1> HIDE DEF r, c
<1>4. r \in Seq(B) /\ c \in 0 .. Len(r)
  BY <1>2, <1>3
<1>5. UpTo(Cat(Cat(p, r), q), at) = Cat(p, UpTo(r, c)) /\ After(Cat(Cat(p, r), q), at) = Cat(After(r, c), q)
  BY <1>3, <1>4, CutInMiddle
<1> QED BY <1>1, <1>5 DEF r

\* How a document reads when something is put into one of its blocks.
LEMMA ReadingSet ==
    ASSUME NEW d \in Seq(Blocks), NEW i \in 1 .. Len(d), NEW M, M = Marked(d[i].runs),
           NEW x \in 0 .. Len(M), NEW w \in Seq(Letters), NEW b \in Blocks,
           Marked(b.runs) = Cat(Cat(UpTo(M, x), w), After(M, x)), NEW m, m = BlockStart(d, i) + x
    PROVE  Reading(BlockSet(d, i, b)) = Spliced(Reading(d), m, w, m)
<1> DEFINE P == SubSeq(d, 1, i - 1)
           Q == SubSeq(d, i + 1, Len(d))
           p == Lines(P)
           q == Lines(Q)
           N == <<Newline>>
           S == Signs
           u == UpTo(M, x)
           v == After(M, x)
           new == BlockSet(d, i, b)
           R == Reading(d)
           A == UpTo(R, m)
           B == After(R, m)
<1>1. P \in Seq(Blocks) /\ Q \in Seq(Blocks) /\ d[i] \in Blocks /\ Lines(d) = (p \o Line(d[i])) \o q
  BY AroundBlock
<1>2. p \in Seq(S) /\ q \in Seq(S) /\ N \in Seq(S) /\ Len(N) = 1 /\ M \in Seq(S) /\ w \in Seq(S)
  BY <1>1, LinesType, LineFacts, NewlineText, SignFacts
<1>3. u \in Seq(S) /\ v \in Seq(S)
  <2> HIDE DEF S
  <2> QED BY <1>2, PartTypes
<1>4. BlockStart(d, i) = Len(p) /\ Len(p) \in Nat
  BY <1>1, BlockStartIs, LinesType
<1> HIDE DEF u, v, p, q, S, N
<1>5. Lines(new) = Cat(Cat(p, Cat(N, Cat(Cat(u, w), v))), q)
  <2>1. new = Cat(Cat(P, <<b>>), Q)
    <3>1. i <= i
      OBVIOUS
    <3> QED BY <3>1, SetIsSwap DEF Swap
  <2>2. <<b>> \in Seq(Blocks) /\ Lines(<<b>>) = Line(b)
    BY LinesSmall
  <2>3. Line(b) = Cat(N, Cat(Cat(u, w), v))
    BY DEF Line, Cat, N, u, v
  <2> DEFINE c == <<b>>
  <2> HIDE DEF new, P, Q, c
  <2>4. Cat(P, c) \in Seq(Blocks) /\ Lines(Cat(P, c)) = Cat(p, Lines(c))
    BY <1>1, <2>2, CatFacts, LinesConcat DEF Cat, p, c
  <2>5. Lines(Cat(Cat(P, c), Q)) = Cat(Lines(Cat(P, c)), q)
    BY <1>1, <2>4, LinesConcat DEF Cat, q
  <2> QED BY <2>1, <2>2, <2>3, <2>4, <2>5 DEF c
<1>6. Lines(new) = Cat(Cat(Cat(p, Cat(N, u)), w), Cat(v, q))
  BY <1>2, <1>3, <1>5, GroupSix
<1> DEFINE T == Lines(d)
<1>7. UpTo(T, 1 + m) = Cat(p, Cat(N, u)) /\ After(T, 1 + m) = Cat(v, q)
  <2>1. T = Cat(Cat(p, Cat(N, M)), q)
    BY <1>1 DEF Line, Cat, N
  <2>2. Len(M) \in Nat /\ x \in 0 .. Len(M)
    BY <1>2
  <2> HIDE DEF T
  <2>3. 1 + m = Len(p) + (1 + x)
    BY <1>4, <2>2
  <2> QED BY <1>2, <2>1, <2>2, <2>3, CutInLine DEF u, v
<1>8. Lines(new) = Cat(Cat(UpTo(T, 1 + m), w), After(T, 1 + m))
  BY <1>6, <1>7
<1>9. d # <<>> /\ new \in Seq(Blocks) /\ new # <<>>
  <2>1. new \in Seq(Blocks) /\ Len(new) = Len(d)
    BY SetFacts
  <2> QED BY <2>1
<1>10. R \in Seq(S) /\ Reading(new) \in Seq(S) /\ T = Cat(N, R) /\ Lines(new) = Cat(N, Reading(new))
  <2> HIDE DEF new
  <2> QED BY <1>9, ReadingIs DEF Cat, N, S
<1>11. m \in 0 .. Len(R)
  <2>1. BlockStart(d, i) + Len(TextOf(d[i])) <= Len(R) /\ Len(TextOf(d[i])) = Len(M) /\ Len(M) \in Nat
    BY <1>1, ReadingFrame, LineFacts
  <2>2. Len(R) \in Nat
    <3> HIDE DEF R
    <3> QED BY <1>10
  <2> HIDE DEF R
  <2> QED BY <1>4, <2>1, <2>2
<1> DEFINE O == Reading(new)
<1> HIDE DEF T, R, new
<1>12. UpTo(T, 1 + m) = Cat(N, A) /\ After(T, 1 + m) = B
  <2> QED BY <1>2, <1>10, <1>11, CutHead
<1>13. A \in Seq(S) /\ B \in Seq(S) /\ O \in Seq(S)
  BY <1>10, <1>11, PartTypes
<1> HIDE DEF A, B, O
<1>14. Cat(N, O) = Cat(Cat(Cat(N, A), w), B)
  BY <1>8, <1>10, <1>12 DEF O
<1>15. Cat(Cat(Cat(N, A), w), B) = Cat(N, Cat(Cat(A, w), B))
  BY <1>2, <1>13, GroupFour
<1>16. O = Cat(Cat(A, w), B)
  <2>1. Cat(A, w) \in Seq(S)
    BY <1>2, <1>13, CatFacts
  <2>2. Cat(Cat(A, w), B) \in Seq(S)
    BY <1>13, <2>1, CatFacts
  <2> QED BY <1>2, <1>13, <1>14, <1>15, <2>2, CatCancels
<1> QED BY <1>16 DEF Spliced, Cat, A, B, O, R, new

LEMMA ShorterWithout ==
    ASSUME NEW B, NEW s \in Seq(B), NEW from \in Nat, NEW m \in Nat, m # 0, from + m <= Len(s)
    PROVE  Without(s, from, from + m) # s
<1> DEFINE to == from + m
           u == UpTo(s, from)
           v == After(s, to)
<1>1. Len(s) \in Nat /\ from \in 0 .. Len(s) /\ to \in 0 .. Len(s) /\ to \in Nat /\ from < to
  OBVIOUS
<1> HIDE DEF to
<1>2. u \in Seq(B) /\ v \in Seq(B) /\ Len(u) = from /\ Len(v) = Len(s) - to
  BY <1>1, PartTypes
<1>3. Without(s, from, to) = Cat(u, v)
  BY DEF Without, Cat
<1> HIDE DEF u, v
<1>4. Len(Cat(u, v)) = from + (Len(s) - to)
  BY <1>2, CatFacts
<1>5. Len(Cat(u, v)) # Len(s)
  BY <1>1, <1>4
<1> QED BY <1>3, <1>5 DEF to

\* A heading that lost its marker does not read as the text with what was typed.
LEMMA ConvertedDiffers ==
    ASSUME NEW e, NEW i, NEW p, Stands(e, i, p), NEW value \in Seq(Bytes), value = TextOf(e.doc[i]),
           Converts(e, i, value), NEW f, f = Converted(e, i, value)
    PROVE  Plain(f.doc) # Plain(e.doc)
<1> DEFINE start == BlockStart(e.doc, i)
           m == Len(Marker)
           P == Plain(e.doc)
<1>1. IsPrefix(Marker, value) /\ e.doc[i].kind = Paragraph
  BY DEF Converts
<1>2. Plain(f.doc) = Without(P, start, start + m)
  BY <1>1, ConvertedStands
<1>3. e.doc \in Seq(Blocks) /\ i \in 1 .. Len(e.doc)
  BY StandsAt DEF Spot
<1>4. P \in Seq(Glyphs) /\ Len(P) \in Nat /\ start \in Nat /\ start + Len(value) <= Len(P)
  BY <1>3, PlainFrame
<1>5. m \in Nat /\ m # 0 /\ m <= Len(value) /\ Len(value) \in Nat
  <2>1. Marker \in Seq(Bytes) /\ Marker # <<>>
    BY ContentsAssumption, TextsAssumption
  <2>2. Len(Marker) <= Len(value)
    BY <1>1, <2>1 DEF IsPrefix
  <2> QED BY <2>1, <2>2
<1>6. start + m <= Len(P)
  <2> HIDE DEF start, m, P
  <2> QED BY <1>4, <1>5
<1> HIDE DEF start, m, P
<1>7. Without(P, start, start + m) # P
  BY <1>4, <1>5, <1>6, ShorterWithout
<1> QED BY <1>2, <1>7 DEF P

LEMMA MarksChecks ==
    ASSUME Inv, SoundDoc(doc), doc # <<>>, Collapsed(Now), NEW text \in Chars, IsCharacter(text),
           NEW i, i = IndexOf(doc, focus.block), NEW old, old = TextOf(doc[i]),
           \A k \in DOMAIN old : old[k] # text[Len(text)],
           NEW M, M = Marked(doc[i].runs),
           NEW marks, marks = IF Clamp(old, focus.offset) < Len(old) THEN M[Clamp(old, focus.offset) + 1][2]
                              ELSE IF doc[i].runs # <<>> THEN Last(doc[i].runs).marks ELSE {}
    PROVE  KeepsMarks(Reading(doc), Reading(InsertText(Now, text, None).doc), text, From, marks)
<1> DEFINE at == focus.offset
           from == From
           runs == doc[i].runs
           w == Styled(text, MarksAt(runs, at))
           value == TypedText(old, at, text)
           h == Entered(Now, i, at, text)
           b == Written(doc[i], value)
           f == InsertText(Now, text, None)
<1>1. Stands(Now, i, from) /\ Now.doc = doc /\ Now.focus = focus /\ SoundDoc(Now.doc)
  BY NowStands, NowFacts
<1>2. text \in Seq(Bytes) /\ Whole(text)
  BY CharWhole
<1>3. f = TypeAtFocus(Now, text)
  <2>1. DeleteSelection(Now) = Now
    BY DEF DeleteSelection, Cut
  <2>2. Seeded(Now, None) = Now
    BY <1>1 DEF Seeded
  <2> QED BY <2>1, <2>2 DEF InsertText
<1> HIDE DEF f, from
<1>4. /\ i \in 1 .. Len(doc) /\ doc \in Seq(Blocks) /\ doc[i] \in Blocks /\ old \in Seq(Bytes)
      /\ at \in Boundaries(old) /\ at \in 0 .. Len(old) /\ at \in Nat /\ Now \in Editing
  <2>1. Spot(Now, i, Now.focus.offset)
    BY <1>1, StandsAt
  <2>2. Now \in Editing
    BY <1>1 DEF Stands
  <2> QED BY <1>1, <2>1, <2>2 DEF Spot
<1>5. from = BlockStart(doc, i) + at
  BY <1>1 DEF Stands
<1>6. /\ Stands(h, i, from + Len(text)) /\ Plain(h.doc) = Spliced(Plain(doc), from, text, from)
      /\ value \in Seq(Bytes) /\ TextOf(h.doc[i]) = value
      /\ f = Converted(h, i, value)
  <2>1. at = Now.focus.offset /\ value = TypedText(TextOf(Now.doc[i]), at, text)
    BY <1>1
  <2> HIDE DEF h, value, at
  <2>2. h = Entered(Now, i, at, text)
    BY DEF h
  <2> QED BY <1>1, <1>2, <1>3, <2>1, <2>2, EnteredStands
<1>7. h.doc = BlockSet(doc, i, b)
  <2>1. i \in 1 .. Len(Now.doc) /\ at \in 0 .. Len(TextOf(Now.doc[i]))
    BY <1>1, <1>4
  <2>2. Puts(h, BlockSet(Now.doc, i, Written(Now.doc[i], TypedText(TextOf(Now.doc[i]), at, text))),
             At(Now.doc[i].id, at + Len(text)))
    BY <1>2, <1>4, <2>1, EnteredIs
  <2> QED BY <1>1, <2>2 DEF Puts
<1> HIDE DEF h, at
<1>8. runs \in Contents /\ old = RunsText(runs) /\ Len(M) = Len(old) /\ Whole(old)
  <2>1. Sound(doc[i])
    BY <1>4 DEF SoundDoc
  <2> QED BY <1>4, <2>1, BlockFacts, LineFacts, SoundText DEF TextOf
<1>9. \A k \in 1 .. Len(old) : old[k] # text[Len(text)]
  BY <1>4
<1>10. M = Marked(runs)
  OBVIOUS
<1>11. w \in Seq(Letters) /\ Marked(SetText(runs, value)) = Cat(Cat(UpTo(M, at), w), After(M, at))
  <2>1. value = TypedText(old, at, text) /\ w = Styled(text, MarksAt(runs, at))
    OBVIOUS
  <2> HIDE DEF w, value, runs
  <2> QED BY <1>2, <1>4, <1>8, <1>9, <1>10, <2>1, SetTextTyped
<1>12. b \in Blocks /\ b.runs = SetText(runs, value)
  BY <1>4, <1>6, WrittenFacts
<1>13. marks = MarksAt(runs, at)
  <2>1. Clamp(old, at) = at
    BY <1>4, ClampFacts
  <2>2. at \in 0 .. Len(M)
    BY <1>4, <1>8
  <2>3. marks = IF at < Len(M) THEN M[at + 1][2] ELSE IF runs # <<>> THEN Last(runs).marks ELSE {}
    BY <1>8, <2>1 DEF at
  <2>4. runs \in Seq(TextRun)
    BY <1>8, ContentIs
  <2> HIDE DEF runs
  <2> QED BY <1>10, <2>2, <2>3, <2>4, MarksAtIs
<1> HIDE DEF b, value
<1>14. Reading(h.doc) = Spliced(Reading(doc), from, w, from)
  <2>1. at \in 0 .. Len(M) /\ Marked(b.runs) = Cat(Cat(UpTo(M, at), w), After(M, at))
    BY <1>4, <1>8, <1>11, <1>12
  <2> HIDE DEF w
  <2> QED BY <1>4, <1>5, <1>7, <1>11, <1>12, <2>1, ReadingSet
<1>15. w = [k \in DOMAIN text |-> <<text[k], marks>>]
  <2>1. DOMAIN text = 1 .. Len(text)
    BY <1>2
  <2> DEFINE x == MarksAt(runs, at)
  <2>2. w = [j \in 1 .. Len(text) |-> <<text[j], x>>]
    BY DEF Styled
  <2>3. marks = x
    BY <1>13
  <2> HIDE DEF x, w
  <2> QED BY <2>1, <2>2, <2>3
<1> HIDE DEF w
<1>16. CASE ~Converts(h, i, value)
  <2>1. f.doc = h.doc
    BY <1>6, <1>16, KeptByConverted
  <2> QED BY <1>14, <1>15, <2>1 DEF KeepsMarks, f, from
<1>17. CASE Converts(h, i, value)
  <2>1. Plain(f.doc) # Spliced(Plain(doc), from, text, from)
    BY <1>6, <1>17, ConvertedDiffers
  <2> QED BY <2>1 DEF KeepsMarks, Plain, f, from
<1> QED BY <1>16, <1>17

\* Typing one character, on any page: where the block does not have it yet, every
\* other character keeps its marks, and the new one has those of the character it
\* came before, or at the end those of the last run.
THEOREM TypingAlwaysKeepsMarks == Spec => []TypingKeepsMarks
<1>1. Inv /\ CharactersWhole => TypingKeepsMarks
  <2> SUFFICES ASSUME Inv, CharactersWhole
               PROVE  TypingKeepsMarks
    OBVIOUS
  <2>1. SoundDoc(doc)
    BY DEF CharactersWhole, SoundDoc, Sound
  <2> DEFINE i == IndexOf(doc, focus.block)
             old == TextOf(doc[i])
             at == Clamp(old, focus.offset)
             marks == IF at < Len(old) THEN Marked(doc[i].runs)[at + 1][2]
                      ELSE IF doc[i].runs # <<>> THEN Last(doc[i].runs).marks ELSE {}
  <2>2. ASSUME doc # <<>>, Collapsed(Now),
               NEW text \in Chars, IsCharacter(text), \A k \in DOMAIN old : old[k] # text[Len(text)]
        PROVE  KeepsMarks(Reading(doc), Reading(InsertText(Now, text, None).doc), text, From, marks)
    BY <2>1, <2>2, MarksChecks
  <2> HIDE DEF marks, old
  <2>3. doc # <<>> /\ Collapsed(Now) =>
          \A text \in {t \in Chars : IsCharacter(t) /\ \A k \in DOMAIN old : old[k] # t[Len(t)]} :
             KeepsMarks(Reading(doc), Reading(InsertText(Now, text, None).doc), text, From, marks)
    BY <2>2
  <2> QED BY <2>3 DEF TypingKeepsMarks, TextOf, marks, old
<1> QED BY <1>1, WholeInvariance, PTL
=============================================================================
