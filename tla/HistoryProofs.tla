---------------------------- MODULE HistoryProofs ----------------------------
(***************************************************************************)
(* Proofs about History, for every set of blocks, peers and contents and   *)
(* every number of peer writes: the types, that entries only name blocks   *)
(* the store holds, and that undo and redo walk a line of states on the    *)
(* blocks peers leave alone.                                               *)
(***************************************************************************)
EXTENDS History, TLAPS, FiniteSetTheorems, SequenceTheorems, WellFoundedInduction

OwnRecord == {r \in Record : r.client = Self}
Entry == [id : Ids, before : Record \cup {Absent}, after : OwnRecord, key : Keys]

LineDocs == [OwnIds -> {<<>>} \cup {<<v>> : v \in Values}]

\* What an entry of the user's own block wrote is what the entries after it
\* found, or the block's content now.
Coherent(s, stack) ==
    \A k \in OwnEntries(stack) :
        Content(stack[k].after) = Unwound(s, stack, k + 1)[stack[k].id]

\* Two stores that may differ in block id, among those peers leave alone.
ButFor(s, t, id) == \A i \in OwnIds : i # id => t[i] = s[i]

\* Entry e was made on the way from store s to store t, or undone on the way back.
Between(s, t, e) ==
    /\ ButFor(s, t, e.id)
    /\ e.id \in OwnIds => Content(e.before) = Content(s[e.id])

\* No entry above n is about a block that peers leave alone.
ForeignAbove(stack, n) == \A l \in n + 1 .. Len(stack) : stack[l].id \notin OwnIds

\* Store s with record r under id.
Put(s, id, r) == [s EXCEPT ![id] = r]

-----------------------------------------------------------------------------
(* Records and entries. *)

LEMMA RecordHeld ==
    ASSUME NEW r \in Record
    PROVE  /\ r # Absent
           /\ r = [c |-> r.c, client |-> r.client, deleted |-> r.deleted, value |-> r.value]
           /\ r.c \in Nat \ {0} /\ r.client \in Authors /\ r.deleted \in BOOLEAN
           /\ r.value \in Values
<1>1. r.c # 0
  BY DEF Record
<1>2. Absent.c = 0
  BY DEF Absent
<1>3. r # Absent
  BY <1>1, <1>2
<1> QED BY <1>3 DEF Record

LEMMA ContentType ==
    ASSUME NEW r \in Record \cup {Absent}
    PROVE  Content(r) \in {<<>>} \cup {<<v>> : v \in Values}
<1>1. CASE r = Absent
  BY <1>1 DEF Content
<1>2. CASE r # Absent
  <2>1. r.value \in Values
    BY <1>2, RecordHeld
  <2> QED BY <2>1 DEF Content
<1> QED BY <1>1, <1>2

LEMMA StampedIs ==
    ASSUME counter \in Nat, NEW deleted \in BOOLEAN, NEW value \in Values
    PROVE  /\ Stamped(deleted, value) \in OwnRecord
           /\ Stamped(deleted, value) \in Record
           /\ Stamped(deleted, value).client = Self
           /\ Content(Stamped(deleted, value)) = IF deleted THEN <<>> ELSE <<value>>
<1> DEFINE r == Stamped(deleted, value)
<1>1. r \in Record
  BY SelfAssumption DEF Stamped, Record
<1>2. r.client = Self /\ r.deleted = deleted /\ r.value = value
  BY DEF Stamped
<1>3. r # Absent
  BY <1>1, RecordHeld
<1> QED BY <1>1, <1>2, <1>3 DEF OwnRecord, Content

\* What an undo writes has the content the entry found.
LEMMA RevertedIs ==
    ASSUME counter \in Nat, NEW e \in Entry
    PROVE  /\ Reverted(e) \in OwnRecord
           /\ Reverted(e) \in Record
           /\ Reverted(e).client = Self
           /\ Content(Reverted(e)) = Content(e.before)
<1>1. e.before \in Record \cup {Absent}
  BY DEF Entry
<1>2. CASE e.before = Absent
  <2>1. Reverted(e) = Stamped(TRUE, Blank)
    BY <1>2 DEF Reverted
  <2>2. Content(e.before) = <<>>
    BY <1>2 DEF Content
  <2> QED BY <2>1, <2>2, StampedIs, BlankAssumption
<1>3. CASE e.before # Absent
  <2>1. Reverted(e) = Stamped(e.before.deleted, e.before.value)
    BY <1>3 DEF Reverted
  <2>2. e.before.deleted \in BOOLEAN /\ e.before.value \in Values
    BY <1>1, <1>3, RecordHeld
  <2>3. Content(e.before) = IF e.before.deleted THEN <<>> ELSE <<e.before.value>>
    BY <1>3 DEF Content
  <2> QED BY <2>1, <2>2, <2>3, StampedIs
<1> QED BY <1>2, <1>3

LEMMA InvertedIs ==
    ASSUME counter \in Nat, NEW e \in Entry
    PROVE  /\ Inverted(e) \in Entry
           /\ Inverted(e).id = e.id
           /\ Inverted(e).before = e.after
           /\ Inverted(e).after = Reverted(e)
<1>1. e.id \in Ids /\ e.after \in OwnRecord
  BY DEF Entry
<1>2. e.after \in Record
  BY <1>1 DEF OwnRecord
<1>3. Reverted(e) \in OwnRecord
  BY RevertedIs
<1> QED BY <1>1, <1>2, <1>3 DEF Inverted, Entry, Keys

LEMMA StackFacts ==
    ASSUME NEW stack \in Seq(Entry)
    PROVE  /\ Len(stack) \in Nat
           /\ DOMAIN stack = 1 .. Len(stack)
           /\ \A k \in DOMAIN stack : stack[k] \in Entry /\ stack[k].id \in Ids
           /\ \A k \in DOMAIN stack : stack[k].before \in Record \cup {Absent}
           /\ OwnEntries(stack) \subseteq 1 .. Len(stack)
<1>1. Len(stack) \in Nat /\ DOMAIN stack = 1 .. Len(stack)
  OBVIOUS
<1>2. \A k \in DOMAIN stack : stack[k] \in Entry
  OBVIOUS
<1> QED BY <1>1, <1>2 DEF OwnEntries, Entry

-----------------------------------------------------------------------------
(* The document unwound to an entry. *)

LEMMA LeastOf ==
    ASSUME NEW S \in SUBSET Nat, S # {}
    PROVE  \E m \in S : \A x \in S : m <= x
<1> DEFINE Less == {pair \in Nat \X Nat : pair[1] < pair[2]}
<1>1. IsWellFoundedOn(Less, Nat)
  BY NatLessThanWellFounded DEF OpToRel
<1>2. \E m \in S : \A x \in S : ~ (<<x, m>> \in Less)
  <2> HIDE DEF Less
  <2> QED BY <1>1, WFMin, Zenon
<1>3. PICK m \in S : \A x \in S : ~ (<<x, m>> \in Less)
  BY <1>2
<1>4. \A x \in S : m <= x
  <2> SUFFICES ASSUME NEW x \in S PROVE m <= x
    OBVIOUS
  <2>1. <<x, m>> \notin Less
    BY <1>3
  <2> QED BY <2>1
<1> QED BY <1>4

\* Entry l of the stack is about block i, and the first from k on that is.
IsFirst(stack, k, i, l) ==
    l \in k .. Len(stack) /\ stack[l].id = i /\ \A m \in k .. l - 1 : stack[m].id # i

LEMMA FirstExists ==
    ASSUME NEW stack \in Seq(Entry), NEW k \in Nat \ {0}, NEW i,
           NEW l \in k .. Len(stack), stack[l].id = i
    PROVE  \E f \in k .. l : IsFirst(stack, k, i, f)
<1> DEFINE S == {m \in k .. l : stack[m].id = i}
<1>1. Len(stack) \in Nat
  OBVIOUS
<1>2. S \subseteq Nat /\ l \in S
  OBVIOUS
<1>3. PICK m \in S : \A x \in S : m <= x
  BY <1>2, LeastOf
<1>4. \A x \in k .. m - 1 : stack[x].id # i
  BY <1>3
<1>5. m \in k .. Len(stack) /\ stack[m].id = i
  BY <1>3, <1>1
<1> QED BY <1>3, <1>4, <1>5 DEF IsFirst

LEMMA FirstIn ==
    ASSUME NEW stack \in Seq(Entry), NEW k \in Nat \ {0}, NEW i,
           \E l \in k .. Len(stack) : stack[l].id = i
    PROVE  \E f \in k .. Len(stack) : IsFirst(stack, k, i, f)
<1>1. PICK l \in k .. Len(stack) : stack[l].id = i
  OBVIOUS
<1>2. PICK f \in k .. l : IsFirst(stack, k, i, f)
  BY <1>1, FirstExists
<1>3. f \in k .. Len(stack)
  BY <1>2 DEF IsFirst
<1> QED BY <1>2, <1>3

LEMMA UnwoundAt ==
    ASSUME NEW s, NEW stack \in Seq(Entry), NEW k \in Nat \ {0}, NEW i \in OwnIds
    PROVE  /\ (\A l \in k .. Len(stack) : stack[l].id # i)
                => Unwound(s, stack, k)[i] = Content(s[i])
           /\ \A l : IsFirst(stack, k, i, l)
                => Unwound(s, stack, k)[i] = Content(stack[l].before)
<1>1. ASSUME \A l \in k .. Len(stack) : stack[l].id # i
      PROVE  Unwound(s, stack, k)[i] = Content(s[i])
  BY <1>1 DEF Unwound
<1>2. ASSUME NEW l, IsFirst(stack, k, i, l)
      PROVE  Unwound(s, stack, k)[i] = Content(stack[l].before)
  <2>1. Firsts(stack, k, i) = {l}
    <3>1. l \in Firsts(stack, k, i)
      BY <1>2 DEF Firsts, IsFirst
    <3>2. ASSUME NEW m \in Firsts(stack, k, i) PROVE m = l
      <4>1. m \in k .. Len(stack) /\ stack[m].id = i /\ \A x \in k .. m - 1 : stack[x].id # i
        BY DEF Firsts
      <4>2. l \in k .. Len(stack) /\ stack[l].id = i /\ \A x \in k .. l - 1 : stack[x].id # i
        BY <1>2 DEF IsFirst
      <4>3. m \in Int /\ l \in Int /\ ~ (m < l) /\ ~ (l < m)
        BY <4>1, <4>2
      <4> QED BY <4>3
    <3> QED BY <3>1, <3>2
  <2>2. (CHOOSE m \in Firsts(stack, k, i) : TRUE) = l
    BY <2>1
  <2>3. \E m \in k .. Len(stack) : stack[m].id = i
    BY <1>2 DEF IsFirst
  <2> QED BY <2>2, <2>3 DEF Unwound
<1> QED BY <1>1, <1>2

\* Two documents unwound to an entry are the same where each block has the same
\* first entry, or none and the same content.
AgreeAt(s, stack, t, other, k, i) ==
    \/ /\ \A l \in k .. Len(stack) : stack[l].id # i
       /\ \A l \in k .. Len(other) : other[l].id # i
       /\ Content(s[i]) = Content(t[i])
    \/ \E l \in k .. Len(stack) :
         /\ IsFirst(stack, k, i, l)
         /\ IsFirst(other, k, i, l)
         /\ Content(stack[l].before) = Content(other[l].before)
    \/ \E l \in k .. Len(stack) :
         /\ IsFirst(stack, k, i, l)
         /\ \A m \in k .. Len(other) : other[m].id # i
         /\ Content(stack[l].before) = Content(t[i])

LEMMA SameUnwound ==
    ASSUME NEW s, NEW stack \in Seq(Entry), NEW t, NEW other \in Seq(Entry),
           NEW k \in Nat \ {0}, \A i \in OwnIds : AgreeAt(s, stack, t, other, k, i)
    PROVE  Unwound(s, stack, k) = Unwound(t, other, k)
<1>1. ASSUME NEW i \in OwnIds PROVE Unwound(s, stack, k)[i] = Unwound(t, other, k)[i]
  <2>1. AgreeAt(s, stack, t, other, k, i)
    OBVIOUS
  <2>2. /\ (\A l \in k .. Len(stack) : stack[l].id # i)
                => Unwound(s, stack, k)[i] = Content(s[i])
        /\ \A l : IsFirst(stack, k, i, l)
                => Unwound(s, stack, k)[i] = Content(stack[l].before)
    BY UnwoundAt
  <2>3. /\ (\A l \in k .. Len(other) : other[l].id # i)
                => Unwound(t, other, k)[i] = Content(t[i])
        /\ \A l : IsFirst(other, k, i, l)
                => Unwound(t, other, k)[i] = Content(other[l].before)
    BY UnwoundAt
  <2> QED BY <2>1, <2>2, <2>3 DEF AgreeAt
<1>2. /\ Unwound(s, stack, k) = [i \in OwnIds |-> Unwound(s, stack, k)[i]]
      /\ Unwound(t, other, k) = [i \in OwnIds |-> Unwound(t, other, k)[i]]
  BY DEF Unwound
<1> QED BY <1>1, <1>2

LEMMA UnwoundType ==
    ASSUME NEW s \in Stores, NEW stack \in Seq(Entry), NEW k \in Nat \ {0}
    PROVE  Unwound(s, stack, k) \in LineDocs
<1> DEFINE D == {<<>>} \cup {<<v>> : v \in Values}
<1>1. ASSUME NEW i \in OwnIds PROVE Unwound(s, stack, k)[i] \in D
  <2>1. /\ (\A l \in k .. Len(stack) : stack[l].id # i)
                => Unwound(s, stack, k)[i] = Content(s[i])
        /\ \A l : IsFirst(stack, k, i, l)
                => Unwound(s, stack, k)[i] = Content(stack[l].before)
    BY UnwoundAt
  <2>2. CASE \A l \in k .. Len(stack) : stack[l].id # i
    <3>1. Unwound(s, stack, k)[i] = Content(s[i])
      BY <2>2, UnwoundAt
    <3>2. s[i] \in Record \cup {Absent}
      BY DEF Stores, OwnIds
    <3> QED BY <3>1, <3>2, ContentType
  <2>3. CASE \E l \in k .. Len(stack) : stack[l].id = i
    <3>1. PICK l \in k .. Len(stack) : IsFirst(stack, k, i, l)
      BY <2>3, FirstIn
    <3>2. Unwound(s, stack, k)[i] = Content(stack[l].before)
      BY <2>1, <3>1
    <3>3. l \in DOMAIN stack
      BY StackFacts
    <3>4. stack[l].before \in Record \cup {Absent}
      BY <3>3, StackFacts
    <3> QED BY <3>2, <3>4, ContentType
  <2> QED BY <2>2, <2>3
<1>2. Unwound(s, stack, k) = [i \in OwnIds |-> Unwound(s, stack, k)[i]]
  BY DEF Unwound
<1> QED BY <1>1, <1>2 DEF LineDocs

LEMMA VisibleType ==
    ASSUME NEW s \in Stores
    PROVE  Visible(s) \in LineDocs
<1>1. \A i \in OwnIds : s[i] \in Record \cup {Absent}
  BY DEF Stores, OwnIds
<1> QED BY <1>1, ContentType DEF Visible, LineDocs

LEMMA UnwoundEnd ==
    ASSUME NEW s, NEW stack \in Seq(Entry)
    PROVE  Unwound(s, stack, Len(stack) + 1) = Visible(s)
<1> DEFINE n == Len(stack)
<1>1. n \in Nat /\ (n + 1) .. n = {}
  OBVIOUS
<1>2. ~ \E l \in (n + 1) .. n : TRUE
  BY <1>1
<1> QED BY <1>2 DEF Unwound, Visible

\* The visible document is one on the blocks the peers leave alone.
LEMMA SameStore ==
    ASSUME NEW s, NEW t, NEW id, ButFor(s, t, id), id \notin OwnIds
    PROVE  /\ Visible(t) = Visible(s)
           /\ \A stack : \A k : Unwound(t, stack, k) = Unwound(s, stack, k)
           /\ \A stack : Line(t, stack) = Line(s, stack)
           /\ \A stack : Coherent(s, stack) => Coherent(t, stack)
<1>1. \A i \in OwnIds : t[i] = s[i]
  BY DEF ButFor
<1>2. Visible(t) = Visible(s)
  BY <1>1 DEF Visible
<1>3. \A stack : \A k : Unwound(t, stack, k) = Unwound(s, stack, k)
  BY <1>1 DEF Unwound
<1>4. \A stack : Line(t, stack) = Line(s, stack)
  BY <1>3 DEF Line
<1>5. \A stack : Coherent(s, stack) => Coherent(t, stack)
  BY <1>3 DEF Coherent
<1> QED BY <1>2, <1>3, <1>4, <1>5

-----------------------------------------------------------------------------
(* An entry more, the last entry continued, the entries above one dropped. *)

LEMMA UnwoundAppended ==
    ASSUME NEW s, NEW t, NEW stack \in Seq(Entry), NEW e \in Entry,
           Between(s, t, e), NEW k \in 1 .. Len(stack) + 1
    PROVE  Unwound(t, Append(stack, e), k) = Unwound(s, stack, k)
<1> DEFINE more == Append(stack, e)
           n == Len(stack)
<1>1. /\ n \in Nat /\ Len(more) = n + 1 /\ more \in Seq(Entry) /\ more[n + 1] = e
      /\ \A l \in 1 .. n : more[l] = stack[l]
  OBVIOUS
<1>2. k \in Nat \ {0}
  BY <1>1
<1>3. /\ \A i \in OwnIds : i # e.id => t[i] = s[i]
      /\ e.id \in OwnIds => Content(e.before) = Content(s[e.id])
  BY DEF Between, ButFor
<1>4. ASSUME NEW i \in OwnIds PROVE AgreeAt(t, more, s, stack, k, i)
  <2> HIDE DEF more
  <2>1. CASE \E l \in k .. n : stack[l].id = i
    <3>1. PICK f \in k .. n : IsFirst(stack, k, i, f)
      BY <2>1, <1>2, FirstIn
    <3>2. f \in k .. Len(more)
      BY <1>1, <1>2
    <3>3. \A m \in k .. f : more[m] = stack[m]
      BY <1>1, <1>2
    <3>4. IsFirst(more, k, i, f)
      BY <3>1, <3>2, <3>3, <1>1, <1>2 DEF IsFirst
    <3>5. more[f] = stack[f]
      BY <3>3, <1>1, <1>2
    <3> QED BY <3>1, <3>2, <3>4, <3>5 DEF AgreeAt
  <2>2. CASE (\A l \in k .. n : stack[l].id # i) /\ i # e.id
    <3>1. \A l \in k .. Len(more) : more[l].id # i
      <4> TAKE l \in k .. Len(more)
      <4>1. l \in k .. n \/ l = n + 1
        BY <1>1, <1>2
      <4>2. l \in k .. n => more[l] = stack[l]
        BY <1>1, <1>2
      <4> QED BY <4>1, <4>2, <2>2, <1>1
    <3>2. Content(t[i]) = Content(s[i])
      BY <2>2, <1>3
    <3> QED BY <3>1, <3>2, <2>2 DEF AgreeAt
  <2>3. CASE (\A l \in k .. n : stack[l].id # i) /\ i = e.id
    <3>1. n + 1 \in k .. Len(more)
      BY <1>1, <1>2
    <3>2. \A m \in k .. (n + 1) - 1 : m \in k .. n /\ more[m] = stack[m]
      BY <1>1, <1>2
    <3>3. IsFirst(more, k, i, n + 1)
      BY <3>1, <3>2, <2>3, <1>1 DEF IsFirst
    <3>4. Content(more[n + 1].before) = Content(s[i])
      BY <2>3, <1>3, <1>1
    <3> QED BY <3>1, <3>3, <3>4, <2>3 DEF AgreeAt
  <2> QED BY <2>1, <2>2, <2>3
<1> HIDE DEF more
<1>5. Unwound(t, more, k) = Unwound(s, stack, k)
  BY <1>1, <1>2, <1>4, SameUnwound
<1> QED BY <1>5 DEF more

LEMMA UnwoundPrefix ==
    ASSUME NEW s, NEW stack \in Seq(Entry), NEW n \in 0 .. Len(stack),
           ForeignAbove(stack, n),
           NEW k \in 1 .. n + 1
    PROVE  Unwound(s, SubSeq(stack, 1, n), k) = Unwound(s, stack, k)
<1> DEFINE cut == SubSeq(stack, 1, n)
<1>1. Len(stack) \in Nat /\ n \in Nat /\ n <= Len(stack) /\ k \in Nat \ {0}
  OBVIOUS
<1>2. /\ cut \in Seq(Entry) /\ Len(cut) = n
      /\ \A l \in 1 .. n : cut[l] = stack[l]
  BY <1>1
<1>3. ASSUME NEW i \in OwnIds PROVE AgreeAt(s, cut, s, stack, k, i)
  <2> HIDE DEF cut
  <2>1. CASE \E l \in k .. n : stack[l].id = i
    <3>1. PICK l \in k .. n : stack[l].id = i
      BY <2>1
    <3>2. l \in k .. Len(stack)
      BY <1>1
    <3>3. PICK f \in k .. l : IsFirst(stack, k, i, f)
      BY <1>1, <3>1, <3>2, FirstExists
    <3>4. f \in k .. Len(cut) /\ \A m \in k .. f : cut[m] = stack[m]
      BY <1>1, <1>2
    <3>5. IsFirst(cut, k, i, f) /\ cut[f] = stack[f]
      BY <3>3, <3>4, <1>1 DEF IsFirst
    <3> QED BY <3>3, <3>4, <3>5 DEF AgreeAt
  <2>2. CASE \A l \in k .. n : stack[l].id # i
    <3>1. \A l \in k .. Len(cut) : cut[l].id # i
      BY <2>2, <1>1, <1>2
    <3>2. \A l \in k .. Len(stack) : stack[l].id # i
      <4> TAKE l \in k .. Len(stack)
      <4>1. l \in k .. n \/ l \in n + 1 .. Len(stack)
        BY <1>1
      <4> QED BY <4>1, <2>2 DEF ForeignAbove
    <3> QED BY <3>1, <3>2 DEF AgreeAt
  <2> QED BY <2>1, <2>2
<1> HIDE DEF cut
<1>4. Unwound(s, cut, k) = Unwound(s, stack, k)
  BY <1>1, <1>2, <1>3, SameUnwound
<1> QED BY <1>4 DEF cut

\* The last entry with another `after`.
Continued(stack, r) == [stack EXCEPT ![Len(stack)].after = r]

LEMMA ContinuedFacts ==
    ASSUME NEW stack \in Seq(Entry), stack # <<>>, NEW r \in OwnRecord
    PROVE  /\ Continued(stack, r) \in Seq(Entry)
           /\ Len(Continued(stack, r)) = Len(stack)
           /\ Len(stack) \in 1 .. Len(stack)
           /\ \A l \in 1 .. Len(stack) :
                /\ Continued(stack, r)[l].id = stack[l].id
                /\ Continued(stack, r)[l].before = stack[l].before
                /\ l # Len(stack) => Continued(stack, r)[l] = stack[l]
           /\ Continued(stack, r)[Len(stack)].after = r
<1> DEFINE n == Len(stack)
           last == [stack[n] EXCEPT !.after = r]
<1>1. n \in Nat /\ n \in 1 .. n /\ stack[n] \in Entry
  OBVIOUS
<1>2. last \in Entry /\ last.id = stack[n].id /\ last.before = stack[n].before /\ last.after = r
  BY <1>1 DEF Entry
<1>3. Continued(stack, r) = [stack EXCEPT ![n] = last]
  BY DEF Continued
<1> HIDE DEF last
<1>4. /\ [stack EXCEPT ![n] = last] \in Seq(Entry)
      /\ Len([stack EXCEPT ![n] = last]) = n
      /\ \A j \in 1 .. n : [stack EXCEPT ![n] = last][j] = IF j = n THEN last ELSE stack[j]
  BY <1>1, <1>2, ExceptSeq
<1> QED BY <1>1, <1>2, <1>3, <1>4

LEMMA UnwoundContinued ==
    ASSUME NEW s, NEW t, NEW stack \in Seq(Entry), stack # <<>>, NEW r \in OwnRecord,
           ButFor(s, t, stack[Len(stack)].id),
           NEW k \in 1 .. Len(stack)
    PROVE  Unwound(t, Continued(stack, r), k) = Unwound(s, stack, k)
<1> DEFINE other == Continued(stack, r)
           n == Len(stack)
<1>1. /\ n \in Nat /\ n \in 1 .. n /\ other \in Seq(Entry) /\ Len(other) = n
      /\ \A l \in 1 .. n : other[l].id = stack[l].id /\ other[l].before = stack[l].before
  BY ContinuedFacts
<1>2. k \in Nat \ {0} /\ n \in k .. n
  BY <1>1
<1> HIDE DEF other
<1>3. ASSUME NEW i \in OwnIds PROVE AgreeAt(t, other, s, stack, k, i)
  <2>1. CASE \E l \in k .. n : stack[l].id = i
    <3>1. PICK f \in k .. n : IsFirst(stack, k, i, f)
      BY <2>1, <1>2, FirstIn
    <3>2. \A m \in k .. f : other[m].id = stack[m].id
      BY <1>1, <1>2
    <3>3. IsFirst(other, k, i, f)
      BY <3>1, <3>2, <1>1, <1>2 DEF IsFirst
    <3>4. other[f].before = stack[f].before
      BY <1>1, <1>2
    <3> QED BY <3>1, <3>3, <3>4, <1>1 DEF AgreeAt
  <2>2. CASE \A l \in k .. n : stack[l].id # i
    <3>1. \A l \in k .. Len(other) : other[l].id # i
      BY <2>2, <1>1, <1>2
    <3>2. i # stack[n].id
      BY <2>2, <1>2
    <3> QED BY <2>2, <3>1, <3>2 DEF AgreeAt, ButFor
  <2> QED BY <2>1, <2>2
<1>4. Unwound(t, other, k) = Unwound(s, stack, k)
  BY <1>1, <1>2, <1>3, SameUnwound
<1> QED BY <1>4 DEF other

-----------------------------------------------------------------------------
(* The line of states. *)

LEMMA OwnFinite ==
    ASSUME NEW stack \in Seq(Entry)
    PROVE  /\ IsFiniteSet(OwnEntries(stack))
           /\ Cardinality(OwnEntries(stack)) \in Nat
           /\ \A k \in OwnEntries(stack) :
                k \in 1 .. Len(stack) /\ k \in DOMAIN stack /\ k \in Nat \ {0}
<1> DEFINE n == Len(stack)
<1>1. n \in Nat /\ OwnEntries(stack) \in SUBSET (1 .. n) /\ DOMAIN stack = 1 .. n
  BY StackFacts
<1>2. IsFiniteSet(1 .. n)
  BY <1>1, FS_Interval
<1>3. IsFiniteSet(OwnEntries(stack))
  BY <1>1, <1>2, FS_Subset
<1>4. Cardinality(OwnEntries(stack)) \in Nat
  BY <1>3, FS_CardinalityType
<1> QED BY <1>1, <1>3, <1>4

\* The ranks of the own entries are all the numbers up to how many there are.
LEMMA RankFacts ==
    ASSUME NEW stack \in Seq(Entry)
    PROVE  /\ \A k \in OwnEntries(stack) :
                Rank(stack, k) \in 1 .. Cardinality(OwnEntries(stack))
           /\ \A n \in 1 .. Cardinality(OwnEntries(stack)) :
                \E k \in OwnEntries(stack) : Rank(stack, k) = n
<1> DEFINE O == OwnEntries(stack)
           N == Cardinality(O)
           Upto(k) == {l \in O : l <= k}
           f == [k \in O |-> Rank(stack, k)]
<1>1. IsFiniteSet(O) /\ N \in Nat /\ \A k \in O : k \in Nat
  BY OwnFinite
<1>2. \A k : Rank(stack, k) = Cardinality(Upto(k))
  BY DEF Rank
<1> HIDE DEF O
<1>3. ASSUME NEW k \in O
      PROVE  IsFiniteSet(Upto(k)) /\ Cardinality(Upto(k)) \in 1 .. N
  <2>1. Upto(k) \in SUBSET O /\ k \in Upto(k)
    BY <1>1
  <2>2. IsFiniteSet(Upto(k)) /\ Cardinality(Upto(k)) <= N
    BY <2>1, <1>1, FS_Subset
  <2>3. Cardinality(Upto(k)) \in Nat /\ Cardinality(Upto(k)) # 0
    BY <2>1, <2>2, FS_CardinalityType, FS_EmptySet
  <2> HIDE DEF Upto
  <2> QED BY <2>2, <2>3, <1>1
<1>4. ASSUME NEW k \in O, NEW l \in O, k < l
      PROVE  Cardinality(Upto(k)) # Cardinality(Upto(l))
  <2>1. Upto(k) \in SUBSET Upto(l) /\ l \in Upto(l) /\ l \notin Upto(k)
    BY <1>1, <1>4
  <2>2. IsFiniteSet(Upto(l)) /\ Upto(k) # Upto(l)
    BY <2>1, <1>3
  <2> HIDE DEF Upto
  <2> QED BY <2>1, <2>2, FS_Subset
<1>5. f \in [O -> 1 .. N]
  BY <1>2, <1>3
<1>6. ASSUME NEW k \in O, NEW l \in O, f[k] = f[l] PROVE k = l
  <2>1. Cardinality(Upto(k)) = Cardinality(Upto(l))
    BY <1>2, <1>6
  <2>2. ~ (k < l) /\ ~ (l < k)
    BY <1>4, <2>1
  <2> QED BY <2>2, <1>1
<1>7. IsFiniteSet(1 .. N) /\ Cardinality(1 .. N) = N
  <2>1. N \in Int /\ 1 \in Int
    BY <1>1
  <2> HIDE DEF N
  <2>2. IsFiniteSet(1 .. N) /\ Cardinality(1 .. N) = IF 1 > N THEN 0 ELSE N - 1 + 1
    BY <2>1, FS_Interval
  <2> QED BY <2>2, <1>1
<1> HIDE DEF f
<1>8. f \in Injection(O, 1 .. N)
  BY <1>5, <1>6 DEF Injection, IsInjective
<1>9. f \in Surjection(O, 1 .. N)
  BY <1>7, <1>8, FS_Injection
<1>10. \A n \in 1 .. N : \E k \in O : f[k] = n
  BY <1>9 DEF Surjection
<1>11. \A k \in O : f[k] = Rank(stack, k)
  BY DEF f
<1>12. \A k \in O : Rank(stack, k) \in 1 .. N
  BY <1>5, <1>11
<1> QED BY <1>10, <1>11, <1>12 DEF O

LEMMA NthFacts ==
    ASSUME NEW stack \in Seq(Entry), NEW n \in 1 .. Cardinality(OwnEntries(stack))
    PROVE  Nth(stack, n) \in OwnEntries(stack)
<1>1. \E k \in OwnEntries(stack) : Rank(stack, k) = n
  BY RankFacts
<1> QED BY <1>1 DEF Nth

LEMMA LineType ==
    ASSUME NEW s \in Stores, NEW stack \in Seq(Entry)
    PROVE  /\ Line(s, stack) \in Seq(LineDocs)
           /\ Len(Line(s, stack)) = Cardinality(OwnEntries(stack))
           /\ \A n \in 1 .. Cardinality(OwnEntries(stack)) :
                Line(s, stack)[n] = Unwound(s, stack, Nth(stack, n))
<1> DEFINE N == Cardinality(OwnEntries(stack))
<1>1. N \in Nat
  BY OwnFinite
<1>2. ASSUME NEW n \in 1 .. N PROVE Unwound(s, stack, Nth(stack, n)) \in LineDocs
  <2>1. Nth(stack, n) \in OwnEntries(stack)
    BY NthFacts
  <2>2. Nth(stack, n) \in Nat \ {0}
    BY <2>1, OwnFinite
  <2> QED BY <2>2, UnwoundType
<1>3. Line(s, stack) = [n \in 1 .. N |-> Unwound(s, stack, Nth(stack, n))]
  BY DEF Line
<1> HIDE DEF N
<1>4. Line(s, stack) \in [1 .. N -> LineDocs]
  BY <1>2, <1>3
<1>5. Line(s, stack) \in Seq(LineDocs) /\ Len(Line(s, stack)) = N
  BY <1>1, <1>4
<1> QED BY <1>3, <1>5 DEF N

LEMMA SameLine ==
    ASSUME NEW s, NEW t, NEW stack \in Seq(Entry), NEW other,
           OwnEntries(other) = OwnEntries(stack),
           \A k \in OwnEntries(stack) : Unwound(t, other, k) = Unwound(s, stack, k)
    PROVE  Line(t, other) = Line(s, stack)
<1> DEFINE N == Cardinality(OwnEntries(stack))
<1>1. \A k : Rank(other, k) = Rank(stack, k)
  BY DEF Rank
<1>2. \A n : Nth(other, n) = Nth(stack, n)
  BY <1>1 DEF Nth
<1>3. ASSUME NEW n \in 1 .. N
      PROVE  Unwound(t, other, Nth(other, n)) = Unwound(s, stack, Nth(stack, n))
  <2>1. Nth(stack, n) \in OwnEntries(stack)
    BY NthFacts
  <2> QED BY <2>1, <1>2
<1>4. /\ Line(t, other) = [n \in 1 .. N |-> Unwound(t, other, Nth(other, n))]
      /\ Line(s, stack) = [n \in 1 .. N |-> Unwound(s, stack, Nth(stack, n))]
  BY DEF Line
<1> HIDE DEF N
<1> QED BY <1>3, <1>4

\* An entry of the user's own block adds the document as it was.
LEMMA LineAppended ==
    ASSUME NEW s \in Stores, NEW t \in Stores, NEW stack \in Seq(Entry), NEW e \in Entry,
           Between(s, t, e)
    PROVE  Line(t, Append(stack, e))
             = IF e.id \in OwnIds THEN Append(Line(s, stack), Visible(s)) ELSE Line(s, stack)
<1> DEFINE more == Append(stack, e)
           n == Len(stack)
           O == OwnEntries(stack)
           N == Cardinality(O)
<1>1. /\ n \in Nat /\ Len(more) = n + 1 /\ more \in Seq(Entry) /\ more[n + 1] = e
      /\ DOMAIN more = 1 .. (n + 1) /\ DOMAIN stack = 1 .. n
      /\ \A l \in 1 .. n : more[l] = stack[l]
  OBVIOUS
<1>2. \A k \in 1 .. n + 1 : Unwound(t, more, k) = Unwound(s, stack, k)
  BY UnwoundAppended
<1>3. Unwound(t, more, n + 1) = Visible(s)
  <2>1. n + 1 \in 1 .. n + 1
    BY <1>1
  <2> QED BY <2>1, <1>2, UnwoundEnd
<1> HIDE DEF more
<1>4. O \subseteq 1 .. n /\ IsFiniteSet(O) /\ N \in Nat
  BY OwnFinite
<1>5. OwnEntries(more) = O \cup {l \in {n + 1} : e.id \in OwnIds}
  <2> HIDE DEF n
  <2>1. 1 .. (n + 1) = (1 .. n) \cup {n + 1}
    BY <1>1
  <2>2. O = {l \in 1 .. n : stack[l].id \in OwnIds}
    BY <1>1 DEF OwnEntries
  <2>3. OwnEntries(more) = {l \in 1 .. (n + 1) : more[l].id \in OwnIds}
    BY <1>1 DEF OwnEntries
  <2> HIDE DEF O
  <2>4. {l \in 1 .. n : more[l].id \in OwnIds} = {l \in 1 .. n : stack[l].id \in OwnIds}
    BY <1>1
  <2>5. {l \in {n + 1} : more[l].id \in OwnIds} = {l \in {n + 1} : e.id \in OwnIds}
    BY <1>1
  <2> HIDE DEF more
  <2> QED BY <2>1, <2>2, <2>3, <2>4, <2>5
<1>6. CASE e.id \notin OwnIds
  <2>1. OwnEntries(more) = O
    BY <1>5, <1>6
  <2>2. \A k \in O : k \in 1 .. n + 1
    BY <1>1, <1>4
  <2>3. \A k \in O : Unwound(t, more, k) = Unwound(s, stack, k)
    BY <2>2, <1>2
  <2>4. Line(t, more) = Line(s, stack)
    BY <2>1, <2>3, SameLine
  <2> QED BY <2>4, <1>6 DEF more
<1>7. CASE e.id \in OwnIds
  <2>1. OwnEntries(more) = O \cup {n + 1} /\ n + 1 \notin O
    <3>1. n + 1 \notin 1 .. n
      BY <1>1
    <3> QED BY <3>1, <1>4, <1>5, <1>7
  <2>2. Cardinality(OwnEntries(more)) = N + 1
    BY <2>1, <1>4, FS_AddElement
  <2>3. \A k \in O : Rank(more, k) = Rank(stack, k)
    <3> TAKE k \in O
    <3>1. {l \in OwnEntries(more) : l <= k} = {l \in O : l <= k}
      <4>1. k \in 1 .. n /\ ~ (n + 1 <= k)
        BY <1>1, <1>4
      <4> QED BY <4>1, <2>1
    <3> QED BY <3>1 DEF Rank
  <2>4. Rank(more, n + 1) = N + 1
    <3>1. \A l \in OwnEntries(more) : l <= n + 1
      BY <2>1, <1>1, <1>4
    <3>2. {l \in OwnEntries(more) : l <= n + 1} = OwnEntries(more)
      BY <3>1
    <3> QED BY <3>2, <2>2 DEF Rank
  <2>5. \A k \in O : Rank(stack, k) \in 1 .. N
    BY RankFacts
  <2>6. ASSUME NEW m \in 1 .. N PROVE Nth(more, m) = Nth(stack, m)
    <3>1. N + 1 # m
      BY <1>4
    <3>2. {l \in OwnEntries(more) : Rank(more, l) = m} = {l \in O : Rank(stack, l) = m}
      BY <3>1, <2>1, <2>3, <2>4
    <3> QED BY <3>2 DEF Nth
  <2>7. Nth(more, N + 1) = n + 1
    <3>1. N + 1 \notin 1 .. N
      BY <1>4
    <3>2. \A l \in O : Rank(more, l) # N + 1
      BY <3>1, <2>3, <2>5
    <3>3. {l \in OwnEntries(more) : Rank(more, l) = N + 1} = {n + 1}
      BY <3>2, <2>1, <2>4
    <3> QED BY <3>3 DEF Nth
  <2> DEFINE longer == Line(t, more)
             line == Line(s, stack)
             doc == Visible(s)
  <2>8. /\ longer \in Seq(LineDocs) /\ Len(longer) = N + 1
        /\ \A m \in 1 .. N + 1 : longer[m] = Unwound(t, more, Nth(more, m))
    BY <1>1, <2>2, LineType
  <2>9. /\ line \in Seq(LineDocs) /\ Len(line) = N
        /\ \A m \in 1 .. N : line[m] = Unwound(s, stack, Nth(stack, m))
    BY LineType
  <2>10. doc \in LineDocs
    BY VisibleType
  <2>11. ASSUME NEW m \in 1 .. N PROVE longer[m] = line[m]
    <3>1. Nth(stack, m) \in O
      BY NthFacts
    <3>2. Nth(stack, m) \in 1 .. n + 1
      BY <3>1, <1>1, <1>4
    <3>3. m \in 1 .. N + 1
      BY <1>4
    <3> HIDE DEF longer, line
    <3> QED BY <3>2, <3>3, <1>2, <2>6, <2>8, <2>9
  <2>12. longer[N + 1] = doc
    <3>1. N + 1 \in 1 .. N + 1
      BY <1>4
    <3> HIDE DEF longer, doc
    <3>2. longer[N + 1] = Unwound(t, more, Nth(more, N + 1))
      BY <3>1, <2>8
    <3> QED BY <3>2, <2>7, <1>3 DEF doc
  <2> HIDE DEF longer, line, doc, N
  <2>13. /\ Append(line, doc) \in Seq(LineDocs) /\ Len(Append(line, doc)) = N + 1
         /\ Append(line, doc)[N + 1] = doc
         /\ \A m \in 1 .. N : Append(line, doc)[m] = line[m]
    BY <2>9, <2>10
  <2>14. \A m \in 1 .. N + 1 : longer[m] = Append(line, doc)[m]
    <3> TAKE m \in 1 .. N + 1
    <3>1. m \in 1 .. N \/ m = N + 1
      BY <1>4
    <3> QED BY <3>1, <2>11, <2>12, <2>13
  <2>15. longer = Append(line, doc)
    BY <2>8, <2>13, <2>14, SeqEqual
  <2> QED BY <2>15, <1>7 DEF longer, line, doc, more
<1> QED BY <1>6, <1>7

LEMMA CoherentAppended ==
    ASSUME NEW s, NEW t, NEW stack \in Seq(Entry), NEW e \in Entry, Between(s, t, e)
    PROVE  /\ (Coherent(s, stack) /\ (e.id \in OwnIds => Content(e.after) = Content(t[e.id])))
                => Coherent(t, Append(stack, e))
           /\ Coherent(t, Append(stack, e)) => Coherent(s, stack)
<1> DEFINE more == Append(stack, e)
           n == Len(stack)
<1>1. /\ n \in Nat /\ Len(more) = n + 1 /\ more \in Seq(Entry) /\ more[n + 1] = e
      /\ DOMAIN more = 1 .. (n + 1) /\ DOMAIN stack = 1 .. n
      /\ \A l \in 1 .. n : more[l] = stack[l]
  OBVIOUS
<1>2. \A k \in 1 .. n + 1 : Unwound(t, more, k) = Unwound(s, stack, k)
  BY UnwoundAppended
<1> HIDE DEF more
<1>3. \A k \in 1 .. n : k + 1 \in 1 .. n + 1 /\ k \in 1 .. (n + 1)
  BY <1>1
<1>4. ASSUME Coherent(s, stack), e.id \in OwnIds => Content(e.after) = Content(t[e.id]),
             NEW k \in OwnEntries(more)
      PROVE  Content(more[k].after) = Unwound(t, more, k + 1)[more[k].id]
  <2>1. k \in 1 .. (n + 1) /\ more[k].id \in OwnIds
    BY <1>1 DEF OwnEntries
  <2>2. CASE k \in 1 .. n
    <3>1. more[k] = stack[k] /\ Unwound(t, more, k + 1) = Unwound(s, stack, k + 1)
      BY <2>2, <1>1, <1>2, <1>3
    <3>2. k \in OwnEntries(stack)
      BY <2>1, <2>2, <3>1, <1>1 DEF OwnEntries
    <3> QED BY <3>1, <3>2, <1>4 DEF Coherent
  <2>3. CASE k = n + 1
    <3>1. Unwound(t, more, k + 1) = Visible(t)
      BY <2>3, <1>1, UnwoundEnd
    <3>2. Visible(t)[e.id] = Content(t[e.id])
      BY <2>1, <2>3, <1>1 DEF Visible
    <3> QED BY <3>1, <3>2, <2>1, <2>3, <1>1, <1>4
  <2>4. k \in 1 .. n \/ k = n + 1
    BY <2>1, <1>1
  <2> QED BY <2>2, <2>3, <2>4
<1>5. ASSUME Coherent(t, more), NEW k \in OwnEntries(stack)
      PROVE  Content(stack[k].after) = Unwound(s, stack, k + 1)[stack[k].id]
  <2>1. k \in 1 .. n /\ stack[k].id \in OwnIds
    BY <1>1 DEF OwnEntries
  <2>2. more[k] = stack[k] /\ Unwound(t, more, k + 1) = Unwound(s, stack, k + 1)
    BY <2>1, <1>1, <1>2, <1>3
  <2>3. k \in OwnEntries(more)
    BY <2>1, <2>2, <1>1, <1>3 DEF OwnEntries
  <2> QED BY <2>2, <2>3, <1>5 DEF Coherent
<1> QED BY <1>4, <1>5 DEF Coherent, more

\* The entries above the last one of the user's own blocks are not in the line.
LEMMA Prefixed ==
    ASSUME NEW s, NEW stack \in Seq(Entry), NEW n \in 0 .. Len(stack),
           ForeignAbove(stack, n)
    PROVE  /\ SubSeq(stack, 1, n) \in Seq(Entry)
           /\ Line(s, SubSeq(stack, 1, n)) = Line(s, stack)
           /\ Coherent(s, stack) => Coherent(s, SubSeq(stack, 1, n))
<1> DEFINE cut == SubSeq(stack, 1, n)
<1>1. Len(stack) \in Nat /\ n \in Nat /\ n <= Len(stack) /\ DOMAIN stack = 1 .. Len(stack)
  OBVIOUS
<1>2. /\ cut \in Seq(Entry) /\ Len(cut) = n /\ DOMAIN cut = 1 .. n
      /\ \A l \in 1 .. n : cut[l] = stack[l]
  BY <1>1
<1>3. \A k \in 1 .. n + 1 : Unwound(s, cut, k) = Unwound(s, stack, k)
  BY UnwoundPrefix
<1> HIDE DEF cut
<1>4. ASSUME NEW k \in OwnEntries(stack)
      PROVE  k \in 1 .. n /\ k \in 1 .. n + 1 /\ k + 1 \in 1 .. n + 1
  <2>1. k \in 1 .. Len(stack) /\ stack[k].id \in OwnIds
    BY <1>1 DEF OwnEntries
  <2>2. k \notin n + 1 .. Len(stack)
    BY <2>1 DEF ForeignAbove
  <2> QED BY <2>1, <2>2, <1>1
<1>5. OwnEntries(cut) = OwnEntries(stack)
  <2>1. \A k \in 1 .. n : k \in 1 .. Len(stack)
    BY <1>1
  <2> QED BY <2>1, <1>1, <1>2, <1>4 DEF OwnEntries
<1>6. Line(s, cut) = Line(s, stack)
  BY <1>3, <1>4, <1>5, SameLine
<1>7. Coherent(s, stack) => Coherent(s, cut)
  BY <1>2, <1>3, <1>4, <1>5 DEF Coherent
<1> QED BY <1>2, <1>6, <1>7 DEF cut

\* The entry at k is undone: the line loses its end, the document becomes it.
LEMMA Shortened ==
    ASSUME NEW s \in Stores, NEW t \in Stores, NEW stack \in Seq(Entry),
           NEW k \in 1 .. Len(stack),
           ForeignAbove(stack, k),
           Between(t, s, stack[k])
    PROVE  /\ SubSeq(stack, 1, k - 1) \in Seq(Entry)
           /\ Line(s, stack)
                = IF stack[k].id \in OwnIds
                    THEN Append(Line(t, SubSeq(stack, 1, k - 1)), Visible(t))
                    ELSE Line(t, SubSeq(stack, 1, k - 1))
           /\ Coherent(s, stack)
                => /\ Coherent(t, SubSeq(stack, 1, k - 1))
                   /\ stack[k].id \in OwnIds
                        => Content(stack[k].after) = Content(s[stack[k].id])
<1> DEFINE rest == SubSeq(stack, 1, k - 1)
           cut == SubSeq(stack, 1, k)
           e == stack[k]
<1>1. Len(stack) \in Nat /\ k \in 0 .. Len(stack) /\ k \in Nat /\ e \in Entry
  OBVIOUS
<1>2. rest \in Seq(Entry)
  BY <1>1
<1>3. cut = Append(rest, e)
  BY <1>1
<1>4. Line(s, cut) = Line(s, stack) /\ (Coherent(s, stack) => Coherent(s, cut))
  BY <1>1, Prefixed
<1>5. Line(s, Append(rest, e))
        = IF e.id \in OwnIds THEN Append(Line(t, rest), Visible(t)) ELSE Line(t, rest)
  <2>1. Between(t, s, e)
    OBVIOUS
  <2> HIDE DEF rest, e
  <2> QED BY <1>1, <1>2, <2>1, LineAppended
<1>6. Coherent(s, Append(rest, e)) => Coherent(t, rest)
  <2> HIDE DEF rest
  <2>1. Between(t, s, e)
    OBVIOUS
  <2> HIDE DEF e
  <2> QED BY <1>1, <1>2, <2>1, CoherentAppended
<1>7. ASSUME Coherent(s, stack), e.id \in OwnIds
      PROVE  Content(e.after) = Content(s[e.id])
  <2>1. k \in OwnEntries(stack)
    BY <1>7 DEF OwnEntries
  <2>2. Content(e.after) = Unwound(s, stack, k + 1)[e.id]
    BY <2>1, <1>7 DEF Coherent
  <2>3. \A l \in k + 1 .. Len(stack) : stack[l].id # e.id
    BY <1>7 DEF ForeignAbove
  <2>4. k + 1 \in Nat \ {0}
    BY <1>1
  <2>5. Unwound(s, stack, k + 1)[e.id] = Content(s[e.id])
    BY <2>3, <2>4, <1>7, UnwoundAt
  <2> QED BY <2>2, <2>5
<1> QED BY <1>2, <1>3, <1>4, <1>5, <1>6, <1>7

LEMMA LineContinued ==
    ASSUME NEW s, NEW t, NEW stack \in Seq(Entry), stack # <<>>, NEW r \in OwnRecord,
           ButFor(s, t, stack[Len(stack)].id)
    PROVE  /\ Line(t, Continued(stack, r)) = Line(s, stack)
           /\ (/\ Coherent(s, stack)
               /\ stack[Len(stack)].id \in OwnIds
                    => Content(r) = Content(t[stack[Len(stack)].id]))
                => Coherent(t, Continued(stack, r))
<1> DEFINE other == Continued(stack, r)
           n == Len(stack)
<1>1. /\ n \in Nat /\ n \in 1 .. n /\ other \in Seq(Entry) /\ Len(other) = n
      /\ DOMAIN stack = 1 .. n /\ DOMAIN other = 1 .. n
      /\ \A l \in 1 .. n : /\ other[l].id = stack[l].id
                           /\ l # n => other[l] = stack[l]
      /\ other[n].after = r
  BY ContinuedFacts, StackFacts
<1>2. \A k \in 1 .. n : Unwound(t, other, k) = Unwound(s, stack, k)
  BY UnwoundContinued
<1> HIDE DEF other
<1>3. OwnEntries(other) = OwnEntries(stack) /\ OwnEntries(stack) \subseteq 1 .. n
  BY <1>1 DEF OwnEntries
<1>4. Line(t, other) = Line(s, stack)
  <2>1. \A k \in OwnEntries(stack) : Unwound(t, other, k) = Unwound(s, stack, k)
    BY <1>2, <1>3
  <2> QED BY <2>1, <1>3, SameLine
<1>5. ASSUME Coherent(s, stack),
             stack[n].id \in OwnIds => Content(r) = Content(t[stack[n].id]),
             NEW k \in OwnEntries(other)
      PROVE  Content(other[k].after) = Unwound(t, other, k + 1)[other[k].id]
  <2>1. k \in 1 .. n /\ stack[k].id \in OwnIds /\ other[k].id = stack[k].id
    BY <1>1, <1>3 DEF OwnEntries
  <2>2. CASE k = n
    <3>1. Unwound(t, other, k + 1) = Visible(t)
      BY <2>2, <1>1, UnwoundEnd
    <3>2. Visible(t)[stack[n].id] = Content(t[stack[n].id])
      BY <2>1, <2>2 DEF Visible
    <3>3. other[k].after = r
      BY <2>2, <1>1
    <3>4. Content(r) = Content(t[stack[n].id])
      BY <2>1, <2>2, <1>5
    <3>5. other[k].id = stack[n].id
      BY <2>1, <2>2
    <3> HIDE DEF n
    <3> QED BY <3>1, <3>2, <3>3, <3>4, <3>5
  <2>3. CASE k # n
    <3>1. k + 1 \in 1 .. n
      <4>1. n \in Nat /\ k \in 1 .. n /\ k # n
        BY <1>1, <2>1, <2>3
      <4> HIDE DEF n
      <4> QED BY <4>1
    <3>2. Unwound(t, other, k + 1) = Unwound(s, stack, k + 1) /\ other[k] = stack[k]
      BY <3>1, <2>1, <2>3, <1>1, <1>2
    <3>3. k \in OwnEntries(stack)
      BY <1>3
    <3>4. Content(stack[k].after) = Unwound(s, stack, k + 1)[stack[k].id]
      BY <3>3, <1>5 DEF Coherent
    <3> QED BY <3>2, <3>4
  <2> QED BY <2>2, <2>3
<1> QED BY <1>4, <1>5 DEF Coherent, other

LEMMA LineEmpty ==
    ASSUME NEW s \in Stores
    PROVE  <<>> \in Seq(Entry) /\ Line(s, <<>>) = <<>> /\ Coherent(s, <<>>)
<1>1. <<>> \in Seq(Entry)
  OBVIOUS
<1>2. OwnEntries(<<>>) = {}
  BY DEF OwnEntries
<1>3. Line(s, <<>>) \in Seq(LineDocs) /\ Len(Line(s, <<>>)) = 0
  BY <1>1, <1>2, LineType, FS_EmptySet
<1> HIDE DEF Line
<1>4. Line(s, <<>>) = <<>>
  BY <1>3, EmptySeq
<1> QED BY <1>1, <1>2, <1>4 DEF Coherent

-----------------------------------------------------------------------------
(* What an edit, and what an undo, does to the stores and the stacks. *)

LEMMA Written ==
    ASSUME NEW s \in Stores, NEW i \in Ids, NEW r \in Record
    PROVE  /\ Put(s, i, r) \in Stores
           /\ Put(s, i, r)[i] = r
           /\ \A j \in Ids : j # i => Put(s, i, r)[j] = s[j]
           /\ ButFor(s, Put(s, i, r), i)
           /\ \A j \in Ids : Holds(s, j) => Holds(Put(s, i, r), j)
           /\ Holds(Put(s, i, r), i)
BY RecordHeld DEF Stores, OwnIds, Holds, Put, ButFor

LEMMA Committed ==
    ASSUME NEW s \in Stores, NEW i \in Ids, NEW r \in OwnRecord, NEW e \in Entry,
           e.id = i, e.before = s[i], e.after = r,
           NEW stack \in Seq(Entry), NEW more,
           \/ more = Append(stack, e)
           \/ stack # <<>> /\ stack[Len(stack)].id = i /\ more = Continued(stack, r),
           NEW t, t = Put(s, i, r)
    PROVE  /\ more \in Seq(Entry)
           /\ Coherent(s, stack) => Coherent(t, more)
           /\ i \in OwnIds => \/ Line(t, more) = Append(Line(s, stack), Visible(s))
                              \/ Line(s, stack) # <<>> /\ Line(t, more) = Line(s, stack)
           /\ i \notin OwnIds => Visible(t) = Visible(s) /\ Line(t, more) = Line(s, stack)
           /\ \A k \in DOMAIN more :
                more[k].id = i \/ \E l \in DOMAIN stack : more[k].id = stack[l].id
<1>1. r \in Record
  BY DEF OwnRecord
<1>2. t \in Stores /\ t[i] = r /\ ButFor(s, t, i)
  BY <1>1, Written
<1>3. i \notin OwnIds => Visible(t) = Visible(s)
  BY <1>2, SameStore
<1>4. CASE more = Append(stack, e)
  <2>1. Between(s, t, e)
    BY <1>2 DEF Between
  <2>2. more \in Seq(Entry) /\ \A k \in DOMAIN more :
            more[k].id = i \/ \E l \in DOMAIN stack : more[k].id = stack[l].id
    <3>1. /\ more \in Seq(Entry) /\ Len(more) = Len(stack) + 1 /\ more[Len(stack) + 1] = e
          /\ DOMAIN more = 1 .. (Len(stack) + 1) /\ DOMAIN stack = 1 .. Len(stack)
          /\ \A l \in 1 .. Len(stack) : more[l] = stack[l]
      BY <1>4
    <3>2. 1 .. (Len(stack) + 1) = (1 .. Len(stack)) \cup {Len(stack) + 1}
      <4> DEFINE n == Len(stack)
      <4>1. n \in Nat
        OBVIOUS
      <4> HIDE DEF n
      <4>2. 1 .. (n + 1) = (1 .. n) \cup {n + 1}
        BY <4>1
      <4> QED BY <4>2 DEF n
    <3>3. \A k \in DOMAIN more : k \in DOMAIN stack \/ more[k] = e
      BY <3>1, <3>2
    <3> QED BY <3>1, <3>3
  <2>3. Coherent(s, stack) => Coherent(t, more)
    <3>1. Content(e.after) = Content(t[e.id])
      BY <1>2
    <3> QED BY <2>1, <3>1, <1>4, CoherentAppended
  <2>4. Line(t, more) = IF i \in OwnIds THEN Append(Line(s, stack), Visible(s)) ELSE Line(s, stack)
    BY <2>1, <1>2, <1>4, LineAppended
  <2> QED BY <2>2, <2>3, <2>4, <1>3
<1>5. CASE stack # <<>> /\ stack[Len(stack)].id = i /\ more = Continued(stack, r)
  <2>1. more \in Seq(Entry) /\ \A k \in DOMAIN more :
            more[k].id = i \/ \E l \in DOMAIN stack : more[k].id = stack[l].id
    <3>1. /\ more \in Seq(Entry) /\ Len(more) = Len(stack)
          /\ \A l \in 1 .. Len(stack) : more[l].id = stack[l].id
      BY <1>5, ContinuedFacts
    <3>2. DOMAIN more = 1 .. Len(stack) /\ DOMAIN stack = 1 .. Len(stack)
      BY <3>1, StackFacts
    <3> QED BY <3>1, <3>2
  <2>2. ButFor(s, t, stack[Len(stack)].id)
    BY <1>2, <1>5
  <2>3. Coherent(s, stack) => Coherent(t, more)
    <3>1. Content(r) = Content(t[stack[Len(stack)].id])
      BY <1>2, <1>5
    <3> QED BY <3>1, <2>2, <1>5, LineContinued
  <2>4. Line(t, more) = Line(s, stack)
    BY <2>2, <1>5, LineContinued
  <2>5. i \in OwnIds => Line(s, stack) # <<>>
    <3> SUFFICES ASSUME i \in OwnIds PROVE Line(s, stack) # <<>>
      OBVIOUS
    <3>1. Len(stack) \in DOMAIN stack
      BY <1>5
    <3>2. OwnEntries(stack) # {}
      BY <3>1, <1>5 DEF OwnEntries
    <3>3. Len(Line(s, stack)) = Cardinality(OwnEntries(stack))
      BY LineType
    <3>4. Len(Line(s, stack)) # 0
      BY <3>2, <3>3, OwnFinite, FS_EmptySet
    <3>5. Len(<<>>) = 0
      OBVIOUS
    <3> QED BY <3>4, <3>5
  <2> QED BY <2>1, <2>3, <2>4, <2>5, <1>3
<1> QED BY <1>4, <1>5

\* The entry at k is undone with record r, and entry f undoes that.
Reverts(s, stack, other, k, e, r, f, t, rest, more) ==
    /\ k \in 1 .. Len(stack) /\ ForeignAbove(stack, k) /\ e = stack[k]
    /\ r \in OwnRecord /\ Content(r) = Content(e.before)
    /\ f \in Entry /\ f.id = e.id /\ f.before = e.after /\ f.after = r
    /\ t = Put(s, e.id, r)
    /\ rest = SubSeq(stack, 1, k - 1)
    /\ more = Append(other, f)

LEMMA Stepped ==
    ASSUME NEW s \in Stores, NEW stack \in Seq(Entry), NEW other \in Seq(Entry),
           Coherent(s, stack), Coherent(s, other),
           NEW k, NEW e, NEW r, NEW f, NEW t, NEW rest, NEW more,
           Reverts(s, stack, other, k, e, r, f, t, rest, more)
    PROVE  /\ rest \in Seq(Entry) /\ more \in Seq(Entry)
           /\ Coherent(t, rest) /\ Coherent(t, more)
           /\ e.id \in OwnIds =>
                /\ Line(s, stack) = Append(Line(t, rest), Visible(t))
                /\ Line(t, more) = Append(Line(s, other), Visible(s))
           /\ e.id \notin OwnIds =>
                /\ Visible(t) = Visible(s)
                /\ Line(t, rest) = Line(s, stack)
                /\ Line(t, more) = Line(s, other)
<1>1. /\ k \in 1 .. Len(stack) /\ ForeignAbove(stack, k) /\ e = stack[k]
      /\ r \in OwnRecord /\ Content(r) = Content(e.before)
      /\ f \in Entry /\ f.id = e.id /\ f.before = e.after /\ f.after = r
      /\ t = Put(s, e.id, r)
      /\ rest = SubSeq(stack, 1, k - 1)
      /\ more = Append(other, f)
  BY DEF Reverts
<1>2. r \in Record /\ e \in Entry
  BY <1>1 DEF OwnRecord
<1>3. e.id \in Ids
  BY <1>2 DEF Entry
<1>4. t \in Stores /\ t[e.id] = r /\ ButFor(s, t, e.id)
  BY <1>1, <1>2, <1>3, Written
<1>5. Between(t, s, stack[k])
  BY <1>1, <1>4 DEF Between, ButFor
<1>6. /\ rest \in Seq(Entry)
      /\ Line(s, stack) = IF e.id \in OwnIds THEN Append(Line(t, rest), Visible(t))
                                             ELSE Line(t, rest)
      /\ Coherent(t, rest)
      /\ e.id \in OwnIds => Content(e.after) = Content(s[e.id])
  BY <1>1, <1>4, <1>5, Shortened
<1>7. Between(s, t, f)
  BY <1>1, <1>4, <1>6 DEF Between, ButFor
<1>8. more \in Seq(Entry)
  BY <1>1
<1>9. Coherent(t, more)
  <2>1. Content(f.after) = Content(t[f.id])
    BY <1>1, <1>4
  <2> QED BY <2>1, <1>1, <1>7, CoherentAppended
<1>10. Line(t, more)
        = IF f.id \in OwnIds THEN Append(Line(s, other), Visible(s)) ELSE Line(s, other)
  <2>1. s \in Stores /\ t \in Stores /\ other \in Seq(Entry) /\ f \in Entry
    BY <1>1, <1>4
  <2>2. Line(t, Append(other, f))
          = IF f.id \in OwnIds THEN Append(Line(s, other), Visible(s)) ELSE Line(s, other)
    BY ONLY <2>1, <1>7, LineAppended
  <2>3. more = Append(other, f)
    BY <1>1
  <2> QED BY <2>2, <2>3, Zenon
<1>11. e.id \notin OwnIds => Visible(t) = Visible(s)
  BY <1>4, SameStore
<1> QED BY <1>1, <1>6, <1>8, <1>9, <1>10, <1>11

-----------------------------------------------------------------------------
(* The inductive invariant. *)

\* Every variable has its type, the stacks are sequences of entries.
Types ==
    /\ store \in Stores
    /\ counter \in Nat
    /\ undo \in Seq(Entry)
    /\ redo \in Seq(Entry)
    /\ peerSeen \in [Ids -> Nat]
    /\ peerWrites \in 0 .. MaxPeerWrites

\* Nobody else writes the blocks that peers leave alone.
OwnRecords == \A i \in OwnIds : store[i] = Absent \/ store[i].client = Self

Inv ==
    /\ Types
    /\ OwnRecords
    /\ EntriesHeld
    /\ Coherent(store, undo)
    /\ Coherent(store, redo)

LEMMA TypesSuffice == Types => TypeOK
<1> SUFFICES ASSUME Types PROVE TypeOK
  OBVIOUS
<1>1. \A e \in Entry : IsEntry(e)
  BY DEF Entry, IsEntry, OwnRecord
<1>2. (\A k \in DOMAIN undo : undo[k] \in Entry) /\ (\A k \in DOMAIN redo : redo[k] \in Entry)
  BY StackFacts DEF Types
<1> QED BY <1>1, <1>2 DEF Types, TypeOK

LEMMA InitInv == Init => Inv
<1> SUFFICES ASSUME Init PROVE Inv
  OBVIOUS
<1>1. Empty \in Stores
  BY DEF Empty, Stores
<1>2. Types
  BY <1>1, LineEmpty, BoundsAssumption DEF Init, Types
<1>3. OwnRecords
  BY DEF OwnRecords, OwnIds, Init, Empty
<1>4. EntriesHeld
  BY DEF EntriesHeld, Init
<1>5. Coherent(store, undo) /\ Coherent(store, redo)
  BY <1>1, LineEmpty DEF Init
<1> QED BY <1>2, <1>3, <1>4, <1>5 DEF Inv

\* A block that peers leave alone blocks no entry.
LEMMA ChosenTop ==
    ASSUME OwnRecords, NEW stack \in Seq(Entry), NEW k, IsChosen(stack, k)
    PROVE  /\ k \in 1 .. Len(stack) /\ k \in DOMAIN stack /\ stack[k] \in Entry
           /\ ForeignAbove(stack, k)
<1>1. k \in 1 .. Len(stack) /\ k \in DOMAIN stack /\ stack[k] \in Entry
  BY StackFacts DEF IsChosen
<1>2. ASSUME NEW l \in k + 1 .. Len(stack), stack[l].id \in OwnIds PROVE FALSE
  <2>1. ~ Applicable(stack[l])
    BY DEF IsChosen
  <2>2. Holds(store, stack[l].id) /\ store[stack[l].id].client # Self
    BY <2>1 DEF Applicable
  <2> QED BY <2>2, <1>2 DEF OwnRecords, Holds
<1> QED BY <1>1, <1>2 DEF ForeignAbove

LEMMA NoneOwn ==
    ASSUME Types, OwnRecords, NEW stack \in Seq(Entry), Exhausted(stack)
    PROVE  Line(store, stack) = <<>>
<1>1. \A k \in 1 .. Len(stack) : stack[k].id \notin OwnIds
  BY StackFacts DEF Exhausted, Applicable, OwnRecords, Holds
<1>2. OwnEntries(stack) = {}
  BY <1>1, StackFacts DEF OwnEntries
<1>3. Line(store, stack) \in Seq(LineDocs) /\ Len(Line(store, stack)) = 0
  BY <1>2, LineType, FS_EmptySet DEF Types
<1> QED BY <1>3, EmptySeq

LEMMA AppendedIs ==
    ASSUME NEW S, NEW a \in Seq(S), NEW d \in S, NEW b, b = Append(a, d)
    PROVE  b # <<>> /\ d = b[Len(b)] /\ a = SubSeq(b, 1, Len(b) - 1)
<1>1. b \in Seq(S) /\ Len(b) = Len(a) + 1 /\ b[Len(b)] = d /\ Len(a) \in Nat
  OBVIOUS
<1>2. Len(b) - 1 = Len(a)
  BY <1>1
<1>3. SubSeq(b, 1, Len(a)) = a
  <2>1. /\ SubSeq(b, 1, Len(a)) \in Seq(S) /\ Len(SubSeq(b, 1, Len(a))) = Len(a)
        /\ \A i \in 1 .. Len(a) : SubSeq(b, 1, Len(a))[i] = b[i]
    BY <1>1
  <2>2. \A i \in 1 .. Len(a) : b[i] = a[i]
    OBVIOUS
  <2> QED BY <2>1, <2>2, SeqEqual
<1> QED BY <1>1, <1>2, <1>3

\* The line's steps are the abstract specification's.
LEMMA LineStep ==
    ASSUME NEW s \in Stores, NEW u \in Seq(Entry), NEW v \in Seq(Entry),
           s = store', u = undo', v = redo',
           \/ /\ \/ Line(s, u) = Append(Line(store, undo), Visible(store))
                 \/ Line(store, undo) # <<>> /\ Line(s, u) = Line(store, undo)
              /\ Line(s, v) = <<>>
           \/ /\ Line(s, v) = <<>>
              /\ Visible(s) = Visible(store)
              /\ Line(s, u) = Line(store, undo)
           \/ /\ Line(store, undo) = Append(Line(s, u), Visible(s))
              /\ Line(s, v) = Append(Line(store, redo), Visible(store))
           \/ /\ Line(store, redo) = Append(Line(s, v), Visible(s))
              /\ Line(s, u) = Append(Line(store, undo), Visible(store))
           \/ /\ Line(s, u) = <<>>
              /\ Line(s, v) = <<>>
           \/ /\ Visible(s) = Visible(store)
              /\ Line(s, u) = Line(store, undo)
              /\ Line(s, v) = Line(store, redo)
    PROVE  [Linear!Next]_(Linear!lineVars)
<1> DEFINE doc == Visible(store)
           past == Line(store, undo)
           future == Line(store, redo)
           doc2 == Visible(s)
           past2 == Line(s, u)
           future2 == Line(s, v)
<1>1. doc2 \in LineDocs /\ past2 \in Seq(LineDocs) /\ future2 \in Seq(LineDocs)
  BY VisibleType, LineType
<1>2. doc' = doc2 /\ past' = past2 /\ future' = future2
  OBVIOUS
<1>3. CASE (past2 = Append(past, doc) \/ (past # <<>> /\ past2 = past)) /\ future2 = <<>>
  BY <1>1, <1>2, <1>3 DEF Linear!Next, Linear!Edit, LineDocs
<1>4. CASE future2 = <<>> /\ doc2 = doc /\ past2 = past
  BY <1>2, <1>4 DEF Linear!Next, Linear!Cut
<1>5. CASE past = Append(past2, doc2) /\ future2 = Append(future, doc)
  <2>1. past # <<>> /\ doc2 = past[Len(past)] /\ past2 = SubSeq(past, 1, Len(past) - 1)
    <3> HIDE DEF past, doc2, past2
    <3> QED BY <1>1, <1>5, AppendedIs
  <2> QED BY <2>1, <1>2, <1>5 DEF Linear!Next, Linear!Undo, Linear!Front
<1>6. CASE future = Append(future2, doc2) /\ past2 = Append(past, doc)
  <2>1. future # <<>> /\ doc2 = future[Len(future)] /\ future2 = SubSeq(future, 1, Len(future) - 1)
    <3> HIDE DEF future, doc2, future2
    <3> QED BY <1>1, <1>6, AppendedIs
  <2> QED BY <2>1, <1>2, <1>6 DEF Linear!Next, Linear!Redo, Linear!Front
<1>7. CASE past2 = <<>> /\ future2 = <<>>
  BY <1>1, <1>2, <1>7 DEF Linear!Next, Linear!Discard, LineDocs
<1>8. CASE doc2 = doc /\ past2 = past /\ future2 = future
  BY <1>2, <1>8 DEF Linear!lineVars
<1>9. \/ (past2 = Append(past, doc) \/ (past # <<>> /\ past2 = past)) /\ future2 = <<>>
      \/ future2 = <<>> /\ doc2 = doc /\ past2 = past
      \/ past = Append(past2, doc2) /\ future2 = Append(future, doc)
      \/ future = Append(future2, doc2) /\ past2 = Append(past, doc)
      \/ past2 = <<>> /\ future2 = <<>>
      \/ doc2 = doc /\ past2 = past /\ future2 = future
  OBVIOUS
<1> HIDE DEF doc, past, future, doc2, past2, future2
<1> QED BY <1>3, <1>4, <1>5, <1>6, <1>7, <1>8, <1>9

-----------------------------------------------------------------------------
(* One lemma per action. *)

LEMMA CommitStep ==
    ASSUME Inv, NEW i \in Ids, NEW r \in OwnRecord, NEW key \in Keys, Commit(i, r, key)
    PROVE  Inv' /\ [Linear!Next]_(Linear!lineVars)
<1> DEFINE e == [id |-> i, before |-> store[i], after |-> r, key |-> key]
<1>1. Types /\ OwnRecords /\ EntriesHeld /\ Coherent(store, undo)
  BY DEF Inv
<1>2. r \in Record /\ r.client = Self
  BY DEF OwnRecord
<1>3. store[i] \in Record \cup {Absent}
  BY <1>1 DEF Types, Stores
<1>4. e \in Entry /\ e.id = i /\ e.before = store[i] /\ e.after = r
  BY <1>3 DEF Entry
<1>5. /\ counter' = counter + 1
      /\ redo' = <<>>
      /\ UNCHANGED <<peerSeen, peerWrites>>
  BY DEF Commit, WriteLocal, Push
<1>6. PICK t : t = store' /\ t = Put(store, i, r)
  BY DEF Commit, WriteLocal, Put
<1>7. PICK u : /\ u = undo'
               /\ \/ u = Append(undo, e)
                  \/ /\ undo # <<>> /\ undo[Len(undo)].id = i
                     /\ u = Continued(undo, r)
  <2> DEFINE change == [id |-> i, before |-> store[i], after |-> r]
  <2>1. \/ undo' = Append(undo, NewEntry(change, key))
        \/ Continues(change, key) /\ undo' = [undo EXCEPT ![Len(undo)].after = change.after]
    BY DEF Commit, Push
  <2>2. NewEntry(change, key) = e /\ change.after = r /\ change.id = i
    BY DEF NewEntry
  <2>3. Continues(change, key) => undo # <<>> /\ undo[Len(undo)].id = i
    BY <2>2 DEF Continues
  <2>4. [undo EXCEPT ![Len(undo)].after = change.after] = Continued(undo, r)
    BY <2>2 DEF Continued
  <2> HIDE DEF e, change
  <2> QED BY <2>1, <2>2, <2>3, <2>4
<1> HIDE DEF e
<1>8. /\ t \in Stores /\ t[i] = r
      /\ \A j \in Ids : j # i => t[j] = store[j]
      /\ \A j \in Ids : Holds(store, j) => Holds(t, j)
      /\ Holds(t, i)
  BY <1>1, <1>2, <1>6, Written DEF Types
<1>9. /\ u \in Seq(Entry)
      /\ Coherent(store, undo) => Coherent(t, u)
      /\ i \in OwnIds => \/ Line(t, u) = Append(Line(store, undo), Visible(store))
                         \/ Line(store, undo) # <<>> /\ Line(t, u) = Line(store, undo)
      /\ i \notin OwnIds => Visible(t) = Visible(store) /\ Line(t, u) = Line(store, undo)
      /\ \A k \in DOMAIN u :
           u[k].id = i \/ \E l \in DOMAIN undo : u[k].id = undo[l].id
  <2>1. store \in Stores /\ undo \in Seq(Entry)
    BY <1>1 DEF Types
  <2> QED BY <2>1, <1>4, <1>6, <1>7, Committed
<1>10. PICK v : v = redo' /\ v = <<>>
  BY <1>5
<1>11. v \in Seq(Entry) /\ Line(t, v) = <<>> /\ Coherent(t, v)
  BY <1>8, <1>10, LineEmpty
<1>12. Types'
  BY <1>1, <1>5, <1>6, <1>7, <1>8, <1>9, <1>10, <1>11 DEF Types
<1>13. OwnRecords'
  BY <1>1, <1>2, <1>6, <1>8 DEF OwnRecords, OwnIds
<1>14. EntriesHeld'
  <2>1. \A k \in DOMAIN u : Holds(t, u[k].id)
    <3> TAKE k \in DOMAIN u
    <3>1. CASE u[k].id = i
      BY <3>1, <1>8
    <3>2. ASSUME NEW l \in DOMAIN undo, u[k].id = undo[l].id PROVE Holds(t, u[k].id)
      <4>1. Holds(store, undo[l].id) /\ undo[l].id \in Ids
        BY <1>1, StackFacts DEF EntriesHeld, Types
      <4> QED BY <4>1, <3>2, <1>8
    <3> QED BY <3>1, <3>2, <1>9
  <2>2. \A k \in DOMAIN v : Holds(t, v[k].id)
    BY <1>10
  <2> QED BY <2>1, <2>2, <1>6, <1>7, <1>10 DEF EntriesHeld
<1>15. Coherent(t, u) /\ Coherent(t, v)
  BY <1>1, <1>9, <1>11
<1>16. Inv'
  BY <1>6, <1>7, <1>10, <1>12, <1>13, <1>14, <1>15 DEF Inv
<1>17. \/ /\ \/ Line(t, u) = Append(Line(store, undo), Visible(store))
             \/ Line(store, undo) # <<>> /\ Line(t, u) = Line(store, undo)
          /\ Line(t, v) = <<>>
       \/ /\ Line(t, v) = <<>>
          /\ Visible(t) = Visible(store)
          /\ Line(t, u) = Line(store, undo)
  BY <1>9, <1>11
<1>18. [Linear!Next]_(Linear!lineVars)
  BY <1>6, <1>7, <1>8, <1>9, <1>10, <1>11, <1>17, LineStep
<1> QED BY <1>16, <1>18

\* The invariant's parts for any store and stack.
HeldIn(s, stack) == \A k \in DOMAIN stack : Holds(s, stack[k].id)
OwnIn(s) == \A i \in OwnIds : s[i] = Absent \/ s[i].client = Self

\* The chosen entry of one stack is applied, its inverse goes on the other.
Moves(stack, other, k, t, rest, more) ==
    /\ IsChosen(stack, k)
    /\ t = Put(store, stack[k].id, Reverted(stack[k]))
    /\ rest = SubSeq(stack, 1, k - 1)
    /\ more = Append(other, Inverted(stack[k]))

\* Undo and redo alike are such a move, with the stacks exchanged.
LEMMA ChosenStep ==
    ASSUME Types, OwnRecords,
           NEW stack \in Seq(Entry), NEW other \in Seq(Entry),
           Coherent(store, stack), Coherent(store, other),
           HeldIn(store, stack), HeldIn(store, other),
           NEW k, NEW t, NEW rest, NEW more, Moves(stack, other, k, t, rest, more)
    PROVE  /\ t \in Stores /\ rest \in Seq(Entry) /\ more \in Seq(Entry)
           /\ Coherent(t, rest) /\ Coherent(t, more)
           /\ HeldIn(t, rest) /\ HeldIn(t, more)
           /\ OwnIn(t)
           /\ \/ /\ Line(store, stack) = Append(Line(t, rest), Visible(t))
                 /\ Line(t, more) = Append(Line(store, other), Visible(store))
              \/ /\ Visible(t) = Visible(store)
                 /\ Line(t, rest) = Line(store, stack)
                 /\ Line(t, more) = Line(store, other)
<1>1. /\ IsChosen(stack, k)
      /\ t = Put(store, stack[k].id, Reverted(stack[k]))
      /\ rest = SubSeq(stack, 1, k - 1)
      /\ more = Append(other, Inverted(stack[k]))
  BY DEF Moves
<1>2. store \in Stores /\ counter \in Nat
  BY DEF Types
<1>3. PICK e : e = stack[k] /\ e \in Entry
  BY <1>1, ChosenTop
<1>4. k \in 1 .. Len(stack) /\ k \in DOMAIN stack /\ ForeignAbove(stack, k)
  BY <1>1, ChosenTop
<1>5. PICK r : /\ r = Reverted(e) /\ r \in OwnRecord /\ r \in Record /\ r.client = Self
               /\ Content(r) = Content(e.before)
  BY <1>2, <1>3, RevertedIs
<1>6. PICK f : /\ f = Inverted(e) /\ f \in Entry /\ f.id = e.id
               /\ f.before = e.after /\ f.after = r
  BY <1>2, <1>3, <1>5, InvertedIs
<1>7. t = Put(store, e.id, r) /\ more = Append(other, f) /\ rest = SubSeq(stack, 1, k - 1)
  BY <1>1, <1>3, <1>5, <1>6
<1>8. e.id \in Ids
  BY <1>3 DEF Entry
<1>9. /\ t \in Stores /\ t[e.id] = r
      /\ \A j \in Ids : j # e.id => t[j] = store[j]
      /\ \A j \in Ids : Holds(store, j) => Holds(t, j)
  BY <1>2, <1>5, <1>7, <1>8, Written
<1>10. /\ rest \in Seq(Entry) /\ more \in Seq(Entry)
       /\ Coherent(t, rest) /\ Coherent(t, more)
       /\ e.id \in OwnIds =>
            /\ Line(store, stack) = Append(Line(t, rest), Visible(t))
            /\ Line(t, more) = Append(Line(store, other), Visible(store))
       /\ e.id \notin OwnIds =>
            /\ Visible(t) = Visible(store)
            /\ Line(t, rest) = Line(store, stack)
            /\ Line(t, more) = Line(store, other)
  <2>1. Reverts(store, stack, other, k, e, r, f, t, rest, more)
    BY <1>3, <1>4, <1>5, <1>6, <1>7 DEF Reverts
  <2> QED BY <1>2, <2>1, Stepped
<1>11. \A l \in DOMAIN stack : stack[l].id \in Ids /\ Holds(t, stack[l].id)
  BY <1>9, StackFacts DEF HeldIn
<1>12. HeldIn(t, rest)
  <2>1. \A l \in DOMAIN rest : l \in DOMAIN stack /\ rest[l] = stack[l]
    <3>1. Len(stack) \in Nat /\ k \in Nat /\ k <= Len(stack) /\ DOMAIN stack = 1 .. Len(stack)
      BY <1>4
    <3> QED BY <3>1, <1>7
  <2> QED BY <2>1, <1>11 DEF HeldIn
<1>13. HeldIn(t, more)
  <2>1. \A l \in DOMAIN more : more[l] = f \/ (l \in DOMAIN other /\ more[l] = other[l])
    BY <1>7
  <2>2. \A l \in DOMAIN other : Holds(t, other[l].id)
    BY <1>9, StackFacts DEF HeldIn
  <2>3. Holds(t, f.id)
    BY <1>3, <1>4, <1>6, <1>11
  <2> QED BY <2>1, <2>2, <2>3 DEF HeldIn
<1>14. OwnIn(t)
  BY <1>5, <1>9 DEF OwnRecords, OwnIn, OwnIds
<1>15. \/ /\ Line(store, stack) = Append(Line(t, rest), Visible(t))
          /\ Line(t, more) = Append(Line(store, other), Visible(store))
       \/ /\ Visible(t) = Visible(store)
          /\ Line(t, rest) = Line(store, stack)
          /\ Line(t, more) = Line(store, other)
  BY <1>10
<1> QED BY <1>9, <1>10, <1>12, <1>13, <1>14, <1>15

LEMMA NoStep ==
    ASSUME Types, OwnRecords, NEW stack \in Seq(Entry), Exhausted(stack)
    PROVE  /\ Line(store, <<>>) = Line(store, stack)
           /\ <<>> \in Seq(Entry) /\ Coherent(store, <<>>)
BY NoneOwn, LineEmpty DEF Types

LEMMA InvParts ==
    /\ Inv => /\ Types /\ OwnRecords
              /\ store \in Stores /\ undo \in Seq(Entry) /\ redo \in Seq(Entry)
              /\ Coherent(store, undo) /\ Coherent(store, redo)
              /\ HeldIn(store, undo) /\ HeldIn(store, redo)
    /\ (/\ Types /\ OwnIn(store)
        /\ Coherent(store, undo) /\ Coherent(store, redo)
        /\ HeldIn(store, undo) /\ HeldIn(store, redo)) => Inv
BY DEF Inv, Types, EntriesHeld, HeldIn, OwnRecords, OwnIn

LEMMA InvNext ==
    ASSUME Types', NEW s, NEW u, NEW v, s = store', u = undo', v = redo',
           OwnIn(s), Coherent(s, u), Coherent(s, v), HeldIn(s, u), HeldIn(s, v)
    PROVE  Inv'
<1>1. OwnRecords'
  BY DEF OwnRecords, OwnIn
<1>2. EntriesHeld'
  BY DEF EntriesHeld, HeldIn
<1> QED BY <1>1, <1>2 DEF Inv

LEMMA UndoStep ==
    ASSUME Inv, Undo
    PROVE  Inv' /\ [Linear!Next]_(Linear!lineVars)
<1>1. /\ Types /\ OwnRecords
      /\ store \in Stores /\ undo \in Seq(Entry) /\ redo \in Seq(Entry)
      /\ Coherent(store, undo) /\ Coherent(store, redo)
      /\ HeldIn(store, undo) /\ HeldIn(store, redo)
  BY InvParts
<1>2. UNCHANGED <<peerSeen, peerWrites>>
  BY DEF Undo
<1>3. ASSUME NEW k \in DOMAIN undo,
             IsChosen(undo, k),
             WriteLocal(undo[k].id, Reverted(undo[k])),
             undo' = SubSeq(undo, 1, k - 1),
             redo' = Append(redo, Inverted(undo[k]))
      PROVE  Inv' /\ [Linear!Next]_(Linear!lineVars)
  <2>1. PICK t : t = store' /\ t = Put(store, undo[k].id, Reverted(undo[k]))
    BY <1>3 DEF WriteLocal, Put
  <2>2. PICK u : u = undo' /\ u = SubSeq(undo, 1, k - 1)
    BY <1>3
  <2>3. PICK v : v = redo' /\ v = Append(redo, Inverted(undo[k]))
    BY <1>3
  <2>4. /\ t \in Stores /\ u \in Seq(Entry) /\ v \in Seq(Entry)
        /\ Coherent(t, u) /\ Coherent(t, v) /\ HeldIn(t, u) /\ HeldIn(t, v) /\ OwnIn(t)
        /\ \/ /\ Line(store, undo) = Append(Line(t, u), Visible(t))
              /\ Line(t, v) = Append(Line(store, redo), Visible(store))
           \/ /\ Visible(t) = Visible(store)
              /\ Line(t, u) = Line(store, undo)
              /\ Line(t, v) = Line(store, redo)
    <3>1. Moves(undo, redo, k, t, u, v)
      BY <1>3, <2>1, <2>2, <2>3 DEF Moves
    <3> QED BY <1>1, <3>1, ChosenStep
  <2>5. counter' = counter + 1
    BY <1>3 DEF WriteLocal
  <2>6. Types'
    BY <1>1, <1>2, <2>1, <2>2, <2>3, <2>4, <2>5 DEF Types
  <2>7. Inv'
    BY <2>1, <2>2, <2>3, <2>4, <2>6, InvNext
  <2>8. [Linear!Next]_(Linear!lineVars)
    BY <2>1, <2>2, <2>3, <2>4, LineStep
  <2> QED BY <2>7, <2>8
<1>4. ASSUME Exhausted(undo), undo' = <<>>, UNCHANGED <<store, counter, redo>>
      PROVE  Inv' /\ [Linear!Next]_(Linear!lineVars)
  <2>1. PICK t : t = store' /\ t = store
    BY <1>4
  <2>2. PICK u : u = undo' /\ u = <<>>
    BY <1>4
  <2>3. PICK v : v = redo' /\ v = redo
    BY <1>4
  <2>4. Line(t, u) = Line(store, undo) /\ u \in Seq(Entry) /\ Coherent(t, u)
    BY <1>1, <1>4, <2>1, <2>2, NoStep
  <2>5. HeldIn(t, u)
    BY <2>2 DEF HeldIn
  <2>6. Types'
    BY <1>1, <1>2, <1>4, <2>2, <2>4 DEF Types
  <2>7. OwnIn(t)
    BY <1>1, <2>1 DEF OwnRecords, OwnIn
  <2>8. Inv'
    BY <1>1, <2>1, <2>2, <2>3, <2>4, <2>5, <2>6, <2>7, InvNext
  <2>9. [Linear!Next]_(Linear!lineVars)
    BY <1>1, <2>1, <2>2, <2>3, <2>4, LineStep
  <2> QED BY <2>8, <2>9
<1> QED BY <1>3, <1>4 DEF Undo

LEMMA RedoStep ==
    ASSUME Inv, Redo
    PROVE  Inv' /\ [Linear!Next]_(Linear!lineVars)
<1>1. /\ Types /\ OwnRecords
      /\ store \in Stores /\ redo \in Seq(Entry) /\ undo \in Seq(Entry)
      /\ Coherent(store, redo) /\ Coherent(store, undo)
      /\ HeldIn(store, redo) /\ HeldIn(store, undo)
  BY InvParts
<1>2. UNCHANGED <<peerSeen, peerWrites>>
  BY DEF Redo
<1>3. ASSUME NEW k \in DOMAIN redo,
             IsChosen(redo, k),
             WriteLocal(redo[k].id, Reverted(redo[k])),
             redo' = SubSeq(redo, 1, k - 1),
             undo' = Append(undo, Inverted(redo[k]))
      PROVE  Inv' /\ [Linear!Next]_(Linear!lineVars)
  <2>1. PICK t : t = store' /\ t = Put(store, redo[k].id, Reverted(redo[k]))
    BY <1>3 DEF WriteLocal, Put
  <2>2. PICK v : v = redo' /\ v = SubSeq(redo, 1, k - 1)
    BY <1>3
  <2>3. PICK u : u = undo' /\ u = Append(undo, Inverted(redo[k]))
    BY <1>3
  <2>4. /\ t \in Stores /\ v \in Seq(Entry) /\ u \in Seq(Entry)
        /\ Coherent(t, v) /\ Coherent(t, u) /\ HeldIn(t, v) /\ HeldIn(t, u) /\ OwnIn(t)
        /\ \/ /\ Line(store, redo) = Append(Line(t, v), Visible(t))
              /\ Line(t, u) = Append(Line(store, undo), Visible(store))
           \/ /\ Visible(t) = Visible(store)
              /\ Line(t, v) = Line(store, redo)
              /\ Line(t, u) = Line(store, undo)
    <3>1. Moves(redo, undo, k, t, v, u)
      BY <1>3, <2>1, <2>2, <2>3 DEF Moves
    <3> QED BY <1>1, <3>1, ChosenStep
  <2>5. counter' = counter + 1
    BY <1>3 DEF WriteLocal
  <2>6. Types'
    BY <1>1, <1>2, <2>1, <2>2, <2>3, <2>4, <2>5 DEF Types
  <2>7. Inv'
    BY <2>1, <2>2, <2>3, <2>4, <2>6, InvNext
  <2>8. [Linear!Next]_(Linear!lineVars)
    BY <2>1, <2>2, <2>3, <2>4, LineStep
  <2> QED BY <2>7, <2>8
<1>4. ASSUME Exhausted(redo), redo' = <<>>, UNCHANGED <<store, counter, undo>>
      PROVE  Inv' /\ [Linear!Next]_(Linear!lineVars)
  <2>1. PICK t : t = store' /\ t = store
    BY <1>4
  <2>2. PICK v : v = redo' /\ v = <<>>
    BY <1>4
  <2>3. PICK u : u = undo' /\ u = undo
    BY <1>4
  <2>4. Line(t, v) = Line(store, redo) /\ v \in Seq(Entry) /\ Coherent(t, v)
    BY <1>1, <1>4, <2>1, <2>2, NoStep
  <2>5. HeldIn(t, v)
    BY <2>2 DEF HeldIn
  <2>6. Types'
    BY <1>1, <1>2, <1>4, <2>2, <2>4 DEF Types
  <2>7. OwnIn(t)
    BY <1>1, <2>1 DEF OwnRecords, OwnIn
  <2>8. Inv'
    BY <1>1, <2>1, <2>2, <2>3, <2>4, <2>5, <2>6, <2>7, InvNext
  <2>9. [Linear!Next]_(Linear!lineVars)
    BY <1>1, <2>1, <2>2, <2>3, <2>4, LineStep
  <2> QED BY <2>8, <2>9
<1> QED BY <1>3, <1>4 DEF Redo

LEMMA PeerStep ==
    ASSUME Inv, NEW i \in PeerIds, NEW r \in PeerRecords, PeerWrite(i, r)
    PROVE  Inv' /\ [Linear!Next]_(Linear!lineVars)
<1>1. /\ Types /\ OwnRecords
      /\ store \in Stores /\ undo \in Seq(Entry) /\ redo \in Seq(Entry)
      /\ Coherent(store, undo) /\ Coherent(store, redo)
      /\ HeldIn(store, undo) /\ HeldIn(store, redo)
  BY InvParts
<1>2. r \in Record /\ r.c \in Nat
  BY BoundsAssumption DEF PeerRecords, Record
<1>3. i \in Ids /\ i \notin OwnIds
  BY PeerIdsAssumption DEF OwnIds
<1>4. PICK t : t = store' /\ t = Put(store, i, r)
  BY DEF PeerWrite, Put
<1>5. PICK u : u = undo' /\ u = undo
  BY DEF PeerWrite
<1>6. PICK v : v = redo' /\ v = redo
  BY DEF PeerWrite
<1>7. /\ t \in Stores /\ ButFor(store, t, i)
      /\ \A j \in Ids : Holds(store, j) => Holds(t, j)
  BY <1>1, <1>2, <1>3, <1>4, Written
<1>8. /\ Visible(t) = Visible(store)
      /\ \A stack : Line(t, stack) = Line(store, stack)
      /\ \A stack : Coherent(store, stack) => Coherent(t, stack)
  BY <1>3, <1>7, SameStore
<1>9. Types'
  <2>1. counter' \in Nat
    <3>1. counter' \in {counter, r.c}
      BY DEF PeerWrite
    <3> QED BY <3>1, <1>1, <1>2 DEF Types
  <2>2. peerSeen' \in [Ids -> Nat]
    <3>1. peerSeen' = [peerSeen EXCEPT ![i] = r.c]
      BY DEF PeerWrite
    <3> QED BY <3>1, <1>1, <1>2 DEF Types
  <2>3. peerWrites' \in 0 .. MaxPeerWrites
    <3>1. peerWrites < MaxPeerWrites /\ peerWrites' = peerWrites + 1
      BY DEF PeerWrite
    <3> QED BY <3>1, <1>1, BoundsAssumption DEF Types
  <2> QED BY <2>1, <2>2, <2>3, <1>1, <1>4, <1>5, <1>6, <1>7 DEF Types
<1>10. OwnIn(t)
  BY <1>1, <1>3, <1>7 DEF OwnRecords, OwnIn, ButFor
<1>11. HeldIn(t, u) /\ HeldIn(t, v)
  BY <1>1, <1>5, <1>6, <1>7, StackFacts DEF HeldIn
<1>12. Coherent(t, u) /\ Coherent(t, v)
  BY <1>1, <1>5, <1>6, <1>8
<1>13. Inv'
  BY <1>4, <1>5, <1>6, <1>9, <1>10, <1>11, <1>12, InvNext
<1>14. Line(t, u) = Line(store, undo) /\ Line(t, v) = Line(store, redo)
  BY <1>5, <1>6, <1>8
<1>15. [Linear!Next]_(Linear!lineVars)
  BY <1>1, <1>4, <1>5, <1>6, <1>7, <1>8, <1>14, LineStep
<1> QED BY <1>13, <1>15

LEMMA PurgeStep ==
    ASSUME Inv, Purge
    PROVE  Inv' /\ [Linear!Next]_(Linear!lineVars)
<1>1. Types
  BY DEF Inv
<1>2. PICK t : t = store' /\ t = Empty
  BY DEF Purge
<1>3. PICK u : u = undo' /\ u = <<>>
  BY DEF Purge
<1>4. PICK v : v = redo' /\ v = <<>>
  BY DEF Purge
<1>5. t \in Stores
  BY <1>2 DEF Empty, Stores
<1>6. /\ u \in Seq(Entry) /\ Line(t, u) = <<>> /\ Coherent(t, u)
      /\ v \in Seq(Entry) /\ Line(t, v) = <<>> /\ Coherent(t, v)
  BY <1>3, <1>4, <1>5, LineEmpty
<1>7. Types'
  BY <1>1, <1>2, <1>3, <1>4, <1>5, <1>6 DEF Types, Purge
<1>8. OwnIn(t)
  BY <1>2 DEF OwnIn, OwnIds, Empty
<1>9. HeldIn(t, u) /\ HeldIn(t, v)
  BY <1>3, <1>4 DEF HeldIn
<1>10. Inv'
  BY <1>2, <1>3, <1>4, <1>6, <1>7, <1>8, <1>9, InvNext
<1>11. [Linear!Next]_(Linear!lineVars)
  BY <1>2, <1>3, <1>4, <1>5, <1>6, LineStep
<1> QED BY <1>10, <1>11

LEMMA StutterStep ==
    ASSUME Inv, UNCHANGED vars
    PROVE  Inv' /\ [Linear!Next]_(Linear!lineVars)
<1>1. /\ store' = store /\ undo' = undo /\ redo' = redo /\ counter' = counter
      /\ peerSeen' = peerSeen /\ peerWrites' = peerWrites
  BY DEF vars
<1>2. Inv'
  BY <1>1 DEF Inv, Types, OwnRecords, EntriesHeld
<1>3. [Linear!Next]_(Linear!lineVars)
  BY <1>1 DEF Linear!lineVars
<1> QED BY <1>2, <1>3

\* A change of a held block, an insertion and a removal are one commit each.
LEMMA EditStep ==
    ASSUME Inv, NEW i \in Ids, NEW deleted \in BOOLEAN, NEW value \in Values, NEW key \in Keys,
           Commit(i, Stamped(deleted, value), key)
    PROVE  Inv' /\ [Linear!Next]_(Linear!lineVars)
<1>1. counter \in Nat
  BY DEF Inv, Types
<1>2. PICK r : r = Stamped(deleted, value) /\ r \in OwnRecord
  BY <1>1, StampedIs
<1>3. Commit(i, r, key)
  BY <1>2
<1> QED BY <1>2, <1>3, CommitStep

LEMMA EveryStep ==
    ASSUME Inv, [Next]_vars
    PROVE  Inv' /\ [Linear!Next]_(Linear!lineVars)
<1> DEFINE Kept == Inv' /\ [Linear!Next]_(Linear!lineVars)
<1>1. "typing" \in Keys /\ "none" \in Keys
  BY DEF Keys
<1>2. ASSUME NEW i \in Ids, NEW value \in Values, SetText(i, value) PROVE Kept
  <2>1. Commit(i, Stamped(FALSE, value), "typing")
    BY <1>2 DEF SetText
  <2> QED BY <2>1, <1>1, EditStep
<1>3. ASSUME NEW i \in Ids, NEW value \in Values, SetKind(i, value) PROVE Kept
  <2>1. Commit(i, Stamped(FALSE, value), "none")
    BY <1>3 DEF SetKind
  <2> QED BY <2>1, <1>1, EditStep
<1>4. ASSUME NEW i \in Ids, InsertBlock(i) PROVE Kept
  <2>1. Commit(i, Stamped(FALSE, Blank), "none")
    BY <1>4 DEF InsertBlock
  <2> QED BY <2>1, <1>1, EditStep, BlankAssumption
<1>5. ASSUME NEW i \in Ids, RemoveBlock(i) PROVE Kept
  <2>1. Commit(i, Stamped(TRUE, Blank), "none")
    BY <1>5 DEF RemoveBlock
  <2> QED BY <2>1, <1>1, EditStep, BlankAssumption
<1>6. ASSUME NEW i \in PeerIds, NEW r \in PeerRecords, PeerWrite(i, r) PROVE Kept
  BY <1>6, PeerStep
<1>7. Undo => Kept
  BY UndoStep
<1>8. Redo => Kept
  BY RedoStep
<1>9. Purge => Kept
  BY PurgeStep
<1>10. UNCHANGED vars => Kept
  BY StutterStep
<1> HIDE DEF Kept
<1> QED
  <2>1. Kept
    BY <1>2, <1>3, <1>4, <1>5, <1>6, <1>7, <1>8, <1>9, <1>10 DEF Next
  <2> QED BY <2>1 DEF Kept

-----------------------------------------------------------------------------
(* The theorems. *)

LEMMA InvHolds == Spec => []Inv
<1>1. Inv /\ [Next]_vars => Inv'
  BY EveryStep
<1> QED BY <1>1, InitInv, PTL DEF Spec

\* Every variable has its type; an entry's `after` is a record the user's own
\* client wrote (history.rs Change, page.rs commit).
THEOREM HistoryTypes == Spec => []TypeOK
<1>1. Inv => TypeOK
  BY TypesSuffice DEF Inv
<1> QED BY <1>1, InvHolds, PTL

\* Whatever is edited, undone, merged and purged, an entry names a block the store
\* holds: undo and redo never bring a purged page back (workspace.rs purge_page,
\* history.rs forget).
THEOREM EntriesAlwaysHeld == Spec => []EntriesHeld
<1>1. Inv => EntriesHeld
  BY DEF Inv
<1> QED BY <1>1, InvHolds, PTL

\* On the blocks peers leave alone undo and redo walk a line of states, whatever
\* peers write elsewhere, however edits are continued and entries skipped
\* (history.rs push, apply_top).
THEOREM UndoIsLinear == Spec => LinearSpec
<1>1. Init => Linear!Init
  <2> SUFFICES ASSUME Init PROVE Linear!Init
    OBVIOUS
  <2>1. Empty \in Stores
    BY DEF Empty, Stores
  <2>2. store = Empty /\ undo = <<>> /\ redo = <<>>
    BY DEF Init
  <2>3. Visible(store) \in LineDocs /\ Line(store, undo) = <<>> /\ Line(store, redo) = <<>>
    BY <2>1, <2>2, VisibleType, LineEmpty
  <2> QED BY <2>3 DEF Linear!Init, LineDocs
<1>2. Inv /\ [Next]_vars => [Linear!Next]_(Linear!lineVars)
  BY EveryStep
<1> QED BY <1>1, <1>2, InvHolds, PTL DEF Spec, LinearSpec, Linear!Spec
=============================================================================
