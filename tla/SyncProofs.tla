------------------------------ MODULE SyncProofs ------------------------------
(***************************************************************************)
(* Proofs about Sync, for every set of clients, ids and values and every   *)
(* bound: its types, that a settled client has the server's records, that  *)
(* a version identifies a content wherever it travels, and that a seed     *)
(* page stays with its maker.  The frames in a queue are taken as a set:   *)
(* their order is not what the argument needs.                             *)
(***************************************************************************)
EXTENDS Sync, FiniteSetTheorems, SequenceTheorems, TLAPS

-----------------------------------------------------------------------------
(* Frames in transit, taken as sets. *)

Out(c) == ToSet(outbox[c])
In(c) == ToSet(inbox[c])

\* Some frame of F brings record r under id i.
Carries(F, i, r) ==
    \E f \in F : f.t = "records" /\ i \in DOMAIN f.batch /\ f.batch[i] = r

\* Some frame of F is a hello, and asks for what its sender lacks.
Asks(F) == \E f \in F : f.t = "hello"

\* Some hello of F says that its sender has id i in the version of r.
Claims(F, i, r) ==
    \E f \in F : /\ f.t = "hello"
                 /\ \E p \in DOMAIN f.pages : <<i, r.c, r.client, r.deleted>> \in f.pages[p]

\* Record r of id i is in node n's store, on its way somewhere, or either.
At(n, i, r) == store[n][i] = r
Sent(i, r) == \E c \in Clients : Carries(Out(c), i, r) \/ Carries(In(c), i, r)
Copy(i, r) == Sent(i, r) \/ \E n \in Nodes : At(n, i, r)

-----------------------------------------------------------------------------
(* The inductive invariant. *)

Tuples == Ids \X Nat \X Authors \X BOOLEAN
Adverts == UNION {[P -> SUBSET Tuples] : P \in SUBSET Pages}
Batch == UNION {[S -> Record] : S \in (SUBSET Ids) \ {{}}}
Messages == {Hello(pages) : pages \in Adverts} \cup {Update(batch) : batch \in Batch}

Types ==
    /\ store \in [Nodes -> Stores]
    /\ counter \in [Nodes -> Nat]
    /\ running \in [Clients -> BOOLEAN]
    /\ dirty \in [Clients -> SUBSET Ids]
    /\ provisional \in [Clients -> SUBSET Pages]
    /\ link \in [Clients -> BOOLEAN]
    /\ outbox \in [Clients -> Seq(Messages)]
    /\ inbox \in [Clients -> Seq(Messages \cup {Connected})]
    /\ unconfirmed \subseteq Seeds
    /\ writes \in 0 .. MaxWrites
    /\ breaks \in 0 .. MaxBreaks
    /\ crashes \in 0 .. MaxCrashes

\* What a client that does not run has lost, and what one that runs may have.
Processes ==
    \A c \in Clients :
       /\ ~running[c] => /\ ~link[c] /\ outbox[c] = <<>> /\ inbox[c] = <<>>
                         /\ dirty[c] = {} /\ provisional[c] = {}
       /\ dirty[c] \subseteq Held(store[c])
       /\ provisional[c] \subseteq {SeedOf[c]}

\* A purged page still shown is the client's own seed.
Editors ==
    /\ purged \in [Clients -> SUBSET Pages]
    /\ \A c \in Clients : purged[c] \subseteq {SeedOf[c]}

\* A node has issued or seen nothing above its counter.
CounterCovers == \A n \in Nodes, i \in Ids : store[n][i].c <= counter[n]

\* Version r is no older than s.
AtLeast(r, s) == s.c = 0 \/ r.c > s.c \/ (r.c = s.c /\ r.client >= s.client)

\* The sender of a record or of a claim has no older one.
SentBehind ==
    \A c \in Clients, i \in Ids, r \in Record :
       /\ Carries(Out(c), i, r) \/ Claims(Out(c), i, r) => AtLeast(store[c][i], r)
       /\ Carries(In(c), i, r) \/ Claims(In(c), i, r) => AtLeast(store[Server][i], r)

\* The author of a record has no older one.
AuthorHolds == \A i \in Ids, r \in Record : Copy(i, r) => AtLeast(store[r.client][i], r)

\* A provisional page is nowhere but in its maker's store.
Withheld ==
    \A c \in Clients, i \in Ids : PageOf[i] \in provisional[c] =>
       /\ i \notin dirty[c]
       /\ \A r \in Record :
             /\ ~Sent(i, r)
             /\ \A n \in Nodes \ {c} : ~At(n, i, r)
             /\ \A d \in Clients : ~Claims(Out(d), i, r)

\* Before any crash, a seed page that no handshake has confirmed is provisional,
\* or there is no copy of its record left.
SeedProvisional ==
    crashes = 0 =>
       \A c \in Clients, r \in Record :
          SeedOf[c] \in unconfirmed /\ Copy(SeedOf[c], r) => SeedOf[c] \in provisional[c]

\* No two copies of a record have one version and two contents.
VersionsDiffer ==
    \A i \in Ids, r \in Record, s \in Record :
       Copy(i, r) /\ Copy(i, s) /\ r.c = s.c /\ r.client = s.client => r = s

\* Between two linked sides, what one has and the other lacks is on its way,
\* or the hello is that will fetch it.
Down(c, i) ==
    \/ AtLeast(store[c][i], store[Server][i])
    \/ Connected \in In(c)
    \/ Asks(Out(c))
    \/ Carries(In(c), i, store[Server][i])
Up(c, i) ==
    \/ AtLeast(store[Server][i], store[c][i])
    \/ Asks(In(c))
    \/ Carries(Out(c), i, store[c][i])
OnTheWay == \A c \in Clients : link[c] => \A i \in Ids : Down(c, i) /\ Up(c, i)

Sound == Types /\ Processes /\ CounterCovers
Inv ==
    /\ Sound
    /\ SentBehind /\ AuthorHolds /\ Withheld /\ SeedProvisional
    /\ VersionsDiffer /\ OnTheWay

-----------------------------------------------------------------------------
(* Sequences as sets. *)

LEMMA SetConcat ==
    ASSUME NEW S, NEW s \in Seq(S), NEW t \in Seq(S)
    PROVE  s \o t \in Seq(S) /\ ToSet(s \o t) = ToSet(s) \cup ToSet(t)
<1> DEFINE u == s \o t
<1>1. /\ u \in Seq(S) /\ Len(u) = Len(s) + Len(t)
      /\ \A k \in 1 .. Len(s) + Len(t) : u[k] = IF k <= Len(s) THEN s[k] ELSE t[k - Len(s)]
  BY ConcatProperties
<1>2. /\ Len(s) \in Nat /\ Len(t) \in Nat
      /\ DOMAIN s = 1 .. Len(s) /\ DOMAIN t = 1 .. Len(t) /\ DOMAIN u = 1 .. Len(s) + Len(t)
  BY <1>1, LenProperties
<1> HIDE DEF u
<1>3. ASSUME NEW k \in DOMAIN u
      PROVE  u[k] \in ToSet(s) \cup ToSet(t)
  <2>1. CASE k <= Len(s)
    BY <1>1, <1>2, <2>1 DEF ToSet
  <2>2. CASE ~(k <= Len(s))
    <3>1. k - Len(s) \in DOMAIN t /\ u[k] = t[k - Len(s)]
      BY <1>1, <1>2, <2>2
    <3> QED BY <3>1 DEF ToSet
  <2> QED BY <2>1, <2>2
<1>4. ASSUME NEW k \in 1 .. Len(s)
      PROVE  s[k] \in ToSet(u)
  <2>1. k \in 1 .. Len(s) + Len(t)
    BY <1>2
  <2>2. k \in DOMAIN u /\ u[k] = s[k]
    BY <1>1, <1>2, <2>1
  <2> QED BY <2>2 DEF ToSet
<1>5. ASSUME NEW k \in 1 .. Len(t)
      PROVE  t[k] \in ToSet(u)
  <2> DEFINE l == k + Len(s)
  <2>1. l \in 1 .. Len(s) + Len(t) /\ ~(l <= Len(s)) /\ l - Len(s) = k
    BY <1>2
  <2> HIDE DEF l
  <2>2. l \in DOMAIN u /\ u[l] = t[k]
    BY <1>1, <1>2, <2>1
  <2> QED BY <2>2 DEF ToSet
<1>6. ToSet(s) \cup ToSet(t) \subseteq ToSet(u)
  BY <1>2, <1>4, <1>5 DEF ToSet
<1>7. ToSet(u) \subseteq ToSet(s) \cup ToSet(t)
  BY <1>3 DEF ToSet
<1> QED BY <1>1, <1>6, <1>7 DEF u

LEMMA SetPair ==
    ASSUME NEW S, NEW a \in S, NEW b \in S
    PROVE  <<a, b>> \in Seq(S) /\ ToSet(<<a, b>>) = {a, b}
BY DEF ToSet

LEMMA SetAppend ==
    ASSUME NEW S, NEW s \in Seq(S), NEW e \in S
    PROVE  Append(s, e) \in Seq(S) /\ ToSet(Append(s, e)) = ToSet(s) \cup {e}
<1> DEFINE t == <<e>>
<1>1. t \in Seq(S) /\ ToSet(t) = {e}
  BY DEF ToSet
<1>2. Append(s, e) = s \o t
  BY AppendIsConcat
<1> HIDE DEF t
<1> QED BY <1>1, <1>2, SetConcat

LEMMA SetTail ==
    ASSUME NEW S, NEW s \in Seq(S), s # <<>>
    PROVE  /\ Head(s) \in S /\ Tail(s) \in Seq(S)
           /\ ToSet(s) = {Head(s)} \cup ToSet(Tail(s))
<1> DEFINE u == Tail(s)
<1>1. /\ u \in Seq(S) /\ Len(u) = Len(s) - 1
      /\ \A k \in 1 .. Len(u) : u[k] = s[k + 1]
      /\ Head(s) \in S
  BY HeadTailProperties
<1>2. /\ Len(s) \in Nat \ {0} /\ DOMAIN s = 1 .. Len(s) /\ DOMAIN u = 1 .. Len(s) - 1
      /\ Head(s) = s[1]
  BY <1>1, LenProperties, EmptySeq
<1> HIDE DEF u
<1>3. ASSUME NEW k \in DOMAIN s
      PROVE  s[k] \in {Head(s)} \cup ToSet(u)
  <2>1. CASE k = 1
    BY <1>2, <2>1
  <2>2. CASE k # 1
    <3>1. k - 1 \in 1 .. Len(u) /\ (k - 1) + 1 = k
      BY <1>1, <1>2, <2>2
    <3> QED BY <1>1, <1>2, <3>1 DEF ToSet
  <2> QED BY <2>1, <2>2
<1>4. ASSUME NEW k \in DOMAIN u
      PROVE  u[k] \in ToSet(s)
  <2>1. k + 1 \in DOMAIN s /\ u[k] = s[k + 1]
    BY <1>1, <1>2
  <2> QED BY <2>1 DEF ToSet
<1>5. Head(s) \in ToSet(s)
  BY <1>2 DEF ToSet
<1> QED BY <1>1, <1>3, <1>4, <1>5 DEF ToSet, u

LEMMA SetPart ==
    ASSUME NEW S, NEW s \in Seq(S), NEW m \in 1 .. Len(s) + 1, NEW n \in 0 .. Len(s)
    PROVE  SubSeq(s, m, n) \in Seq(S) /\ ToSet(SubSeq(s, m, n)) \subseteq ToSet(s)
<1>1. Len(s) \in Nat /\ DOMAIN s = 1 .. Len(s) /\ m \in Int /\ n \in Int
  BY LenProperties
<1>2. \A k \in m .. n : k \in DOMAIN s
  BY <1>1
<1>3. \A k \in m .. n : s[k] \in S
  BY <1>1, <1>2, ElementOfSeq
<1> DEFINE u == SubSeq(s, m, n)
<1>4. /\ u \in Seq(S) /\ Len(u) = IF m <= n THEN n - m + 1 ELSE 0
      /\ \A k \in 1 .. n - m + 1 : u[k] = s[m + k - 1]
  BY <1>1, <1>3, SubSeqProperties
<1> HIDE DEF u
<1>5. DOMAIN u = 1 .. Len(u)
  BY <1>4, LenProperties
<1>6. ASSUME NEW k \in DOMAIN u
      PROVE  u[k] \in ToSet(s)
  <2>1. k \in 1 .. n - m + 1 /\ m + k - 1 \in m .. n
    BY <1>1, <1>4, <1>5
  <2> QED BY <1>2, <1>4, <2>1 DEF ToSet
<1> QED BY <1>4, <1>6 DEF ToSet, u

LEMMA SetEmpty == ToSet(<<>>) = {}
BY DEF ToSet

\* A finite set put in a sequence is all there.
LEMMA SetToSeqFacts ==
    ASSUME NEW S, IsFiniteSet(S)
    PROVE  SetToSeq(S) \in Seq(S) /\ ToSet(SetToSeq(S)) = S
<1> DEFINE n == Cardinality(S)
           f == SetToSeq(S)
<1>1. n \in Nat /\ \E g \in [1 .. n -> S] : IsInjective(g)
  BY FS_CardinalityType DEF ExistsBijection, Bijection, Injection
<1>2. f \in [1 .. n -> S] /\ IsInjective(f)
  BY <1>1 DEF SetToSeq
<1>3. IsFiniteSet(1 .. n) /\ Cardinality(1 .. n) = n
  BY <1>1, FS_Interval
<1>4. f \in Surjection(1 .. n, S)
  BY <1>2, <1>3, FS_Injection DEF Injection
<1>5. f \in Seq(S)
  BY <1>1, <1>2
<1> QED BY <1>2, <1>4, <1>5 DEF Surjection, ToSet

-----------------------------------------------------------------------------
(* Frames of records. *)

\* The records that a set of ids has in a store, and where they go.
LEMMA FramesFacts ==
    ASSUME NEW s \in Stores, NEW groups \in SUBSET ((SUBSET Held(s)) \ {{}})
    PROVE  /\ Frames(s, groups) \in Seq(Messages)
           /\ ToSet(Frames(s, groups)) = {Update([i \in g |-> s[i]]) : g \in groups}
<1> DEFINE order == SetToSeq(groups)
           q == Frames(s, groups)
<1>1. IsFiniteSet(groups)
  <2>1. IsFiniteSet(SUBSET Ids)
    BY FS_SUBSET, DataAssumption
  <2>2. groups \in SUBSET (SUBSET Ids)
    BY DEF Held
  <2> QED BY <2>1, <2>2, FS_Subset
<1>2. order \in Seq(groups) /\ ToSet(order) = groups
  BY <1>1, SetToSeqFacts
<1>3. q = [k \in DOMAIN order |-> Update([i \in order[k] |-> s[i]])]
  BY DEF Frames
<1> HIDE DEF order, q
<1>4. ToSet(q) = {Update([i \in g |-> s[i]]) : g \in groups}
  BY <1>2, <1>3 DEF ToSet
<1>5. ASSUME NEW g \in groups
      PROVE  Update([i \in g |-> s[i]]) \in Messages
  <2>1. g \in (SUBSET Ids) \ {{}} /\ \A i \in g : s[i] \in Record
    BY DEF Held, Holds, Stores
  <2>2. [i \in g |-> s[i]] \in [g -> Record]
    BY <2>1
  <2>3. [i \in g |-> s[i]] \in Batch
    BY <2>1, <2>2 DEF Batch
  <2> QED BY <2>3 DEF Messages
<1>6. DOMAIN order = 1 .. Len(order) /\ Len(order) \in Nat /\ \A k \in DOMAIN order : order[k] \in groups
  BY <1>2, LenProperties
<1>7. q \in [1 .. Len(order) -> Messages]
  BY <1>3, <1>5, <1>6
<1>8. q \in Seq(Messages)
  BY <1>6, <1>7
<1> QED BY <1>4, <1>8 DEF q

-----------------------------------------------------------------------------
(* Versions. *)

\* What a store holds of an id: its counter tells a record from Absent.
LEMMA EntryFacts ==
    ASSUME NEW r \in Record \cup {Absent}
    PROVE  /\ r.c \in Nat
           /\ r.c = 0 <=> r = Absent
           /\ r # Absent <=> r \in Record
           /\ r \in Record => r.client \in Nodes /\ r.client \in Nat /\ r.deleted \in BOOLEAN
<1>1. CASE r = Absent
  BY <1>1 DEF Record, Absent
<1>2. CASE r \in Record
  <2>1. r.c \in Nat /\ r.c # 0 /\ r.client \in Authors /\ r.deleted \in BOOLEAN
    BY <1>2 DEF Record
  <2>2. Absent.c = 0
    BY DEF Absent
  <2>3. r.client \in Nat /\ r.client \in Nodes
    BY <2>1, AuthorsAssumption, NodesAssumption
  <2> QED BY <1>2, <2>1, <2>2, <2>3
<1> QED BY <1>1, <1>2

\* A record has to be compared with Absent in one way only.
LEMMA AtLeastFacts ==
    ASSUME NEW r \in Record \cup {Absent}, NEW s \in Record \cup {Absent}
    PROVE  /\ AtLeast(r, r)
           /\ AtLeast(r, Absent)
           /\ (r \in Record \/ s \in Record) /\ Newer(r, s) => AtLeast(r, s) /\ r \in Record
           /\ r \in Record /\ ~Newer(r, s) => AtLeast(s, r)
           /\ s \in Record /\ AtLeast(r, s) => r \in Record
           /\ AtLeast(r, s) => s.c <= r.c
<1>1. r.c \in Nat /\ s.c \in Nat /\ (r.c = 0 <=> r = Absent) /\ (s.c = 0 <=> s = Absent)
  BY EntryFacts
<1>2. /\ r \in Record <=> r # Absent
      /\ s \in Record <=> s # Absent
      /\ r \in Record => r.client \in Nat
      /\ s \in Record => s.client \in Nat
  BY EntryFacts
<1>3. AtLeast(r, r)
  BY <1>1, <1>2 DEF AtLeast
<1>4. Absent.c = 0
  BY DEF Absent
<1>5. CASE s = Absent
  <2>1. r \in Record => r.c > 0
    BY <1>1, <1>2
  <2> QED BY <1>1, <1>2, <1>3, <1>4, <1>5, <2>1 DEF AtLeast, Newer
<1>6. CASE r = Absent /\ s # Absent
  BY <1>1, <1>2, <1>3, <1>4, <1>6 DEF AtLeast, Newer
<1>7. CASE r # Absent /\ s # Absent
  BY <1>1, <1>2, <1>3, <1>4, <1>7 DEF AtLeast, Newer
<1> QED BY <1>5, <1>6, <1>7

LEMMA AtLeastTransitive ==
    ASSUME NEW r \in Record \cup {Absent}, NEW s \in Record \cup {Absent},
           NEW t \in Record \cup {Absent}, AtLeast(r, s), AtLeast(s, t)
    PROVE  AtLeast(r, t)
<1>1. /\ r.c \in Nat /\ s.c \in Nat /\ t.c \in Nat
      /\ r.c = 0 <=> r \notin Record
      /\ s.c = 0 <=> s \notin Record
      /\ t.c = 0 <=> t \notin Record
  BY EntryFacts
<1>2. /\ r \in Record => r.client \in Nat
      /\ s \in Record => s.client \in Nat
      /\ t \in Record => t.client \in Nat
  BY EntryFacts
<1>3. CASE t.c = 0
  BY <1>3 DEF AtLeast
<1>4. CASE t.c # 0
  <2>1. s.c # 0 /\ r.c # 0
    BY <1>1, <1>4 DEF AtLeast
  <2> QED BY <1>1, <1>2, <1>4, <2>1 DEF AtLeast
<1> QED BY <1>3, <1>4

\* Records as new as each other have one version.
LEMMA SameVersion ==
    ASSUME NEW r \in Record, NEW s \in Record, AtLeast(r, s), AtLeast(s, r)
    PROVE  r.c = s.c /\ r.client = s.client
<1>1. r.c \in Nat \ {0} /\ s.c \in Nat \ {0} /\ r.client \in Nat /\ s.client \in Nat
  BY AuthorsAssumption DEF Record
<1> QED BY <1>1 DEF AtLeast

\* A comparison looks at the version alone.
LEMMA ByVersion ==
    ASSUME NEW r, NEW s, NEW t, s.c = t.c, s.client = t.client
    PROVE  /\ AtLeast(r, s) <=> AtLeast(r, t)
           /\ AtLeast(s, r) <=> AtLeast(t, r)
BY DEF AtLeast

LEMMA StoreEntry ==
    ASSUME NEW s \in Stores, NEW i \in Ids
    PROVE  /\ s[i] \in Record \cup {Absent}
           /\ Holds(s, i) <=> s[i] \in Record
           /\ i \in Held(s) <=> s[i] \in Record
BY EntryFacts DEF Stores, Holds, Held

\* A merge moves no record back, and leaves nothing behind what was offered.
LEMMA MergedFacts ==
    ASSUME NEW s \in Stores, NEW batch \in Batch
    PROVE  /\ DOMAIN batch \subseteq Ids /\ \A i \in DOMAIN batch : batch[i] \in Record
           /\ Merged(s, batch) \in Stores
           /\ Applied(s, batch) \subseteq Held(Merged(s, batch)) /\ Applied(s, batch) \subseteq DOMAIN batch
           /\ \A i \in Ids :
                 /\ AtLeast(Merged(s, batch)[i], s[i])
                 /\ i \in DOMAIN batch => AtLeast(Merged(s, batch)[i], batch[i])
                 /\ i \in Applied(s, batch) => Merged(s, batch)[i] = batch[i]
                 /\ i \notin Applied(s, batch) => Merged(s, batch)[i] = s[i]
<1> DEFINE m == Merged(s, batch)
<1>1. DOMAIN batch \subseteq Ids /\ \A i \in DOMAIN batch : batch[i] \in Record
  BY DEF Batch
<1>2. \A i \in Ids : m[i] = IF i \in Applied(s, batch) THEN batch[i] ELSE s[i]
  BY DEF Merged
<1>3. \A i \in Ids : m[i] \in Record \cup {Absent}
  BY <1>1, <1>2, StoreEntry DEF Applied
<1>4. m \in Stores
  BY <1>3 DEF Merged, Stores
<1> HIDE DEF m
<1>5. ASSUME NEW i \in Ids
      PROVE  AtLeast(m[i], s[i]) /\ (i \in DOMAIN batch => AtLeast(m[i], batch[i]))
  <2>1. CASE i \in Applied(s, batch)
    <3>1. batch[i] \in Record /\ Newer(batch[i], s[i]) /\ s[i] \in Record \cup {Absent} /\ m[i] = batch[i]
      BY <1>1, <1>2, <2>1, StoreEntry DEF Applied
    <3> QED BY <3>1, AtLeastFacts
  <2>2. CASE i \notin Applied(s, batch)
    <3>1. m[i] = s[i] /\ s[i] \in Record \cup {Absent}
      BY <1>2, <2>2, StoreEntry
    <3>2. i \in DOMAIN batch => batch[i] \in Record /\ ~Newer(batch[i], s[i])
      BY <1>1, <2>2 DEF Applied
    <3> QED BY <3>1, <3>2, AtLeastFacts
  <2> QED BY <2>1, <2>2
<1>6. Applied(s, batch) \subseteq DOMAIN batch
  BY DEF Applied
<1>7. Applied(s, batch) \subseteq Held(m)
  BY <1>1, <1>2, <1>4, <1>6, StoreEntry
<1> QED BY <1>1, <1>2, <1>4, <1>5, <1>6, <1>7 DEF m

-----------------------------------------------------------------------------
(* What sets of frames carry, ask and claim. *)

LEMMA FrameSets ==
    ASSUME NEW F, NEW G
    PROVE  /\ \A i, r : Carries(F \cup G, i, r) <=> Carries(F, i, r) \/ Carries(G, i, r)
           /\ \A i, r : Claims(F \cup G, i, r) <=> Claims(F, i, r) \/ Claims(G, i, r)
           /\ Asks(F \cup G) <=> Asks(F) \/ Asks(G)
           /\ \A i, r : Carries({}, i, r) <=> FALSE
           /\ \A i, r : Claims({}, i, r) <=> FALSE
BY DEF Carries, Claims, Asks

LEMMA LostFrames ==
    ASSUME NEW F, NEW G, F \subseteq G
    PROVE  /\ \A i, r : Carries(F, i, r) => Carries(G, i, r)
           /\ \A i, r : Claims(F, i, r) => Claims(G, i, r)
BY DEF Carries, Claims

LEMMA OneFrame ==
    /\ \A i, r : ~Carries({Connected}, i, r) /\ ~Claims({Connected}, i, r)
    /\ ~Asks({Connected})
    /\ \A pages :
          /\ \A i, r : ~Carries({Hello(pages)}, i, r)
          /\ \A i, r : Claims({Hello(pages)}, i, r) <=>
                \E p \in DOMAIN pages : <<i, r.c, r.client, r.deleted>> \in pages[p]
          /\ Asks({Hello(pages)})
          /\ Connected # Hello(pages)
    /\ \A batch :
          /\ \A i, r : Carries({Update(batch)}, i, r) <=> i \in DOMAIN batch /\ batch[i] = r
          /\ \A i, r : ~Claims({Update(batch)}, i, r)
          /\ ~Asks({Update(batch)})
          /\ Connected # Update(batch)
BY DEF Carries, Claims, Asks, Connected, Hello, Update

\* What a frame taken from a queue may be.
LEMMA FrameKinds ==
    ASSUME NEW f \in Messages \cup {Connected}
    PROVE  /\ f.t = "connected" => f = Connected
           /\ f.t = "hello" => f = Hello(f.pages) /\ f.pages \in Adverts
           /\ f.t = "records" => f = Update(f.batch) /\ f.batch \in Batch
<1>1. CASE f = Connected
  BY <1>1 DEF Connected
<1>2. CASE \E pages \in Adverts : f = Hello(pages)
  BY <1>2 DEF Hello
<1>3. CASE \E batch \in Batch : f = Update(batch)
  BY <1>3 DEF Update
<1> QED BY <1>1, <1>2, <1>3 DEF Messages

\* F brings the records that s holds for the given ids, and nothing else.
Brings(F, s, ids) ==
    /\ \A i \in Ids, r \in Record : Carries(F, i, r) <=> i \in ids /\ r = s[i]
    /\ \A i, r : ~Claims(F, i, r)
    /\ ~Asks(F)
    /\ Connected \notin F

LEMMA FramesBring ==
    ASSUME NEW s \in Stores, NEW groups \in SUBSET ((SUBSET Held(s)) \ {{}})
    PROVE  /\ Frames(s, groups) \in Seq(Messages)
           /\ Brings(ToSet(Frames(s, groups)), s, UNION groups)
<1> DEFINE F == {Update([i \in g |-> s[i]]) : g \in groups}
<1>1. ASSUME NEW g \in groups
      PROVE  LET f == Update([i \in g |-> s[i]])
             IN  /\ f \in F /\ f.t = "records"
                 /\ DOMAIN f.batch = g /\ \A i \in g : f.batch[i] = s[i]
  <2> DEFINE b == [i \in g |-> s[i]]
  <2>1. Update(b) \in F /\ DOMAIN b = g /\ \A i \in g : b[i] = s[i]
    OBVIOUS
  <2> HIDE DEF b, F
  <2>2. Update(b).t = "records" /\ Update(b).batch = b
    BY DEF Update
  <2>3. LET f == Update(b)
        IN  /\ f \in F /\ f.t = "records"
            /\ DOMAIN f.batch = g /\ \A i \in g : f.batch[i] = s[i]
    BY <2>1, <2>2
  <2> QED BY <2>3 DEF b
<1>2. ASSUME NEW f \in F
      PROVE  /\ f.t = "records"
             /\ \E g \in groups : DOMAIN f.batch = g /\ \A i \in g : f.batch[i] = s[i]
  <2>1. PICK g \in groups : f = Update([i \in g |-> s[i]])
    OBVIOUS
  <2> HIDE DEF F
  <2> QED BY <1>1, <2>1
<1>3. ToSet(Frames(s, groups)) = F /\ Frames(s, groups) \in Seq(Messages)
  BY FramesFacts
<1> HIDE DEF F
<1>4. ASSUME NEW i \in Ids, NEW r \in Record
      PROVE  Carries(F, i, r) <=> i \in UNION groups /\ r = s[i]
  <2>1. ASSUME Carries(F, i, r)
        PROVE  i \in UNION groups /\ r = s[i]
    BY <1>2, <2>1 DEF Carries
  <2>2. ASSUME NEW g \in groups, i \in g, r = s[i]
        PROVE  Carries(F, i, r)
    BY <1>1, <2>2 DEF Carries
  <2> QED BY <2>1, <2>2
<1>5. ~Asks(F) /\ \A i, r : ~Claims(F, i, r)
  BY <1>2 DEF Asks, Claims
<1>6. Connected \notin F
  BY <1>2 DEF Connected
<1> QED BY <1>3, <1>4, <1>5, <1>6 DEF Brings

LEMMA ByPageBrings ==
    ASSUME NEW s \in Stores, NEW ids \in SUBSET Held(s)
    PROVE  /\ Frames(s, ByPage(ids)) \in Seq(Messages)
           /\ Brings(ToSet(Frames(s, ByPage(ids))), s, ids)
<1>1. ByPage(ids) \in SUBSET ((SUBSET Held(s)) \ {{}})
  BY DEF ByPage
<1>2. UNION ByPage(ids) = ids
  BY DEF ByPage
<1> QED BY <1>1, <1>2, FramesBring

LEMMA SinglyBrings ==
    ASSUME NEW s \in Stores, NEW ids \in SUBSET Held(s)
    PROVE  /\ Frames(s, Singly(ids)) \in Seq(Messages)
           /\ Brings(ToSet(Frames(s, Singly(ids))), s, ids)
<1>1. Singly(ids) \in SUBSET ((SUBSET Held(s)) \ {{}})
  BY DEF Singly
<1>2. UNION Singly(ids) = ids
  BY DEF Singly
<1> QED BY <1>1, <1>2, FramesBring

-----------------------------------------------------------------------------
(* Digests and the handshake. *)

\* What a side says it has of some pages is a legal hello, and true.
LEMMA HelloFacts ==
    ASSUME NEW s \in Stores, NEW P \in SUBSET KnownPages(s)
    PROVE  LET pages == [p \in P |-> Digest(s, p)]
           IN  /\ pages \in Adverts
               /\ \A i, r : Claims({Hello(pages)}, i, r) =>
                     /\ i \in Ids /\ s[i] \in Record
                     /\ PageOf[i] \in P
                     /\ s[i].c = r.c /\ s[i].client = r.client
<1> DEFINE pages == [p \in P |-> Digest(s, p)]
<1>1. ASSUME NEW p \in P, NEW t \in Digest(s, p)
      PROVE  t \in Tuples
  <2>1. PICK i \in PageIds(s, p) : t = <<i, s[i].c, s[i].client, s[i].deleted>>
    BY DEF Digest
  <2>2. i \in Ids /\ s[i] \in Record
    BY StoreEntry DEF PageIds, Held
  <2>3. s[i].c \in Nat /\ s[i].client \in Authors /\ s[i].deleted \in BOOLEAN
    BY <2>2 DEF Record
  <2> QED BY <2>1, <2>2, <2>3 DEF Tuples
<1>2. P \subseteq Pages
  BY PageOfAssumption DEF KnownPages, Held
<1>3. pages \in [P -> SUBSET Tuples]
  BY <1>1
<1>4. pages \in Adverts
  BY <1>2, <1>3 DEF Adverts
<1>5. ASSUME NEW i, NEW r, Claims({Hello(pages)}, i, r)
      PROVE  /\ i \in Ids /\ s[i] \in Record
             /\ PageOf[i] \in P
             /\ s[i].c = r.c /\ s[i].client = r.client
  <2>1. PICK p \in P : <<i, r.c, r.client, r.deleted>> \in Digest(s, p)
    BY <1>5, OneFrame
  <2>2. PICK j \in PageIds(s, p) :
           <<i, r.c, r.client, r.deleted>> = <<j, s[j].c, s[j].client, s[j].deleted>>
    BY <2>1 DEF Digest
  <2>3. i = j /\ s[i].c = r.c /\ s[i].client = r.client
    BY <2>2
  <2> QED BY <2>3, StoreEntry DEF PageIds, Held
<1> QED BY <1>4, <1>5

\* The reply to a hello brings all that the hello does not claim.
LEMMA ReplyFacts ==
    ASSUME NEW s \in Stores, NEW theirs
    PROVE  LET ids == {i \in Held(s) : PageOf[i] \in Differing(Digests(s), theirs)}
               reply == DifferingPages(s, Digests(s), theirs)
           IN  /\ reply \in Seq(Messages)
               /\ Brings(ToSet(reply), s, ids)
               /\ \A i \in Held(s) \ ids : Claims({Hello(theirs)}, i, s[i])
<1> DEFINE ids == {i \in Held(s) : PageOf[i] \in Differing(Digests(s), theirs)}
           groups == {PageIds(s, p) : p \in Differing(Digests(s), theirs)}
<1>1. groups \in SUBSET ((SUBSET Held(s)) \ {{}})
  BY DEF Differing, Digests, KnownPages, PageIds
<1>2. UNION groups = ids
  BY DEF PageIds
<1>3. ASSUME NEW i \in Held(s), i \notin ids
      PROVE  Claims({Hello(theirs)}, i, s[i])
  <2> DEFINE p == PageOf[i]
  <2>1. p \in KnownPages(s)
    BY DEF KnownPages
  <2>2. p \in DOMAIN theirs /\ theirs[p] = Digest(s, p)
    BY <1>3, <2>1 DEF Differing, Digests
  <2>3. <<i, s[i].c, s[i].client, s[i].deleted>> \in Digest(s, p)
    BY DEF Digest, PageIds
  <2>4. \A r : Claims({Hello(theirs)}, i, r) <=>
                  \E q \in DOMAIN theirs : <<i, r.c, r.client, r.deleted>> \in theirs[q]
    BY OneFrame
  <2> QED BY <2>2, <2>3, <2>4
<1>4. /\ Frames(s, groups) \in Seq(Messages)
      /\ Brings(ToSet(Frames(s, groups)), s, UNION groups)
  BY <1>1, FramesBring
<1> QED BY <1>2, <1>3, <1>4 DEF DifferingPages

-----------------------------------------------------------------------------
(* What every step does: where copies and claims come from, and that stores *)
(* only advance.                                                           *)

\* N: the record written by the step, if any.  All else in a store came by a
\* frame, and what is sent is or was in the sender's store.
Sources(N) ==
    /\ \A n \in Nodes, i \in Ids, r \in Record :
          At(n, i, r)' => At(n, i, r) \/ Sent(i, r) \/ <<i, r>> \in N
    /\ \A c \in Clients, i \in Ids, r \in Record :
          /\ Carries(Out(c), i, r)' =>
                Carries(Out(c), i, r) \/ (At(c, i, r)' /\ PageOf[i] \notin provisional'[c])
          /\ Carries(In(c), i, r)' =>
                Carries(In(c), i, r) \/ At(Server, i, r) \/ At(Server, i, r)'
          /\ Claims(Out(c), i, r)' =>
                \/ Claims(Out(c), i, r)
                \/ /\ AtLeast(store'[c][i], r)
                   /\ store'[c][i] \in Record /\ PageOf[i] \notin provisional'[c]
          /\ Claims(In(c), i, r)' => Claims(In(c), i, r) \/ AtLeast(store'[Server][i], r)

\* Page p has left the system.
Gone(p) ==
    \A i \in Ids, r \in Record :
       PageOf[i] = p => ~Copy(i, r) /\ \A c \in Clients : ~Claims(Out(c), i, r)

\* No store goes back, but for a client that removes a page nobody else has.
Forward ==
    \A n \in Nodes, i \in Ids :
       AtLeast(store'[n][i], store[n][i]) \/ (n \in Clients /\ Gone(PageOf[i])')

\* A record written is above its author's counter or has a new id.
Written(N) ==
    /\ \A i, j \in Ids, r, s \in Record : <<i, r>> \in N /\ <<j, s>> \in N => i = j /\ r = s
    /\ \A i \in Ids, r \in Record : <<i, r>> \in N =>
          /\ counter[r.client] < r.c \/ \A s \in Record : ~Copy(i, s)
          /\ store'[r.client][i] = r

LEMMA CopySources ==
    ASSUME NEW N, Sources(N), NEW i \in Ids, NEW r \in Record, Copy(i, r)'
    PROVE  Copy(i, r) \/ <<i, r>> \in N
<1>1. CASE \E n \in Nodes : At(n, i, r)'
  BY <1>1 DEF Sources, Copy
<1>2. CASE \E c \in Clients : Carries(Out(c), i, r)'
  <2>1. PICK c \in Clients : Carries(Out(c), i, r)'
    BY <1>2
  <2>2. Carries(Out(c), i, r) \/ At(c, i, r)'
    BY <2>1 DEF Sources
  <2> QED BY <1>1, <2>2 DEF Copy, Sent, Nodes
<1>3. CASE \E c \in Clients : Carries(In(c), i, r)'
  <2>1. PICK c \in Clients : Carries(In(c), i, r)'
    BY <1>3
  <2>2. Carries(In(c), i, r) \/ At(Server, i, r) \/ At(Server, i, r)'
    BY <2>1 DEF Sources
  <2> QED BY <1>1, <2>2 DEF Copy, Sent, Nodes
<1> QED BY <1>1, <1>2, <1>3 DEF Copy, Sent

\* Claims and records in transit stay behind their senders.
LEMMA SentBehindStep ==
    ASSUME Types, Types', SentBehind, NEW N, Sources(N), Forward
    PROVE  SentBehind'
<1> SUFFICES ASSUME NEW c \in Clients, NEW i \in Ids, NEW r \in Record
    PROVE  /\ Carries(Out(c), i, r)' \/ Claims(Out(c), i, r)' => AtLeast(store'[c][i], r)
           /\ Carries(In(c), i, r)' \/ Claims(In(c), i, r)' => AtLeast(store'[Server][i], r)
  BY DEF SentBehind
<1>1. /\ store[c][i] \in Record \cup {Absent} /\ store'[c][i] \in Record \cup {Absent}
      /\ store[Server][i] \in Record \cup {Absent} /\ store'[Server][i] \in Record \cup {Absent}
  BY StoreEntry DEF Types, Nodes
<1>2. /\ AtLeast(store'[c][i], store[c][i]) \/ Gone(PageOf[i])'
      /\ AtLeast(store'[Server][i], store[Server][i])
  BY NodesAssumption DEF Forward, Nodes
<1>3. AtLeast(r, r)
  BY AtLeastFacts
<1>4. ASSUME Carries(Out(c), i, r)' \/ Claims(Out(c), i, r)'
      PROVE  AtLeast(store'[c][i], r)
  <2>1. ~Gone(PageOf[i])'
    BY <1>4 DEF Gone, Copy, Sent
  <2>2. CASE Carries(Out(c), i, r) \/ Claims(Out(c), i, r)
    <3>1. AtLeast(store[c][i], r)
      BY <2>2 DEF SentBehind
    <3> QED BY <1>1, <1>2, <2>1, <3>1, AtLeastTransitive
  <2>3. CASE At(c, i, r)'
    BY <1>3, <2>3 DEF At
  <2>4. CASE AtLeast(store'[c][i], r)
    BY <2>4
  <2> QED BY <1>4, <2>2, <2>3, <2>4 DEF Sources
<1>5. ASSUME Carries(In(c), i, r)' \/ Claims(In(c), i, r)'
      PROVE  AtLeast(store'[Server][i], r)
  <2>1. CASE Carries(In(c), i, r) \/ Claims(In(c), i, r) \/ At(Server, i, r)
    <3>1. AtLeast(store[Server][i], r)
      BY <1>3, <2>1 DEF SentBehind, At
    <3> QED BY <1>1, <1>2, <3>1, AtLeastTransitive
  <2>2. CASE At(Server, i, r)'
    BY <1>3, <2>2 DEF At
  <2>3. CASE AtLeast(store'[Server][i], r)
    BY <2>3
  <2> QED BY <1>5, <2>1, <2>2, <2>3 DEF Sources
<1> QED BY <1>4, <1>5

\* An author has what it wrote, or something newer.
LEMMA AuthorHoldsStep ==
    ASSUME Types, Types', AuthorHolds, NEW N, Sources(N), Forward, Written(N)
    PROVE  AuthorHolds'
<1> SUFFICES ASSUME NEW i \in Ids, NEW r \in Record, Copy(i, r)'
    PROVE  AtLeast(store'[r.client][i], r)
  BY DEF AuthorHolds
<1> DEFINE n == r.client
<1>1. n \in Nodes
  BY EntryFacts
<1>2. store[n][i] \in Record \cup {Absent} /\ store'[n][i] \in Record \cup {Absent}
  BY <1>1, StoreEntry DEF Types
<1>3. CASE <<i, r>> \in N
  BY <1>3, AtLeastFacts DEF Written
<1>4. CASE Copy(i, r)
  <2>1. AtLeast(store[n][i], r)
    BY <1>4 DEF AuthorHolds
  <2>2. ~Gone(PageOf[i])'
    BY DEF Gone
  <2>3. AtLeast(store'[n][i], store[n][i])
    BY <1>1, <2>2 DEF Forward
  <2> QED BY <1>2, <2>1, <2>3, AtLeastTransitive
<1> QED BY <1>3, <1>4, CopySources

\* A version is issued once for an id: its author's counter was below it.
LEMMA VersionsStep ==
    ASSUME Types, CounterCovers, AuthorHolds, VersionsDiffer, NEW N, Sources(N), Written(N)
    PROVE  VersionsDiffer'
<1>1. ASSUME NEW i \in Ids, NEW r \in Record, NEW s \in Record,
             <<i, r>> \in N, Copy(i, s), r.client = s.client
      PROVE  r.c # s.c
  <2> DEFINE n == s.client
  <2>1. n \in Nodes /\ AtLeast(store[n][i], s)
    BY <1>1, EntryFacts DEF AuthorHolds
  <2>2. store[n][i] \in Record \cup {Absent}
    BY <2>1, StoreEntry DEF Types
  <2>3. s.c <= store[n][i].c /\ store[n][i].c <= counter[n]
    BY <2>1, <2>2, AtLeastFacts DEF CounterCovers
  <2>4. counter[n] < r.c
    BY <1>1 DEF Written
  <2>5. s.c \in Nat /\ r.c \in Nat /\ store[n][i].c \in Nat /\ counter[n] \in Nat
    BY <2>1, <2>2, EntryFacts DEF Types
  <2> HIDE DEF n
  <2> QED BY <2>3, <2>4, <2>5
<1> SUFFICES ASSUME NEW i \in Ids, NEW r \in Record, NEW s \in Record,
                    Copy(i, r)', Copy(i, s)', r.c = s.c, r.client = s.client
    PROVE  r = s
  BY DEF VersionsDiffer
<1>2. CASE <<i, r>> \in N /\ <<i, s>> \in N
  BY <1>2 DEF Written
<1>3. CASE <<i, r>> \in N /\ Copy(i, s)
  BY <1>1, <1>3
<1>4. CASE Copy(i, r) /\ <<i, s>> \in N
  BY <1>1, <1>4
<1>5. CASE Copy(i, r) /\ Copy(i, s)
  BY <1>5 DEF VersionsDiffer
<1> QED BY <1>2, <1>3, <1>4, <1>5, CopySources

\* What is withheld stays so, if the step writes nothing to a provisional page.
LEMMA WithheldStep ==
    ASSUME Types, Types', Withheld, NEW N, Sources(N),
           \A c \in Clients : provisional'[c] \subseteq provisional[c],
           \A c \in Clients, i \in Ids :
              i \in dirty'[c] => i \in dirty[c] \/ PageOf[i] \notin provisional'[c],
           \A c \in Clients, i \in Ids, r \in Record :
              <<i, r>> \in N => PageOf[i] \notin provisional'[c]
    PROVE  Withheld'
<1> SUFFICES ASSUME NEW c \in Clients, NEW i \in Ids, PageOf[i] \in provisional'[c]
    PROVE  /\ i \notin dirty'[c]
           /\ \A r \in Record :
                 /\ ~Sent(i, r)'
                 /\ \A n \in Nodes \ {c} : ~At(n, i, r)'
                 /\ \A d \in Clients : ~Claims(Out(d), i, r)'
  BY DEF Withheld
<1>1. /\ i \notin dirty[c]
      /\ \A r \in Record :
            /\ ~Sent(i, r)
            /\ \A n \in Nodes \ {c} : ~At(n, i, r)
            /\ \A d \in Clients : ~Claims(Out(d), i, r)
  BY DEF Withheld
<1>2. i \notin dirty'[c]
  BY <1>1
<1>3. ASSUME NEW r \in Record, NEW n \in Nodes \ {c}
      PROVE  ~At(n, i, r)'
  BY <1>1 DEF Sources
<1>4. c # Server /\ Server \in Nodes /\ c \in Nodes
  BY NodesAssumption DEF Nodes
<1>5. ASSUME NEW r \in Record, Sent(i, r)'
      PROVE  FALSE
  <2>1. PICK d \in Clients : Carries(Out(d), i, r)' \/ Carries(In(d), i, r)'
    BY <1>5 DEF Sent
  <2>2. d \in Nodes /\ ~Carries(Out(d), i, r) /\ ~Carries(In(d), i, r)
    BY <1>1 DEF Sent, Nodes
  <2>3. CASE Carries(Out(d), i, r)'
    <3>1. At(d, i, r)' /\ PageOf[i] \notin provisional'[d]
      BY <2>2, <2>3 DEF Sources
    <3> QED BY <1>3, <2>2, <3>1
  <2>4. CASE Carries(In(d), i, r)'
    <3>1. At(Server, i, r) \/ At(Server, i, r)'
      BY <2>2, <2>4 DEF Sources
    <3> QED BY <1>1, <1>3, <1>4, <3>1
  <2> QED BY <2>1, <2>3, <2>4
<1>6. ASSUME NEW r \in Record, NEW d \in Clients, Claims(Out(d), i, r)'
      PROVE  FALSE
  <2>1. store'[d][i] \in Record /\ PageOf[i] \notin provisional'[d]
    BY <1>1, <1>6 DEF Sources
  <2>2. d \in Nodes \ {c}
    BY <2>1 DEF Nodes
  <2>3. PICK s \in Record : s = store'[d][i]
    BY <2>1
  <2>4. At(d, i, s)'
    BY <2>3 DEF At
  <2> QED BY <1>3, <2>2, <2>4
<1> QED BY <1>2, <1>3, <1>5, <1>6

-----------------------------------------------------------------------------
(* The copies of Sync are those of the invariant. *)

LEMMA QueueTypes ==
    ASSUME Types, NEW c \in Clients
    PROVE  /\ Out(c) \subseteq Messages
           /\ In(c) \subseteq Messages \cup {Connected}
           /\ outbox[c] \in Seq(Messages) /\ inbox[c] \in Seq(Messages \cup {Connected})
<1>1. outbox[c] \in Seq(Messages) /\ inbox[c] \in Seq(Messages \cup {Connected})
  BY DEF Types
<1>2. /\ DOMAIN outbox[c] = 1 .. Len(outbox[c]) /\ DOMAIN inbox[c] = 1 .. Len(inbox[c])
  BY <1>1, LenProperties
<1>3. \A k \in DOMAIN outbox[c] : outbox[c][k] \in Messages
  BY <1>1, <1>2, ElementOfSeq
<1>4. \A k \in DOMAIN inbox[c] : inbox[c][k] \in Messages \cup {Connected}
  BY <1>1, <1>2, ElementOfSeq
<1> QED BY <1>1, <1>3, <1>4 DEF Out, In, ToSet

LEMMA InFlightIs == InFlight = UNION {Out(c) \cup In(c) : c \in Clients}
BY DEF InFlight, Out, In, ToSet

LEMMA InCopies ==
    ASSUME NEW e
    PROVE  e \in Copies <=>
              \/ \E n \in Nodes : \E i \in Held(store[n]) : e = <<i, store[n][i]>>
              \/ \E f \in InFlight : f.t = "records" /\ \E i \in DOMAIN f.batch : e = <<i, f.batch[i]>>
<1> DEFINE A == UNION {{<<i, store[n][i]>> : i \in Held(store[n])} : n \in Nodes}
           B == UNION {{<<i, f.batch[i]>> : i \in DOMAIN f.batch} : f \in {g \in InFlight : g.t = "records"}}
<1>1. Copies = A \cup B
  BY Zenon DEF Copies
<1>2. e \in A <=> \E n \in Nodes : \E i \in Held(store[n]) : e = <<i, store[n][i]>>
  OBVIOUS
<1>3. e \in B <=> \E f \in InFlight : f.t = "records" /\ \E i \in DOMAIN f.batch : e = <<i, f.batch[i]>>
  <2> DEFINE R == {g \in InFlight : g.t = "records"}
  <2>1. B = UNION {{<<i, f.batch[i]>> : i \in DOMAIN f.batch} : f \in R}
    OBVIOUS
  <2>2. \A f : f \in R <=> f \in InFlight /\ f.t = "records"
    OBVIOUS
  <2> HIDE DEF R, B
  <2>3. e \in B <=> \E f \in R : \E i \in DOMAIN f.batch : e = <<i, f.batch[i]>>
    BY <2>1
  <2> QED BY <2>2, <2>3
<1> HIDE DEF A, B
<1> QED BY <1>1, <1>2, <1>3

LEMMA CopiesAre ==
    ASSUME Types
    PROVE  /\ \A e \in Copies : e[1] \in Ids /\ e[2] \in Record /\ e = <<e[1], e[2]>>
           /\ \A i \in Ids, r \in Record : Copy(i, r) <=> <<i, r>> \in Copies
<1>1. ASSUME NEW c \in Clients, NEW f \in Out(c) \cup In(c), f.t = "records"
      PROVE  /\ f \in InFlight
             /\ DOMAIN f.batch \subseteq Ids /\ \A i \in DOMAIN f.batch : f.batch[i] \in Record
  <2>1. f \in Messages \cup {Connected}
    BY QueueTypes
  <2>2. f.batch \in Batch
    BY <1>1, <2>1, FrameKinds
  <2> QED BY <2>2, InFlightIs DEF Batch
<1>2. ASSUME NEW n \in Nodes, NEW i \in Ids
      PROVE  /\ i \in Held(store[n]) <=> store[n][i] \in Record
             /\ store[n][i] \in Record => <<i, store[n][i]>> \in Copies
  <2>1. i \in Held(store[n]) <=> store[n][i] \in Record
    BY StoreEntry DEF Types
  <2> QED BY <2>1, InCopies
<1>3. ASSUME NEW e \in Copies
      PROVE  e[1] \in Ids /\ e[2] \in Record /\ e = <<e[1], e[2]>> /\ Copy(e[1], e[2])
  <2>1. CASE \E n \in Nodes : \E i \in Held(store[n]) : e = <<i, store[n][i]>>
    <3>1. PICK n \in Nodes : \E i \in Held(store[n]) : e = <<i, store[n][i]>>
      BY <2>1
    <3>2. PICK i \in Held(store[n]) : e = <<i, store[n][i]>>
      BY <3>1
    <3>3. i \in Ids
      BY DEF Held
    <3> QED BY <1>2, <3>2, <3>3 DEF Copy, At
  <2>2. CASE \E f \in InFlight : f.t = "records" /\ \E i \in DOMAIN f.batch : e = <<i, f.batch[i]>>
    <3>1. PICK f \in InFlight : f.t = "records" /\ \E i \in DOMAIN f.batch : e = <<i, f.batch[i]>>
      BY <2>2
    <3>2. PICK i \in DOMAIN f.batch : f.t = "records" /\ e = <<i, f.batch[i]>>
      BY <3>1
    <3>3. PICK c \in Clients : f \in Out(c) \cup In(c)
      BY InFlightIs
    <3>4. i \in Ids /\ f.batch[i] \in Record
      BY <1>1, <3>2, <3>3
    <3>5. Sent(i, f.batch[i])
      BY <3>2, <3>3 DEF Sent, Carries
    <3> QED BY <3>2, <3>4, <3>5 DEF Copy
  <2> QED BY <2>1, <2>2, InCopies
<1>4. ASSUME NEW i \in Ids, NEW r \in Record, Copy(i, r)
      PROVE  <<i, r>> \in Copies
  <2>1. CASE \E n \in Nodes : At(n, i, r)
    BY <1>2, <2>1 DEF At
  <2>2. CASE Sent(i, r)
    <3>1. PICK c \in Clients : Carries(Out(c), i, r) \/ Carries(In(c), i, r)
      BY <2>2 DEF Sent
    <3>2. PICK f \in Out(c) \cup In(c) :
             f.t = "records" /\ i \in DOMAIN f.batch /\ f.batch[i] = r
      BY <3>1 DEF Carries
    <3>3. f \in InFlight
      BY <1>1, <3>2
    <3> QED BY <3>2, <3>3, InCopies
  <2> QED BY <1>4, <2>1, <2>2 DEF Copy
<1>5. ASSUME NEW i \in Ids, NEW r \in Record, <<i, r>> \in Copies
      PROVE  Copy(i, r)
  BY <1>3, <1>5
<1> QED BY <1>3, <1>4, <1>5

-----------------------------------------------------------------------------
(* Seeds, as long as nobody crashed. *)

LEMMA SeedStep ==
    ASSUME SeedProvisional, NEW N, Sources(N),
           crashes' = crashes, unconfirmed' \subseteq unconfirmed,
           \A c \in Clients : SeedOf[c] \in unconfirmed' /\ SeedOf[c] \in provisional[c] =>
              SeedOf[c] \in provisional'[c] \/ Gone(SeedOf[c])',
           \A i \in Ids, r \in Record :
              <<i, r>> \in N /\ i \in Seeds => \E s \in Record : Copy(i, s)
    PROVE  SeedProvisional'
<1> SUFFICES ASSUME crashes = 0, NEW c \in Clients, NEW r \in Record,
                    SeedOf[c] \in unconfirmed', Copy(SeedOf[c], r)'
    PROVE  SeedOf[c] \in provisional'[c]
  BY DEF SeedProvisional
<1>0. SeedOf[c] \in Ids /\ SeedOf[c] \in Seeds /\ PageOf[SeedOf[c]] = SeedOf[c]
  BY SeedAssumption, PageRecordsAssumption DEF Seeds
<1>1. \E s \in Record : Copy(SeedOf[c], s)
  <2>1. Copy(SeedOf[c], r) \/ <<SeedOf[c], r>> \in N
    BY <1>0, CopySources
  <2> QED BY <1>0, <2>1
<1>2. SeedOf[c] \in provisional[c]
  BY <1>1 DEF SeedProvisional
<1>3. ~Gone(SeedOf[c])'
  BY <1>0 DEF Gone
<1> QED BY <1>2, <1>3

-----------------------------------------------------------------------------
(* Records written. *)

LEMMA PutFacts ==
    ASSUME Sound, NEW n \in Nodes, NEW open, NEW i \in Ids, NEW deleted \in BOOLEAN, NEW value \in Values,
           Put(n, open, i, deleted, value)
    PROVE  \E r \in Record :
              /\ r.client = n /\ counter[n] < r.c
              /\ store' \in [Nodes -> Stores] /\ counter' \in [Nodes -> Nat]
              /\ writes' \in 0 .. MaxWrites
              /\ CounterCovers'
              /\ store'[n][i] = r
              /\ \A m \in Nodes, j \in Ids : m # n \/ j # i => store'[m][j] = store[m][j]
              /\ \A m \in Nodes : m # n => store'[m] = store[m]
              /\ \/ store[n][i] \in Record
                 \/ /\ \A s \in Record : ~Copy(i, s)
                    /\ i \notin Seeds
                    /\ i \in Pages \/ PageOf[i] \in open \/ store[n][PageOf[i]] \in Record
<1> DEFINE r == NextVersion(n, deleted, value)
<1>1. /\ counter \in [Nodes -> Nat] /\ store \in [Nodes -> Stores] /\ writes \in 0 .. MaxWrites
      /\ \A m \in Nodes, j \in Ids : store[m][j].c <= counter[m]
  BY DEF Sound, Types, CounterCovers
<1>2. r \in Record /\ r.c = counter[n] + 1 /\ r.client = n
  BY <1>1, NodesAssumption DEF NextVersion, Record
<1>3. counter' = [counter EXCEPT ![n] = @ + 1] /\ writes < MaxWrites /\ writes' = writes + 1
  BY DEF Put
<1>4. store' = [store EXCEPT ![n] = Merged(@, [j \in {i} |-> r])]
  BY DEF Put
<1> HIDE DEF r
<1>5. store[n][i] \in Record \cup {Absent} /\ store[n][i].c \in Nat
  BY <1>1, StoreEntry, EntryFacts
<1>6. Newer(r, store[n][i])
  <2>1. store[n][i].c <= counter[n] /\ counter[n] \in Nat
    BY <1>1
  <2> QED BY <1>2, <1>5, <2>1 DEF Newer
<1> DEFINE b == [j \in {i} |-> r]
           m1 == Merged(store[n], b)
<1>7. b \in Batch
  <2>1. b \in [{i} -> Record] /\ {i} \in (SUBSET Ids) \ {{}}
    BY <1>2
  <2> QED BY <2>1 DEF Batch
<1>8. m1 \in Stores /\ m1[i] = r /\ \A j \in Ids : j # i => m1[j] = store[n][j]
  <2>1. Applied(store[n], b) = {i}
    BY <1>6 DEF Applied
  <2>2. b[i] = r
    OBVIOUS
  <2>3. store[n] \in Stores
    BY <1>1
  <2> HIDE DEF b
  <2> QED BY <1>7, <2>1, <2>2, <2>3, MergedFacts
<1>9. store' = [store EXCEPT ![n] = m1]
  BY <1>4
<1> HIDE DEF m1, b
<1>10. /\ store' \in [Nodes -> Stores] /\ store'[n] = m1
       /\ \A m \in Nodes : m # n => store'[m] = store[m]
  BY <1>1, <1>8, <1>9
<1>11. counter' \in [Nodes -> Nat] /\ writes' \in 0 .. MaxWrites /\ counter'[n] = counter[n] + 1
       /\ \A m \in Nodes : m # n => counter'[m] = counter[m]
  BY <1>1, <1>3, BoundsAssumption
<1>12. ASSUME NEW m \in Nodes, NEW j \in Ids
       PROVE  store'[m][j].c <= counter'[m]
  <2>1. store[m][j].c \in Nat /\ counter[m] \in Nat /\ store[m][j].c <= counter[m]
    BY <1>1, StoreEntry, EntryFacts
  <2>2. CASE m = n /\ j = i
    BY <1>2, <1>8, <1>10, <1>11, <2>1, <2>2
  <2>3. CASE m = n /\ j # i
    <3>1. store'[m][j] = store[m][j] /\ counter'[m] = counter[m] + 1
      BY <1>8, <1>10, <1>11, <2>3
    <3> QED BY <2>1, <3>1
  <2>4. CASE m # n
    BY <1>10, <1>11, <2>1, <2>4
  <2> QED BY <2>2, <2>3, <2>4
<1>13. CounterCovers'
  BY <1>12 DEF CounterCovers
<1>14. \/ store[n][i] \in Record
       \/ /\ \A s \in Record : ~Copy(i, s)
          /\ i \notin Seeds
          /\ i \in Pages \/ PageOf[i] \in open \/ store[n][PageOf[i]] \in Record
  <2>1. \/ Holds(store[n], i)
        \/ Fresh(i) /\ (i \in Pages \/ PageOf[i] \in open \/ Holds(store[n], PageOf[i]))
    BY DEF Put, MayWrite
  <2>2. \A j \in Ids : Holds(store[n], j) <=> store[n][j] \in Record
    BY <1>1, StoreEntry
  <2>3. PageOf[i] \in Ids
    BY PageOfAssumption, PageRecordsAssumption
  <2>4. Fresh(i) => i \notin Seeds /\ \A s \in Record : ~Copy(i, s)
    <3>1. \A s \in Record : Copy(i, s) => <<i, s>> \in Copies
      BY CopiesAre DEF Sound
    <3>2. ASSUME NEW s \in Record, <<i, s>> \in Copies
          PROVE  i \in IdsOf(Copies)
      <4>1. <<i, s>>[1] = i
        OBVIOUS
      <4> QED BY <3>2, <4>1 DEF IdsOf
    <3> QED BY <3>1, <3>2 DEF Fresh
  <2> QED BY <2>1, <2>2, <2>3, <2>4
<1>15. \A m \in Nodes, j \in Ids : m # n \/ j # i => store'[m][j] = store[m][j]
  BY <1>8, <1>10
<1>16. counter[n] < r.c
  BY <1>1, <1>2
<1> QED BY <1>2, <1>8, <1>10, <1>11, <1>13, <1>14, <1>15, <1>16

\* Record r is written at node n, its author, under id i; the page is one that n
\* holds or one of `open`.
Writes(n, open, i, r) ==
    /\ r.client = n /\ counter[n] < r.c
    /\ store' \in [Nodes -> Stores] /\ counter' \in [Nodes -> Nat]
    /\ writes' \in 0 .. MaxWrites
    /\ CounterCovers'
    /\ store'[n][i] = r
    /\ \A m \in Nodes, j \in Ids : m # n \/ j # i => store'[m][j] = store[m][j]
    /\ \A m \in Nodes : m # n => store'[m] = store[m]
    /\ \/ store[n][i] \in Record
       \/ /\ \A s \in Record : ~Copy(i, s)
          /\ i \notin Seeds
          /\ i \in Pages \/ PageOf[i] \in open \/ store[n][PageOf[i]] \in Record

LEMMA PutWrites ==
    ASSUME Sound, NEW n \in Nodes, NEW open, NEW i \in Ids, NEW deleted \in BOOLEAN, NEW value \in Values,
           Put(n, open, i, deleted, value)
    PROVE  \E r \in Record : Writes(n, open, i, r)
BY PutFacts DEF Writes

\* What a write does to the copies of the other nodes: nothing.
LEMMA PutKeeps ==
    ASSUME Sound, NEW n \in Nodes, NEW open, NEW i \in Ids, NEW r \in Record,
           NEW N, N = {<<i, r>>}, Writes(n, open, i, r)
    PROVE  /\ Written(N)
           /\ Forward
           /\ \A m \in Nodes, j \in Ids, s \in Record : At(m, j, s)' => At(m, j, s) \/ <<j, s>> \in N
           /\ AtLeast(store'[n][i], store[n][i])
           /\ i \in Seeds => \E s \in Record : At(n, i, s)
<1> USE DEF Writes
<1>1. store \in [Nodes -> Stores] /\ counter[n] \in Nat
  BY DEF Sound, Types
<1>2. AtLeast(r, store[n][i])
  <2>1. store[n][i].c <= counter[n]
    BY DEF Sound, CounterCovers
  <2>2. store[n][i] \in Record \cup {Absent} /\ store[n][i].c \in Nat /\ r.c \in Nat
    BY <1>1, StoreEntry, EntryFacts
  <2>3. r.c > store[n][i].c
    BY <1>1, <2>1, <2>2
  <2> QED BY <2>3 DEF AtLeast
<1>3. Forward
  <2> SUFFICES ASSUME NEW m \in Nodes, NEW j \in Ids
      PROVE  AtLeast(store'[m][j], store[m][j])
    BY DEF Forward
  <2>1. store[m][j] \in Record \cup {Absent}
    BY <1>1, StoreEntry
  <2> QED BY <1>2, <2>1, AtLeastFacts
<1>7. Written(N)
  BY DEF Written
<1>8. \A m \in Nodes, j \in Ids, s \in Record : At(m, j, s)' => At(m, j, s) \/ <<j, s>> \in N
  BY DEF At
<1>9. i \in Seeds => \E s \in Record : At(n, i, s)
  BY DEF At
<1> QED BY <1>2, <1>3, <1>7, <1>8, <1>9

-----------------------------------------------------------------------------
(* What each action does to the types and to the queues. *)

LEMMA EditEffect ==
    ASSUME Sound, NEW c \in Clients, NEW i \in Ids, NEW deleted \in BOOLEAN, NEW value \in Values,
           Edit(c, i, deleted, value)
    PROVE  /\ Sound'
           /\ Brings(ToSet(Frames(store'[c], ByPage(dirty[c] \cup {i}))), store'[c], dirty[c] \cup {i})
           /\ Out(c)' = Out(c) \cup ToSet(Frames(store'[c], ByPage(dirty[c] \cup {i})))
           /\ \A d \in Clients : d # c => Out(d)' = Out(d)
           /\ \A d \in Clients : In(d)' = In(d)
<1> DEFINE ids == dirty[c] \cup {i}
           new == Frames(store'[c], ByPage(ids))
<1>1. c \in Nodes /\ Put(c, purged[c], i, deleted, value)
  BY DEF Edit, Nodes
<1>2. PICK r \in Record :
         /\ store' \in [Nodes -> Stores] /\ counter' \in [Nodes -> Nat]
         /\ writes' \in 0 .. MaxWrites
         /\ CounterCovers'
         /\ store'[c][i] = r
         /\ \A m \in Nodes, j \in Ids : m # c \/ j # i => store'[m][j] = store[m][j]
  BY <1>1, PutFacts
<1>3. store[c] \in Stores /\ store'[c] \in Stores
  BY <1>1, <1>2 DEF Sound, Types
<1>4. \A j \in Held(store[c]) : j \in Held(store'[c])
  <2> SUFFICES ASSUME NEW j \in Held(store[c])
      PROVE  j \in Held(store'[c])
    OBVIOUS
  <2>1. j \in Ids /\ store[c][j] \in Record
    BY <1>3, StoreEntry DEF Held
  <2>2. store'[c][j] \in Record
    BY <1>1, <1>2, <2>1
  <2> QED BY <1>3, <2>1, <2>2, StoreEntry
<1>5. ids \in SUBSET Held(store'[c])
  <2>1. i \in Held(store'[c])
    BY <1>2, <1>3, StoreEntry
  <2>2. dirty[c] \subseteq Held(store[c])
    BY DEF Sound, Processes
  <2> QED BY <1>4, <2>1, <2>2
<1>6. new \in Seq(Messages) /\ Brings(ToSet(new), store'[c], ids)
  BY <1>3, <1>5, ByPageBrings
<1>7. /\ outbox' = [outbox EXCEPT ![c] = @ \o new]
      /\ dirty' = [dirty EXCEPT ![c] = {}]
      /\ UNCHANGED <<running, provisional, link, inbox, unconfirmed, breaks, crashes>>
      /\ running[c]
  BY DEF Edit
<1> HIDE DEF new, ids
<1>8. outbox \in [Clients -> Seq(Messages)]
  BY DEF Sound, Types
<1>9. outbox[c] \o new \in Seq(Messages) /\ ToSet(outbox[c] \o new) = ToSet(outbox[c]) \cup ToSet(new)
  BY <1>6, <1>8, SetConcat
<1>10. /\ outbox' \in [Clients -> Seq(Messages)]
       /\ Out(c)' = Out(c) \cup ToSet(new)
       /\ \A d \in Clients : d # c => outbox'[d] = outbox[d]
  BY <1>7, <1>8, <1>9 DEF Out
<1>11. \A d \in Clients : (d # c => Out(d)' = Out(d)) /\ In(d)' = In(d)
  BY <1>7, <1>10 DEF Out, In
<1>12. Types'
  <2>1. dirty' \in [Clients -> SUBSET Ids]
    BY <1>7 DEF Sound, Types
  <2> QED BY <1>2, <1>7, <1>10, <2>1 DEF Sound, Types
<1>13. Processes'
  <2> SUFFICES ASSUME NEW d \in Clients
      PROVE  /\ ~running'[d] => /\ ~link'[d] /\ outbox'[d] = <<>> /\ inbox'[d] = <<>>
                                /\ dirty'[d] = {} /\ provisional'[d] = {}
             /\ dirty'[d] \subseteq Held(store'[d])
             /\ provisional'[d] \subseteq {SeedOf[d]}
    BY DEF Processes
  <2>1. /\ ~running[d] => /\ ~link[d] /\ outbox[d] = <<>> /\ inbox[d] = <<>>
                          /\ dirty[d] = {} /\ provisional[d] = {}
        /\ dirty[d] \subseteq Held(store[d])
        /\ provisional[d] \subseteq {SeedOf[d]}
    BY DEF Sound, Processes
  <2>2. dirty \in [Clients -> SUBSET Ids]
    BY DEF Sound, Types
  <2>3. CASE d = c
    BY <1>7, <2>1, <2>2, <2>3
  <2>4. CASE d # c
    <3>1. dirty'[d] = dirty[d] /\ outbox'[d] = outbox[d]
      BY <1>7, <1>10, <2>2, <2>4
    <3>2. Held(store'[d]) = Held(store[d])
      <4>1. d \in Nodes /\ \A j \in Ids : store'[d][j] = store[d][j]
        BY <1>2, <2>4 DEF Nodes
      <4> QED BY <4>1 DEF Held, Holds
    <3> QED BY <1>7, <2>1, <3>1, <3>2
  <2> QED BY <2>3, <2>4
<1> QED BY <1>2, <1>6, <1>10, <1>11, <1>12, <1>13 DEF Sound, new, ids

LEMMA ProcessesKept ==
    ASSUME Processes, UNCHANGED <<running, link, dirty, provisional>>,
           \A c \in Clients : Held(store[c]) \subseteq Held(store'[c]),
           \A c \in Clients : ~running[c] => outbox'[c] = outbox[c] /\ inbox'[c] = inbox[c]
    PROVE  Processes'
<1> SUFFICES ASSUME NEW c \in Clients
    PROVE  /\ ~running'[c] => /\ ~link'[c] /\ outbox'[c] = <<>> /\ inbox'[c] = <<>>
                              /\ dirty'[c] = {} /\ provisional'[c] = {}
           /\ dirty'[c] \subseteq Held(store'[c])
           /\ provisional'[c] \subseteq {SeedOf[c]}
  BY DEF Processes
<1>1. /\ ~running[c] => /\ ~link[c] /\ outbox[c] = <<>> /\ inbox[c] = <<>>
                        /\ dirty[c] = {} /\ provisional[c] = {}
      /\ dirty[c] \subseteq Held(store[c])
      /\ provisional[c] \subseteq {SeedOf[c]}
  BY DEF Processes
<1> QED BY <1>1

\* A store that has all it had, or newer, holds what it held.
LEMMA HeldKept ==
    ASSUME NEW s \in Stores, NEW t \in Stores, \A i \in Ids : AtLeast(t[i], s[i])
    PROVE  Held(s) \subseteq Held(t)
<1> SUFFICES ASSUME NEW i \in Held(s)
    PROVE  i \in Held(t)
  OBVIOUS
<1>1. i \in Ids /\ s[i] \in Record /\ t[i] \in Record \cup {Absent}
  BY StoreEntry DEF Held
<1>2. t[i] \in Record
  BY <1>1, AtLeastFacts
<1> QED BY <1>1, <1>2, StoreEntry

LEMMA AgentWriteEffect ==
    ASSUME Sound, NEW i \in Ids, NEW deleted \in BOOLEAN, NEW value \in Values,
           AgentWrite(i, deleted, value)
    PROVE  /\ Sound'
           /\ Brings(ToSet(Frames(store'[Server], {{i}})), store'[Server], {i})
           /\ \A d \in Clients : Out(d)' = Out(d)
           /\ \A d \in Clients : link[d] => In(d)' = In(d) \cup ToSet(Frames(store'[Server], {{i}}))
           /\ \A d \in Clients : ~link[d] => In(d)' = In(d)
<1> DEFINE new == Frames(store'[Server], {{i}})
<1>1. Server \in Nodes /\ \E open : Put(Server, open, i, deleted, value)
  BY DEF AgentWrite, Nodes
<1>2. PICK r \in Record :
         /\ store' \in [Nodes -> Stores] /\ counter' \in [Nodes -> Nat]
         /\ writes' \in 0 .. MaxWrites
         /\ CounterCovers'
         /\ store'[Server][i] = r
         /\ \A m \in Nodes : m # Server => store'[m] = store[m]
  <2>1. PICK open : Put(Server, open, i, deleted, value)
    BY <1>1
  <2>2. PICK r \in Record : Writes(Server, open, i, r)
    BY <1>1, <2>1, PutWrites
  <2> QED BY <2>2 DEF Writes
<1>3. store'[Server] \in Stores
  BY <1>1, <1>2
<1>4. {i} \in SUBSET Held(store'[Server])
  BY <1>2, <1>3, StoreEntry
<1>5. Singly({i}) = {{i}}
  BY DEF Singly
<1>6. new \in Seq(Messages) /\ Brings(ToSet(new), store'[Server], {i})
  BY <1>3, <1>4, <1>5, SinglyBrings
<1>7. /\ inbox' = [c \in Clients |-> IF link[c] THEN inbox[c] \o new ELSE inbox[c]]
      /\ UNCHANGED <<clientVars, link, outbox, unconfirmed, breaks, crashes>>
  BY DEF AgentWrite
<1> HIDE DEF new
<1>8. new \in Seq(Messages \cup {Connected})
  BY <1>6, SeqMonotonic
<1>9. ASSUME NEW d \in Clients
      PROVE  /\ inbox'[d] \in Seq(Messages \cup {Connected})
             /\ link[d] => In(d)' = In(d) \cup ToSet(new)
             /\ ~link[d] => In(d)' = In(d) /\ inbox'[d] = inbox[d]
             /\ Out(d)' = Out(d)
  <2>1. inbox[d] \in Seq(Messages \cup {Connected})
    BY DEF Sound, Types
  <2>2. inbox[d] \o new \in Seq(Messages \cup {Connected})
        /\ ToSet(inbox[d] \o new) = ToSet(inbox[d]) \cup ToSet(new)
    BY <1>8, <2>1, SetConcat
  <2>3. inbox'[d] = IF link[d] THEN inbox[d] \o new ELSE inbox[d]
    BY <1>7
  <2>4. Out(d)' = Out(d)
    BY <1>7 DEF Out
  <2> QED BY <2>1, <2>2, <2>3, <2>4 DEF In
<1>10. inbox' \in [Clients -> Seq(Messages \cup {Connected})]
  <2>1. inbox' = [c \in Clients |-> inbox'[c]]
    BY <1>7
  <2> QED BY <1>9, <2>1
<1>11. Types'
  BY <1>2, <1>7, <1>10 DEF Sound, Types, clientVars
<1>12. Processes'
  <2>1. \A c \in Clients : c \in Nodes /\ c # Server
    BY NodesAssumption DEF Nodes
  <2>2. \A c \in Clients : Held(store[c]) \subseteq Held(store'[c])
    BY <1>2, <2>1
  <2>3. \A c \in Clients : ~running[c] => ~link[c]
    BY DEF Sound, Processes
  <2> QED BY <1>7, <1>9, <2>2, <2>3, ProcessesKept DEF Sound, clientVars
<1> QED BY <1>2, <1>6, <1>9, <1>11, <1>12 DEF Sound, new

\* The frame a client takes from its inbox.
LEMMA TakenIn ==
    ASSUME Types, NEW c \in Clients, inbox[c] # <<>>,
           inbox' = [inbox EXCEPT ![c] = Tail(@)]
    PROVE  /\ Head(inbox[c]) \in Messages \cup {Connected}
           /\ inbox' \in [Clients -> Seq(Messages \cup {Connected})]
           /\ In(c) = {Head(inbox[c])} \cup In(c)'
           /\ \A d \in Clients : d # c => In(d)' = In(d) /\ inbox'[d] = inbox[d]
<1>1. inbox \in [Clients -> Seq(Messages \cup {Connected})]
  BY DEF Types
<1>2. /\ Head(inbox[c]) \in Messages \cup {Connected}
      /\ Tail(inbox[c]) \in Seq(Messages \cup {Connected})
      /\ ToSet(inbox[c]) = {Head(inbox[c])} \cup ToSet(Tail(inbox[c]))
  BY <1>1, SetTail
<1>3. /\ inbox' \in [Clients -> Seq(Messages \cup {Connected})]
      /\ inbox'[c] = Tail(inbox[c])
      /\ \A d \in Clients : d # c => inbox'[d] = inbox[d]
  BY <1>1, <1>2
<1> QED BY <1>2, <1>3 DEF In

\* The frame the server takes from a client's outbox.
LEMMA TakenOut ==
    ASSUME Types, NEW c \in Clients, outbox[c] # <<>>,
           outbox' = [outbox EXCEPT ![c] = Tail(@)]
    PROVE  /\ Head(outbox[c]) \in Messages
           /\ outbox' \in [Clients -> Seq(Messages)]
           /\ Out(c) = {Head(outbox[c])} \cup Out(c)'
           /\ \A d \in Clients : d # c => Out(d)' = Out(d) /\ outbox'[d] = outbox[d]
<1>1. outbox \in [Clients -> Seq(Messages)]
  BY DEF Types
<1>2. /\ Head(outbox[c]) \in Messages
      /\ Tail(outbox[c]) \in Seq(Messages)
      /\ ToSet(outbox[c]) = {Head(outbox[c])} \cup ToSet(Tail(outbox[c]))
  BY <1>1, SetTail
<1>3. /\ outbox' \in [Clients -> Seq(Messages)]
      /\ outbox'[c] = Tail(outbox[c])
      /\ \A d \in Clients : d # c => outbox'[d] = outbox[d]
  BY <1>1, <1>2
<1> QED BY <1>2, <1>3 DEF Out

\* Frames added to a client's outbox.
LEMMA PutOut ==
    ASSUME Types, NEW c \in Clients, NEW new \in Seq(Messages),
           outbox' = [outbox EXCEPT ![c] = @ \o new]
    PROVE  /\ outbox' \in [Clients -> Seq(Messages)]
           /\ Out(c)' = Out(c) \cup ToSet(new)
           /\ \A d \in Clients : d # c => Out(d)' = Out(d) /\ outbox'[d] = outbox[d]
<1>1. outbox \in [Clients -> Seq(Messages)]
  BY DEF Types
<1>2. outbox[c] \o new \in Seq(Messages) /\ ToSet(outbox[c] \o new) = ToSet(outbox[c]) \cup ToSet(new)
  BY <1>1, SetConcat
<1>3. /\ outbox' \in [Clients -> Seq(Messages)]
      /\ outbox'[c] = outbox[c] \o new
      /\ \A d \in Clients : d # c => outbox'[d] = outbox[d]
  BY <1>1, <1>2
<1> QED BY <1>2, <1>3 DEF Out

\* Frames added to a client's inbox.
LEMMA PutIn ==
    ASSUME Types, NEW c \in Clients, NEW new \in Seq(Messages \cup {Connected}),
           inbox' = [inbox EXCEPT ![c] = @ \o new]
    PROVE  /\ inbox' \in [Clients -> Seq(Messages \cup {Connected})]
           /\ In(c)' = In(c) \cup ToSet(new)
           /\ \A d \in Clients : d # c => In(d)' = In(d) /\ inbox'[d] = inbox[d]
<1>1. inbox \in [Clients -> Seq(Messages \cup {Connected})]
  BY DEF Types
<1>2. /\ inbox[c] \o new \in Seq(Messages \cup {Connected})
      /\ ToSet(inbox[c] \o new) = ToSet(inbox[c]) \cup ToSet(new)
  <2>1. inbox[c] \in Seq(Messages \cup {Connected})
    BY <1>1
  <2> QED BY <2>1, SetConcat
<1>3. /\ inbox' \in [Clients -> Seq(Messages \cup {Connected})]
      /\ inbox'[c] = inbox[c] \o new
      /\ \A d \in Clients : d # c => inbox'[d] = inbox[d]
  BY <1>1, <1>2
<1> QED BY <1>2, <1>3 DEF In

\* A merge at a node.
LEMMA MergeFacts ==
    ASSUME Sound, NEW n \in Nodes, NEW batch \in Batch, MergeAt(n, batch)
    PROVE  /\ store' \in [Nodes -> Stores] /\ counter' \in [Nodes -> Nat]
           /\ CounterCovers'
           /\ store'[n] = Merged(store[n], batch)
           /\ \A m \in Nodes : m # n => store'[m] = store[m]
           /\ \A m \in Nodes : Held(store[m]) \subseteq Held(store'[m])
<1>1. /\ store \in [Nodes -> Stores] /\ counter \in [Nodes -> Nat]
      /\ \A m \in Nodes, i \in Ids : store[m][i].c <= counter[m]
  BY DEF Sound, Types, CounterCovers
<1>2. /\ Merged(store[n], batch) \in Stores
      /\ \A i \in DOMAIN batch : batch[i] \in Record
      /\ \A i \in Ids :
            /\ AtLeast(Merged(store[n], batch)[i], store[n][i])
            /\ i \in Applied(store[n], batch) => Merged(store[n], batch)[i] = batch[i]
            /\ i \notin Applied(store[n], batch) => Merged(store[n], batch)[i] = store[n][i]
      /\ Applied(store[n], batch) \subseteq DOMAIN batch
  BY <1>1, MergedFacts
<1>3. /\ store' \in [Nodes -> Stores] /\ store'[n] = Merged(store[n], batch)
      /\ \A m \in Nodes : m # n => store'[m] = store[m]
  BY <1>1, <1>2 DEF MergeAt
<1>4. PICK m : /\ IsGreatest(m, {counter[n]} \cup BatchCounters(batch))
               /\ counter' = [counter EXCEPT ![n] = m]
  BY DEF MergeAt
<1>5. m \in Nat /\ m >= counter[n] /\ \A i \in DOMAIN batch : m >= batch[i].c
  <2>1. m \in {counter[n]} \cup BatchCounters(batch)
    BY <1>4 DEF IsGreatest
  <2>2. \A k \in {counter[n]} \cup BatchCounters(batch) : m >= k
    BY <1>4 DEF IsGreatest
  <2>3. \A i \in DOMAIN batch : batch[i].c \in Nat
    BY <1>2, EntryFacts
  <2> QED BY <1>1, <2>1, <2>2, <2>3 DEF BatchCounters
<1>6. counter' \in [Nodes -> Nat] /\ counter'[n] = m /\ \A k \in Nodes : k # n => counter'[k] = counter[k]
  BY <1>1, <1>4, <1>5
<1>7. ASSUME NEW k \in Nodes, NEW i \in Ids
      PROVE  store'[k][i].c <= counter'[k]
  <2>1. store[k][i].c <= counter[k]
    BY <1>1
  <2>2. CASE k # n
    BY <1>3, <1>6, <2>1, <2>2
  <2>3. CASE k = n /\ i \in Applied(store[n], batch)
    <3>1. store'[k][i] = batch[i] /\ i \in DOMAIN batch
      BY <1>2, <1>3, <2>3
    <3>2. batch[i].c \in Nat
      BY <1>2, <3>1, EntryFacts
    <3> QED BY <1>5, <1>6, <2>3, <3>1, <3>2
  <2>4. CASE k = n /\ i \notin Applied(store[n], batch)
    <3>1. store'[k][i] = store[n][i]
      BY <1>2, <1>3, <2>4
    <3>2. store[n][i].c \in Nat /\ counter[n] \in Nat
      BY <1>1, StoreEntry, EntryFacts
    <3> QED BY <1>5, <1>6, <2>1, <2>4, <3>1, <3>2
  <2> QED BY <2>2, <2>3, <2>4
<1>8. Held(store[n]) \subseteq Held(store'[n])
  BY <1>1, <1>2, <1>3, HeldKept
<1> QED BY <1>3, <1>6, <1>7, <1>8 DEF CounterCovers

\* A client takes the first frame of its inbox.
Takes(c) ==
    /\ running[c] /\ inbox[c] # <<>>
    /\ inbox' = [inbox EXCEPT ![c] = Tail(@)]
    /\ UNCHANGED boundVars

LEMMA ConnectedEffect ==
    ASSUME Sound, NEW c \in Clients, Takes(c), Head(inbox[c]).t = "connected", HandleConnected(c)
    PROVE  /\ Sound' /\ store' = store
           /\ In(c) = {Connected} \cup In(c)'
           /\ Out(c)' = Out(c) \cup {Hello(DigestsOf(c))}
           /\ \A d \in Clients : d # c => Out(d)' = Out(d) /\ In(d)' = In(d)
           /\ \A i, r : Claims({Hello(DigestsOf(c))}, i, r) =>
                 /\ store[c][i].c = r.c /\ store[c][i].client = r.client
                 /\ store[c][i] \in Record /\ i \in Ids /\ PageOf[i] \notin provisional[c]
<1> DEFINE hello == Hello(DigestsOf(c))
           P == KnownPages(store[c]) \ provisional[c]
<1>1. store[c] \in Stores /\ P \in SUBSET KnownPages(store[c])
  BY DEF Sound, Types, Nodes
<1>2. DigestsOf(c) = [p \in P |-> Digest(store[c], p)]
  BY DEF DigestsOf
<1>3. /\ DigestsOf(c) \in Adverts
      /\ \A i, r : Claims({hello}, i, r) =>
            /\ i \in Ids /\ store[c][i] \in Record
            /\ PageOf[i] \in P
            /\ store[c][i].c = r.c /\ store[c][i].client = r.client
  <2> DEFINE s == store[c]
             pages == [p \in P |-> Digest(s, p)]
  <2>1. DigestsOf(c) = pages /\ s \in Stores /\ P \in SUBSET KnownPages(s)
    BY <1>1, <1>2
  <2> HIDE DEF s, P
  <2>2. /\ pages \in Adverts
        /\ \A i, r : Claims({Hello(pages)}, i, r) =>
              /\ i \in Ids /\ s[i] \in Record
              /\ PageOf[i] \in P
              /\ s[i].c = r.c /\ s[i].client = r.client
    BY <2>1, HelloFacts
  <2> HIDE DEF pages
  <2> QED BY <2>1, <2>2 DEF s
<1>4. hello \in Messages
  BY <1>3 DEF Messages
<1>5. outbox' = [outbox EXCEPT ![c] = Append(@, hello)]
      /\ UNCHANGED <<store, counter, clientVars, link, unconfirmed>>
  BY DEF HandleConnected
<1> HIDE DEF hello
<1>6. outbox \in [Clients -> Seq(Messages)] /\ Types
  BY DEF Sound, Types
<1>7. Append(outbox[c], hello) \in Seq(Messages)
      /\ ToSet(Append(outbox[c], hello)) = ToSet(outbox[c]) \cup {hello}
  BY <1>4, <1>6, SetAppend
<1>8. /\ outbox' \in [Clients -> Seq(Messages)]
      /\ Out(c)' = Out(c) \cup {hello}
      /\ \A d \in Clients : d # c => Out(d)' = Out(d) /\ outbox'[d] = outbox[d]
  BY <1>5, <1>6, <1>7 DEF Out
<1>9. /\ Head(inbox[c]) \in Messages \cup {Connected}
      /\ inbox' \in [Clients -> Seq(Messages \cup {Connected})]
      /\ In(c) = {Head(inbox[c])} \cup In(c)'
      /\ \A d \in Clients : d # c => In(d)' = In(d) /\ inbox'[d] = inbox[d]
  BY <1>6, TakenIn DEF Takes
<1>10. Head(inbox[c]) = Connected
  BY <1>9, FrameKinds
<1>11. Types'
  BY <1>5, <1>8, <1>9 DEF Sound, Types, Takes, clientVars, boundVars
<1>12. Processes'
  BY <1>5, <1>8, <1>9, ProcessesKept DEF Sound, Takes, clientVars
<1>13. CounterCovers'
  BY <1>5 DEF Sound, CounterCovers
<1>14. \A p \in P : p \notin provisional[c]
  OBVIOUS
<1> HIDE DEF P
<1> QED BY <1>3, <1>5, <1>8, <1>9, <1>10, <1>11, <1>12, <1>13, <1>14 DEF Sound, hello

LEMMA RecordsEffect ==
    ASSUME Sound, NEW c \in Clients, Takes(c), Head(inbox[c]).t = "records",
           HandleRecords(c, Head(inbox[c]).batch)
    PROVE  \E batch \in Batch :
              /\ Sound'
              /\ store'[c] = Merged(store[c], batch)
              /\ \A m \in Nodes : m # c => store'[m] = store[m]
              /\ In(c) = {Update(batch)} \cup In(c)'
              /\ Out(c)' = Out(c)
              /\ \A d \in Clients : d # c => Out(d)' = Out(d) /\ In(d)' = In(d)
<1> DEFINE batch == Head(inbox[c]).batch
<1>1. /\ Head(inbox[c]) \in Messages \cup {Connected}
      /\ inbox' \in [Clients -> Seq(Messages \cup {Connected})]
      /\ In(c) = {Head(inbox[c])} \cup In(c)'
      /\ \A d \in Clients : d # c => In(d)' = In(d) /\ inbox'[d] = inbox[d]
  BY TakenIn DEF Takes, Sound
<1>2. batch \in Batch /\ Head(inbox[c]) = Update(batch)
  BY <1>1, FrameKinds
<1> HIDE DEF batch
<1>3. MergeAt(c, batch) /\ UNCHANGED <<running, dirty, provisional, outbox, link, unconfirmed>>
  BY DEF HandleRecords, batch
<1>4. /\ store' \in [Nodes -> Stores] /\ counter' \in [Nodes -> Nat]
      /\ CounterCovers'
      /\ store'[c] = Merged(store[c], batch)
      /\ \A m \in Nodes : m # c => store'[m] = store[m]
      /\ \A m \in Nodes : Held(store[m]) \subseteq Held(store'[m])
  BY <1>2, <1>3, MergeFacts DEF Nodes
<1>5. Types'
  BY <1>1, <1>3, <1>4 DEF Sound, Types, Takes, clientVars, boundVars
<1>6. Processes'
  BY <1>1, <1>3, <1>4, ProcessesKept DEF Sound, Takes, clientVars, Nodes
<1>7. \A d \in Clients : Out(d)' = Out(d)
  BY <1>3 DEF Out
<1> QED BY <1>1, <1>2, <1>4, <1>5, <1>6, <1>7 DEF Sound

\* Settling the provisional page: kept for good, removed, or there is none.
LEMMA SettleFacts ==
    ASSUME Sound, NEW c \in Clients, NEW pages, HandleHello(c, pages)
    PROVE  /\ store' \in [Nodes -> Stores] /\ dirty' \in [Clients -> SUBSET Ids]
           /\ provisional' \in [Clients -> SUBSET Pages]
           /\ \/ store' = store /\ (provisional[c] = {} \/ DOMAIN pages = {})
              \/ /\ DOMAIN pages # {}
                 /\ \A i \in Ids :
                       store'[c][i] = IF PageOf[i] \in provisional[c] THEN Absent ELSE store[c][i]
           /\ \A m \in Nodes : m # c => store'[m] = store[m]
           /\ provisional'[c] = {}
           /\ \A d \in Clients : d # c => provisional'[d] = provisional[d] /\ dirty'[d] = dirty[d]
           /\ dirty'[c] \subseteq Held(store'[c])
<1>1. /\ store \in [Nodes -> Stores] /\ dirty \in [Clients -> SUBSET Ids]
      /\ provisional \in [Clients -> SUBSET Pages]
      /\ dirty[c] \subseteq Held(store[c])
      /\ c \in Nodes
  BY DEF Sound, Types, Processes, Nodes
<1>2. CASE provisional[c] # {} /\ DOMAIN pages = {} /\ ConfirmProvisional(c)
  <2> DEFINE more == UNION {PageIds(store[c], p) : p \in provisional[c]}
  <2>1. more \subseteq Held(store[c]) /\ more \subseteq Ids
    BY DEF PageIds, Held
  <2>2. /\ provisional' = [provisional EXCEPT ![c] = {}]
        /\ dirty' = [dirty EXCEPT ![c] = @ \cup more]
        /\ store' = store
    BY <1>2 DEF ConfirmProvisional
  <2> HIDE DEF more
  <2>3. dirty' \in [Clients -> SUBSET Ids] /\ dirty'[c] = dirty[c] \cup more
        /\ \A d \in Clients : d # c => dirty'[d] = dirty[d]
    BY <1>1, <2>1, <2>2
  <2>4. provisional' \in [Clients -> SUBSET Pages] /\ provisional'[c] = {}
        /\ \A d \in Clients : d # c => provisional'[d] = provisional[d]
    BY <1>1, <2>2
  <2> QED BY <1>1, <1>2, <2>1, <2>2, <2>3, <2>4
<1>3. CASE provisional[c] # {} /\ DOMAIN pages # {} /\ DropProvisional(c)
  <2> DEFINE rest == [i \in Ids |-> IF PageOf[i] \in provisional[c] THEN Absent ELSE store[c][i]]
             kept == {i \in dirty[c] : PageOf[i] \notin provisional[c]}
  <2>1. rest \in Stores
    <3>1. store[c] \in Stores
      BY <1>1
    <3> QED BY <3>1 DEF Stores
  <2>2. /\ provisional' = [provisional EXCEPT ![c] = {}]
        /\ store' = [store EXCEPT ![c] = rest]
        /\ dirty' = [dirty EXCEPT ![c] = kept]
    BY <1>3 DEF DropProvisional
  <2>3. kept \subseteq Ids
    BY <1>1
  <2>4. kept \subseteq Held(rest)
    BY <1>1 DEF Held, Holds
  <2>5. \A i \in Ids : rest[i] = IF PageOf[i] \in provisional[c] THEN Absent ELSE store[c][i]
    OBVIOUS
  <2> HIDE DEF rest, kept
  <2>6. dirty' \in [Clients -> SUBSET Ids] /\ dirty'[c] = kept
        /\ \A d \in Clients : d # c => dirty'[d] = dirty[d]
    BY <1>1, <2>2, <2>3
  <2>7. provisional' \in [Clients -> SUBSET Pages] /\ provisional'[c] = {}
        /\ \A d \in Clients : d # c => provisional'[d] = provisional[d]
    BY <1>1, <2>2
  <2>8. store' \in [Nodes -> Stores] /\ store'[c] = rest /\ \A m \in Nodes : m # c => store'[m] = store[m]
    BY <1>1, <2>1, <2>2
  <2> QED BY <1>3, <2>4, <2>5, <2>6, <2>7, <2>8
<1>4. CASE provisional[c] = {} /\ UNCHANGED <<store, dirty, provisional>>
  BY <1>1, <1>4
<1> QED BY <1>2, <1>3, <1>4 DEF HandleHello

LEMMA HelloEffect ==
    ASSUME Sound, NEW c \in Clients, Takes(c), Head(inbox[c]).t = "hello",
           HandleHello(c, Head(inbox[c]).pages)
    PROVE  \E pages \in Adverts :
              /\ Sound'
              /\ \/ store' = store /\ (provisional[c] = {} \/ DOMAIN pages = {})
                 \/ /\ DOMAIN pages # {}
                    /\ \A i \in Ids :
                          store'[c][i] = IF PageOf[i] \in provisional[c] THEN Absent ELSE store[c][i]
              /\ \A m \in Nodes : m # c => store'[m] = store[m]
              /\ provisional'[c] = {}
              /\ \A d \in Clients : d # c => provisional'[d] = provisional[d] /\ dirty'[d] = dirty[d]
              /\ link' = link /\ crashes' = crashes
              /\ unconfirmed' = IF DOMAIN pages = {} THEN unconfirmed \ {SeedOf[c]} ELSE unconfirmed
              /\ In(c) = {Hello(pages)} \cup In(c)'
              /\ Out(c)' = Out(c) \cup ToSet(DifferingPages(store'[c], Digests(store'[c]), pages))
              /\ \A d \in Clients : d # c => Out(d)' = Out(d) /\ In(d)' = In(d)
<1> DEFINE pages == Head(inbox[c]).pages
           reply == DifferingPages(store'[c], Digests(store'[c]), pages)
<1>1. /\ Head(inbox[c]) \in Messages \cup {Connected}
      /\ inbox' \in [Clients -> Seq(Messages \cup {Connected})]
      /\ In(c) = {Head(inbox[c])} \cup In(c)'
      /\ \A d \in Clients : d # c => In(d)' = In(d) /\ inbox'[d] = inbox[d]
  BY TakenIn DEF Takes, Sound
<1>2. pages \in Adverts /\ Head(inbox[c]) = Hello(pages)
  BY <1>1, FrameKinds
<1>3. HandleHello(c, pages)
  OBVIOUS
<1> HIDE DEF pages
<1>4. /\ store' \in [Nodes -> Stores] /\ dirty' \in [Clients -> SUBSET Ids]
      /\ provisional' \in [Clients -> SUBSET Pages]
      /\ \/ store' = store /\ (provisional[c] = {} \/ DOMAIN pages = {})
         \/ /\ DOMAIN pages # {}
            /\ \A i \in Ids :
                  store'[c][i] = IF PageOf[i] \in provisional[c] THEN Absent ELSE store[c][i]
      /\ \A m \in Nodes : m # c => store'[m] = store[m]
      /\ provisional'[c] = {}
      /\ \A d \in Clients : d # c => provisional'[d] = provisional[d] /\ dirty'[d] = dirty[d]
      /\ dirty'[c] \subseteq Held(store'[c])
  BY <1>3, SettleFacts
<1>5. /\ outbox' = [outbox EXCEPT ![c] = @ \o reply]
      /\ unconfirmed' = IF DOMAIN pages = {} THEN unconfirmed \ {SeedOf[c]} ELSE unconfirmed
      /\ UNCHANGED <<counter, running, link>>
  BY <1>3 DEF HandleHello
<1>6. store'[c] \in Stores
  BY <1>4 DEF Nodes
<1>7. reply \in Seq(Messages)
  BY <1>6, ReplyFacts
<1> HIDE DEF reply
<1>8. /\ outbox' \in [Clients -> Seq(Messages)]
      /\ Out(c)' = Out(c) \cup ToSet(reply)
      /\ \A d \in Clients : d # c => Out(d)' = Out(d) /\ outbox'[d] = outbox[d]
  BY <1>5, <1>7, PutOut DEF Sound
<1>9. Types'
  <2>1. unconfirmed' \subseteq Seeds
    BY <1>5 DEF Sound, Types
  <2> QED BY <1>1, <1>4, <1>5, <1>8, <2>1 DEF Sound, Types, Takes, boundVars
<1>10. Processes'
  <2> SUFFICES ASSUME NEW d \in Clients
      PROVE  /\ ~running'[d] => /\ ~link'[d] /\ outbox'[d] = <<>> /\ inbox'[d] = <<>>
                                /\ dirty'[d] = {} /\ provisional'[d] = {}
             /\ dirty'[d] \subseteq Held(store'[d])
             /\ provisional'[d] \subseteq {SeedOf[d]}
    BY DEF Processes
  <2>1. /\ ~running[d] => /\ ~link[d] /\ outbox[d] = <<>> /\ inbox[d] = <<>>
                          /\ dirty[d] = {} /\ provisional[d] = {}
        /\ dirty[d] \subseteq Held(store[d])
        /\ provisional[d] \subseteq {SeedOf[d]}
    BY DEF Sound, Processes
  <2>2. CASE d = c
    BY <1>4, <1>5, <2>2 DEF Takes
  <2>3. CASE d # c
    BY <1>1, <1>4, <1>5, <1>8, <2>1, <2>3 DEF Nodes
  <2> QED BY <2>2, <2>3
<1>11. CounterCovers'
  <2> SUFFICES ASSUME NEW n \in Nodes, NEW i \in Ids
      PROVE  store'[n][i].c <= counter'[n]
    BY DEF CounterCovers
  <2>1. store[n][i].c <= counter[n] /\ counter[n] \in Nat /\ counter' = counter
    BY <1>5 DEF Sound, CounterCovers, Types
  <2>2. CASE store'[n][i] = store[n][i]
    BY <2>1, <2>2
  <2>3. CASE store'[n][i] = Absent
    BY <2>1, <2>3 DEF Absent
  <2> QED BY <1>4, <2>2, <2>3
<1>12. link' = link /\ crashes' = crashes
  BY <1>5 DEF Takes, boundVars
<1> QED BY <1>1, <1>2, <1>4, <1>5, <1>8, <1>9, <1>10, <1>11, <1>12 DEF Sound, reply

\* The server takes the first frame of a client's outbox.
ServerTakes(c) ==
    /\ link[c] /\ outbox[c] # <<>>
    /\ outbox' = [outbox EXCEPT ![c] = Tail(@)]
    /\ UNCHANGED <<clientVars, link, unconfirmed, boundVars>>

LEMMA AnswerEffect ==
    ASSUME Sound, NEW c \in Clients, ServerTakes(c), Head(outbox[c]).t = "hello",
           AnswerHello(c, Head(outbox[c]).pages)
    PROVE  \E pages \in Adverts :
              /\ Sound' /\ store' = store
              /\ Out(c) = {Hello(pages)} \cup Out(c)'
              /\ In(c)' = In(c) \cup ToSet(DifferingPages(store[Server], Digests(store[Server]), pages))
              /\ \A d \in Clients : d # c => Out(d)' = Out(d) /\ In(d)' = In(d)
<1> DEFINE pages == Head(outbox[c]).pages
           reply == DifferingPages(store[Server], Digests(store[Server]), pages)
<1>1. /\ Head(outbox[c]) \in Messages
      /\ outbox' \in [Clients -> Seq(Messages)]
      /\ Out(c) = {Head(outbox[c])} \cup Out(c)'
      /\ \A d \in Clients : d # c => Out(d)' = Out(d) /\ outbox'[d] = outbox[d]
  BY TakenOut DEF ServerTakes, Sound
<1>2. pages \in Adverts /\ Head(outbox[c]) = Hello(pages)
  BY <1>1, FrameKinds
<1>3. AnswerHello(c, pages)
  OBVIOUS
<1> HIDE DEF pages
<1>4. store[Server] \in Stores
  BY DEF Sound, Types, Nodes
<1>5. reply \in Seq(Messages)
  BY <1>4, ReplyFacts
<1>6. inbox' = [inbox EXCEPT ![c] = @ \o reply] /\ UNCHANGED <<store, counter>>
  BY <1>3 DEF AnswerHello
<1> HIDE DEF reply
<1>7. reply \in Seq(Messages \cup {Connected})
  BY <1>5, SeqMonotonic
<1>8. /\ inbox' \in [Clients -> Seq(Messages \cup {Connected})]
      /\ In(c)' = In(c) \cup ToSet(reply)
      /\ \A d \in Clients : d # c => In(d)' = In(d) /\ inbox'[d] = inbox[d]
  BY <1>6, <1>7, PutIn DEF Sound
<1>9. Types'
  BY <1>1, <1>6, <1>8 DEF Sound, Types, ServerTakes, clientVars, boundVars
<1>10. Processes'
  <2>1. \A d \in Clients : ~running[d] => d # c
    BY DEF Sound, Processes, ServerTakes
  <2> QED BY <1>1, <1>6, <1>8, <2>1, ProcessesKept DEF Sound, ServerTakes, clientVars
<1>11. CounterCovers'
  BY <1>6 DEF Sound, CounterCovers
<1> QED BY <1>1, <1>2, <1>6, <1>8, <1>9, <1>10, <1>11 DEF Sound, reply

LEMMA RelayEffect ==
    ASSUME Sound, NEW c \in Clients, ServerTakes(c), Head(outbox[c]).t = "records",
           RelayRecords(c, Head(outbox[c]).batch)
    PROVE  \E batch \in Batch :
              LET lost == ToSet(Frames(store[Server], Singly(Lost(batch))))
                  news == ToSet(Frames(store'[Server], ByPage(Applied(store[Server], batch))))
              IN  /\ Sound'
                  /\ store'[Server] = Merged(store[Server], batch)
                  /\ \A m \in Nodes : m # Server => store'[m] = store[m]
                  /\ Out(c) = {Update(batch)} \cup Out(c)'
                  /\ \A d \in Clients : d # c => Out(d)' = Out(d)
                  /\ Brings(lost, store[Server], Lost(batch))
                  /\ Brings(news, store'[Server], Applied(store[Server], batch))
                  /\ In(c)' = In(c) \cup lost
                  /\ \A d \in Clients : d # c => In(d)' = IF link[d] THEN In(d) \cup news ELSE In(d)
<1> DEFINE batch == Head(outbox[c]).batch
           back == Frames(store[Server], Singly(Lost(batch)))
           on == Frames(store'[Server], ByPage(Applied(store[Server], batch)))
<1>1. /\ Head(outbox[c]) \in Messages
      /\ outbox' \in [Clients -> Seq(Messages)]
      /\ Out(c) = {Head(outbox[c])} \cup Out(c)'
      /\ \A d \in Clients : d # c => Out(d)' = Out(d) /\ outbox'[d] = outbox[d]
  BY TakenOut DEF ServerTakes, Sound
<1>2. batch \in Batch /\ Head(outbox[c]) = Update(batch)
  BY <1>1, FrameKinds
<1>3. RelayRecords(c, batch)
  OBVIOUS
<1> HIDE DEF batch
<1>4. /\ MergeAt(Server, batch)
      /\ inbox' = [d \in Clients |->
                      IF d = c THEN inbox[d] \o back
                      ELSE IF link[d] THEN inbox[d] \o on ELSE inbox[d]]
  BY <1>3 DEF RelayRecords
<1>5. /\ store' \in [Nodes -> Stores] /\ counter' \in [Nodes -> Nat]
      /\ CounterCovers'
      /\ store'[Server] = Merged(store[Server], batch)
      /\ \A m \in Nodes : m # Server => store'[m] = store[m]
      /\ \A m \in Nodes : Held(store[m]) \subseteq Held(store'[m])
  BY <1>2, <1>4, MergeFacts DEF Nodes
<1>6. store[Server] \in Stores /\ store'[Server] \in Stores
  BY <1>5 DEF Sound, Types, Nodes
<1>7. Lost(batch) \in SUBSET Held(store[Server])
  <2> SUFFICES ASSUME NEW i \in Lost(batch)
      PROVE  i \in Held(store[Server])
    OBVIOUS
  <2>1. i \in Ids /\ batch[i] \in Record /\ Newer(store[Server][i], batch[i])
    BY <1>2, <1>6, MergedFacts DEF Lost
  <2>2. store[Server][i] \in Record
    BY <1>6, <2>1, StoreEntry, AtLeastFacts
  <2> QED BY <1>6, <2>1, <2>2, StoreEntry
<1>8. Applied(store[Server], batch) \in SUBSET Held(store'[Server])
  BY <1>2, <1>5, <1>6, MergedFacts
<1>9. back \in Seq(Messages) /\ Brings(ToSet(back), store[Server], Lost(batch))
  BY <1>6, <1>7, SinglyBrings
<1>10. on \in Seq(Messages) /\ Brings(ToSet(on), store'[Server], Applied(store[Server], batch))
  BY <1>6, <1>8, ByPageBrings
<1> HIDE DEF back, on
<1>11. back \in Seq(Messages \cup {Connected}) /\ on \in Seq(Messages \cup {Connected})
  BY <1>9, <1>10, SeqMonotonic
<1>12. ASSUME NEW d \in Clients
       PROVE  /\ inbox'[d] \in Seq(Messages \cup {Connected})
              /\ d = c => In(d)' = In(d) \cup ToSet(back)
              /\ d # c => In(d)' = IF link[d] THEN In(d) \cup ToSet(on) ELSE In(d)
              /\ ~link[d] => inbox'[d] = inbox[d]
  <2>1. inbox[d] \in Seq(Messages \cup {Connected})
    BY DEF Sound, Types
  <2>2. /\ inbox[d] \o back \in Seq(Messages \cup {Connected})
        /\ ToSet(inbox[d] \o back) = ToSet(inbox[d]) \cup ToSet(back)
    BY <1>11, <2>1, SetConcat
  <2>3. /\ inbox[d] \o on \in Seq(Messages \cup {Connected})
        /\ ToSet(inbox[d] \o on) = ToSet(inbox[d]) \cup ToSet(on)
    BY <1>11, <2>1, SetConcat
  <2>4. inbox'[d] = IF d = c THEN inbox[d] \o back ELSE IF link[d] THEN inbox[d] \o on ELSE inbox[d]
    BY <1>4
  <2>5. link[c]
    BY DEF ServerTakes
  <2> QED BY <2>1, <2>2, <2>3, <2>4, <2>5 DEF In
<1>13. inbox' \in [Clients -> Seq(Messages \cup {Connected})]
  <2>1. inbox' = [d \in Clients |-> inbox'[d]]
    BY <1>4
  <2> QED BY <1>12, <2>1
<1>14. Types'
  BY <1>1, <1>5, <1>13 DEF Sound, Types, ServerTakes, clientVars, boundVars
<1>15. Processes'
  <2>1. \A d \in Clients : ~running[d] => ~link[d]
    BY DEF Sound, Processes
  <2>2. \A d \in Clients : ~running[d] => d # c
    BY <2>1 DEF ServerTakes
  <2> QED BY <1>1, <1>5, <1>12, <2>1, <2>2, ProcessesKept DEF Sound, ServerTakes, clientVars, Nodes
<1> QED BY <1>1, <1>2, <1>5, <1>9, <1>10, <1>12, <1>14, <1>15 DEF Sound, back, on

LEMMA ConnectEffect ==
    ASSUME Sound, NEW c \in Clients, Connect(c)
    PROVE  /\ Sound' /\ store' = store
           /\ link'[c] /\ \A d \in Clients : d # c => link'[d] = link[d]
           /\ In(c)' = In(c) \cup {Connected, Hello(Digests(store[Server]))}
           /\ \A d \in Clients : d # c => In(d)' = In(d)
           /\ \A d \in Clients : Out(d)' = Out(d)
           /\ \A i, r : Claims({Hello(Digests(store[Server]))}, i, r) =>
                 store[Server][i].c = r.c /\ store[Server][i].client = r.client
                 /\ i \in Ids /\ store[Server][i] \in Record
<1> DEFINE hello == Hello(Digests(store[Server]))
           P == KnownPages(store[Server])
           new == <<Connected, hello>>
<1>1. store[Server] \in Stores /\ Digests(store[Server]) = [p \in P |-> Digest(store[Server], p)]
  BY DEF Sound, Types, Nodes, Digests
<1>2. /\ Digests(store[Server]) \in Adverts
      /\ \A i, r : Claims({hello}, i, r) =>
            /\ i \in Ids /\ store[Server][i] \in Record
            /\ store[Server][i].c = r.c /\ store[Server][i].client = r.client
  BY <1>1, HelloFacts
<1>3. hello \in Messages \cup {Connected}
  BY <1>2 DEF Messages
<1>4. inbox' = [inbox EXCEPT ![c] = @ \o new]
  BY DEF Connect
<1>5. /\ running[c] /\ link' = [link EXCEPT ![c] = TRUE]
      /\ UNCHANGED <<store, counter, clientVars, outbox, unconfirmed, boundVars>>
  BY DEF Connect
<1> HIDE DEF hello
<1>6. new \in Seq(Messages \cup {Connected}) /\ ToSet(new) = {Connected, hello}
  BY <1>3, SetPair
<1> HIDE DEF new
<1>7. /\ inbox' \in [Clients -> Seq(Messages \cup {Connected})]
      /\ In(c)' = In(c) \cup ToSet(new)
      /\ \A d \in Clients : d # c => In(d)' = In(d) /\ inbox'[d] = inbox[d]
  BY <1>4, <1>6, PutIn DEF Sound
<1>8. link \in [Clients -> BOOLEAN]
  BY DEF Sound, Types
<1>9. link' \in [Clients -> BOOLEAN] /\ link'[c] /\ \A d \in Clients : d # c => link'[d] = link[d]
  BY <1>5, <1>8
<1>10. Types'
  BY <1>5, <1>7, <1>9 DEF Sound, Types, clientVars, boundVars
<1>11. Processes'
  <2> SUFFICES ASSUME NEW d \in Clients
      PROVE  /\ ~running'[d] => /\ ~link'[d] /\ outbox'[d] = <<>> /\ inbox'[d] = <<>>
                                /\ dirty'[d] = {} /\ provisional'[d] = {}
             /\ dirty'[d] \subseteq Held(store'[d])
             /\ provisional'[d] \subseteq {SeedOf[d]}
    BY DEF Processes
  <2>1. /\ ~running[d] => /\ ~link[d] /\ outbox[d] = <<>> /\ inbox[d] = <<>>
                          /\ dirty[d] = {} /\ provisional[d] = {}
        /\ dirty[d] \subseteq Held(store[d])
        /\ provisional[d] \subseteq {SeedOf[d]}
    BY DEF Sound, Processes
  <2>2. CASE d = c
    BY <1>5, <2>1, <2>2 DEF clientVars
  <2>3. CASE d # c
    BY <1>5, <1>7, <1>9, <2>1, <2>3 DEF clientVars
  <2> QED BY <2>2, <2>3
<1>12. CounterCovers'
  BY <1>5 DEF Sound, CounterCovers
<1>13. \A d \in Clients : Out(d)' = Out(d)
  BY <1>5 DEF Out
<1> QED BY <1>2, <1>5, <1>6, <1>7, <1>9, <1>10, <1>11, <1>12, <1>13 DEF Sound, hello

\* What a lost connection, a restart of the server or a crash may do.
Losing ==
    /\ store' = store /\ unconfirmed' = unconfirmed
    /\ \A d \in Clients :
          /\ Out(d)' \subseteq Out(d) /\ In(d)' \subseteq In(d)
          /\ link'[d] => link[d] /\ Out(d)' = Out(d) /\ In(d)' = In(d)
          /\ dirty'[d] \subseteq dirty[d] /\ provisional'[d] \subseteq provisional[d]
    /\ crashes' # 0 \/ (crashes' = crashes /\ provisional' = provisional)

LEMMA RemainsTypes ==
    ASSUME Types, NEW c \in Clients
    PROVE  /\ \A q \in OutboxAfterLoss(c) : q \in Seq(Messages) /\ ToSet(q) \subseteq Out(c)
           /\ \A q \in InboxAfterLoss(c) : q \in Seq(Messages \cup {Connected}) /\ ToSet(q) \subseteq In(c)
<1>1. outbox[c] \in Seq(Messages) /\ inbox[c] \in Seq(Messages \cup {Connected})
  BY DEF Types
<1>2. Len(outbox[c]) \in Nat /\ Len(inbox[c]) \in Nat
  BY <1>1, LenProperties
<1>3. ASSUME NEW k \in 1 .. Len(outbox[c]) + 1
      PROVE  SubSeq(outbox[c], k, Len(outbox[c])) \in Seq(Messages)
             /\ ToSet(SubSeq(outbox[c], k, Len(outbox[c]))) \subseteq Out(c)
  <2>1. Len(outbox[c]) \in 0 .. Len(outbox[c])
    BY <1>2
  <2> QED BY <1>1, <2>1, SetPart DEF Out
<1>4. ASSUME NEW m \in 0 .. Len(inbox[c])
      PROVE  SubSeq(inbox[c], 1, m) \in Seq(Messages \cup {Connected})
             /\ ToSet(SubSeq(inbox[c], 1, m)) \subseteq In(c)
  <2>1. 1 \in 1 .. Len(inbox[c]) + 1
    BY <1>2
  <2> QED BY <1>1, <2>1, SetPart DEF In
<1> QED BY <1>3, <1>4 DEF OutboxAfterLoss, InboxAfterLoss

LEMMA DisconnectEffect ==
    ASSUME Sound, NEW c \in Clients, Disconnect(c)
    PROVE  Sound' /\ Losing
<1>1. /\ breaks < MaxBreaks /\ breaks' = breaks + 1
      /\ link' = [link EXCEPT ![c] = FALSE]
      /\ \E q \in OutboxAfterLoss(c) : outbox' = [outbox EXCEPT ![c] = q]
      /\ \E q \in InboxAfterLoss(c) : inbox' = [inbox EXCEPT ![c] = q]
      /\ UNCHANGED <<store, counter, clientVars, unconfirmed, writes, crashes>>
      /\ link[c]
  BY DEF Disconnect, Break
<1>2. PICK p \in OutboxAfterLoss(c) : outbox' = [outbox EXCEPT ![c] = p]
  BY <1>1
<1>3. PICK q \in InboxAfterLoss(c) : inbox' = [inbox EXCEPT ![c] = q]
  BY <1>1
<1>4. /\ p \in Seq(Messages) /\ ToSet(p) \subseteq Out(c)
      /\ q \in Seq(Messages \cup {Connected}) /\ ToSet(q) \subseteq In(c)
  BY RemainsTypes DEF Sound
<1>5. /\ outbox \in [Clients -> Seq(Messages)] /\ inbox \in [Clients -> Seq(Messages \cup {Connected})]
      /\ link \in [Clients -> BOOLEAN] /\ breaks \in 0 .. MaxBreaks
  BY DEF Sound, Types
<1>6. /\ outbox' \in [Clients -> Seq(Messages)] /\ outbox'[c] = p
      /\ \A d \in Clients : d # c => outbox'[d] = outbox[d]
  BY <1>2, <1>4, <1>5
<1>7. /\ inbox' \in [Clients -> Seq(Messages \cup {Connected})] /\ inbox'[c] = q
      /\ \A d \in Clients : d # c => inbox'[d] = inbox[d]
  BY <1>3, <1>4, <1>5
<1>8. link' \in [Clients -> BOOLEAN] /\ ~link'[c] /\ \A d \in Clients : d # c => link'[d] = link[d]
  BY <1>1, <1>5
<1>9. breaks' \in 0 .. MaxBreaks
  BY <1>1, <1>5, BoundsAssumption
<1>10. Types'
  BY <1>1, <1>6, <1>7, <1>8, <1>9 DEF Sound, Types, clientVars
<1>11. Processes'
  <2> SUFFICES ASSUME NEW d \in Clients
      PROVE  /\ ~running'[d] => /\ ~link'[d] /\ outbox'[d] = <<>> /\ inbox'[d] = <<>>
                                /\ dirty'[d] = {} /\ provisional'[d] = {}
             /\ dirty'[d] \subseteq Held(store'[d])
             /\ provisional'[d] \subseteq {SeedOf[d]}
    BY DEF Processes
  <2>1. /\ ~running[d] => /\ ~link[d] /\ outbox[d] = <<>> /\ inbox[d] = <<>>
                          /\ dirty[d] = {} /\ provisional[d] = {}
        /\ dirty[d] \subseteq Held(store[d])
        /\ provisional[d] \subseteq {SeedOf[d]}
    BY DEF Sound, Processes
  <2>2. CASE d = c
    BY <1>1, <2>1, <2>2 DEF clientVars
  <2>3. CASE d # c
    BY <1>1, <1>6, <1>7, <1>8, <2>1, <2>3 DEF clientVars
  <2> QED BY <2>2, <2>3
<1>12. CounterCovers'
  BY <1>1 DEF Sound, CounterCovers
<1>13. Losing
  <2>1. ASSUME NEW d \in Clients
        PROVE  /\ Out(d)' \subseteq Out(d) /\ In(d)' \subseteq In(d)
               /\ link'[d] => link[d] /\ Out(d)' = Out(d) /\ In(d)' = In(d)
    <3>1. CASE d = c
      BY <1>4, <1>6, <1>7, <1>8, <3>1 DEF Out, In
    <3>2. CASE d # c
      BY <1>6, <1>7, <1>8, <3>2 DEF Out, In
    <3> QED BY <3>1, <3>2
  <2> QED BY <1>1, <2>1 DEF Losing, clientVars
<1> QED BY <1>10, <1>11, <1>12, <1>13 DEF Sound

\* The greatest counter of a store covers it.
LEMMA GreatestFacts ==
    ASSUME NEW s \in Stores, NEW m, IsGreatest(m, {0} \cup StoreCounters(s))
    PROVE  m \in Nat /\ \A i \in Ids : s[i].c <= m
<1>1. \A i \in Ids : s[i].c \in Nat /\ s[i].c \in StoreCounters(s)
  BY StoreEntry, EntryFacts DEF StoreCounters
<1>2. StoreCounters(s) \subseteq Nat
  BY <1>1 DEF StoreCounters
<1>3. m \in Nat /\ \A k \in StoreCounters(s) : m >= k
  BY <1>2 DEF IsGreatest
<1> QED BY <1>1, <1>3

LEMMA RestartEffect ==
    ASSUME Sound, ServerRestart
    PROVE  Sound' /\ Losing
<1>1. /\ breaks < MaxBreaks /\ breaks' = breaks + 1
      /\ link' = [c \in Clients |-> FALSE]
      /\ outbox' \in [Clients -> UNION {OutboxAfterLoss(c) : c \in Clients}]
      /\ inbox' \in [Clients -> UNION {InboxAfterLoss(c) : c \in Clients}]
      /\ UNCHANGED <<store, clientVars, unconfirmed, writes, crashes>>
  BY DEF ServerRestart, Break
<1>2. \A c \in Clients :
         IF link[c]
           THEN outbox'[c] \in OutboxAfterLoss(c) /\ inbox'[c] \in InboxAfterLoss(c)
           ELSE outbox'[c] = outbox[c] /\ inbox'[c] = inbox[c]
  BY DEF ServerRestart
<1>3. PICK m : /\ IsGreatest(m, {0} \cup StoreCounters(store[Server]))
               /\ counter' = [counter EXCEPT ![Server] = m]
  BY DEF ServerRestart
<1>4. store \in [Nodes -> Stores] /\ counter \in [Nodes -> Nat] /\ breaks \in 0 .. MaxBreaks
      /\ Server \in Nodes /\ store[Server] \in Stores
  BY DEF Sound, Types, Nodes
<1>5. m \in Nat /\ \A i \in Ids : store[Server][i].c <= m
  BY <1>3, <1>4, GreatestFacts
<1>6. counter' \in [Nodes -> Nat] /\ counter'[Server] = m
      /\ \A n \in Nodes : n # Server => counter'[n] = counter[n]
  BY <1>3, <1>4, <1>5
<1>7. ASSUME NEW d \in Clients
      PROVE  /\ outbox'[d] \in Seq(Messages) /\ Out(d)' \subseteq Out(d)
             /\ inbox'[d] \in Seq(Messages \cup {Connected}) /\ In(d)' \subseteq In(d)
             /\ ~link[d] => outbox'[d] = outbox[d] /\ inbox'[d] = inbox[d]
             /\ ~link'[d]
  <2>1. outbox[d] \in Seq(Messages) /\ inbox[d] \in Seq(Messages \cup {Connected})
    BY DEF Sound, Types
  <2>2. /\ \A q \in OutboxAfterLoss(d) : q \in Seq(Messages) /\ ToSet(q) \subseteq Out(d)
        /\ \A q \in InboxAfterLoss(d) : q \in Seq(Messages \cup {Connected}) /\ ToSet(q) \subseteq In(d)
    BY RemainsTypes DEF Sound
  <2>3. ~link'[d]
    BY <1>1
  <2>4. CASE link[d]
    BY <1>2, <2>2, <2>3, <2>4 DEF Out, In
  <2>5. CASE ~link[d]
    BY <1>2, <2>1, <2>3, <2>5 DEF Out, In
  <2> QED BY <2>4, <2>5
<1>8. outbox' \in [Clients -> Seq(Messages)] /\ inbox' \in [Clients -> Seq(Messages \cup {Connected})]
  <2>1. outbox' = [c \in Clients |-> outbox'[c]] /\ inbox' = [c \in Clients |-> inbox'[c]]
    BY <1>1
  <2> QED BY <1>7, <2>1
<1>9. breaks' \in 0 .. MaxBreaks
  BY <1>1, <1>4, BoundsAssumption
<1>10. Types'
  BY <1>1, <1>6, <1>8, <1>9 DEF Sound, Types, clientVars
<1>11. Processes'
  <2> SUFFICES ASSUME NEW d \in Clients
      PROVE  /\ ~running'[d] => /\ ~link'[d] /\ outbox'[d] = <<>> /\ inbox'[d] = <<>>
                                /\ dirty'[d] = {} /\ provisional'[d] = {}
             /\ dirty'[d] \subseteq Held(store'[d])
             /\ provisional'[d] \subseteq {SeedOf[d]}
    BY DEF Processes
  <2>1. /\ ~running[d] => /\ ~link[d] /\ outbox[d] = <<>> /\ inbox[d] = <<>>
                          /\ dirty[d] = {} /\ provisional[d] = {}
        /\ dirty[d] \subseteq Held(store[d])
        /\ provisional[d] \subseteq {SeedOf[d]}
    BY DEF Sound, Processes
  <2> QED BY <1>1, <1>7, <2>1 DEF clientVars
<1>12. CounterCovers'
  <2> SUFFICES ASSUME NEW n \in Nodes, NEW i \in Ids
      PROVE  store'[n][i].c <= counter'[n]
    BY DEF CounterCovers
  <2> QED BY <1>1, <1>5, <1>6 DEF Sound, CounterCovers
<1>13. Losing
  BY <1>1, <1>7 DEF Losing, clientVars
<1> QED BY <1>10, <1>11, <1>12, <1>13 DEF Sound

LEMMA CrashEffect ==
    ASSUME Sound, NEW c \in Clients, Crash(c)
    PROVE  Sound' /\ Losing
<1>1. /\ crashes < MaxCrashes /\ crashes' = crashes + 1
      /\ running' = [running EXCEPT ![c] = FALSE]
      /\ link' = [link EXCEPT ![c] = FALSE]
      /\ outbox' = [outbox EXCEPT ![c] = <<>>]
      /\ inbox' = [inbox EXCEPT ![c] = <<>>]
      /\ dirty' = [dirty EXCEPT ![c] = {}]
      /\ provisional' = [provisional EXCEPT ![c] = {}]
      /\ UNCHANGED <<store, counter, unconfirmed, writes, breaks>>
  BY DEF Crash
<1>2. /\ outbox \in [Clients -> Seq(Messages)] /\ inbox \in [Clients -> Seq(Messages \cup {Connected})]
      /\ link \in [Clients -> BOOLEAN] /\ running \in [Clients -> BOOLEAN]
      /\ dirty \in [Clients -> SUBSET Ids] /\ provisional \in [Clients -> SUBSET Pages]
      /\ crashes \in 0 .. MaxCrashes
  BY DEF Sound, Types
<1>3. /\ outbox' \in [Clients -> Seq(Messages)] /\ outbox'[c] = <<>>
      /\ \A d \in Clients : d # c => outbox'[d] = outbox[d]
  BY <1>1, <1>2, EmptySeq
<1>4. /\ inbox' \in [Clients -> Seq(Messages \cup {Connected})] /\ inbox'[c] = <<>>
      /\ \A d \in Clients : d # c => inbox'[d] = inbox[d]
  BY <1>1, <1>2, EmptySeq
<1>5. /\ link' \in [Clients -> BOOLEAN] /\ ~link'[c]
      /\ running' \in [Clients -> BOOLEAN]
      /\ \A d \in Clients : d # c => link'[d] = link[d] /\ running'[d] = running[d]
  BY <1>1, <1>2
<1>6. /\ dirty' \in [Clients -> SUBSET Ids] /\ dirty'[c] = {}
      /\ provisional' \in [Clients -> SUBSET Pages] /\ provisional'[c] = {}
      /\ \A d \in Clients : d # c => dirty'[d] = dirty[d] /\ provisional'[d] = provisional[d]
  BY <1>1, <1>2
<1>7. crashes' \in 0 .. MaxCrashes /\ crashes' # 0
  BY <1>1, <1>2, BoundsAssumption
<1>8. Types'
  BY <1>1, <1>3, <1>4, <1>5, <1>6, <1>7 DEF Sound, Types
<1>9. Processes'
  <2> SUFFICES ASSUME NEW d \in Clients
      PROVE  /\ ~running'[d] => /\ ~link'[d] /\ outbox'[d] = <<>> /\ inbox'[d] = <<>>
                                /\ dirty'[d] = {} /\ provisional'[d] = {}
             /\ dirty'[d] \subseteq Held(store'[d])
             /\ provisional'[d] \subseteq {SeedOf[d]}
    BY DEF Processes
  <2>1. /\ ~running[d] => /\ ~link[d] /\ outbox[d] = <<>> /\ inbox[d] = <<>>
                          /\ dirty[d] = {} /\ provisional[d] = {}
        /\ dirty[d] \subseteq Held(store[d])
        /\ provisional[d] \subseteq {SeedOf[d]}
    BY DEF Sound, Processes
  <2>2. CASE d = c
    BY <1>3, <1>4, <1>5, <1>6, <2>2
  <2>3. CASE d # c
    BY <1>1, <1>3, <1>4, <1>5, <1>6, <2>1, <2>3
  <2> QED BY <2>2, <2>3
<1>10. CounterCovers'
  BY <1>1 DEF Sound, CounterCovers
<1>11. Losing
  <2>1. ASSUME NEW d \in Clients
        PROVE  /\ Out(d)' \subseteq Out(d) /\ In(d)' \subseteq In(d)
               /\ link'[d] => link[d] /\ Out(d)' = Out(d) /\ In(d)' = In(d)
               /\ dirty'[d] \subseteq dirty[d] /\ provisional'[d] \subseteq provisional[d]
    <3>1. CASE d = c
      BY <1>3, <1>4, <1>5, <1>6, <3>1, SetEmpty DEF Out, In
    <3>2. CASE d # c
      BY <1>3, <1>4, <1>5, <1>6, <3>2 DEF Out, In
    <3> QED BY <3>1, <3>2
  <2> QED BY <1>1, <1>7, <2>1 DEF Losing
<1> QED BY <1>8, <1>9, <1>10, <1>11 DEF Sound

LEMMA StartEffect ==
    ASSUME Sound, NEW c \in Clients, Start(c)
    PROVE  /\ Sound'
           /\ ~running[c]
           /\ UNCHANGED <<dirty, link, outbox, inbox, crashes>>
           /\ \/ UNCHANGED <<store, provisional, unconfirmed>>
              \/ /\ \E r \in Record :
                       /\ r.client = c
                       /\ store'[c][SeedOf[c]] = r
                 /\ \A j \in Ids, s \in Record : PageOf[j] = SeedOf[c] => ~Copy(j, s)
                 /\ \A m \in Nodes, j \in Ids : m # c \/ j # SeedOf[c] => store'[m][j] = store[m][j]
                 /\ provisional'[c] = {SeedOf[c]}
                 /\ \A d \in Clients : d # c => provisional'[d] = provisional[d]
                 /\ unconfirmed' = unconfirmed \cup {SeedOf[c]}
<1> DEFINE page == SeedOf[c]
<1>1. PICK m : IsGreatest(m, {0} \cup StoreCounters(store[c])) /\ StartFrom(c, m)
  BY DEF Start
<1> DEFINE seed == [c |-> m + 1, client |-> c, deleted |-> FALSE, value |-> CHOOSE v \in Values : TRUE]
<1>2. /\ ~running[c]
      /\ running' = [running EXCEPT ![c] = TRUE]
      /\ UNCHANGED <<dirty, wireVars, boundVars>>
      /\ \/ /\ counter' = [counter EXCEPT ![c] = m]
            /\ UNCHANGED <<store, provisional, unconfirmed>>
         \/ /\ \A j \in IdsOf(Copies) : PageOf[j] # page
            /\ counter' = [counter EXCEPT ![c] = m + 1]
            /\ store' = [store EXCEPT ![c] = [@ EXCEPT ![page] = seed]]
            /\ provisional' = [provisional EXCEPT ![c] = {page}]
            /\ unconfirmed' = unconfirmed \cup {page}
  BY <1>1 DEF StartFrom
<1>3. /\ store \in [Nodes -> Stores] /\ counter \in [Nodes -> Nat] /\ store[c] \in Stores
      /\ running \in [Clients -> BOOLEAN] /\ provisional \in [Clients -> SUBSET Pages]
      /\ c \in Nodes /\ page \in Pages /\ page \in Ids /\ page \in Seeds
      /\ unconfirmed \subseteq Seeds
  BY SeedAssumption, PageRecordsAssumption DEF Sound, Types, Nodes, Seeds
<1>4. m \in Nat /\ \A i \in Ids : store[c][i].c <= m
  BY <1>1, <1>3, GreatestFacts
<1>5. seed \in Record
  <2>1. (CHOOSE v \in Values : TRUE) \in Values
    BY DataAssumption
  <2>2. c \in Authors /\ m + 1 \in Nat \ {0}
    BY <1>3, <1>4, NodesAssumption
  <2> QED BY <2>1, <2>2 DEF Record
<1>6. seed.client = c /\ seed.c = m + 1
  OBVIOUS
<1> HIDE DEF seed, page
<1>7. running' \in [Clients -> BOOLEAN] /\ running'[c]
      /\ \A d \in Clients : d # c => running'[d] = running[d]
  BY <1>2, <1>3
<1>8. UNCHANGED <<dirty, link, outbox, inbox, writes, breaks, crashes>>
  BY <1>2 DEF wireVars, boundVars
<1>9. CASE counter' = [counter EXCEPT ![c] = m] /\ UNCHANGED <<store, provisional, unconfirmed>>
  <2>1. counter' \in [Nodes -> Nat] /\ counter'[c] = m /\ \A n \in Nodes : n # c => counter'[n] = counter[n]
    BY <1>3, <1>4, <1>9
  <2>2. Types'
    BY <1>7, <1>8, <1>9, <2>1 DEF Sound, Types
  <2>3. Processes'
    <3>1. \A d \in Clients : ~running'[d] => ~running[d]
      BY <1>7
    <3> QED BY <1>8, <1>9, <3>1 DEF Sound, Processes
  <2>4. CounterCovers'
    BY <1>4, <1>9, <2>1 DEF Sound, CounterCovers
  <2> QED BY <1>2, <1>8, <1>9, <2>2, <2>3, <2>4 DEF Sound
<1>10. CASE /\ \A j \in IdsOf(Copies) : PageOf[j] # page
            /\ counter' = [counter EXCEPT ![c] = m + 1]
            /\ store' = [store EXCEPT ![c] = [@ EXCEPT ![page] = seed]]
            /\ provisional' = [provisional EXCEPT ![c] = {page}]
            /\ unconfirmed' = unconfirmed \cup {page}
  <2>1. counter' \in [Nodes -> Nat] /\ counter'[c] = m + 1
        /\ \A n \in Nodes : n # c => counter'[n] = counter[n]
    BY <1>3, <1>4, <1>10
  <2> DEFINE s == [store[c] EXCEPT ![page] = seed]
  <2>2. s \in Stores /\ s[page] = seed /\ \A j \in Ids : j # page => s[j] = store[c][j]
    BY <1>3, <1>5 DEF Stores
  <2>3. store' = [store EXCEPT ![c] = s]
    BY <1>10
  <2> HIDE DEF s
  <2>4. /\ store' \in [Nodes -> Stores] /\ store'[c] = s
        /\ \A n \in Nodes : n # c => store'[n] = store[n]
    BY <1>3, <2>2, <2>3
  <2>5. /\ provisional' \in [Clients -> SUBSET Pages] /\ provisional'[c] = {page}
        /\ \A d \in Clients : d # c => provisional'[d] = provisional[d]
    BY <1>3, <1>10
  <2>6. unconfirmed' \subseteq Seeds
    BY <1>3, <1>10
  <2>7. Types'
    BY <1>7, <1>8, <2>1, <2>4, <2>5, <2>6 DEF Sound, Types
  <2>8. Processes'
    <3> SUFFICES ASSUME NEW d \in Clients
        PROVE  /\ ~running'[d] => /\ ~link'[d] /\ outbox'[d] = <<>> /\ inbox'[d] = <<>>
                                  /\ dirty'[d] = {} /\ provisional'[d] = {}
               /\ dirty'[d] \subseteq Held(store'[d])
               /\ provisional'[d] \subseteq {SeedOf[d]}
      BY DEF Processes
    <3>1. /\ ~running[d] => /\ ~link[d] /\ outbox[d] = <<>> /\ inbox[d] = <<>>
                            /\ dirty[d] = {} /\ provisional[d] = {}
          /\ dirty[d] \subseteq Held(store[d])
          /\ provisional[d] \subseteq {SeedOf[d]}
      BY DEF Sound, Processes
    <3>2. CASE d = c
      BY <1>2, <1>7, <1>8, <2>5, <3>1, <3>2 DEF page
    <3>3. CASE d # c
      BY <1>7, <1>8, <2>4, <2>5, <3>1, <3>3 DEF Nodes
    <3> QED BY <3>2, <3>3
  <2>9. CounterCovers'
    <3> SUFFICES ASSUME NEW n \in Nodes, NEW i \in Ids
        PROVE  store'[n][i].c <= counter'[n]
      BY DEF CounterCovers
    <3>1. CASE n # c
      BY <2>1, <2>4, <3>1 DEF Sound, CounterCovers
    <3>2. CASE n = c /\ i = page
      BY <1>4, <1>6, <2>1, <2>2, <2>4, <3>2
    <3>3. CASE n = c /\ i # page
      <4>1. store'[n][i] = store[c][i] /\ store[c][i].c \in Nat
        BY <1>3, <2>2, <2>4, <3>3, StoreEntry, EntryFacts
      <4> QED BY <1>4, <2>1, <3>3, <4>1
    <3> QED BY <3>1, <3>2, <3>3
  <2>10. \A j \in Ids, t \in Record : PageOf[j] = page => ~Copy(j, t)
    <3> SUFFICES ASSUME NEW j \in Ids, NEW t \in Record, PageOf[j] = page, Copy(j, t)
        PROVE  FALSE
      OBVIOUS
    <3>1. <<j, t>> \in Copies
      BY <1>3, CopiesAre DEF Sound
    <3>2. <<j, t>>[1] = j
      OBVIOUS
    <3>3. j \in IdsOf(Copies)
      BY <3>1, <3>2 DEF IdsOf
    <3> QED BY <1>10, <3>3
  <2>11. \A n \in Nodes, j \in Ids : n # c \/ j # page => store'[n][j] = store[n][j]
    BY <2>2, <2>4
  <2> QED BY <1>2, <1>5, <1>6, <1>8, <1>10, <2>2, <2>4, <2>5, <2>7, <2>8, <2>9, <2>10, <2>11 DEF Sound, page
<1> QED BY <1>2, <1>9, <1>10

-----------------------------------------------------------------------------
(* Types. *)

LEMMA StartSound == Init => Sound
<1> SUFFICES ASSUME Init
    PROVE  Sound
  OBVIOUS
<1>1. Empty \in Stores /\ \A i \in Ids : Empty[i].c = 0
  BY DEF Empty, Stores, Absent
<1>2. Types
  <2>1. <<>> \in Seq(Messages) /\ <<>> \in Seq(Messages \cup {Connected})
    BY EmptySeq
  <2>2. 0 \in 0 .. MaxWrites /\ 0 \in 0 .. MaxBreaks /\ 0 \in 0 .. MaxCrashes
    BY BoundsAssumption
  <2> QED BY <1>1, <2>1, <2>2 DEF Init, Types
<1>3. Processes
  BY DEF Init, Processes
<1>4. CounterCovers
  <2>1. \A n \in Nodes : store[n] = Empty /\ counter[n] = 0
    BY DEF Init
  <2>2. \A n \in Nodes, i \in Ids : store[n][i].c = 0
    BY <1>1, <2>1
  <2> QED BY <2>1, <2>2 DEF CounterCovers
<1> QED BY <1>2, <1>3, <1>4 DEF Sound

LEMMA SoundStep ==
    ASSUME Sound, [Next]_vars
    PROVE  Sound'
<1>1. CASE UNCHANGED vars
  BY <1>1 DEF vars, clientVars, wireVars, boundVars, Sound, Types, Processes, CounterCovers
<1>2. ASSUME NEW c \in Clients, ClientHandle(c)
      PROVE  Sound'
  <2>1. Takes(c)
    BY <1>2 DEF ClientHandle, Takes
  <2> DEFINE frame == Head(inbox[c])
  <2>2. \/ frame.t = "connected" /\ HandleConnected(c)
        \/ frame.t = "hello" /\ HandleHello(c, frame.pages)
        \/ frame.t = "records" /\ HandleRecords(c, frame.batch)
    BY <1>2 DEF ClientHandle
  <2> QED BY <2>1, <2>2, ConnectedEffect, HelloEffect, RecordsEffect
<1>3. ASSUME NEW c \in Clients, ServerHandle(c)
      PROVE  Sound'
  <2>1. ServerTakes(c)
    BY <1>3 DEF ServerHandle, ServerTakes
  <2> DEFINE frame == Head(outbox[c])
  <2>2. \/ frame.t = "hello" /\ AnswerHello(c, frame.pages)
        \/ frame.t = "records" /\ RelayRecords(c, frame.batch)
    BY <1>3 DEF ServerHandle
  <2> QED BY <2>1, <2>2, AnswerEffect, RelayEffect
<1>4. ASSUME NEW c \in Clients, Select(c)
      PROVE  Sound'
  BY <1>4 DEF Select, wireVars, boundVars, Sound, Types, Processes, CounterCovers
<1>5. CASE Next
  BY <1>2, <1>3, <1>4, <1>5, EditEffect, AgentWriteEffect, ConnectEffect, DisconnectEffect,
     RestartEffect, CrashEffect, StartEffect DEF Next
<1> QED BY <1>1, <1>5

\* What a client's editor may be left with: nothing of a purged page, or the
\* page that was provisional.
LEMMA EditorStep ==
    ASSUME Editors, NEW c \in Clients, NEW X, X \subseteq Pages, X \subseteq {SeedOf[c]},
           purged' = [purged EXCEPT ![c] = X] \/ purged' = purged
    PROVE  Editors'
BY DEF Editors

LEMMA EditorsStep ==
    ASSUME Sound, Editors, [Next]_vars
    PROVE  Editors'
<1>1. /\ provisional \in [Clients -> SUBSET Pages] /\ purged \in [Clients -> SUBSET Pages]
      /\ \A c \in Clients : provisional[c] \subseteq {SeedOf[c]} /\ purged[c] \subseteq {SeedOf[c]}
  BY DEF Sound, Types, Processes, Editors
<1>2. purged' = purged => Editors'
  BY DEF Editors
<1>3. ASSUME NEW c \in Clients, NEW loads,
             purged' = [purged EXCEPT ![c] = IF loads THEN {} ELSE @]
      PROVE  Editors'
  <2> DEFINE X == IF loads THEN {} ELSE purged[c]
  <2>1. X \subseteq Pages /\ X \subseteq {SeedOf[c]} /\ purged' = [purged EXCEPT ![c] = X]
    BY <1>1, <1>3
  <2> HIDE DEF X
  <2> QED BY <2>1, EditorStep
<1>4. ASSUME NEW c \in Clients, NEW i \in Ids, NEW deleted \in BOOLEAN, NEW value \in Values,
             Edit(c, i, deleted, value)
      PROVE  Editors'
  <2>1. \E loads \in LoadsAfter(c, i, deleted) :
           purged' = [purged EXCEPT ![c] = IF loads THEN {} ELSE @]
    BY <1>4 DEF Edit
  <2> QED BY <1>3, <2>1
<1>5. ASSUME NEW c \in Clients, Select(c) \/ Crash(c)
      PROVE  Editors'
  <2>1. purged' = [purged EXCEPT ![c] = {}]
    BY <1>5 DEF Select, Crash
  <2> DEFINE X == {}
  <2>2. X \subseteq Pages /\ X \subseteq {SeedOf[c]} /\ purged' = [purged EXCEPT ![c] = X]
    BY <2>1
  <2> HIDE DEF X
  <2> QED BY <2>2, EditorStep
<1>6. ASSUME NEW c \in Clients, ClientHandle(c)
      PROVE  Editors'
  <2> DEFINE frame == Head(inbox[c])
  <2>1. \/ HandleConnected(c)
        \/ HandleHello(c, frame.pages)
        \/ HandleRecords(c, frame.batch)
    BY <1>6 DEF ClientHandle
  <2> HIDE DEF frame
  <2>2. CASE HandleConnected(c)
    BY <1>2, <2>2 DEF HandleConnected, clientVars
  <2>3. CASE HandleRecords(c, frame.batch)
    <3>1. \E loads \in LoadsFirst(store[c], store'[c]) :
             purged' = [purged EXCEPT ![c] = IF loads THEN {} ELSE @]
      BY <2>3 DEF HandleRecords
    <3> QED BY <1>3, <3>1
  <2>4. CASE HandleHello(c, frame.pages)
    <3>1. DropProvisional(c) \/ purged' = purged
      BY <2>4 DEF HandleHello, ConfirmProvisional
    <3>2. CASE DropProvisional(c)
      <4>1. PICK shown \in BOOLEAN :
               purged' = [purged EXCEPT ![c] = IF shown THEN provisional[c] ELSE @]
        BY <3>2 DEF DropProvisional
      <4> DEFINE X == IF shown THEN provisional[c] ELSE purged[c]
      <4>2. X \subseteq Pages /\ X \subseteq {SeedOf[c]} /\ purged' = [purged EXCEPT ![c] = X]
        BY <1>1, <4>1
      <4> HIDE DEF X
      <4> QED BY <4>2, EditorStep
    <3> QED BY <1>2, <3>1, <3>2
  <2> QED BY <2>1, <2>2, <2>3, <2>4
<1>7. ASSUME NEW c \in Clients, Start(c)
      PROVE  Editors'
  <2>1. purged' = purged
    BY <1>7 DEF Start, StartFrom
  <2> QED BY <1>2, <2>1
<1>8. ASSUME NEW c \in Clients, ServerHandle(c) \/ Connect(c) \/ Disconnect(c)
      PROVE  Editors'
  <2>1. purged' = purged
    BY <1>8 DEF ServerHandle, Connect, Disconnect, clientVars
  <2> QED BY <1>2, <2>1
<1>9. ASSUME NEW i \in Ids, NEW deleted \in BOOLEAN, NEW value \in Values,
             AgentWrite(i, deleted, value)
      PROVE  Editors'
  BY <1>2, <1>9 DEF AgentWrite, clientVars
<1>10. CASE ServerRestart
  BY <1>2, <1>10 DEF ServerRestart, clientVars
<1>11. CASE UNCHANGED vars
  BY <1>2, <1>11 DEF vars, clientVars
<1> QED BY <1>4, <1>5, <1>6, <1>7, <1>8, <1>9, <1>10, <1>11 DEF Next

\* What TypeOK says of a frame.
LEMMA FrameType ==
    ASSUME NEW f \in Messages
    PROVE  IsFrame(f) /\ f # Connected
<1>1. CASE \E pages \in Adverts : f = Hello(pages)
  <2>1. PICK pages \in Adverts : f = Hello(pages)
    BY <1>1
  <2>2. DOMAIN pages \subseteq Pages
    BY DEF Adverts
  <2> QED BY <2>1, <2>2 DEF Hello, IsFrame, Connected
<1>2. CASE \E batch \in Batch : f = Update(batch)
  <2>1. PICK batch \in Batch : f = Update(batch)
    BY <1>2
  <2>2. PICK S \in (SUBSET Ids) \ {{}} : batch \in [S -> Record]
    BY DEF Batch
  <2>3. batch # <<>> /\ DOMAIN batch \subseteq Ids /\ \A i \in DOMAIN batch : batch[i] \in Record
    <3>1. DOMAIN batch = S
      BY <2>2
    <3>2. DOMAIN <<>> = {}
      OBVIOUS
    <3> QED BY <2>2, <3>1, <3>2
  <2> QED BY <2>1, <2>3 DEF Update, IsFrame, Connected
<1> QED BY <1>1, <1>2 DEF Messages

LEMMA TypesOfSound == Sound /\ Editors => TypeOK
<1> SUFFICES ASSUME Sound, Editors
    PROVE  TypeOK
  OBVIOUS
<1>1. ASSUME NEW c \in Clients
      PROVE  /\ link[c] => running[c]
             /\ Cardinality(provisional[c]) <= 1 /\ Cardinality(purged[c]) <= 1
             /\ \A k \in DOMAIN outbox[c] : IsFrame(outbox[c][k]) /\ outbox[c][k] # Connected
             /\ \A k \in DOMAIN inbox[c] : IsFrame(inbox[c][k])
  <2>1. link[c] => running[c]
    BY DEF Sound, Processes
  <2>2. /\ provisional[c] = {} \/ provisional[c] = {SeedOf[c]}
        /\ purged[c] = {} \/ purged[c] = {SeedOf[c]}
    BY DEF Sound, Processes, Editors
  <2>3. Cardinality(provisional[c]) <= 1 /\ Cardinality(purged[c]) <= 1
    <3>1. Cardinality({}) = 0 /\ Cardinality({SeedOf[c]}) = 1
      BY FS_EmptySet, FS_Singleton
    <3> QED BY <2>2, <3>1
  <2>4. /\ \A k \in DOMAIN outbox[c] : outbox[c][k] \in Messages
        /\ \A k \in DOMAIN inbox[c] : inbox[c][k] \in Messages \cup {Connected}
    <3>1. Out(c) \subseteq Messages /\ In(c) \subseteq Messages \cup {Connected}
      BY QueueTypes DEF Sound
    <3> QED BY <3>1 DEF Out, In, ToSet
  <2>5. \A k \in DOMAIN inbox[c] : IsFrame(inbox[c][k])
    BY <2>4, FrameType DEF IsFrame
  <2> QED BY <2>1, <2>3, <2>4, <2>5, FrameType
<1> QED BY <1>1 DEF Sound, Types, Editors, TypeOK

LEMMA SoundAlways == Spec => [](Sound /\ Editors)
<1>1. Init => Sound /\ Editors
  BY StartSound DEF Init, Editors
<1>2. Sound /\ Editors /\ [Next]_vars => (Sound /\ Editors)'
  BY SoundStep, EditorsStep
<1> QED BY <1>1, <1>2, PTL DEF Spec

\* Every variable has its type in every state: only a running client is
\* connected, no frame of records is empty, and no client sends itself a signal.
THEOREM SyncTypes == Spec => []TypeOK
BY SoundAlways, TypesOfSound, PTL

-----------------------------------------------------------------------------
(* Each action keeps the invariant, as long as nothing is typed into a *)
(* provisional page.                                                    *)

\* All parts but OnTheWay.
Copied == SentBehind /\ AuthorHolds /\ Withheld /\ SeedProvisional /\ VersionsDiffer

LEMMA CopiedStep ==
    ASSUME Inv, Sound', NEW N, Sources(N), Forward, Written(N),
           \A c \in Clients : provisional'[c] \subseteq provisional[c],
           \A c \in Clients, i \in Ids :
              i \in dirty'[c] => i \in dirty[c] \/ PageOf[i] \notin provisional'[c],
           \A c \in Clients, i \in Ids, r \in Record :
              <<i, r>> \in N => PageOf[i] \notin provisional'[c],
           \A i \in Ids, r \in Record :
              <<i, r>> \in N /\ i \in Seeds => \E s \in Record : Copy(i, s),
           SeedProvisional' \/
              /\ crashes' = crashes /\ unconfirmed' \subseteq unconfirmed
              /\ \A c \in Clients : SeedOf[c] \in unconfirmed' /\ SeedOf[c] \in provisional[c] =>
                    SeedOf[c] \in provisional'[c] \/ Gone(SeedOf[c])'
    PROVE  Copied'
<1>1. /\ Types /\ Types' /\ CounterCovers
      /\ SentBehind /\ AuthorHolds /\ Withheld /\ SeedProvisional /\ VersionsDiffer
  BY DEF Inv, Sound
<1>2. SentBehind'
  BY <1>1, SentBehindStep
<1>3. AuthorHolds'
  BY <1>1, AuthorHoldsStep
<1>5. VersionsDiffer'
  BY <1>1, VersionsStep
<1>6. Withheld'
  BY <1>1, WithheldStep
<1>7. SeedProvisional'
  BY <1>1, SeedStep
<1> QED BY <1>2, <1>3, <1>5, <1>6, <1>7 DEF Copied

\* A step that writes nothing and leaves seeds and provisional pages alone.
LEMMA QuietStep ==
    ASSUME Inv, Sound', Sources({}), Forward,
           UNCHANGED <<dirty, provisional, crashes, unconfirmed>>
    PROVE  Copied'
<1>1. Written({})
  BY DEF Written
<1> QED BY <1>1, CopiedStep

\* What one side lacks stays on its way, if the frames that bring it do.
LEMMA DownKept ==
    ASSUME Types, Types', NEW c \in Clients, NEW i \in Ids, Down(c, i),
           AtLeast(store'[c][i], store[c][i]), store'[Server][i] = store[Server][i],
           Connected \in In(c) => Connected \in In(c)',
           Asks(Out(c)) => Asks(Out(c))' \/ AtLeast(store'[c][i], store[Server][i]),
           Carries(In(c), i, store[Server][i]) =>
              Carries(In(c)', i, store[Server][i]) \/ AtLeast(store'[c][i], store[Server][i])
    PROVE  Down(c, i)'
<1>1. /\ store[c][i] \in Record \cup {Absent} /\ store'[c][i] \in Record \cup {Absent}
      /\ store[Server][i] \in Record \cup {Absent}
  BY StoreEntry DEF Types, Nodes
<1>2. AtLeast(store[c][i], store[Server][i]) => AtLeast(store'[c][i], store[Server][i])
  BY <1>1, AtLeastTransitive
<1> QED BY <1>2 DEF Down

LEMMA UpKept ==
    ASSUME Types, Types', NEW c \in Clients, NEW i \in Ids, Up(c, i),
           AtLeast(store'[Server][i], store[Server][i]), store'[c][i] = store[c][i],
           Asks(In(c)) => Asks(In(c))' \/ AtLeast(store'[Server][i], store[c][i]),
           Carries(Out(c), i, store[c][i]) =>
              Carries(Out(c)', i, store[c][i]) \/ AtLeast(store'[Server][i], store[c][i])
    PROVE  Up(c, i)'
<1>1. /\ store[Server][i] \in Record \cup {Absent} /\ store'[Server][i] \in Record \cup {Absent}
      /\ store[c][i] \in Record \cup {Absent}
  BY StoreEntry DEF Types, Nodes
<1>2. AtLeast(store[Server][i], store[c][i]) => AtLeast(store'[Server][i], store[c][i])
  BY <1>1, AtLeastTransitive
<1> QED BY <1>2 DEF Up

\* What may be written is in no other client's provisional page.
LEMMA NotProvisional ==
    ASSUME Sound, Withheld, NEW n \in Nodes, NEW open, NEW i \in Ids, NEW d \in Clients, d # n,
           PageOf[i] \in open => PageOf[i] # SeedOf[d],
           \/ store[n][i] \in Record
           \/ i \notin Seeds /\ (i \in Pages \/ PageOf[i] \in open \/ store[n][PageOf[i]] \in Record)
    PROVE  PageOf[i] \notin provisional[d]
<1> SUFFICES ASSUME PageOf[i] \in provisional[d]
    PROVE  FALSE
  OBVIOUS
<1>1. /\ PageOf[i] \in Ids /\ PageOf[PageOf[i]] = PageOf[i]
      /\ i \in Pages => PageOf[i] = i
  BY PageOfAssumption, PageRecordsAssumption
<1>2. ASSUME NEW j \in Ids, PageOf[j] \in provisional[d], store[n][j] \in Record
      PROVE  FALSE
  <2>1. PICK r \in Record : r = store[n][j]
    BY <1>2
  <2>2. At(n, j, r)
    BY <2>1 DEF At
  <2> QED BY <1>2, <2>2 DEF Withheld
<1>3. PageOf[i] = SeedOf[d] /\ SeedOf[d] \in Seeds
  BY DEF Sound, Processes, Seeds
<1> QED BY <1>1, <1>2, <1>3

LEMMA EditInv ==
    ASSUME Inv, Editors, ~EditsProvisional, NEW c \in Clients, NEW i0 \in Ids,
           NEW deleted \in BOOLEAN, NEW value \in Values, Edit(c, i0, deleted, value)
    PROVE  Inv'
<1> DEFINE ids == dirty[c] \cup {i0}
           F == ToSet(Frames(store'[c], ByPage(ids)))
<1>1. /\ Sound'
      /\ Brings(F, store'[c], ids)
      /\ Out(c)' = Out(c) \cup F
      /\ \A d \in Clients : d # c => Out(d)' = Out(d)
      /\ \A d \in Clients : In(d)' = In(d)
  BY EditEffect DEF Inv
<1> HIDE DEF F, ids
<1>2. /\ Put(c, purged[c], i0, deleted, value) /\ c \in Nodes /\ c # Server /\ Server \in Nodes
      /\ PageOf[i0] \notin provisional[c]
      /\ dirty' = [dirty EXCEPT ![c] = {}]
      /\ UNCHANGED <<provisional, link, unconfirmed, crashes>>
  BY NodesAssumption DEF Edit, Nodes
<1>3. PICK r \in Record : Writes(c, purged[c], i0, r)
  BY <1>2, PutWrites DEF Inv
<1> DEFINE N == {<<i0, r>>}
<1>4. /\ Written(N) /\ Forward
      /\ \A m \in Nodes, j \in Ids, s \in Record : At(m, j, s)' => At(m, j, s) \/ <<j, s>> \in N
      /\ AtLeast(store'[c][i0], store[c][i0])
      /\ i0 \in Seeds => \E s \in Record : At(c, i0, s)
  <2>1. Sound /\ c \in Nodes
    BY <1>2 DEF Inv
  <2>2. N = {<<i0, r>>}
    OBVIOUS
  <2> HIDE DEF N
  <2> QED BY <1>3, <2>1, <2>2, PutKeeps
<1>5. /\ store'[c][i0] = r /\ store' \in [Nodes -> Stores]
      /\ \A m \in Nodes, j \in Ids : m # c \/ j # i0 => store'[m][j] = store[m][j]
      /\ \/ store[c][i0] \in Record
         \/ i0 \notin Seeds /\ (i0 \in Pages \/ PageOf[i0] \in purged[c] \/ store[c][PageOf[i0]] \in Record)
  BY <1>3 DEF Writes
<1>6. \A j \in ids : PageOf[j] \notin provisional'[c]
  <2>1. ASSUME NEW j \in dirty[c]
        PROVE  PageOf[j] \notin provisional[c]
    <3>1. j \in Ids
      BY DEF Inv, Sound, Types
    <3> QED BY <3>1 DEF Inv, Withheld
  <2> QED BY <1>2, <2>1 DEF ids
<1>7. Sources(N)
  <2>1. ASSUME NEW d \in Clients, NEW i \in Ids, NEW s \in Record
        PROVE  /\ Carries(Out(d), i, s)' =>
                     Carries(Out(d), i, s) \/ (At(d, i, s)' /\ PageOf[i] \notin provisional'[d])
               /\ Carries(In(d), i, s)' => Carries(In(d), i, s)
               /\ Claims(Out(d), i, s)' => Claims(Out(d), i, s)
               /\ Claims(In(d), i, s)' => Claims(In(d), i, s)
    <3>1. CASE d # c
      BY <1>1, <3>1
    <3>2. CASE d = c
      <4>1. Carries(Out(c)', i, s) => Carries(Out(c), i, s) \/ Carries(F, i, s)
        BY <1>1, FrameSets
      <4>2. Claims(Out(c)', i, s) => Claims(Out(c), i, s) \/ Claims(F, i, s)
        BY <1>1, FrameSets
      <4>3. ~Claims(F, i, s) /\ (Carries(F, i, s) => i \in ids /\ s = store'[c][i])
        BY <1>1 DEF Brings
      <4>4. Carries(F, i, s) => At(c, i, s)' /\ PageOf[i] \notin provisional'[c]
        BY <1>6, <4>3 DEF At
      <4> QED BY <1>1, <3>2, <4>1, <4>2, <4>3, <4>4
    <3> QED BY <3>1, <3>2
  <2> QED BY <1>4, <2>1 DEF Sources
<1>8. \A d \in Clients : PageOf[i0] \notin provisional'[d]
  <2>1. ASSUME NEW d \in Clients, d # c
        PROVE  PageOf[i0] \notin provisional[d]
    <3> DEFINE open == purged[c]
    <3>1. PageOf[i0] \in open => PageOf[i0] # SeedOf[d]
      BY <2>1, SeedAssumption DEF Editors
    <3>2. \/ store[c][i0] \in Record
          \/ i0 \notin Seeds /\ (i0 \in Pages \/ PageOf[i0] \in open \/ store[c][PageOf[i0]] \in Record)
      BY <1>5
    <3> HIDE DEF open
    <3> QED BY <1>2, <2>1, <3>1, <3>2, NotProvisional DEF Inv
  <2> QED BY <1>2, <2>1
<1>9. i0 \in Seeds => \E s \in Record : Copy(i0, s)
  BY <1>2, <1>4 DEF Copy
<1>10. \A d \in Clients : dirty'[d] \subseteq dirty[d]
  BY <1>2 DEF Inv, Sound, Types
<1>11. Copied'
  <2>1. \A i \in Ids, s \in Record : <<i, s>> \in N => i = i0
    OBVIOUS
  <2> HIDE DEF N
  <2> QED BY <1>1, <1>2, <1>4, <1>7, <1>8, <1>9, <1>10, <2>1, CopiedStep
<1>12. ASSUME NEW d \in Clients, link'[d], NEW i \in Ids
       PROVE  Down(d, i)' /\ Up(d, i)'
  <2>1. Down(d, i) /\ Up(d, i)
    BY <1>2, <1>12 DEF Inv, OnTheWay
  <2>2. Types /\ Types'
    BY <1>1 DEF Inv, Sound
  <2>3. /\ store[d][i] \in Record \cup {Absent} /\ store[Server][i] \in Record \cup {Absent}
    BY <2>2, StoreEntry DEF Types, Nodes
  <2>4. AtLeast(store[d][i], store[d][i]) /\ AtLeast(store[Server][i], store[Server][i])
    BY <2>3, AtLeastFacts
  <2>5. store'[Server][i] = store[Server][i]
    BY <1>2, <1>5
  <2>6. CASE d # c
    <3>1. store'[d][i] = store[d][i]
      BY <1>5, <2>6 DEF Nodes
    <3> QED BY <1>1, <2>1, <2>2, <2>4, <2>5, <2>6, <3>1, DownKept, UpKept
  <2>7. CASE d = c
    <3>1. AtLeast(store'[c][i], store[c][i])
      BY <1>2, <1>5, <1>4, <2>4, <2>7
    <3>2. Asks(Out(c)) => Asks(Out(c)')
      BY <1>1, FrameSets
    <3>3. Down(c, i)'
      BY <1>1, <2>1, <2>2, <2>5, <2>7, <3>1, <3>2, DownKept
    <3>4. CASE i = i0
      <4>1. i0 \in ids
        BY DEF ids
      <4>2. Carries(F, i0, store'[c][i0])
        BY <1>1, <1>5, <4>1 DEF Brings
      <4>3. Carries(Out(c)', i0, store'[c][i0])
        BY <1>1, <4>2, FrameSets
      <4> QED BY <2>7, <3>3, <3>4, <4>3 DEF Up
    <3>5. CASE i # i0
      <4>1. store'[c][i] = store[c][i]
        BY <1>2, <1>5, <3>5
      <4>2. Carries(Out(c), i, store[c][i]) => Carries(Out(c)', i, store[c][i])
        BY <1>1, FrameSets
      <4>3. Up(c, i)'
        BY <1>1, <2>1, <2>2, <2>4, <2>5, <2>7, <4>1, <4>2, UpKept
      <4> QED BY <2>7, <3>3, <4>3
    <3> QED BY <3>4, <3>5
  <2> QED BY <2>6, <2>7
<1>13. OnTheWay'
  BY <1>12 DEF OnTheWay
<1> QED BY <1>1, <1>11, <1>13 DEF Inv, Copied

\* Where neither record changes, nothing on its way is lost.
LEMMA WayKept ==
    ASSUME NEW c \in Clients, NEW i \in Ids, Down(c, i), Up(c, i),
           Out(c) \subseteq Out(c)', In(c) \subseteq In(c)',
           store'[c][i] = store[c][i], store'[Server][i] = store[Server][i]
    PROVE  Down(c, i)' /\ Up(c, i)'
<1>1. Asks(Out(c)) => Asks(Out(c)')
  BY DEF Asks
<1>2. Asks(In(c)) => Asks(In(c)')
  BY DEF Asks
<1>3. Carries(In(c), i, store[Server][i]) => Carries(In(c)', i, store[Server][i])
  BY LostFrames
<1>4. Carries(Out(c), i, store[c][i]) => Carries(Out(c)', i, store[c][i])
  BY LostFrames
<1>5. Down(c, i)'
  BY <1>1, <1>3 DEF Down
<1>6. Up(c, i)'
  BY <1>2, <1>4 DEF Up
<1> QED BY <1>5, <1>6

LEMMA AgentWriteInv ==
    ASSUME Inv, NEW i0 \in Ids, NEW deleted \in BOOLEAN, NEW value \in Values,
           AgentWrite(i0, deleted, value)
    PROVE  Inv'
<1> DEFINE F == ToSet(Frames(store'[Server], {{i0}}))
<1>1. /\ Sound'
      /\ Brings(F, store'[Server], {i0})
      /\ \A d \in Clients : Out(d)' = Out(d)
      /\ \A d \in Clients : In(d)' = IF link[d] THEN In(d) \cup F ELSE In(d)
  BY AgentWriteEffect DEF Inv
<1> HIDE DEF F
<1>2. /\ Put(Server, {}, i0, deleted, value) /\ Server \in Nodes
      /\ UNCHANGED <<dirty, provisional, link, unconfirmed, crashes>>
  BY DEF AgentWrite, Nodes, clientVars
<1>3. PICK r \in Record : Writes(Server, {}, i0, r)
  BY <1>2, PutWrites DEF Inv
<1>4. /\ store'[Server][i0] = r /\ store' \in [Nodes -> Stores]
      /\ \A m \in Nodes, j \in Ids : m # Server \/ j # i0 => store'[m][j] = store[m][j]
      /\ \/ store[Server][i0] \in Record
         \/ i0 \notin Seeds /\ (i0 \in Pages \/ PageOf[i0] \in {} \/ store[Server][PageOf[i0]] \in Record)
  BY <1>3 DEF Writes
<1> DEFINE N == {<<i0, r>>}
<1>5. /\ Written(N) /\ Forward
      /\ \A m \in Nodes, j \in Ids, s \in Record : At(m, j, s)' => At(m, j, s) \/ <<j, s>> \in N
      /\ AtLeast(store'[Server][i0], store[Server][i0])
      /\ i0 \in Seeds => \E s \in Record : At(Server, i0, s)
  <2>1. Sound
    BY DEF Inv
  <2>2. N = {<<i0, r>>}
    OBVIOUS
  <2> HIDE DEF N
  <2> QED BY <1>2, <1>3, <2>1, <2>2, PutKeeps
<1>6. \A i \in Ids, s \in Record : <<i, s>> \in N => i = i0
  OBVIOUS
<1> HIDE DEF N
<1>7. Sources(N)
  <2>1. ASSUME NEW d \in Clients, NEW i \in Ids, NEW s \in Record
        PROVE  /\ Carries(In(d), i, s)' => Carries(In(d), i, s) \/ At(Server, i, s)'
               /\ Claims(In(d), i, s)' => Claims(In(d), i, s)
    <3>1. /\ Carries(In(d)', i, s) => Carries(In(d), i, s) \/ Carries(F, i, s)
          /\ Claims(In(d)', i, s) => Claims(In(d), i, s) \/ Claims(F, i, s)
      BY <1>1, FrameSets
    <3>2. ~Claims(F, i, s) /\ (Carries(F, i, s) => s = store'[Server][i])
      BY <1>1 DEF Brings
    <3> QED BY <3>1, <3>2 DEF At
  <2> QED BY <1>1, <1>5, <2>1 DEF Sources
<1>8. \A d \in Clients : PageOf[i0] \notin provisional'[d]
  <2>1. ASSUME NEW d \in Clients
        PROVE  PageOf[i0] \notin provisional[d]
    <3> DEFINE open == {}
    <3>1. d # Server /\ (PageOf[i0] \in open => PageOf[i0] # SeedOf[d])
      BY NodesAssumption
    <3>2. \/ store[Server][i0] \in Record
          \/ i0 \notin Seeds /\ (i0 \in Pages \/ PageOf[i0] \in open \/ store[Server][PageOf[i0]] \in Record)
      BY <1>4
    <3> HIDE DEF open
    <3> QED BY <1>2, <3>1, <3>2, NotProvisional DEF Inv
  <2> QED BY <1>2, <2>1
<1>9. i0 \in Seeds => \E s \in Record : Copy(i0, s)
  BY <1>2, <1>5 DEF Copy
<1>10. Copied'
  BY <1>1, <1>2, <1>5, <1>6, <1>7, <1>8, <1>9, CopiedStep
<1>11. ASSUME NEW d \in Clients, link'[d], NEW i \in Ids
       PROVE  Down(d, i)' /\ Up(d, i)'
  <2>1. /\ Down(d, i) /\ Up(d, i) /\ Types /\ Types'
        /\ Out(d)' = Out(d) /\ In(d)' = In(d) \cup F
    BY <1>1, <1>2, <1>11 DEF Inv, OnTheWay, Sound
  <2>2. d \in Nodes /\ d # Server
    BY NodesAssumption DEF Nodes
  <2>3. store'[d][i] = store[d][i]
    BY <1>4, <2>2
  <2>4. CASE i # i0
    <3>1. store'[Server][i] = store[Server][i]
      BY <1>2, <1>4, <2>4
    <3> QED BY <2>1, <2>3, <3>1, WayKept
  <2>5. CASE i = i0
    <3>1. Carries(F, i0, store'[Server][i0])
      BY <1>1, <1>4 DEF Brings
    <3>2. Down(d, i)'
      BY <2>1, <2>5, <3>1, FrameSets DEF Down
    <3>3. Asks(In(d)) => Asks(In(d)')
      BY <2>1, FrameSets
    <3>4. Up(d, i)'
      BY <1>5, <2>1, <2>3, <2>5, <3>3, UpKept
    <3> QED BY <3>2, <3>4
  <2> QED BY <2>4, <2>5
<1>12. OnTheWay'
  BY <1>11 DEF OnTheWay
<1> QED BY <1>1, <1>10, <1>12 DEF Inv, Copied

\* Stores that stay do not go back.
LEMMA StillForward ==
    ASSUME Types, store' = store
    PROVE  Forward
<1>1. \A n \in Nodes, i \in Ids : AtLeast(store[n][i], store[n][i])
  BY StoreEntry, AtLeastFacts DEF Types
<1> QED BY <1>1 DEF Forward

LEMMA ConnectedInv ==
    ASSUME Inv, NEW c \in Clients, Takes(c), Head(inbox[c]).t = "connected", HandleConnected(c)
    PROVE  Inv'
<1> DEFINE hello == Hello(DigestsOf(c))
<1>1. /\ Sound' /\ store' = store
      /\ In(c) = {Connected} \cup In(c)'
      /\ Out(c)' = Out(c) \cup {hello}
      /\ \A d \in Clients : d # c => Out(d)' = Out(d) /\ In(d)' = In(d)
      /\ \A i, r : Claims({hello}, i, r) =>
            /\ store[c][i].c = r.c /\ store[c][i].client = r.client
            /\ store[c][i] \in Record /\ i \in Ids /\ PageOf[i] \notin provisional[c]
  BY ConnectedEffect DEF Inv
<1>2. (\A i, r : ~Carries({hello}, i, r)) /\ Asks({hello})
  BY OneFrame
<1> HIDE DEF hello
<1>3. Types /\ Types' /\ UNCHANGED <<dirty, provisional, link, crashes, unconfirmed>>
  BY <1>1 DEF HandleConnected, Takes, clientVars, boundVars, Inv, Sound
<1>4. Sources({})
  <2>1. ASSUME NEW d \in Clients, NEW i \in Ids, NEW r \in Record
        PROVE  /\ Carries(Out(d), i, r)' => Carries(Out(d), i, r)
               /\ Carries(In(d), i, r)' => Carries(In(d), i, r)
               /\ Claims(Out(d), i, r)' =>
                     \/ Claims(Out(d), i, r)
                     \/ /\ AtLeast(store'[d][i], r)
                        /\ store'[d][i] \in Record /\ PageOf[i] \notin provisional'[d]
               /\ Claims(In(d), i, r)' => Claims(In(d), i, r)
    <3>1. CASE d # c
      BY <1>1, <3>1
    <3>2. CASE d = c
      <4>1. /\ Carries(Out(c)', i, r) => Carries(Out(c), i, r)
            /\ Claims(Out(c)', i, r) => Claims(Out(c), i, r) \/ Claims({hello}, i, r)
        <5>1. Out(c)' = Out(c) \cup {hello} /\ ~Carries({hello}, i, r)
          BY <1>1, <1>2
        <5> QED BY <5>1, FrameSets
      <4>2. /\ Carries(In(c)', i, r) => Carries(In(c), i, r)
            /\ Claims(In(c)', i, r) => Claims(In(c), i, r)
        <5>1. In(c) = {Connected} \cup In(c)'
          BY <1>1
        <5> QED BY <5>1, FrameSets
      <4>3. ASSUME Claims({hello}, i, r)
            PROVE  AtLeast(store'[c][i], r)
        BY <1>1, <4>3, AtLeastFacts, ByVersion
      <4>4. Claims({hello}, i, r) => store'[c][i] \in Record /\ PageOf[i] \notin provisional'[c]
        BY <1>1, <1>3
      <4> QED BY <3>2, <4>1, <4>2, <4>3, <4>4
    <3> QED BY <3>1, <3>2
  <2> QED BY <1>1, <2>1 DEF Sources, At
<1>5. Copied'
  BY <1>1, <1>3, <1>4, StillForward, QuietStep
<1>6. ASSUME NEW d \in Clients, link'[d], NEW i \in Ids
      PROVE  Down(d, i)' /\ Up(d, i)'
  <2>1. Down(d, i) /\ Up(d, i)
    BY <1>3, <1>6 DEF Inv, OnTheWay
  <2>2. CASE d # c
    BY <1>1, <2>1, <2>2, WayKept
  <2>3. CASE d = c
    <3>1. Asks(Out(c)')
      BY <1>1, <1>2, FrameSets
    <3>2. Asks(In(c)) => Asks(In(c)')
      BY <1>1, FrameSets, OneFrame
    <3>3. Carries(Out(c), i, store[c][i]) => Carries(Out(c)', i, store[c][i])
      BY <1>1, FrameSets
    <3>4. Down(c, i)' /\ Up(c, i)'
      BY <1>1, <2>1, <2>3, <3>1, <3>2, <3>3 DEF Down, Up
    <3> QED BY <2>3, <3>4
  <2> QED BY <2>2, <2>3
<1>7. OnTheWay'
  BY <1>6 DEF OnTheWay
<1> QED BY <1>1, <1>5, <1>7 DEF Inv, Copied

LEMMA RecordsInv ==
    ASSUME Inv, NEW c \in Clients, Takes(c), Head(inbox[c]).t = "records",
           HandleRecords(c, Head(inbox[c]).batch)
    PROVE  Inv'
<1>1. PICK batch \in Batch :
         /\ Sound'
         /\ store'[c] = Merged(store[c], batch)
         /\ \A m \in Nodes : m # c => store'[m] = store[m]
         /\ In(c) = {Update(batch)} \cup In(c)'
         /\ Out(c)' = Out(c)
         /\ \A d \in Clients : d # c => Out(d)' = Out(d) /\ In(d)' = In(d)
  BY RecordsEffect DEF Inv
<1>2. /\ Types /\ Types' /\ SentBehind /\ c \in Nodes /\ c # Server /\ Server \in Nodes
      /\ UNCHANGED <<dirty, provisional, link, crashes, unconfirmed>>
  BY <1>1, NodesAssumption DEF HandleRecords, Takes, clientVars, boundVars, Inv, Sound, Nodes
<1>3. store \in [Nodes -> Stores]
  BY <1>2 DEF Types
<1>4. /\ DOMAIN batch \subseteq Ids /\ \A i \in DOMAIN batch : batch[i] \in Record
      /\ Applied(store[c], batch) \subseteq DOMAIN batch
      /\ \A i \in Ids :
            /\ AtLeast(store'[c][i], store[c][i])
            /\ i \in DOMAIN batch => AtLeast(store'[c][i], batch[i])
            /\ i \in Applied(store[c], batch) => store'[c][i] = batch[i]
            /\ i \notin Applied(store[c], batch) => store'[c][i] = store[c][i]
  BY <1>1, <1>2, <1>3, MergedFacts
<1> DEFINE G == {Update(batch)}
<1>5. /\ In(c) = G \cup In(c)' /\ ~Asks(G) /\ Connected \notin G
      /\ \A i, r : Carries(G, i, r) <=> i \in DOMAIN batch /\ batch[i] = r
  BY <1>1, OneFrame
<1> HIDE DEF G
<1>6. \A i \in DOMAIN batch : Carries(In(c), i, batch[i]) /\ AtLeast(store[Server][i], batch[i])
  <2>1. \A i \in DOMAIN batch : Carries(In(c), i, batch[i])
    BY <1>5, FrameSets
  <2> QED BY <1>2, <1>4, <2>1 DEF SentBehind
<1>7. Sources({})
  <2>1. ASSUME NEW n \in Nodes, NEW i \in Ids, NEW r \in Record, At(n, i, r)'
        PROVE  At(n, i, r) \/ Sent(i, r)
    <3>1. CASE n # c
      BY <1>1, <2>1, <3>1 DEF At
    <3>2. CASE n = c /\ i \in Applied(store[c], batch)
      BY <1>4, <1>6, <2>1, <3>2 DEF At, Sent
    <3>3. CASE n = c /\ i \notin Applied(store[c], batch)
      BY <1>4, <2>1, <3>3 DEF At
    <3> QED BY <3>1, <3>2, <3>3
  <2>2. ASSUME NEW d \in Clients
        PROVE  Out(d)' = Out(d) /\ In(d)' \subseteq In(d)
    BY <1>1
  <2>3. ASSUME NEW d \in Clients, NEW i \in Ids, NEW r \in Record
        PROVE  /\ Carries(In(d)', i, r) => Carries(In(d), i, r)
               /\ Claims(In(d)', i, r) => Claims(In(d), i, r)
    BY <2>2, LostFrames
  <2> QED BY <2>1, <2>2, <2>3 DEF Sources
<1>8. Forward
  <2> SUFFICES ASSUME NEW n \in Nodes, NEW i \in Ids
      PROVE  AtLeast(store'[n][i], store[n][i])
    BY DEF Forward
  <2>1. AtLeast(store[n][i], store[n][i])
    BY <1>3, StoreEntry, AtLeastFacts
  <2> QED BY <1>1, <1>4, <2>1
<1>9. Copied'
  BY <1>1, <1>2, <1>7, <1>8, QuietStep
<1>10. ASSUME NEW d \in Clients, link'[d], NEW i \in Ids
      PROVE  Down(d, i)' /\ Up(d, i)'
  <2>1. Down(d, i) /\ Up(d, i) /\ d \in Nodes
    BY <1>2, <1>10 DEF Inv, OnTheWay, Nodes
  <2>2. store'[Server][i] = store[Server][i]
    BY <1>1, <1>2
  <2>3. CASE d # c
    BY <1>1, <2>1, <2>2, <2>3, WayKept
  <2>4. CASE d = c
    <3>1. Connected \in In(c) => Connected \in In(c)'
      BY <1>5
    <3>2. Carries(In(c), i, store[Server][i]) =>
             Carries(In(c)', i, store[Server][i]) \/ AtLeast(store'[c][i], store[Server][i])
      <4>1. \A r : Carries(In(c), i, r) => Carries(G, i, r) \/ Carries(In(c)', i, r)
        BY <1>5, FrameSets
      <4>2. Carries(G, i, store[Server][i]) => AtLeast(store'[c][i], store[Server][i])
        BY <1>4, <1>5
      <4> QED BY <4>1, <4>2
    <3>3. Down(c, i)'
      BY <1>1, <1>2, <1>4, <2>1, <2>2, <2>4, <3>1, <3>2, DownKept
    <3>4. Asks(In(c)) => Asks(In(c)')
      BY <1>5, FrameSets
    <3>5. CASE i \in Applied(store[c], batch)
      <4>1. Up(c, i)'
        BY <1>4, <1>6, <2>2, <3>5 DEF Up
      <4> QED BY <2>4, <3>3, <4>1
    <3>6. CASE i \notin Applied(store[c], batch)
      <4>1. store'[c][i] = store[c][i] /\ AtLeast(store[Server][i], store[Server][i])
        BY <1>2, <1>3, <1>4, <3>6, StoreEntry, AtLeastFacts
      <4>2. Up(c, i)'
        BY <1>1, <1>2, <2>1, <2>2, <2>4, <3>4, <4>1, UpKept
      <4> QED BY <2>4, <3>3, <4>2
    <3> QED BY <3>5, <3>6
  <2> QED BY <2>3, <2>4
<1>11. OnTheWay'
  BY <1>10 DEF OnTheWay
<1> QED BY <1>1, <1>9, <1>11 DEF Inv, Copied

LEMMA ConnectInv ==
    ASSUME Inv, NEW c \in Clients, Connect(c)
    PROVE  Inv'
<1> DEFINE hello == Hello(Digests(store[Server]))
           new == {Connected, hello}
<1>1. /\ Sound' /\ store' = store
      /\ link'[c] /\ \A d \in Clients : d # c => link'[d] = link[d]
      /\ In(c)' = In(c) \cup new
      /\ \A d \in Clients : d # c => In(d)' = In(d)
      /\ \A d \in Clients : Out(d)' = Out(d)
      /\ \A i, r : Claims({hello}, i, r) =>
            /\ store[Server][i].c = r.c /\ store[Server][i].client = r.client
            /\ i \in Ids /\ store[Server][i] \in Record
  BY ConnectEffect DEF Inv
<1>2. /\ \A i, r : ~Carries(new, i, r) /\ (Claims(new, i, r) => Claims({hello}, i, r))
      /\ Asks(new) /\ Connected \in new
  <2>1. new = {Connected} \cup {hello}
    OBVIOUS
  <2>2. /\ \A i, r : ~Carries({Connected}, i, r) /\ ~Carries({hello}, i, r) /\ ~Claims({Connected}, i, r)
        /\ Asks({hello})
    BY OneFrame
  <2> HIDE DEF hello
  <2> QED BY <2>1, <2>2, FrameSets
<1> HIDE DEF new, hello
<1>3. Types /\ Types' /\ UNCHANGED <<dirty, provisional, crashes, unconfirmed>>
  BY <1>1 DEF Connect, clientVars, boundVars, Inv, Sound
<1>4. Sources({})
  <2>1. ASSUME NEW d \in Clients, NEW i \in Ids, NEW r \in Record
        PROVE  /\ Carries(In(d), i, r)' => Carries(In(d), i, r)
               /\ Claims(In(d), i, r)' => Claims(In(d), i, r) \/ AtLeast(store'[Server][i], r)
    <3>1. CASE d # c
      BY <1>1, <3>1
    <3>2. CASE d = c
      <4>1. /\ Carries(In(c)', i, r) => Carries(In(c), i, r)
            /\ Claims(In(c)', i, r) => Claims(In(c), i, r) \/ Claims({hello}, i, r)
        <5>1. /\ In(c)' = In(c) \cup new
              /\ ~Carries(new, i, r) /\ (Claims(new, i, r) => Claims({hello}, i, r))
          BY <1>1, <1>2
        <5> QED BY <5>1, FrameSets
      <4>2. ASSUME Claims({hello}, i, r)
            PROVE  AtLeast(store'[Server][i], r)
        BY <1>1, <4>2, AtLeastFacts, ByVersion
      <4> QED BY <3>2, <4>1, <4>2
    <3> QED BY <3>1, <3>2
  <2> QED BY <1>1, <2>1 DEF Sources, At
<1>5. Copied'
  BY <1>1, <1>3, <1>4, StillForward, QuietStep
<1>6. ASSUME NEW d \in Clients, link'[d], NEW i \in Ids
      PROVE  Down(d, i)' /\ Up(d, i)'
  <2>1. CASE d # c
    <3>1. Down(d, i) /\ Up(d, i)
      BY <1>1, <1>6, <2>1 DEF Inv, OnTheWay
    <3> QED BY <1>1, <2>1, <3>1, WayKept
  <2>2. CASE d = c
    <3>1. Asks(In(c)') /\ Connected \in In(c)'
      BY <1>1, <1>2, FrameSets
    <3>2. Down(c, i)' /\ Up(c, i)'
      BY <3>1 DEF Down, Up
    <3> QED BY <2>2, <3>2
  <2> QED BY <2>1, <2>2
<1>7. OnTheWay'
  BY <1>6 DEF OnTheWay
<1> QED BY <1>1, <1>5, <1>7 DEF Inv, Copied

\* A lost connection, a restart of the server and a crash of a client lose
\* frames, but none of a connection that stays.
LEMMA LosingInv ==
    ASSUME Inv, Sound', Losing
    PROVE  Inv'
<1>1. /\ store' = store /\ unconfirmed' = unconfirmed
      /\ \A d \in Clients :
            /\ Out(d)' \subseteq Out(d) /\ In(d)' \subseteq In(d)
            /\ link'[d] => link[d] /\ Out(d)' = Out(d) /\ In(d)' = In(d)
            /\ dirty'[d] \subseteq dirty[d] /\ provisional'[d] \subseteq provisional[d]
      /\ crashes' # 0 \/ (crashes' = crashes /\ provisional' = provisional)
  BY DEF Losing
<1>2. Types /\ Types'
  BY DEF Inv, Sound
<1>3. Sources({})
  <2>1. ASSUME NEW d \in Clients, NEW i \in Ids, NEW r \in Record
        PROVE  /\ Carries(Out(d)', i, r) => Carries(Out(d), i, r)
               /\ Carries(In(d)', i, r) => Carries(In(d), i, r)
               /\ Claims(Out(d)', i, r) => Claims(Out(d), i, r)
               /\ Claims(In(d)', i, r) => Claims(In(d), i, r)
    BY <1>1, LostFrames
  <2> QED BY <1>1, <2>1 DEF Sources, At
<1>4. Written({}) /\ Forward
  BY <1>1, <1>2, StillForward DEF Written
<1>5. \/ SeedProvisional'
      \/ crashes' = crashes /\ provisional' = provisional
  BY <1>1 DEF SeedProvisional
<1>6. Copied'
  BY <1>1, <1>3, <1>4, <1>5, CopiedStep
<1>7. ASSUME NEW d \in Clients, link'[d], NEW i \in Ids
      PROVE  Down(d, i)' /\ Up(d, i)'
  <2>1. Down(d, i) /\ Up(d, i) /\ Out(d)' = Out(d) /\ In(d)' = In(d)
    BY <1>1, <1>7 DEF Inv, OnTheWay
  <2> QED BY <1>1, <2>1, WayKept
<1>8. OnTheWay'
  BY <1>7 DEF OnTheWay
<1> QED BY <1>6, <1>8 DEF Inv, Copied

LEMMA AnswerInv ==
    ASSUME Inv, NEW c \in Clients, ServerTakes(c), Head(outbox[c]).t = "hello",
           AnswerHello(c, Head(outbox[c]).pages)
    PROVE  Inv'
<1>1. PICK pages \in Adverts :
         /\ Sound' /\ store' = store
         /\ Out(c) = {Hello(pages)} \cup Out(c)'
         /\ In(c)' = In(c) \cup ToSet(DifferingPages(store[Server], Digests(store[Server]), pages))
         /\ \A d \in Clients : d # c => Out(d)' = Out(d) /\ In(d)' = In(d)
  BY AnswerEffect DEF Inv
<1>2. /\ Types /\ Types' /\ SentBehind
      /\ UNCHANGED <<dirty, provisional, link, crashes, unconfirmed>>
  BY <1>1 DEF ServerTakes, clientVars, boundVars, Inv, Sound
<1> DEFINE s == store[Server]
           F == ToSet(DifferingPages(s, Digests(s), pages))
           ids == {i \in Held(s) : PageOf[i] \in Differing(Digests(s), pages)}
<1>3. s \in Stores
  BY <1>2 DEF Types, Nodes
<1>4. Brings(F, s, ids) /\ \A i \in Held(s) \ ids : Claims({Hello(pages)}, i, s[i])
  BY <1>3, ReplyFacts
<1>5. In(c)' = In(c) \cup F
  BY <1>1
<1> DEFINE G == {Hello(pages)}
<1>6. /\ Out(c) = G \cup Out(c)' /\ \A i, r : ~Carries(G, i, r)
      /\ \A i \in Held(s) \ ids : Claims(G, i, s[i])
  BY <1>1, <1>4, OneFrame
<1> HIDE DEF F, ids, G
<1>7. Sources({})
  <2>1. ASSUME NEW d \in Clients, NEW i \in Ids, NEW r \in Record
        PROVE  /\ Carries(Out(d), i, r)' => Carries(Out(d), i, r)
               /\ Claims(Out(d), i, r)' => Claims(Out(d), i, r)
               /\ Carries(In(d), i, r)' => Carries(In(d), i, r) \/ At(Server, i, r)
               /\ Claims(In(d), i, r)' => Claims(In(d), i, r)
    <3>1. CASE d # c
      BY <1>1, <3>1
    <3>2. CASE d = c
      <4>1. /\ Carries(Out(c)', i, r) => Carries(Out(c), i, r)
            /\ Claims(Out(c)', i, r) => Claims(Out(c), i, r)
        BY <1>1, FrameSets
      <4>2. /\ Carries(In(c)', i, r) => Carries(In(c), i, r) \/ Carries(F, i, r)
            /\ Claims(In(c)', i, r) => Claims(In(c), i, r) \/ Claims(F, i, r)
        BY <1>5, FrameSets
      <4>3. ~Claims(F, i, r) /\ (Carries(F, i, r) => At(Server, i, r))
        BY <1>4 DEF Brings, At
      <4> QED BY <3>2, <4>1, <4>2, <4>3
    <3> QED BY <3>1, <3>2
  <2> QED BY <1>1, <2>1 DEF Sources, At
<1>8. Copied'
  BY <1>1, <1>2, <1>7, StillForward, QuietStep
<1>9. ASSUME NEW d \in Clients, link'[d], NEW i \in Ids
      PROVE  Down(d, i)' /\ Up(d, i)'
  <2>1. Down(d, i) /\ Up(d, i)
    BY <1>2, <1>9 DEF Inv, OnTheWay
  <2>2. CASE d # c
    BY <1>1, <2>1, <2>2, WayKept
  <2>3. CASE d = c
    <3>1. s[i] \in Record \cup {Absent} /\ store[c][i] \in Record \cup {Absent}
      BY <1>2, <1>3, StoreEntry DEF Types, Nodes
    <3>2. Down(c, i)'
      <4>1. CASE i \in ids
        <5>1. s[i] \in Record
          BY <1>3, <4>1, StoreEntry DEF ids
        <5>2. Carries(F, i, s[i])
          BY <1>4, <4>1, <5>1 DEF Brings
        <5>3. In(c)' = In(c) \cup F
          BY <1>5
        <5>4. Carries(In(c)', i, s[i])
          BY <5>2, <5>3, FrameSets
        <5> QED BY <1>1, <5>4 DEF Down
      <4>2. CASE i \in Held(s) \ ids
        <5>1. Claims(G, i, s[i]) /\ Out(c) = G \cup Out(c)'
          BY <1>6, <4>2
        <5>2. Claims(Out(c), i, s[i])
          BY <5>1, FrameSets
        <5>3. i \in Ids
          BY <4>2 DEF Held
        <5>4. Claims(Out(c), i, s[i]) /\ s[i] \in Record
          BY <1>3, <4>2, <5>2, StoreEntry
        <5>5. AtLeast(store[c][i], s[i])
          BY <1>2, <5>4 DEF SentBehind
        <5> QED BY <1>1, <5>5 DEF Down
      <4>3. CASE i \notin Held(s)
        <5>1. AtLeast(store[c][i], s[i])
          BY <1>3, <3>1, <4>3, StoreEntry, AtLeastFacts
        <5> QED BY <1>1, <5>1 DEF Down
      <4> QED BY <4>1, <4>2, <4>3
    <3>3. AtLeast(s[i], s[i]) /\ (Asks(In(c)) => Asks(In(c)'))
      BY <1>5, <3>1, FrameSets, AtLeastFacts
    <3>4. Carries(Out(c), i, store[c][i]) => Carries(Out(c)', i, store[c][i])
      <4>1. \A r : Carries(Out(c), i, r) => Carries(G, i, r) \/ Carries(Out(c)', i, r)
        BY <1>6, FrameSets
      <4> QED BY <1>6, <4>1
    <3>5. Up(c, i)'
      BY <1>1, <1>2, <2>1, <2>3, <3>3, <3>4, UpKept
    <3> QED BY <2>3, <3>2, <3>5
  <2> QED BY <2>2, <2>3
<1>10. OnTheWay'
  BY <1>9 DEF OnTheWay
<1> QED BY <1>1, <1>8, <1>10 DEF Inv, Copied

LEMMA RelayInv ==
    ASSUME Inv, NEW c \in Clients, ServerTakes(c), Head(outbox[c]).t = "records",
           RelayRecords(c, Head(outbox[c]).batch)
    PROVE  Inv'
<1>1. PICK batch \in Batch :
         LET lost == ToSet(Frames(store[Server], Singly(Lost(batch))))
             news == ToSet(Frames(store'[Server], ByPage(Applied(store[Server], batch))))
         IN  /\ Sound'
             /\ store'[Server] = Merged(store[Server], batch)
             /\ \A m \in Nodes : m # Server => store'[m] = store[m]
             /\ Out(c) = {Update(batch)} \cup Out(c)'
             /\ \A d \in Clients : d # c => Out(d)' = Out(d)
             /\ Brings(lost, store[Server], Lost(batch))
             /\ Brings(news, store'[Server], Applied(store[Server], batch))
             /\ In(c)' = In(c) \cup lost
             /\ \A d \in Clients : d # c => In(d)' = IF link[d] THEN In(d) \cup news ELSE In(d)
  BY RelayEffect DEF Inv
<1> DEFINE lost == ToSet(Frames(store[Server], Singly(Lost(batch))))
           news == ToSet(Frames(store'[Server], ByPage(Applied(store[Server], batch))))
           G == {Update(batch)}
           new == Applied(store[Server], batch)
<1>2. /\ Sound'
      /\ \A m \in Nodes : m # Server => store'[m] = store[m]
      /\ \A d \in Clients : d # c => Out(d)' = Out(d)
      /\ Brings(lost, store[Server], Lost(batch)) /\ Brings(news, store'[Server], new)
      /\ In(c)' = In(c) \cup lost
      /\ \A d \in Clients : d # c => In(d)' = IF link[d] THEN In(d) \cup news ELSE In(d)
  BY <1>1
<1>3. /\ Out(c) = G \cup Out(c)' /\ ~Asks(G)
      /\ \A i, r : Carries(G, i, r) <=> i \in DOMAIN batch /\ batch[i] = r
  BY <1>1, OneFrame
<1> HIDE DEF lost, news, G
<1>4. /\ Types /\ Types' /\ SentBehind /\ c \in Nodes /\ Server \in Nodes
      /\ store \in [Nodes -> Stores] /\ \A d \in Clients : d \in Nodes /\ d # Server
      /\ UNCHANGED <<dirty, provisional, link, crashes, unconfirmed>>
  BY <1>2, NodesAssumption DEF ServerTakes, clientVars, boundVars, Inv, Sound, Nodes, Types
<1>5. /\ DOMAIN batch \subseteq Ids /\ \A i \in DOMAIN batch : batch[i] \in Record
      /\ new \subseteq DOMAIN batch
      /\ \A i \in Ids :
            /\ AtLeast(store'[Server][i], store[Server][i])
            /\ i \in DOMAIN batch => AtLeast(store'[Server][i], batch[i])
            /\ i \in new => store'[Server][i] = batch[i]
            /\ i \notin new => store'[Server][i] = store[Server][i]
  BY <1>1, <1>4, MergedFacts
<1> HIDE DEF new
<1>6. \A i, r : Carries(Out(c), i, r) <=> Carries(G, i, r) \/ Carries(Out(c)', i, r)
  BY <1>3, FrameSets
<1>7. \A i \in DOMAIN batch : Carries(Out(c), i, batch[i]) /\ AtLeast(store[c][i], batch[i])
  <2>1. \A i \in DOMAIN batch : Carries(Out(c), i, batch[i])
    BY <1>3, <1>6
  <2> QED BY <1>4, <1>5, <2>1 DEF SentBehind
<1>8. Sources({})
  <2>1. ASSUME NEW n \in Nodes, NEW i \in Ids, NEW r \in Record, At(n, i, r)'
        PROVE  At(n, i, r) \/ Sent(i, r)
    <3>1. CASE n # Server
      BY <1>2, <2>1, <3>1 DEF At
    <3>2. CASE n = Server /\ i \in new
      BY <1>5, <1>7, <2>1, <3>2 DEF At, Sent
    <3>3. CASE n = Server /\ i \notin new
      BY <1>5, <2>1, <3>3 DEF At
    <3> QED BY <3>1, <3>2, <3>3
  <2>2. ASSUME NEW d \in Clients, NEW i \in Ids, NEW r \in Record
        PROVE  /\ Carries(Out(d), i, r)' => Carries(Out(d), i, r)
               /\ Claims(Out(d), i, r)' => Claims(Out(d), i, r)
               /\ Carries(In(d), i, r)' => Carries(In(d), i, r) \/ At(Server, i, r) \/ At(Server, i, r)'
               /\ Claims(In(d), i, r)' => Claims(In(d), i, r)
    <3>1. /\ ~Claims(lost, i, r) /\ (Carries(lost, i, r) => At(Server, i, r))
          /\ ~Claims(news, i, r) /\ (Carries(news, i, r) => r = store'[Server][i])
      BY <1>2 DEF Brings, At
    <3>2. Carries(news, i, r) => At(Server, i, r)'
      BY <3>1 DEF At
    <3>3. CASE d # c
      <4>1. In(d)' = In(d) \/ In(d)' = In(d) \cup news
        BY <1>2, <3>3
      <4>2. /\ Carries(In(d)', i, r) => Carries(In(d), i, r) \/ Carries(news, i, r)
            /\ Claims(In(d)', i, r) => Claims(In(d), i, r) \/ Claims(news, i, r)
        BY <4>1, FrameSets
      <4> QED BY <1>2, <3>1, <3>2, <3>3, <4>2
    <3>4. CASE d = c
      <4>1. /\ Carries(Out(c)', i, r) => Carries(Out(c), i, r)
            /\ Claims(Out(c)', i, r) => Claims(Out(c), i, r)
        BY <1>3, FrameSets
      <4>2. /\ Carries(In(c)', i, r) => Carries(In(c), i, r) \/ Carries(lost, i, r)
            /\ Claims(In(c)', i, r) => Claims(In(c), i, r) \/ Claims(lost, i, r)
        BY <1>2, FrameSets
      <4> QED BY <3>1, <3>4, <4>1, <4>2
    <3> QED BY <3>3, <3>4
  <2> QED BY <2>1, <2>2 DEF Sources
<1>9. Forward
  <2> SUFFICES ASSUME NEW n \in Nodes, NEW i \in Ids
      PROVE  AtLeast(store'[n][i], store[n][i])
    BY DEF Forward
  <2>1. AtLeast(store[n][i], store[n][i])
    BY <1>4, StoreEntry, AtLeastFacts
  <2> QED BY <1>2, <1>5, <2>1
<1>10. Copied'
  BY <1>2, <1>4, <1>8, <1>9, QuietStep
<1>11. ASSUME NEW d \in Clients, link'[d], NEW i \in Ids
       PROVE  Down(d, i)' /\ Up(d, i)'
  <2>1. Down(d, i) /\ Up(d, i) /\ link[d]
    BY <1>4, <1>11 DEF Inv, OnTheWay
  <2>2. store'[d][i] = store[d][i] /\ AtLeast(store[d][i], store[d][i])
    BY <1>2, <1>4, StoreEntry, AtLeastFacts
  <2>3. CASE d # c
    <3>1. In(d)' = In(d) \cup news /\ Out(d)' = Out(d)
      BY <1>2, <2>1, <2>3
    <3>2. CASE i \notin new
      BY <1>5, <2>1, <2>2, <3>1, <3>2, WayKept
    <3>3. CASE i \in new
      <4>1. store'[Server][i] \in Record
        BY <1>5, <3>3
      <4>2. Carries(news, i, store'[Server][i])
        BY <1>2, <3>3, <4>1 DEF Brings
      <4>3. Down(d, i)'
        BY <3>1, <4>2, FrameSets DEF Down
      <4>4. Asks(In(d)) => Asks(In(d)')
        BY <3>1, FrameSets
      <4>5. Up(d, i)'
        BY <1>4, <1>5, <2>1, <2>2, <3>1, <4>4, UpKept
      <4> QED BY <4>3, <4>5
    <3> QED BY <3>2, <3>3
  <2>4. CASE d = c
    <3>1. Down(c, i)'
      <4>1. CASE i \in new
        BY <1>5, <1>7, <2>2, <2>4, <4>1 DEF Down
      <4>2. CASE i \notin new
        <5>1. store'[Server][i] = store[Server][i]
          BY <1>5, <4>2
        <5>2. Asks(Out(c)) => Asks(Out(c)')
          BY <1>3, FrameSets
        <5>3. Carries(In(c), i, store[Server][i]) => Carries(In(c)', i, store[Server][i])
          BY <1>2, FrameSets
        <5>4. Connected \in In(c) => Connected \in In(c)'
          BY <1>2
        <5> QED BY <1>4, <2>1, <2>2, <2>4, <5>1, <5>2, <5>3, <5>4, DownKept
      <4> QED BY <4>1, <4>2
    <3>2. Up(c, i)'
      <4>1. Asks(In(c)) => Asks(In(c)')
        BY <1>2, FrameSets
      <4>2. Carries(Out(c), i, store[c][i]) =>
               Carries(Out(c)', i, store[c][i]) \/ AtLeast(store'[Server][i], store[c][i])
        BY <1>3, <1>5, <1>6
      <4> QED BY <1>4, <1>5, <2>1, <2>2, <2>4, <4>1, <4>2, UpKept
    <3> QED BY <2>4, <3>1, <3>2
  <2> QED BY <2>3, <2>4
<1>12. OnTheWay'
  BY <1>11 DEF OnTheWay
<1> QED BY <1>2, <1>10, <1>12 DEF Inv, Copied

\* A client settles its provisional page, and sends what the server lacks.
LEMMA HelloInv ==
    ASSUME Inv, NEW c \in Clients, Takes(c), Head(inbox[c]).t = "hello",
           HandleHello(c, Head(inbox[c]).pages)
    PROVE  Inv'
<1>1. PICK pages \in Adverts :
         /\ Sound'
         /\ \/ store' = store /\ (provisional[c] = {} \/ DOMAIN pages = {})
            \/ /\ DOMAIN pages # {}
               /\ \A i \in Ids :
                     store'[c][i] = IF PageOf[i] \in provisional[c] THEN Absent ELSE store[c][i]
         /\ \A m \in Nodes : m # c => store'[m] = store[m]
         /\ provisional'[c] = {}
         /\ \A d \in Clients : d # c => provisional'[d] = provisional[d] /\ dirty'[d] = dirty[d]
         /\ link' = link /\ crashes' = crashes
         /\ unconfirmed' = IF DOMAIN pages = {} THEN unconfirmed \ {SeedOf[c]} ELSE unconfirmed
         /\ In(c) = {Hello(pages)} \cup In(c)'
         /\ Out(c)' = Out(c) \cup ToSet(DifferingPages(store'[c], Digests(store'[c]), pages))
         /\ \A d \in Clients : d # c => Out(d)' = Out(d) /\ In(d)' = In(d)
  BY HelloEffect DEF Inv
<1>2. /\ Types /\ Types' /\ SentBehind /\ Withheld
      /\ c \in Nodes /\ c # Server /\ Server \in Nodes
      /\ \A d \in Clients : d \in Nodes
      /\ store \in [Nodes -> Stores] /\ store' \in [Nodes -> Stores]
  BY <1>1, NodesAssumption DEF Inv, Sound, Nodes, Types
<1> DEFINE t == store'[c]
           F == ToSet(DifferingPages(t, Digests(t), pages))
           ids == {i \in Held(t) : PageOf[i] \in Differing(Digests(t), pages)}
           G == {Hello(pages)}
<1>3. t \in Stores
  BY <1>2
<1>4. Brings(F, t, ids) /\ \A i \in Held(t) \ ids : Claims(G, i, t[i])
  <2> HIDE DEF t
  <2> QED BY <1>3, ReplyFacts
<1>5. /\ Out(c)' = Out(c) \cup F
      /\ In(c) = G \cup In(c)'
      /\ Connected \notin G /\ \A i, r : ~Carries(G, i, r)
  BY <1>1, OneFrame
<1>6. ids \subseteq Held(t)
  OBVIOUS
<1> HIDE DEF F, ids, G
<1>7. ASSUME NEW i \in Ids, NEW r \in Record
      PROVE  /\ At(c, i, r)' => At(c, i, r)
             /\ Carries(F, i, r) => At(c, i, r)'
             /\ ~Claims(F, i, r)
  <2>1. store'[c][i] = store[c][i] \/ store'[c][i] = Absent
    BY <1>1
  <2>2. r # Absent
    BY EntryFacts
  <2>3. Carries(F, i, r) => r = store'[c][i]
    BY <1>4 DEF Brings
  <2>4. At(c, i, r)' => At(c, i, r)
    BY <2>1, <2>2 DEF At
  <2>5. Carries(F, i, r) => At(c, i, r)'
    BY <2>3 DEF At
  <2> QED BY <1>4, <2>4, <2>5 DEF Brings
<1>8. ASSUME NEW d \in Clients, NEW i \in Ids, NEW r \in Record
      PROVE  /\ Carries(Out(d), i, r)' => Carries(Out(d), i, r) \/ (d = c /\ At(c, i, r)')
             /\ Claims(Out(d), i, r)' => Claims(Out(d), i, r)
             /\ Carries(In(d), i, r)' => Carries(In(d), i, r)
             /\ Claims(In(d), i, r)' => Claims(In(d), i, r)
  <2>1. CASE d # c
    BY <1>1, <2>1
  <2>2. CASE d = c
    <3>1. /\ Carries(In(c)', i, r) => Carries(In(c), i, r)
          /\ Claims(In(c)', i, r) => Claims(In(c), i, r)
      BY <1>5, FrameSets
    <3>2. /\ Carries(Out(c)', i, r) => Carries(Out(c), i, r) \/ Carries(F, i, r)
          /\ Claims(Out(c)', i, r) => Claims(Out(c), i, r) \/ Claims(F, i, r)
      BY <1>5, FrameSets
    <3> QED BY <1>7, <2>2, <3>1, <3>2
  <2> QED BY <2>1, <2>2
<1>9. ASSUME NEW n \in Nodes, NEW i \in Ids, NEW r \in Record, At(n, i, r)'
      PROVE  At(n, i, r)
  <2>1. CASE n # c
    BY <1>1, <1>9, <2>1 DEF At
  <2>2. CASE n = c
    BY <1>7, <1>9, <2>2
  <2> QED BY <2>1, <2>2
<1>10. Sources({})
  BY <1>1, <1>8, <1>9 DEF Sources
<1>11. ASSUME NEW i \in Ids, PageOf[i] \in provisional[c], DOMAIN pages # {}
       PROVE  Gone(PageOf[i])'
  <2> SUFFICES ASSUME NEW j \in Ids, NEW r \in Record, PageOf[j] = PageOf[i]
      PROVE  ~Copy(j, r)' /\ \A d \in Clients : ~Claims(Out(d), j, r)'
    BY DEF Gone
  <2>1. /\ ~Sent(j, r)
        /\ \A n \in Nodes \ {c} : ~At(n, j, r)
        /\ \A d \in Clients : ~Claims(Out(d), j, r)
    BY <1>2, <1>11 DEF Withheld
  <2>2. ~At(c, j, r)'
    <3>1. store'[c][j] = Absent
      BY <1>1, <1>11
    <3>2. r # Absent
      BY EntryFacts
    <3> QED BY <3>1, <3>2 DEF At
  <2>3. \A n \in Nodes : ~At(n, j, r)'
    BY <1>9, <2>1, <2>2
  <2>4. ASSUME NEW d \in Clients
        PROVE  ~Carries(Out(d), j, r)' /\ ~Carries(In(d), j, r)' /\ ~Claims(Out(d), j, r)'
    <3>1. ~Carries(Out(d), j, r) /\ ~Carries(In(d), j, r)
      BY <2>1 DEF Sent
    <3> QED BY <1>8, <2>1, <2>2, <3>1
  <2>5. ~Sent(j, r)'
    BY <2>4 DEF Sent
  <2> QED BY <2>3, <2>4, <2>5 DEF Copy
<1>12. Forward
  <2> SUFFICES ASSUME NEW n \in Nodes, NEW i \in Ids
      PROVE  AtLeast(store'[n][i], store[n][i]) \/ (n \in Clients /\ Gone(PageOf[i])')
    BY DEF Forward
  <2>1. AtLeast(store[n][i], store[n][i])
    BY <1>2, StoreEntry, AtLeastFacts
  <2>2. CASE store'[n][i] = store[n][i]
    BY <2>1, <2>2
  <2>3. CASE n = c /\ PageOf[i] \in provisional[c] /\ DOMAIN pages # {}
    BY <1>11, <2>3
  <2> QED BY <1>1, <2>2, <2>3
<1>13. Copied'
  <2>1. Written({})
    BY DEF Written
  <2>2. \A d \in Clients : provisional'[d] \subseteq provisional[d]
    BY <1>1
  <2>3. \A d \in Clients, i \in Ids :
           i \in dirty'[d] => i \in dirty[d] \/ PageOf[i] \notin provisional'[d]
    BY <1>1
  <2>4. ASSUME NEW d \in Clients, SeedOf[d] \in unconfirmed', SeedOf[d] \in provisional[d]
        PROVE  SeedOf[d] \in provisional'[d] \/ Gone(SeedOf[d])'
    <3>1. CASE d # c
      BY <1>1, <2>4, <3>1
    <3>2. CASE d = c
      <4>1. DOMAIN pages # {}
        BY <1>1, <2>4, <3>2
      <4>2. SeedOf[c] \in Ids /\ PageOf[SeedOf[c]] = SeedOf[c]
        BY SeedAssumption, PageRecordsAssumption
      <4>3. Gone(PageOf[SeedOf[c]])'
        BY <1>11, <2>4, <3>2, <4>1, <4>2
      <4> QED BY <3>2, <4>2, <4>3
    <3> QED BY <3>1, <3>2
  <2>5. crashes' = crashes /\ unconfirmed' \subseteq unconfirmed
    BY <1>1
  <2> QED BY <1>1, <1>10, <1>12, <2>1, <2>2, <2>3, <2>4, <2>5, CopiedStep
<1>14. ASSUME NEW d \in Clients, link'[d], NEW i \in Ids
       PROVE  Down(d, i)' /\ Up(d, i)'
  <2>1. Down(d, i) /\ Up(d, i)
    BY <1>1, <1>14 DEF Inv, OnTheWay
  <2>2. store'[Server] = store[Server]
    BY <1>1, <1>2
  <2>3. CASE d # c
    <3>1. store'[d] = store[d]
      BY <1>1, <1>2, <2>3
    <3> QED BY <1>1, <2>1, <2>2, <2>3, <3>1, WayKept
  <2>4. CASE d = c
    <3>1. /\ store[Server][i] \in Record \cup {Absent} /\ store[c][i] \in Record \cup {Absent}
          /\ t[i] \in Record \cup {Absent}
      BY <1>2, StoreEntry
    <3>2. Down(c, i)'
      <4>1. CASE store'[c][i] = store[c][i]
        <5>1. AtLeast(store[c][i], store[c][i])
          BY <3>1, AtLeastFacts
        <5>2. Connected \in In(c) => Connected \in In(c)'
          BY <1>5
        <5>3. \A r : Carries(In(c), i, r) => Carries(G, i, r) \/ Carries(In(c)', i, r)
          BY <1>5, FrameSets
        <5>4. Carries(In(c), i, store[Server][i]) => Carries(In(c)', i, store[Server][i])
          BY <1>5, <5>3
        <5>5. Asks(Out(c)) => Asks(Out(c)')
          BY <1>5, FrameSets
        <5> QED BY <1>2, <2>1, <2>2, <2>4, <4>1, <5>1, <5>2, <5>4, <5>5, DownKept
      <4>2. CASE PageOf[i] \in provisional[c]
        <5>1. \A r \in Record : ~At(Server, i, r)
          BY <1>2, <4>2 DEF Withheld
        <5>2. store[Server][i] = Absent
          BY <3>1, <5>1 DEF At
        <5>3. AtLeast(store'[c][i], store'[Server][i])
          BY <2>2, <3>1, <5>2, AtLeastFacts
        <5> QED BY <5>3 DEF Down
      <4> QED BY <1>1, <4>1, <4>2
    <3>3. Up(c, i)'
      <4>1. CASE i \in ids
        <5>1. t[i] \in Record
          <6> HIDE DEF t
          <6> QED BY <1>3, <1>6, <4>1, StoreEntry
        <5>2. Carries(F, i, t[i])
          BY <1>4, <4>1, <5>1 DEF Brings
        <5>3. Out(c)' = Out(c) \cup F
          BY <1>5
        <5>4. Carries(Out(c)', i, t[i])
          BY <5>2, <5>3, FrameSets
        <5> QED BY <5>4 DEF Up
      <4>2. CASE i \in Held(t) \ ids
        <5>1. t[i] \in Record /\ Claims(G, i, t[i])
          BY <1>3, <1>4, <4>2, StoreEntry
        <5>2. Claims(In(c), i, t[i])
          BY <1>5, <5>1, FrameSets
        <5>3. PICK r \in Record : r = t[i]
          BY <5>1
        <5>4. AtLeast(store[Server][i], r)
          BY <1>2, <5>2, <5>3 DEF SentBehind
        <5>5. AtLeast(store'[Server][i], store'[c][i])
          BY <2>2, <5>3, <5>4
        <5> QED BY <5>5 DEF Up
      <4>3. CASE i \notin Held(t)
        <5>1. t[i] = Absent
          BY <1>3, <3>1, <4>3, StoreEntry
        <5>2. AtLeast(store'[Server][i], store'[c][i])
          BY <2>2, <3>1, <5>1, AtLeastFacts
        <5> QED BY <5>2 DEF Up
      <4> QED BY <4>1, <4>2, <4>3
    <3> QED BY <2>4, <3>2, <3>3
  <2> QED BY <2>3, <2>4
<1>15. OnTheWay'
  BY <1>14 DEF OnTheWay
<1> QED BY <1>1, <1>13, <1>15 DEF Inv, Copied

LEMMA StartInv ==
    ASSUME Inv, NEW c \in Clients, Start(c)
    PROVE  Inv'
<1> DEFINE p == SeedOf[c]
<1>1. /\ Sound' /\ ~running[c]
      /\ UNCHANGED <<dirty, link, outbox, inbox, crashes>>
      /\ \/ UNCHANGED <<store, provisional, unconfirmed>>
         \/ /\ \E r \in Record : r.client = c /\ store'[c][p] = r
            /\ \A j \in Ids, s \in Record : PageOf[j] = p => ~Copy(j, s)
            /\ \A m \in Nodes, j \in Ids : m # c \/ j # p => store'[m][j] = store[m][j]
            /\ provisional'[c] = {p}
            /\ \A d \in Clients : d # c => provisional'[d] = provisional[d]
            /\ unconfirmed' = unconfirmed \cup {p}
  BY StartEffect DEF Inv
<1>2. /\ Types /\ Types' /\ SentBehind /\ Withheld /\ SeedProvisional
      /\ c \in Nodes /\ Server \in Nodes /\ c # Server
      /\ ~link[c] /\ dirty[c] = {}
      /\ store \in [Nodes -> Stores]
  BY <1>1, NodesAssumption DEF Inv, Sound, Processes, Nodes, Types
<1>3. \A d \in Clients : Out(d)' = Out(d) /\ In(d)' = In(d)
  BY <1>1 DEF Out, In
<1>4. ASSUME NEW d \in Clients, link'[d], NEW i \in Ids
      PROVE  Down(d, i)' /\ Up(d, i)'
  <2>1. link[d] /\ d # c /\ d \in Nodes
    BY <1>1, <1>2, <1>4 DEF Nodes
  <2>2. Down(d, i) /\ Up(d, i)
    BY <2>1 DEF Inv, OnTheWay
  <2>3. store'[d][i] = store[d][i] /\ store'[Server][i] = store[Server][i]
    BY <1>1, <1>2, <2>1
  <2> QED BY <1>3, <2>2, <2>3, WayKept
<1>5. OnTheWay'
  BY <1>4 DEF OnTheWay
<1>6. CASE UNCHANGED <<store, provisional, unconfirmed>>
  <2>1. Sources({})
    BY <1>3, <1>6 DEF Sources, At
  <2>2. Copied'
    BY <1>1, <1>2, <1>6, <2>1, StillForward, QuietStep
  <2> QED BY <1>1, <1>5, <2>2 DEF Inv, Copied
<1>7. ASSUME NEW r \in Record,
             r.client = c, store'[c][p] = r,
             \A j \in Ids, s \in Record : PageOf[j] = p => ~Copy(j, s),
             \A m \in Nodes, j \in Ids : m # c \/ j # p => store'[m][j] = store[m][j],
             provisional'[c] = {p},
             \A d \in Clients : d # c => provisional'[d] = provisional[d],
             unconfirmed' = unconfirmed \cup {p}
      PROVE  Inv'
  <2> DEFINE N == {<<p, r>>}
  <2>1. p \in Ids /\ PageOf[p] = p /\ \A d \in Clients : d # c => SeedOf[d] # p
    BY SeedAssumption, PageRecordsAssumption
  <2>2. \A i \in Ids, s \in Record : <<i, s>> \in N <=> i = p /\ s = r
    OBVIOUS
  <2> HIDE DEF N
  <2>3. ASSUME NEW j \in Ids, NEW s \in Record, PageOf[j] = p
        PROVE  ~Copy(j, s) /\ \A d \in Clients : ~Claims(Out(d), j, s)
    <3>1. \A n \in Nodes, i \in Ids, u \in Record : At(n, i, u) => Copy(i, u)
      BY DEF Copy
    <3>4. \A u \in Record : ~Copy(j, u)
      BY <1>7, <2>3
    <3>5. ASSUME NEW d \in Clients, Claims(Out(d), j, s)
          PROVE  FALSE
      <4>1. AtLeast(store[d][j], s) /\ d \in Nodes
        BY <1>2, <3>5 DEF SentBehind, Nodes
      <4>2. store[d][j] \in Record
        BY <1>2, <4>1, StoreEntry, AtLeastFacts
      <4> QED BY <3>1, <3>4, <4>1, <4>2 DEF At
    <3> QED BY <3>4, <3>5
  <2>4. \A m \in Nodes, j \in Ids, s \in Record : At(m, j, s)' => At(m, j, s) \/ <<j, s>> \in N
    BY <1>7, <2>2 DEF At
  <2>5. Sources(N)
    BY <1>3, <2>4 DEF Sources
  <2>6. Forward
    <3> SUFFICES ASSUME NEW n \in Nodes, NEW i \in Ids
        PROVE  AtLeast(store'[n][i], store[n][i])
      BY DEF Forward
    <3>1. store[n][i] \in Record \cup {Absent}
      BY <1>2, StoreEntry
    <3>2. CASE n = c /\ i = p
      <4>1. store[n][i] \notin Record
        BY <1>2, <1>7, <2>1, <3>2 DEF Copy, At
      <4>2. store[n][i] = Absent
        BY <3>1, <4>1
      <4> QED BY <1>7, <3>2, <4>2, AtLeastFacts
    <3>3. CASE n # c \/ i # p
      <4>1. store'[n][i] = store[n][i]
        BY <1>7, <3>3
      <4> QED BY <3>1, <4>1, AtLeastFacts
    <3> QED BY <3>2, <3>3
  <2>7. Written(N)
    <3>3. \A i, j \in Ids, u, s \in Record : <<i, u>> \in N /\ <<j, s>> \in N => i = j /\ u = s
      BY <2>2
    <3> QED BY <1>2, <1>7, <2>1, <2>2, <3>3 DEF Written
  <2>8. SentBehind' /\ AuthorHolds' /\ VersionsDiffer'
    <3>1. AuthorHolds /\ VersionsDiffer /\ CounterCovers
      BY DEF Inv, Sound
    <3>2. SentBehind'
      BY <1>2, <2>5, <2>6, SentBehindStep
    <3>3. AuthorHolds'
      BY <1>2, <2>5, <2>6, <2>7, <3>1, AuthorHoldsStep
    <3>5. VersionsDiffer'
      BY <1>2, <2>5, <2>7, <3>1, VersionsStep
    <3> QED BY <3>2, <3>3, <3>5
  <2>9. \A i \in Ids, s \in Record : Sent(i, s)' <=> Sent(i, s)
    BY <1>3 DEF Sent
  <2>10. Withheld'
    <3> SUFFICES ASSUME NEW d \in Clients, NEW i \in Ids, PageOf[i] \in provisional'[d]
        PROVE  /\ i \notin dirty'[d]
               /\ \A s \in Record :
                     /\ ~Sent(i, s)'
                     /\ \A n \in Nodes \ {d} : ~At(n, i, s)'
                     /\ \A e \in Clients : ~Claims(Out(e), i, s)'
      BY DEF Withheld
    <3>1. CASE d = c
      <4>1. PageOf[i] = p
        BY <1>7, <3>1
      <4>2. i \notin dirty'[c]
        BY <1>1, <1>2
      <4>3. ASSUME NEW s \in Record
            PROVE  /\ ~Sent(i, s)'
                   /\ \A n \in Nodes \ {c} : ~At(n, i, s)'
                   /\ \A e \in Clients : ~Claims(Out(e), i, s)'
        <5>1. ~Copy(i, s) /\ \A e \in Clients : ~Claims(Out(e), i, s)
          BY <2>3, <4>1
        <5>2. ~Sent(i, s) /\ \A n \in Nodes : ~At(n, i, s)
          BY <5>1 DEF Copy
        <5>3. \A n \in Nodes \ {c} : At(n, i, s)' => At(n, i, s)
          BY <1>7 DEF At
        <5> QED BY <1>3, <2>9, <5>1, <5>2, <5>3
      <4> QED BY <3>1, <4>2, <4>3
    <3>2. CASE d # c
      <4>1. PageOf[i] \in provisional[d] /\ i # p
        <5>1. PageOf[i] \in provisional[d]
          BY <1>7, <3>2
        <5>2. PageOf[i] = SeedOf[d]
          BY <5>1 DEF Inv, Sound, Processes
        <5> QED BY <2>1, <3>2, <5>1, <5>2
      <4>2. /\ i \notin dirty[d]
            /\ \A s \in Record :
                  /\ ~Sent(i, s)
                  /\ \A n \in Nodes \ {d} : ~At(n, i, s)
                  /\ \A e \in Clients : ~Claims(Out(e), i, s)
        BY <1>2, <4>1 DEF Withheld
      <4>3. \A n \in Nodes, s \in Record : At(n, i, s)' => At(n, i, s)
        BY <1>7, <4>1 DEF At
      <4> QED BY <1>1, <1>3, <2>9, <4>2, <4>3
    <3> QED BY <3>1, <3>2
  <2>11. SeedProvisional'
    <3> SUFFICES ASSUME crashes = 0, NEW d \in Clients, NEW s \in Record,
                        SeedOf[d] \in unconfirmed', Copy(SeedOf[d], s)'
        PROVE  SeedOf[d] \in provisional'[d]
      BY <1>1 DEF SeedProvisional
    <3>0. SeedOf[d] \in Ids
      BY SeedAssumption, PageRecordsAssumption
    <3>1. CASE d = c
      BY <1>7, <3>1
    <3>2. CASE d # c
      <4>1. SeedOf[d] \in unconfirmed
        BY <1>7, <2>1, <3>2
      <4>2. Copy(SeedOf[d], s)
        <5>1. Copy(SeedOf[d], s) \/ <<SeedOf[d], s>> \in N
          BY <2>5, <3>0, CopySources
        <5> QED BY <2>1, <2>2, <3>0, <3>2, <5>1
      <4>3. SeedOf[d] \in provisional[d]
        BY <1>2, <4>1, <4>2 DEF SeedProvisional
      <4> QED BY <1>7, <3>2, <4>3
    <3> QED BY <3>1, <3>2
  <2> QED BY <1>1, <1>5, <2>8, <2>10, <2>11 DEF Inv
<1> QED BY <1>1, <1>6, <1>7

-----------------------------------------------------------------------------
(* The invariant, and what follows from it. *)

LEMMA InvStart == Init => Inv
<1> SUFFICES ASSUME Init
    PROVE  Inv
  OBVIOUS
<1>1. Sound
  BY StartSound
<1>2. /\ \A n \in Nodes, i \in Ids : store[n][i] = Absent
      /\ \A c \in Clients : outbox[c] = <<>> /\ inbox[c] = <<>> /\ ~link[c] /\ provisional[c] = {}
  BY DEF Init, Empty
<1>3. \A c \in Clients : Out(c) = {} /\ In(c) = {}
  BY <1>2 DEF Out, In, ToSet
<1>4. \A c \in Clients : \A i, r :
         /\ ~Carries(Out(c), i, r) /\ ~Carries(In(c), i, r)
         /\ ~Claims(Out(c), i, r) /\ ~Claims(In(c), i, r)
  BY <1>3, FrameSets
<1>5. \A i \in Ids, r \in Record : ~Copy(i, r)
  <2>1. \A r \in Record : r # Absent
    BY EntryFacts
  <2>2. \A n \in Nodes, i \in Ids, r \in Record : ~At(n, i, r)
    BY <1>2, <2>1 DEF At
  <2> QED BY <1>4, <2>2 DEF Copy, Sent
<1>6. SentBehind
  BY <1>4 DEF SentBehind
<1>7. AuthorHolds /\ VersionsDiffer /\ SeedProvisional
  BY <1>5, SeedAssumption, PageRecordsAssumption DEF AuthorHolds, VersionsDiffer, SeedProvisional
<1>8. Withheld /\ OnTheWay
  BY <1>2 DEF Withheld, OnTheWay
<1> QED BY <1>1, <1>6, <1>7, <1>8 DEF Inv

LEMMA InvStep ==
    ASSUME Inv, Editors, ~EditsProvisional, [Next]_vars
    PROVE  Inv'
<1>1. CASE UNCHANGED vars
  <2>1. Sound'
    BY <1>1, SoundStep DEF Inv
  <2>2. UNCHANGED <<store, dirty, provisional, link, outbox, inbox, unconfirmed, crashes>>
    BY <1>1 DEF vars, clientVars, wireVars, boundVars
  <2>3. Losing
    BY <2>2 DEF Losing, Out, In
  <2> QED BY <2>1, <2>3, LosingInv
<1>2. ASSUME NEW c \in Clients, ClientHandle(c)
      PROVE  Inv'
  <2>1. /\ Takes(c)
        /\ LET frame == Head(inbox[c])
           IN  \/ frame.t = "connected" /\ HandleConnected(c)
               \/ frame.t = "hello" /\ HandleHello(c, frame.pages)
               \/ frame.t = "records" /\ HandleRecords(c, frame.batch)
    BY <1>2 DEF ClientHandle, Takes
  <2> QED BY <2>1, ConnectedInv, HelloInv, RecordsInv
<1>3. ASSUME NEW c \in Clients, ServerHandle(c)
      PROVE  Inv'
  <2>1. /\ ServerTakes(c)
        /\ LET frame == Head(outbox[c])
           IN  \/ frame.t = "hello" /\ AnswerHello(c, frame.pages)
               \/ frame.t = "records" /\ RelayRecords(c, frame.batch)
    BY <1>3 DEF ServerHandle, ServerTakes
  <2> QED BY <2>1, AnswerInv, RelayInv
<1>4. ASSUME NEW c \in Clients, Disconnect(c)
      PROVE  Inv'
  BY <1>4, DisconnectEffect, LosingInv DEF Inv
<1>5. ASSUME ServerRestart
      PROVE  Inv'
  BY <1>5, RestartEffect, LosingInv DEF Inv
<1>6. ASSUME NEW c \in Clients, Crash(c)
      PROVE  Inv'
  BY <1>6, CrashEffect, LosingInv DEF Inv
<1>7. ASSUME NEW c \in Clients, Select(c)
      PROVE  Inv'
  <2>1. Sound'
    BY <1>7, SoundStep DEF Inv, Next
  <2>2. UNCHANGED <<store, dirty, provisional, link, outbox, inbox, unconfirmed, crashes>>
    BY <1>7 DEF Select, wireVars, boundVars
  <2>3. Losing
    BY <2>2 DEF Losing, Out, In
  <2> QED BY <2>1, <2>3, LosingInv
<1>8. CASE Next
  BY <1>2, <1>3, <1>4, <1>5, <1>6, <1>7, <1>8, EditInv, AgentWriteInv, ConnectInv, StartInv DEF Next
<1> QED BY <1>1, <1>8

LEMMA InvVersions == Inv => VersionIdentifiesContent
<1> SUFFICES ASSUME Inv, NEW a \in Copies, NEW b \in Copies,
                    a[1] = b[1], a[2].c = b[2].c, a[2].client = b[2].client
    PROVE  a = b
  BY DEF VersionIdentifiesContent
<1>1. /\ a[1] \in Ids /\ a[2] \in Record /\ a = <<a[1], a[2]>>
      /\ b[2] \in Record /\ b = <<b[1], b[2]>>
  BY CopiesAre DEF Inv, Sound
<1>2. Copy(a[1], a[2]) /\ Copy(a[1], b[2])
  BY <1>1, CopiesAre DEF Inv, Sound
<1>3. a[2] = b[2]
  BY <1>1, <1>2 DEF Inv, VersionsDiffer
<1> QED BY <1>1, <1>3

LEMMA InvSeeds == Inv => SeedWithheld
<1> SUFFICES ASSUME Inv, crashes = 0, NEW e \in Copies, PageOf[e[1]] \in unconfirmed,
                    \/ e[1] \in Pages
                    \/ \E c \in Clients : SeedOf[c] = PageOf[e[1]] /\ Holds(store[c], SeedOf[c])
    PROVE  /\ \A c \in Clients : SeedOf[c] # PageOf[e[1]] => ~Holds(store[c], e[1])
           /\ ~Holds(store[Server], e[1])
           /\ \A f \in InFlight : f.t = "records" => e[1] \notin DOMAIN f.batch
  BY DEF SeedWithheld, Unsent
<1> DEFINE i == e[1]
<1>1. i \in Ids /\ e[2] \in Record /\ Copy(i, e[2])
  BY CopiesAre DEF Inv, Sound
<1>2. PICK c \in Clients : PageOf[i] = SeedOf[c] /\ \E r \in Record : Copy(SeedOf[c], r)
  <2>1. CASE i \in Pages
    <3>1. PageOf[i] = i
      BY <2>1, PageRecordsAssumption
    <3> QED BY <1>1, <3>1 DEF Inv, Sound, Types, Seeds
  <2>2. ASSUME NEW d \in Clients, SeedOf[d] = PageOf[i], Holds(store[d], SeedOf[d])
        PROVE  \E r \in Record : Copy(SeedOf[d], r)
    <3>1. store[d] \in Stores /\ d \in Nodes /\ SeedOf[d] \in Ids
      BY SeedAssumption, PageRecordsAssumption DEF Inv, Sound, Types, Nodes
    <3>2. PICK r \in Record : r = store[d][SeedOf[d]]
      BY <2>2, <3>1, StoreEntry
    <3> QED BY <3>1, <3>2 DEF Copy, At
  <2> QED BY <2>1, <2>2
<1>3. PageOf[i] \in provisional[c]
  BY <1>2 DEF Inv, SeedProvisional
<1> HIDE DEF i
<1>4. \A r \in Record : ~Sent(i, r) /\ \A n \in Nodes \ {c} : ~At(n, i, r)
  BY <1>1, <1>3 DEF Inv, Withheld
<1>5. \A n \in Nodes \ {c} : ~Holds(store[n], i)
  <2>1. \A n \in Nodes : store[n] \in Stores
    BY DEF Inv, Sound, Types
  <2> QED BY <1>1, <1>4, <2>1, StoreEntry DEF At
<1>6. ASSUME NEW f \in InFlight, f.t = "records", i \in DOMAIN f.batch
      PROVE  FALSE
  <2>1. PICK d \in Clients : f \in Out(d) \cup In(d)
    BY InFlightIs
  <2>2. f \in Messages \cup {Connected}
    BY <2>1, QueueTypes DEF Inv, Sound
  <2>3. f.batch \in Batch
    BY <1>6, <2>2, FrameKinds
  <2>4. f.batch[i] \in Record
    BY <1>6, <2>3 DEF Batch
  <2>5. Sent(i, f.batch[i])
    BY <1>6, <2>1 DEF Sent, Carries
  <2> QED BY <1>4, <2>4, <2>5
<1>7. Server \in Nodes \ {c} /\ \A d \in Clients : SeedOf[d] # PageOf[i] => d \in Nodes \ {c}
  BY <1>2, NodesAssumption DEF Nodes
<1>8. /\ \A d \in Clients : SeedOf[d] # PageOf[i] => ~Holds(store[d], i)
      /\ ~Holds(store[Server], i)
      /\ \A f \in InFlight : f.t = "records" => i \notin DOMAIN f.batch
  BY <1>5, <1>6, <1>7
<1> QED BY <1>8 DEF i

LEMMA InvAgree == Inv => SettledAgree
<1> SUFFICES ASSUME Inv, NEW c \in Clients, Settled(c)
    PROVE  store[c] = store[Server]
  BY DEF SettledAgree
<1> DEFINE s == store[c]
           t == store[Server]
<1>1. c \in Nodes /\ Server \in Nodes
  BY DEF Nodes
<1>2. s \in Stores /\ t \in Stores
  BY <1>1 DEF Inv, Sound, Types
<1>3. Out(c) = {} /\ In(c) = {}
  BY DEF Settled, Out, In, ToSet
<1>4. ASSUME NEW i \in Ids
      PROVE  s[i] = t[i]
  <2>1. Down(c, i) /\ Up(c, i)
    BY DEF Inv, OnTheWay, Settled
  <2>2. ~Asks({}) /\ Connected \notin {} /\ \A r : ~Carries({}, i, r)
    BY DEF Asks, Carries
  <2>3. AtLeast(s[i], t[i]) /\ AtLeast(t[i], s[i])
    BY <1>3, <2>1, <2>2 DEF Down, Up
  <2>4. s[i] \in Record \cup {Absent} /\ t[i] \in Record \cup {Absent}
    BY <1>2, StoreEntry
  <2>5. CASE s[i] \in Record /\ t[i] \in Record
    <3>1. s[i].c = t[i].c /\ s[i].client = t[i].client
      BY <2>3, <2>5, SameVersion
    <3>2. PICK q \in Record, r \in Record : q = s[i] /\ r = t[i]
      BY <2>5
    <3>3. Copy(i, q) /\ Copy(i, r)
      BY <1>1, <3>2 DEF Copy, At
    <3>4. q = r
      BY <3>1, <3>2, <3>3 DEF Inv, VersionsDiffer
    <3> QED BY <3>2, <3>4
  <2>6. CASE s[i] \notin Record \/ t[i] \notin Record
    <3>1. s[i] \notin Record /\ t[i] \notin Record
      BY <2>3, <2>4, <2>6, AtLeastFacts
    <3> QED BY <2>4, <3>1
  <2> QED BY <2>5, <2>6
<1> HIDE DEF s, t
<1>5. s = t
  BY <1>2, <1>4 DEF Stores
<1> QED BY <1>5 DEF s, t

LEMMA InvAlways == ~EditsProvisional => (Spec => []Inv)
<1> SUFFICES ASSUME ~EditsProvisional
    PROVE  Spec => []Inv
  OBVIOUS
<1>1. Inv /\ Editors /\ [Next]_vars => Inv'
  BY InvStep
<1>2. Spec => []Editors
  BY SoundAlways, PTL
<1> QED BY <1>1, <1>2, InvStart, PTL DEF Spec

\* A version identifies a content, wherever the copies of a record have got to:
\* in stores, in queues or on the wire, through merges, restarts and crashes
\* (next_clock and merge, with the counter that open restores).
THEOREM VersionsIdentify == ~EditsProvisional => (Spec => []VersionIdentifiesContent)
BY InvAlways, InvVersions, PTL

\* Before any crash, a seed page that no handshake has confirmed is in no store
\* but its maker's and in no frame (library.rs digests, main.rs).
THEOREM SeedsStayWithheld == ~EditsProvisional => (Spec => []SeedWithheld)
BY InvAlways, InvSeeds, PTL

\* A client that is connected and has nothing in flight either way has exactly
\* the server's records (session.rs handle_frame, hub.ts onMessage).
THEOREM SettledAgreement == ~EditsProvisional => (Spec => []SettledAgree)
BY InvAlways, InvAgree, PTL
=============================================================================
