------------------------------ MODULE AppProofs ------------------------------
(***************************************************************************)
(* Proofs about App, for every number of pages, every set of titles and    *)
(* texts: the sidebar is in step with the library and its question with    *)
(* the page asked about; and, as long as no page is added while one is     *)
(* provisional, the editor is in step, titles are a page's own and every   *)
(* variable has its type.                                                  *)
(***************************************************************************)
EXTENDS App, TLAPS, WellFoundedInduction, FiniteSetTheorems

-----------------------------------------------------------------------------
(* The library and its operators. *)

Statuses == {"none", "live", "deleted", "purged"}
LineTitles == Titles \cup {Untitled}

Library ==
    [status : [Pages -> Statuses], title : [Pages -> StoredTitles], text : [Pages -> Texts],
     active : Pages \cup {NoPage}, provisional : Pages \cup {NoPage}]

LEMMA PagesNat == Pages \subseteq Nat /\ NoPage \notin Pages
BY MaxPageAssumption DEF Pages, NoPage

\* The least element that the well-order of the naturals gives.
LEMMA LeastOf ==
    ASSUME NEW S \in SUBSET Nat, S # {}
    PROVE  Min(S) \in S
<1> DEFINE Less == {pair \in Nat \X Nat : pair[1] < pair[2]}
<1>1. IsWellFoundedOn(Less, Nat)
  BY NatLessThanWellFounded DEF OpToRel
<1>2. \E m \in S : \A x \in S : ~ (<<x, m>> \in Less)
  <2> HIDE DEF Less
  <2> QED BY <1>1, WFMin, Zenon
<1>3. PICK m \in S : \A x \in S : ~ (<<x, m>> \in Less)
  BY <1>2
<1>4. \A x \in S : m <= x
  <2> SUFFICES ASSUME NEW x \in S PROVE m <= x
    OBVIOUS
  <2>1. <<x, m>> \notin Less
    BY <1>3
  <2> QED BY <2>1
<1> QED BY <1>4 DEF Min

\* A text has the title of its first line that has one.
LEMMA FirstTitleType ==
    ASSUME NEW text \in Texts
    PROVE  FirstTitle(text) \in LineTitles
<1> DEFINE titled == {k \in DOMAIN text : text[k] # Blank}
<1>1. text \in Seq(Titles \cup {Blank})
  BY TextsAssumption
<1>2. DOMAIN text \subseteq Nat /\ \A k \in DOMAIN text : text[k] \in Titles \cup {Blank}
  BY <1>1
<1>3. CASE titled = {}
  BY <1>3 DEF FirstTitle, LineTitles
<1>4. CASE titled # {}
  <2>1. Min(titled) \in titled
    BY <1>2, <1>4, LeastOf
  <2> QED BY <1>2, <1>4, <2>1 DEF FirstTitle, LineTitles
<1> QED BY <1>3, <1>4

\* A title that a line gives is shown as it is.
LEMMA ShownTitle ==
    ASSUME NEW title \in LineTitles
    PROVE  Shown(title) = title /\ title \in StoredTitles
BY TitlesAssumption DEF Shown, LineTitles, StoredTitles

LEMMA FirstIdFacts ==
    ASSUME NEW lib \in Library
    PROVE  /\ Live(lib) \subseteq Pages
           /\ Live(lib) = {} => FirstId(lib) = NoPage
           /\ Live(lib) # {} => FirstId(lib) \in Live(lib)
<1>1. Live(lib) \subseteq Pages
  BY DEF Live
<1>2. Live(lib) # {} => Min(Live(lib)) \in Live(lib)
  BY <1>1, PagesNat, LeastOf
<1> QED BY <1>1, <1>2 DEF FirstId

\* The list shown depends on statuses and titles alone.
LEMMA SameEntries ==
    ASSUME NEW lib, NEW other, lib.status = other.status, lib.title = other.title
    PROVE  Entries(lib) = Entries(other) /\ Live(lib) = Live(other)
<1>1. Live(lib) = Live(other)
  BY DEF Live
<1> QED BY <1>1 DEF Entries

LEMMA SameIndex ==
    ASSUME NEW lib, NEW other, lib.status = other.status, lib.active = other.active
    PROVE  ActiveIndex(lib) = ActiveIndex(other) /\ ActiveId(lib) = ActiveId(other)
<1>1. Live(lib) = Live(other)
  BY DEF Live
<1>2. ActiveId(lib) = ActiveId(other)
  BY <1>1 DEF ActiveId
<1> QED BY <1>1, <1>2 DEF ActiveIndex

-----------------------------------------------------------------------------
(* The operators from one library to the next. *)

LEMMA TextsHeld == <<>> \in Texts /\ <<Blank>> \in Texts
BY TextsAssumption

LEMMA ActiveIdFacts ==
    ASSUME NEW lib \in Library
    PROVE  /\ ActiveId(lib) \in Live(lib) \cup {NoPage}
           /\ ActiveId(lib) # NoPage <=> lib.active \in Live(lib)
           /\ ActiveId(lib) # NoPage => ActiveId(lib) = lib.active
           /\ Live(lib) \subseteq Pages
BY PagesNat DEF ActiveId, Live

LEMMA SetActiveIdFacts ==
    ASSUME NEW lib \in Library, NEW p
    PROVE  /\ SetActiveId(lib, p) \in Library
           /\ SetActiveId(lib, p) = [lib EXCEPT !.active = SetActiveId(lib, p).active]
           /\ SetActiveId(lib, p).active = IF p \in Live(lib) THEN p ELSE lib.active
<1>1. Live(lib) \subseteq Pages
  BY FirstIdFacts
<1>2. CASE p \in Live(lib)
  BY <1>1, <1>2 DEF SetActiveId, Library
<1>3. CASE p \notin Live(lib)
  BY <1>3 DEF SetActiveId, Library
<1> QED BY <1>2, <1>3

LEMMA CreatePageFacts ==
    ASSUME NEW lib \in Library, NEW p \in Pages
    PROVE  /\ CreatePage(lib, p) \in Library
           /\ CreatePage(lib, p).active = p
           /\ CreatePage(lib, p).provisional = lib.provisional
           /\ CreatePage(lib, p).title = [lib.title EXCEPT ![p] = Untitled]
           /\ CreatePage(lib, p).text = [lib.text EXCEPT ![p] = <<Blank>>]
           /\ Live(CreatePage(lib, p)) = Live(lib) \cup {p}
<1> DEFINE new == CreatePage(lib, p)
<1>1. /\ new.status = [lib.status EXCEPT ![p] = "live"]
      /\ new.title = [lib.title EXCEPT ![p] = Untitled]
      /\ new.text = [lib.text EXCEPT ![p] = <<Blank>>]
      /\ new.active = p /\ new.provisional = lib.provisional
  BY DEF CreatePage, Library
<1>2. new \in Library
  BY TextsHeld DEF CreatePage, Library, Statuses, StoredTitles
<1>3. Live(new) = Live(lib) \cup {p}
  BY <1>1 DEF Live, Library
<1> QED BY <1>1, <1>2, <1>3

LEMMA TombstonedFacts ==
    ASSUME NEW lib \in Library, NEW p \in Pages
    PROVE  /\ Tombstoned(lib, p) \in Library
           /\ Tombstoned(lib, p).active = lib.active
           /\ Tombstoned(lib, p).provisional = lib.provisional
           /\ Tombstoned(lib, p).title = [lib.title EXCEPT ![p] = Untitled]
           /\ Tombstoned(lib, p).text = lib.text
           /\ Live(Tombstoned(lib, p)) = Live(lib) \ {p}
<1> DEFINE new == Tombstoned(lib, p)
<1>1. /\ new.status = [lib.status EXCEPT ![p] = "deleted"]
      /\ new.title = [lib.title EXCEPT ![p] = Untitled]
      /\ new.text = lib.text /\ new.active = lib.active /\ new.provisional = lib.provisional
  BY DEF Tombstoned, Library
<1>2. new \in Library
  BY DEF Tombstoned, Library, Statuses, StoredTitles
<1>3. Live(new) = Live(lib) \ {p}
  BY <1>1 DEF Live, Library
<1> QED BY <1>1, <1>2, <1>3

LEMMA MoveFromFacts ==
    ASSUME NEW lib \in Library, NEW p
    PROVE  /\ MoveFrom(lib, p) \in Library
           /\ MoveFrom(lib, p) = [lib EXCEPT !.active = MoveFrom(lib, p).active]
           /\ MoveFrom(lib, p).active = IF lib.active = p THEN FirstId(lib) ELSE lib.active
<1>1. FirstId(lib) \in Pages \cup {NoPage}
  BY FirstIdFacts
<1> QED BY <1>1 DEF MoveFrom, Library

LEMMA DeletePageFacts ==
    ASSUME NEW lib \in Library, NEW p \in Pages
    PROVE  /\ DeletePage(lib, p) \in Library
           /\ DeletePage(lib, p).provisional = lib.provisional
           /\ DeletePage(lib, p).title = [lib.title EXCEPT ![p] = Untitled]
           /\ DeletePage(lib, p).text = lib.text
           /\ Live(DeletePage(lib, p)) = Live(lib) \ {p}
           /\ DeletePage(lib, p).active =
                 IF lib.active = p THEN FirstId(Tombstoned(lib, p)) ELSE lib.active
<1> DEFINE gone == Tombstoned(lib, p)
<1>1. gone \in Library
  BY TombstonedFacts
<1>2. DeletePage(lib, p) = [gone EXCEPT !.active = DeletePage(lib, p).active]
  BY <1>1, MoveFromFacts DEF DeletePage
<1>3. DeletePage(lib, p).status = gone.status
  BY <1>1, <1>2 DEF Library
<1>4. Live(DeletePage(lib, p)) = Live(gone)
  BY <1>3 DEF Live
<1>5. /\ DeletePage(lib, p) \in Library
      /\ DeletePage(lib, p).active = IF gone.active = p THEN FirstId(gone) ELSE gone.active
  BY <1>1, MoveFromFacts DEF DeletePage
<1>6. /\ DeletePage(lib, p).provisional = gone.provisional
      /\ DeletePage(lib, p).title = gone.title
      /\ DeletePage(lib, p).text = gone.text
  BY <1>1, <1>2 DEF Library
<1> QED BY <1>4, <1>5, <1>6, TombstonedFacts

LEMMA EditedFacts ==
    ASSUME NEW lib \in Library, NEW p \in Pages, NEW text \in Texts
    PROVE  /\ [lib EXCEPT !.text[p] = text] \in Library
           /\ [lib EXCEPT !.text[p] = text] =
                 [lib EXCEPT !.text = [lib.text EXCEPT ![p] = text]]
BY DEF Library

LEMMA RenewedFacts ==
    ASSUME library \in Library, NEW p \in Pages, NEW title \in StoredTitles, NEW text \in Texts
    PROVE  /\ Renewed(p, title, text) \in Library
           /\ Renewed(p, title, text).active = library.active
           /\ Renewed(p, title, text).provisional = library.provisional
           /\ Renewed(p, title, text).title = [library.title EXCEPT ![p] = title]
           /\ Renewed(p, title, text).text = [library.text EXCEPT ![p] = text]
           /\ Live(Renewed(p, title, text)) = Live(library) \cup {p}
<1> DEFINE new == Renewed(p, title, text)
<1>1. /\ new.status = [library.status EXCEPT ![p] = "live"]
      /\ new.title = [library.title EXCEPT ![p] = title]
      /\ new.text = [library.text EXCEPT ![p] = text]
      /\ new.active = library.active /\ new.provisional = library.provisional
  BY DEF Renewed, Library
<1>2. new \in Library
  BY DEF Renewed, Library, Statuses
<1>3. Live(new) = Live(library) \cup {p}
  BY <1>1 DEF Live, Library
<1> QED BY <1>1, <1>2, <1>3

LEMMA ConfirmProvisionalFacts ==
    ASSUME NEW lib \in Library
    PROVE  /\ ConfirmProvisional(lib) \in Library
           /\ ConfirmProvisional(lib).provisional = NoPage
           /\ ConfirmProvisional(lib).status = lib.status
           /\ ConfirmProvisional(lib).title = lib.title
           /\ ConfirmProvisional(lib).text = lib.text
           /\ ConfirmProvisional(lib).active = lib.active
BY DEF ConfirmProvisional, Library

\* The page is gone; the active page moves when it was that one.
LEMMA DropProvisionalFacts ==
    ASSUME NEW lib \in Library, lib.provisional \in Pages
    PROVE  /\ DropProvisional(lib) \in Library
           /\ DropProvisional(lib).provisional = NoPage
           /\ DropProvisional(lib).title = lib.title
           /\ Live(DropProvisional(lib)) = Live(lib) \ {lib.provisional}
           /\ lib.active = lib.provisional =>
                 DropProvisional(lib).active \in Live(DropProvisional(lib)) \cup {NoPage}
           /\ lib.active # lib.provisional => DropProvisional(lib).active = lib.active
<1> DEFINE p == lib.provisional
           purged == [lib EXCEPT !.provisional = NoPage, !.status[p] = "purged",
                                 !.text[p] = <<>>]
<1>1. /\ purged.status = [lib.status EXCEPT ![p] = "purged"]
      /\ purged.title = lib.title
      /\ purged.active = lib.active /\ purged.provisional = NoPage
  BY DEF Library
<1>2. purged \in Library
  BY TextsHeld DEF Library, Statuses
<1>3. Live(purged) = Live(lib) \ {p}
  BY <1>1 DEF Live, Library
<1>4. DropProvisional(lib) = MoveFrom(purged, p)
  BY DEF DropProvisional
<1>5. /\ DropProvisional(lib) \in Library
      /\ DropProvisional(lib) = [purged EXCEPT !.active = DropProvisional(lib).active]
      /\ DropProvisional(lib).active = IF purged.active = p THEN FirstId(purged) ELSE purged.active
  <2> HIDE DEF purged
  <2> QED BY <1>2, <1>4, MoveFromFacts
<1>6. /\ DropProvisional(lib).status = purged.status
      /\ DropProvisional(lib).title = purged.title
      /\ DropProvisional(lib).provisional = purged.provisional
  <2> HIDE DEF purged
  <2> QED BY <1>2, <1>5 DEF Library
<1>7. Live(DropProvisional(lib)) = Live(purged)
  BY <1>6 DEF Live
<1>8. FirstId(purged) \in Live(purged) \cup {NoPage}
  <2> HIDE DEF purged
  <2> QED BY <1>2, FirstIdFacts
<1> HIDE DEF purged
<1> QED BY <1>1, <1>3, <1>5, <1>6, <1>7, <1>8

-----------------------------------------------------------------------------
(* Titles. *)

LEMMA RetitledFacts ==
    ASSUME NEW lib \in Library, NEW title \in LineTitles
    PROVE  /\ Retitled(lib, title) \in Library
           /\ Retitled(lib, title).status = lib.status
           /\ Retitled(lib, title).text = lib.text
           /\ Retitled(lib, title).active = lib.active
           /\ Retitled(lib, title).provisional = lib.provisional
           /\ Live(Retitled(lib, title)) = Live(lib)
           /\ ActiveId(Retitled(lib, title)) = ActiveId(lib)
           /\ Retitled(lib, title).title =
                 IF Stale(lib, title) THEN [lib.title EXCEPT ![ActiveId(lib)] = title] ELSE lib.title
           /\ ActiveId(lib) # NoPage => Shown(Retitled(lib, title).title[ActiveId(lib)]) = title
<1> DEFINE new == Retitled(lib, title)
<1>1. CASE ~Stale(lib, title)
  <2>1. new = lib
    BY <1>1 DEF Retitled
  <2> QED BY <1>1, <2>1 DEF Stale
<1>2. CASE Stale(lib, title)
  <2>1. ActiveId(lib) \in Pages
    BY <1>2, ActiveIdFacts DEF Stale
  <2>2. new = [lib EXCEPT !.title[ActiveId(lib)] = title]
    BY <1>2 DEF Retitled, SetTitle
  <2>3. /\ new \in Library
        /\ new.status = lib.status /\ new.text = lib.text
        /\ new.active = lib.active /\ new.provisional = lib.provisional
        /\ new.title = [lib.title EXCEPT ![ActiveId(lib)] = title]
    BY <2>1, <2>2, ShownTitle DEF Library
  <2>4. Live(new) = Live(lib) /\ ActiveId(new) = ActiveId(lib)
    BY <2>3, SameIndex DEF Live
  <2>5. new.title[ActiveId(lib)] = title
    BY <2>1, <2>3 DEF Library
  <2> QED BY <1>2, <2>3, <2>4, <2>5, ShownTitle
<1> QED BY <1>1, <1>2

\* A row retitled together with its page leaves the list in step.
IsSidebar(sb) == sb = [rows |-> sb.rows, active |-> sb.active, confirm |-> sb.confirm]
InStepWith(sb, lib) == sb.rows = Entries(lib) /\ sb.active = ActiveIndex(lib)

LEMMA RetitledRowFacts ==
    ASSUME NEW lib \in Library, NEW title \in LineTitles, NEW sb,
           IsSidebar(sb), InStepWith(sb, lib)
    PROVE  /\ IsSidebar(RetitledRow(sb, lib, title))
           /\ InStepWith(RetitledRow(sb, lib, title), Retitled(lib, title))
           /\ RetitledRow(sb, lib, title).confirm = sb.confirm
           /\ DOMAIN RetitledRow(sb, lib, title).rows = DOMAIN sb.rows
           /\ \A k \in DOMAIN sb.rows : RetitledRow(sb, lib, title).rows[k].id = sb.rows[k].id
<1> DEFINE new == RetitledRow(sb, lib, title)
           lib2 == Retitled(lib, title)
           p == ActiveId(lib)
<1>1. CASE ~Stale(lib, title)
  BY <1>1 DEF RetitledRow, Retitled
<1>2. CASE Stale(lib, title)
  <2> DEFINE order == InOrder(Live(lib))
  <2>1. p \in Pages
    BY <1>2, ActiveIdFacts DEF Stale
  <2>2. sb.rows = [k \in DOMAIN order |-> [id |-> order[k], title |-> Shown(lib.title[order[k]])]]
    BY DEF InStepWith, Entries
  <2>3. new = [sb EXCEPT !.rows = [k \in DOMAIN sb.rows |->
                 IF sb.rows[k].id = p THEN [sb.rows[k] EXCEPT !.title = title] ELSE sb.rows[k]]]
    BY <1>2 DEF RetitledRow, SetRowTitle
  <2>4. /\ IsSidebar(new) /\ new.active = sb.active /\ new.confirm = sb.confirm
        /\ new.rows = [k \in DOMAIN sb.rows |->
                 IF sb.rows[k].id = p THEN [sb.rows[k] EXCEPT !.title = title] ELSE sb.rows[k]]
    BY <2>3 DEF IsSidebar
  <2>5. new.rows = [k \in DOMAIN order |->
                       [id |-> order[k],
                        title |-> IF order[k] = p THEN title ELSE Shown(lib.title[order[k]])]]
    BY <2>2, <2>4
  <2>6. lib2.status = lib.status /\ lib2.active = lib.active
        /\ lib2.title = [lib.title EXCEPT ![p] = title]
        /\ Live(lib2) = Live(lib)
    BY <1>2, RetitledFacts
  <2>7. \A k \in DOMAIN order : Shown(lib2.title[order[k]]) =
                                   IF order[k] = p THEN title ELSE Shown(lib.title[order[k]])
    BY <2>1, <2>6, ShownTitle DEF Library
  <2>8. Entries(lib2) = [k \in DOMAIN order |->
                           [id |-> order[k], title |-> Shown(lib2.title[order[k]])]]
    BY <2>6 DEF Entries
  <2>9. new.rows = Entries(lib2)
    BY <2>5, <2>7, <2>8
  <2>10. new.active = ActiveIndex(lib2)
    BY <2>4, <2>6, SameIndex DEF InStepWith
  <2>11. DOMAIN new.rows = DOMAIN sb.rows /\ \A k \in DOMAIN sb.rows : new.rows[k].id = sb.rows[k].id
    BY <2>2, <2>5
  <2> QED BY <2>4, <2>9, <2>10, <2>11 DEF InStepWith
<1> QED BY <1>1, <1>2

-----------------------------------------------------------------------------
(* The sidebar in step with the library, and its question with its page. *)

EditorState == [page : Pages \cup {NoPage}, title : LineTitles]

Typed ==
    /\ running \in BOOLEAN
    /\ library \in Library
    /\ editor \in EditorState
    /\ running => editor.page \in Pages
    /\ IsSidebar(sidebar)

ViewsInv == Typed /\ SidebarInStep /\ ConfirmAims

LEMMA LoadDocumentFacts ==
    ASSUME NEW lib \in Library, NEW p \in Pages
    PROVE  LoadDocument(lib, p) \in EditorState /\ LoadDocument(lib, p).page = p
<1>1. FirstTitle(lib.text[p]) \in LineTitles
  BY FirstTitleType DEF Library
<1> QED BY <1>1 DEF LoadDocument, EditorState

LEMMA LoadActiveFacts ==
    ASSUME NEW lib \in Library, NEW ed \in EditorState, ed.page \in Pages
    PROVE  LoadActive(lib, ed) \in EditorState /\ LoadActive(lib, ed).page \in Pages
<1>1. CASE ActiveId(lib) = NoPage
  BY <1>1 DEF LoadActive
<1>2. CASE ActiveId(lib) # NoPage
  <2>1. ActiveId(lib) \in Pages
    BY <1>2, ActiveIdFacts
  <2> QED BY <1>2, <2>1, LoadDocumentFacts DEF LoadActive
<1> QED BY <1>1, <1>2

LEMMA SetEntriesFacts ==
    ASSUME NEW sb, NEW lib
    PROVE  /\ IsSidebar(SetEntries(sb, lib))
           /\ InStepWith(SetEntries(sb, lib), lib)
           /\ SetEntries(sb, lib).confirm = NoRow
BY DEF SetEntries, IsSidebar, InStepWith

LEMMA RefreshFacts ==
    ASSUME NEW lib \in Library, Typed, running, RefreshLibrary(lib)
    PROVE  /\ library' \in Library
           /\ editor' \in EditorState /\ editor'.page \in Pages
           /\ IsSidebar(sidebar') /\ InStepWith(sidebar', library')
           /\ sidebar'.confirm = NoRow
<1> DEFINE picked == IF ActiveId(lib) = NoPage THEN SetActiveId(lib, FirstId(lib)) ELSE lib
<1>1. picked \in Library
  BY SetActiveIdFacts
<1>2. /\ library' = picked
      /\ sidebar' = SetEntries(sidebar, picked)
      /\ editor' = IF ActiveId(picked) # ActiveId(lib) THEN LoadActive(picked, editor) ELSE editor
  BY DEF RefreshLibrary
<1>3. editor \in EditorState /\ editor.page \in Pages
  BY DEF Typed
<1> HIDE DEF picked
<1>4. editor' \in EditorState /\ editor'.page \in Pages
  BY <1>1, <1>2, <1>3, LoadActiveFacts
<1> QED BY <1>1, <1>2, <1>4, SetEntriesFacts

\* What a step has to establish when it leaves no question open.
LEMMA Unasked ==
    ASSUME running' \in BOOLEAN, library' \in Library, editor' \in EditorState,
           running' => editor'.page \in Pages,
           IsSidebar(sidebar'), running' => InStepWith(sidebar', library'),
           sidebar'.confirm = NoRow
    PROVE  ViewsInv'
BY DEF ViewsInv, Typed, SidebarInStep, ConfirmAims, InStepWith

LEMMA ViewsInit == Init => ViewsInv
<1> SUFFICES ASSUME Init PROVE ViewsInv
  OBVIOUS
<1>1. NoLibrary \in Library
  BY TextsHeld DEF NoLibrary, Library, Statuses, StoredTitles
<1>2. NoEditor \in EditorState
  BY DEF NoEditor, EditorState, LineTitles
<1> QED BY <1>1, <1>2 DEF Init, ViewsInv, Typed, SidebarInStep, ConfirmAims, NoSidebar, IsSidebar

LEMMA EndedViews ==
    ASSUME NEW lib \in Library, Ended(lib)
    PROVE  ViewsInv'
<1>1. library' \in Library
  BY DEF Ended, Library
<1>2. editor' \in EditorState
  BY DEF Ended, NoEditor, EditorState, LineTitles
<1>3. IsSidebar(sidebar') /\ sidebar'.confirm = NoRow
  BY DEF Ended, NoSidebar, IsSidebar
<1> QED BY <1>1, <1>2, <1>3, Unasked DEF Ended

LEMMA StartViews ==
    ASSUME ViewsInv, NEW online \in BOOLEAN, Start(online)
    PROVE  ViewsInv'
<1>1. library' \in Library /\ library'.active \in Pages
  <2>1. CASE Live(library) # {} /\ library' = [library EXCEPT !.active = FirstId(library)]
    <3>1. FirstId(library) \in Pages
      BY <2>1, FirstIdFacts DEF ViewsInv, Typed
    <3> QED BY <2>1, <3>1 DEF ViewsInv, Typed, Library
  <2>2. ASSUME NEW p \in Pages,
               library' = [CreatePage(library, p) EXCEPT
                              !.provisional = IF online THEN p ELSE NoPage]
        PROVE  library' \in Library /\ library'.active \in Pages
    <3>1. CreatePage(library, p) \in Library /\ CreatePage(library, p).active = p
      BY CreatePageFacts DEF ViewsInv, Typed
    <3> QED BY <2>2, <3>1 DEF Library
  <2> QED BY <2>1, <2>2 DEF Start
<1>2. editor' \in EditorState /\ editor'.page \in Pages
  BY <1>1, LoadDocumentFacts DEF Start
<1> QED BY <1>1, <1>2, SetEntriesFacts, Unasked DEF Start

LEMMA TypeViews ==
    ASSUME ViewsInv, NEW text \in Texts, Type(text)
    PROVE  ViewsInv'
<1> DEFINE edited == [library EXCEPT !.text[editor.page] = text]
           laid == Relaid(edited, editor)
<1>1. /\ library \in Library /\ editor.page \in Pages /\ running
      /\ IsSidebar(sidebar) /\ InStepWith(sidebar, library)
  BY DEF ViewsInv, Typed, SidebarInStep, InStepWith, Type
<1>2. edited \in Library /\ edited.status = library.status
      /\ edited.title = library.title /\ edited.active = library.active
  BY <1>1 DEF Library
<1>3. /\ library' = Retitled(edited, laid.title)
      /\ editor' = laid
      /\ sidebar' = RetitledRow(sidebar, edited, laid.title)
      /\ running' = running /\ asked' = asked
  BY DEF Type
<1> HIDE DEF edited
<1>4. laid \in EditorState /\ laid.page \in Pages
  BY <1>1, <1>2, LoadDocumentFacts DEF Relaid
<1>5. laid.title \in LineTitles
  BY <1>4 DEF EditorState
<1>6. InStepWith(sidebar, edited)
  BY <1>1, <1>2, SameEntries, SameIndex DEF InStepWith
<1>7. library' \in Library
  BY <1>2, <1>3, <1>5, RetitledFacts
<1>8. /\ IsSidebar(sidebar') /\ InStepWith(sidebar', library')
      /\ sidebar'.confirm = sidebar.confirm
      /\ DOMAIN sidebar'.rows = DOMAIN sidebar.rows
      /\ \A k \in DOMAIN sidebar.rows : sidebar'.rows[k].id = sidebar.rows[k].id
  BY <1>1, <1>2, <1>3, <1>5, <1>6, RetitledRowFacts
<1>9. ConfirmAims'
  BY <1>3, <1>8 DEF ConfirmAims, ViewsInv
<1> QED BY <1>1, <1>3, <1>4, <1>7, <1>8, <1>9 DEF ViewsInv, Typed, SidebarInStep, InStepWith

\* The end of a sidebar action, with the editor loaded or left.
LEMMA ChangedViews ==
    ASSUME ViewsInv, running, NEW lib \in Library, Changed(lib),
           editor' \in EditorState, editor'.page \in Pages
    PROVE  ViewsInv'
<1>1. IsSidebar(sidebar') /\ InStepWith(sidebar', library') /\ sidebar'.confirm = NoRow
  BY SetEntriesFacts DEF Changed
<1> QED BY <1>1, Unasked DEF Changed, ViewsInv, Typed

\* sync_title, the first step of each sidebar action.
LEMMA SyncedLibrary ==
    ASSUME ViewsInv, running
    PROVE  /\ library \in Library /\ editor \in EditorState /\ editor.page \in Pages
           /\ editor.title \in LineTitles
           /\ Retitled(library, editor.title) \in Library
<1>1. library \in Library /\ editor \in EditorState /\ editor.page \in Pages
  BY DEF ViewsInv, Typed
<1>2. editor.title \in LineTitles
  BY <1>1 DEF EditorState
<1> QED BY <1>1, <1>2, RetitledFacts

LEMMA CreateViews ==
    ASSUME ViewsInv, NEW p \in Pages, Create(p)
    PROVE  ViewsInv'
<1> DEFINE made == CreatePage(Retitled(library, editor.title), p)
<1>1. running /\ Changed(made) /\ editor' = LoadActive(made, editor)
  BY DEF Create, Clicks
<1>2. made \in Library
  BY <1>1, SyncedLibrary, CreatePageFacts
<1> HIDE DEF made
<1>3. editor' \in EditorState /\ editor'.page \in Pages
  BY <1>1, <1>2, SyncedLibrary, LoadActiveFacts
<1> QED BY <1>1, <1>2, <1>3, ChangedViews

LEMMA SelectViews ==
    ASSUME ViewsInv, NEW k, Select(k)
    PROVE  ViewsInv'
<1> DEFINE picked == SetActiveId(Retitled(library, editor.title), sidebar.rows[k].id)
<1>1. running /\ Changed(picked) /\ editor' = LoadActive(picked, editor)
  BY DEF Select, Clicks
<1>2. picked \in Library
  BY <1>1, SyncedLibrary, SetActiveIdFacts
<1> HIDE DEF picked
<1>3. editor' \in EditorState /\ editor'.page \in Pages
  BY <1>1, <1>2, SyncedLibrary, LoadActiveFacts
<1> QED BY <1>1, <1>2, <1>3, ChangedViews

LEMMA DeleteViews ==
    ASSUME ViewsInv, Delete
    PROVE  ViewsInv'
<1> DEFINE p == sidebar.rows[sidebar.confirm].id
           titled == Retitled(library, editor.title)
<1>1. running /\ titled \in Library /\ editor \in EditorState /\ editor.page \in Pages
      /\ editor.title \in LineTitles /\ library \in Library
  BY SyncedLibrary DEF Delete
<1>2. CASE /\ Deletable(titled, p)
           /\ Changed(DeletePage(titled, p))
           /\ editor' = IF p = ActiveId(titled) THEN LoadActive(library', editor) ELSE editor
  <2>1. p \in Pages
    BY <1>1, <1>2, FirstIdFacts DEF Deletable
  <2>2. DeletePage(titled, p) \in Library
    BY <1>1, <2>1, DeletePageFacts
  <2>3. library' = DeletePage(titled, p)
    BY <1>2 DEF Changed
  <2>4. editor' \in EditorState /\ editor'.page \in Pages
    BY <1>1, <1>2, <2>2, <2>3, LoadActiveFacts
  <2> QED BY <1>1, <1>2, <2>2, <2>4, ChangedViews
<1>3. CASE /\ library' = titled
           /\ sidebar' = RetitledRow([sidebar EXCEPT !.confirm = NoRow], library, editor.title)
           /\ UNCHANGED <<running, link, editor>>
  <2> DEFINE closed == [sidebar EXCEPT !.confirm = NoRow]
  <2>1. IsSidebar(sidebar) /\ InStepWith(sidebar, library)
    BY <1>1 DEF ViewsInv, Typed, SidebarInStep, InStepWith
  <2>2. IsSidebar(closed) /\ InStepWith(closed, library) /\ closed.confirm = NoRow
    BY <2>1 DEF IsSidebar, InStepWith
  <2> HIDE DEF closed
  <2>3. sidebar' = RetitledRow(closed, library, editor.title)
    BY <1>3 DEF closed
  <2>4. IsSidebar(sidebar') /\ InStepWith(sidebar', titled) /\ sidebar'.confirm = NoRow
    BY <1>1, <2>2, <2>3, RetitledRowFacts
  <2> QED BY <1>1, <1>3, <2>4, Unasked
<1> QED BY <1>2, <1>3 DEF Delete

LEMMA HelloViews ==
    ASSUME ViewsInv, NEW empty \in BOOLEAN, HandleHello(empty)
    PROVE  ViewsInv'
<1>1. running /\ running' = running /\ Typed /\ library \in Library
  BY DEF HandleHello, ViewsInv, Typed
<1>2. CASE RefreshLibrary(library)
  BY <1>1, <1>2, RefreshFacts, Unasked
<1>3. CASE RefreshLibrary(ConfirmProvisional(library))
  BY <1>1, <1>3, ConfirmProvisionalFacts, RefreshFacts, Unasked
<1>4. CASE library.provisional # NoPage /\ RefreshLibrary(DropProvisional(library))
  <2>1. library.provisional \in Pages
    BY <1>1, <1>4 DEF Library
  <2>2. DropProvisional(library) \in Library
    BY <1>1, <2>1, DropProvisionalFacts
  <2> QED BY <1>1, <1>4, <2>2, RefreshFacts, Unasked
<1> QED BY <1>2, <1>3, <1>4 DEF HandleHello

LEMMA AfterRecordsViews ==
    ASSUME ViewsInv, running, running' = running, NEW lib \in Library, NEW pages,
           AfterRecords(lib, pages)
    PROVE  ViewsInv'
<1> DEFINE title == DeriveDocumentTitle(lib, editor)
<1>1. Typed /\ editor \in EditorState /\ editor.page \in Pages /\ running' \in BOOLEAN
  BY DEF ViewsInv, Typed
<1>2. title \in LineTitles
  BY <1>1, FirstTitleType DEF DeriveDocumentTitle, Library
<1>3. CASE RefreshLibrary(lib)
  BY <1>1, <1>3, RefreshFacts, Unasked
<1>4. CASE /\ library' = Retitled(lib, title)
           /\ editor' = Relaid(lib, editor)
           /\ sidebar' = SetEntries(sidebar, library')
  <2>1. library' \in Library
    BY <1>2, <1>4, RetitledFacts
  <2>2. editor' \in EditorState /\ editor'.page \in Pages
    BY <1>1, <1>4, LoadDocumentFacts DEF Relaid
  <2> QED BY <1>1, <1>4, <2>1, <2>2, SetEntriesFacts, Unasked
<1>5. CASE library' = lib /\ sidebar' = SetEntries(sidebar, lib) /\ editor' = editor
  BY <1>1, <1>5, SetEntriesFacts, Unasked
<1> QED BY <1>3, <1>4, <1>5 DEF AfterRecords

LEMMA RecordsViews ==
    ASSUME ViewsInv, HandleRecords
    PROVE  ViewsInv'
<1>1. running /\ running' = running /\ library \in Library
  BY DEF HandleRecords, ViewsInv, Typed
<1>2. CASE AfterRecords(library, {})
  BY <1>1, <1>2, AfterRecordsViews
<1>3. ASSUME NEW p \in Pages, AfterRecords(Tombstoned(library, p), {p})
      PROVE  ViewsInv'
  BY <1>1, <1>3, TombstonedFacts, AfterRecordsViews
<1>4. ASSUME NEW p \in Pages, NEW title \in StoredTitles, NEW text \in Texts,
             AfterRecords(Renewed(p, title, text), {p})
      PROVE  ViewsInv'
  BY <1>1, <1>4, RenewedFacts, AfterRecordsViews
<1> QED BY <1>2, <1>3, <1>4 DEF HandleRecords

LEMMA ViewsStep == ViewsInv /\ [Next]_vars => ViewsInv'
<1> SUFFICES ASSUME ViewsInv, [Next]_vars PROVE ViewsInv'
  OBVIOUS
<1>1. ASSUME NEW online \in BOOLEAN, Start(online) PROVE ViewsInv'
  BY <1>1, StartViews
<1>2. CASE Close
  <2>1. Retitled(library, editor.title) \in Library
    BY <1>2, SyncedLibrary DEF Close
  <2> QED BY <1>2, <2>1, EndedViews DEF Close
<1>3. CASE Crash
  BY <1>3, EndedViews DEF Crash, ViewsInv, Typed
<1>4. ASSUME NEW text \in Texts, Type(text) PROVE ViewsInv'
  BY <1>4, TypeViews
<1>5. ASSUME NEW p \in Pages, Create(p) PROVE ViewsInv'
  BY <1>5, CreateViews
<1>6. ASSUME NEW k \in 1 .. MaxPage, Select(k) PROVE ViewsInv'
  BY <1>6, SelectViews
<1>7. ASSUME NEW k \in 1 .. MaxPage, AskDelete(k) PROVE ViewsInv'
  BY <1>7 DEF AskDelete, Clicks, ViewsInv, Typed, SidebarInStep, ConfirmAims, IsSidebar
<1>8. CASE Cancel
  <2>1. IsSidebar(sidebar') /\ sidebar'.confirm = NoRow
        /\ sidebar'.rows = sidebar.rows /\ sidebar'.active = sidebar.active
    BY <1>8 DEF Cancel, ViewsInv, Typed, IsSidebar
  <2> QED BY <1>8, <2>1, Unasked DEF Cancel, ViewsInv, Typed, SidebarInStep, InStepWith
<1>9. CASE Delete
  BY <1>9, DeleteViews
<1>10. ASSUME NEW empty \in BOOLEAN, HandleHello(empty) PROVE ViewsInv'
  BY <1>10, HelloViews
<1>11. CASE HandleRecords
  BY <1>11, RecordsViews
<1>12. CASE UNCHANGED vars
  BY <1>12 DEF vars, ViewsInv, Typed, SidebarInStep, ConfirmAims
<1> QED BY <1>1, <1>2, <1>3, <1>4, <1>5, <1>6, <1>7, <1>8, <1>9, <1>10, <1>11, <1>12 DEF Next

\* While the process runs the sidebar shows the library's pages, titles and
\* active page, after every handler, edit and frame (app.rs, sidebar.rs).
THEOREM SidebarFollows == Spec => []SidebarInStep
<1>1. ViewsInv => SidebarInStep
  BY DEF ViewsInv
<1> QED BY ViewsInit, ViewsStep, <1>1, PTL DEF Spec

\* The open question is about the page whose delete button was pressed, whatever
\* frames do to the rows meanwhile (sidebar.rs handle_down, apply_entries).
THEOREM ConfirmAimed == Spec => []ConfirmAims
<1>1. ViewsInv => ConfirmAims
  BY DEF ViewsInv
<1> QED BY ViewsInit, ViewsStep, <1>1, PTL DEF Spec

-----------------------------------------------------------------------------
(* The editor in step with the library. *)

\* The editor shows the active page as it was last laid out.  A page that is
\* active but deleted stays there while the library is empty, so the editor has
\* to be in step with it too: a peer may bring that very page back.
Laid(lib, ed) == lib.active # NoPage => ed = LoadDocument(lib, lib.active)
Covered(lib) == Live(lib) # {} => lib.active \in Live(lib)

\* A withheld page is alone in the library, so dropping it moves nothing.
Withheld(lib) == lib.provisional # NoPage => link = "waiting" /\ Live(lib) = {lib.provisional}

EditorInv ==
    /\ ViewsInv
    /\ running => Laid(library, editor) /\ Covered(library) /\ Withheld(library)
    /\ ~running => library.active = NoPage /\ library.provisional = NoPage

LEMMA CoveredActive ==
    ASSUME NEW lib \in Library, Covered(lib), Live(lib) # {}
    PROVE  ActiveId(lib) = lib.active /\ lib.active \in Live(lib) /\ lib.active \in Pages
BY ActiveIdFacts DEF Covered

\* LoadActive of a library that has its active page.
LEMMA LoadActiveLaid ==
    ASSUME NEW lib \in Library, NEW ed, ActiveId(lib) # NoPage \/ Laid(lib, ed)
    PROVE  Laid(lib, LoadActive(lib, ed))
BY ActiveIdFacts DEF LoadActive, Laid

\* The document depends on the text of its page alone.
LEMMA SameLaid ==
    ASSUME NEW lib, NEW other, NEW ed, Laid(lib, ed), other.active = lib.active,
           other.active # NoPage => other.text[other.active] = lib.text[other.active]
    PROVE  Laid(other, ed)
BY DEF Laid, LoadDocument

LEMMA RefreshLaid ==
    ASSUME NEW lib \in Library, Laid(lib, editor), RefreshLibrary(lib)
    PROVE  /\ Laid(library', editor') /\ Covered(library')
           /\ library'.provisional = lib.provisional
           /\ library'.title = lib.title
           /\ Live(library') = Live(lib)
           /\ Live(lib) = {} => library'.active = lib.active
<1> DEFINE picked == IF ActiveId(lib) = NoPage THEN SetActiveId(lib, FirstId(lib)) ELSE lib
<1>1. /\ library' = picked
      /\ editor' = IF ActiveId(picked) # ActiveId(lib) THEN LoadActive(picked, editor) ELSE editor
  BY DEF RefreshLibrary
<1>2. CASE ActiveId(lib) # NoPage
  <2>1. picked = lib
    BY <1>2
  <2>2. lib.active \in Live(lib)
    BY <1>2, ActiveIdFacts
  <2> QED BY <1>1, <2>1, <2>2 DEF Covered
<1>3. CASE ActiveId(lib) = NoPage /\ Live(lib) = {}
  <2>1. SetActiveId(lib, FirstId(lib)) = lib
    BY <1>3 DEF SetActiveId
  <2>2. picked = lib
    BY <1>3, <2>1
  <2> QED BY <1>1, <1>3, <2>2 DEF Covered
<1>4. CASE ActiveId(lib) = NoPage /\ Live(lib) # {}
  <2>1. picked = SetActiveId(lib, FirstId(lib))
    BY <1>4
  <2>2. FirstId(lib) \in Live(lib)
    BY <1>4, FirstIdFacts
  <2>3. /\ picked \in Library
        /\ picked = [lib EXCEPT !.active = picked.active]
        /\ picked.active = FirstId(lib)
    BY <2>1, <2>2, SetActiveIdFacts
  <2> HIDE DEF picked
  <2>4. /\ picked.status = lib.status /\ picked.title = lib.title
        /\ picked.provisional = lib.provisional
    BY <2>3 DEF Library
  <2>5. Live(picked) = Live(lib)
    BY <2>4 DEF Live
  <2>6. ActiveId(picked) # NoPage
    BY <2>2, <2>3, <2>5, ActiveIdFacts
  <2>7. editor' = LoadActive(picked, editor)
    BY <1>1, <1>4, <2>6
  <2>8. Laid(picked, editor')
    BY <2>3, <2>6, <2>7, LoadActiveLaid
  <2> QED BY <1>1, <1>4, <2>2, <2>3, <2>4, <2>5, <2>8 DEF Covered
<1> QED BY <1>2, <1>3, <1>4

\* sync_title changes titles only.
LEMMA RetitledKeeps ==
    ASSUME NEW lib \in Library, NEW title \in LineTitles, NEW ed
    PROVE  /\ Laid(lib, ed) => Laid(Retitled(lib, title), ed)
           /\ Covered(lib) => Covered(Retitled(lib, title))
           /\ Withheld(lib) => Withheld(Retitled(lib, title))
<1>1. /\ Retitled(lib, title).active = lib.active
      /\ Retitled(lib, title).provisional = lib.provisional
      /\ Retitled(lib, title).text = lib.text
      /\ Live(Retitled(lib, title)) = Live(lib)
  BY RetitledFacts
<1> QED BY <1>1, SameLaid DEF Covered, Withheld

\* What the library and the editor are when a handler of a running process begins.
LEMMA Running ==
    ASSUME EditorInv, running
    PROVE  /\ library \in Library /\ editor \in EditorState /\ editor.page \in Pages
           /\ editor.title \in LineTitles
           /\ Laid(library, editor) /\ Covered(library) /\ Withheld(library)
           /\ Retitled(library, editor.title) \in Library
           /\ Laid(Retitled(library, editor.title), editor)
           /\ Covered(Retitled(library, editor.title))
           /\ Withheld(Retitled(library, editor.title))
<1>1. ViewsInv /\ Laid(library, editor) /\ Covered(library) /\ Withheld(library)
  BY DEF EditorInv
<1> QED BY <1>1, SyncedLibrary, RetitledKeeps

LEMMA EditorStart ==
    ASSUME EditorInv, NEW online \in BOOLEAN, Start(online)
    PROVE  Laid(library', editor') /\ Covered(library') /\ Withheld(library)'
<1>1. library \in Library /\ library.provisional = NoPage
  BY DEF EditorInv, ViewsInv, Typed, Start
<1>2. editor' = LoadDocument(library', library'.active)
  BY DEF Start
<1>3. CASE Live(library) # {} /\ library' = [library EXCEPT !.active = FirstId(library)]
  <2>1. FirstId(library) \in Live(library)
    BY <1>1, <1>3, FirstIdFacts
  <2>2. library'.status = library.status /\ library'.active = FirstId(library)
        /\ library'.provisional = NoPage
    BY <1>1, <1>3 DEF Library
  <2>3. Live(library') = Live(library)
    BY <2>2 DEF Live
  <2> QED BY <1>2, <2>1, <2>2, <2>3 DEF Laid, Covered, Withheld
<1>4. ASSUME Live(library) = {}, NEW p \in Pages,
             library' = [CreatePage(library, p) EXCEPT !.provisional = IF online THEN p ELSE NoPage]
      PROVE  Laid(library', editor') /\ Covered(library') /\ Withheld(library)'
  <2>1. /\ CreatePage(library, p) \in Library /\ CreatePage(library, p).active = p
        /\ Live(CreatePage(library, p)) = Live(library) \cup {p}
    BY <1>1, CreatePageFacts
  <2>2. /\ CreatePage(library, p) \in Library /\ CreatePage(library, p).active = p
        /\ Live(CreatePage(library, p)) = {p}
    BY <1>4, <2>1
  <2>3. library'.status = CreatePage(library, p).status /\ library'.active = p
        /\ library'.provisional = IF online THEN p ELSE NoPage
    BY <1>4, <2>2 DEF Library
  <2>4. Live(library') = {p}
    BY <2>2, <2>3 DEF Live
  <2>5. online => link' = "waiting"
    BY DEF Start
  <2> QED BY <1>2, <2>3, <2>4, <2>5 DEF Laid, Covered, Withheld
<1> QED BY <1>3, <1>4 DEF Start

LEMMA EditorType ==
    ASSUME EditorInv, NEW text \in Texts, Type(text)
    PROVE  /\ Laid(library', editor') /\ Covered(library') /\ Withheld(library)'
           /\ ActiveId(library) # NoPage =>
                 Shown(library'.title[ActiveId(library)]) = FirstTitle(library'.text[ActiveId(library)])
<1> DEFINE edited == [library EXCEPT !.text[editor.page] = text]
           laid == Relaid(edited, editor)
<1>1. /\ library \in Library /\ editor.page \in Pages
      /\ Laid(library, editor) /\ Covered(library) /\ Withheld(library)
  BY Running DEF Type
<1>2. /\ edited \in Library /\ edited.status = library.status
      /\ edited.active = library.active /\ edited.provisional = library.provisional
  BY <1>1 DEF Library
<1>3. library' = Retitled(edited, laid.title) /\ editor' = laid /\ link' = link
  BY DEF Type
<1> HIDE DEF edited
<1>4. laid \in EditorState /\ laid = LoadDocument(edited, editor.page)
  BY <1>1, <1>2, LoadDocumentFacts DEF Relaid
<1>5. laid.title \in LineTitles /\ laid.title = FirstTitle(edited.text[editor.page])
  BY <1>4 DEF EditorState, LoadDocument
<1>6. library.active # NoPage => editor.page = library.active
  BY <1>1 DEF Laid, LoadDocument
<1>7. Laid(edited, laid)
  BY <1>2, <1>4, <1>6 DEF Laid
<1>8. Live(edited) = Live(library) /\ ActiveId(edited) = ActiveId(library)
  BY <1>2, SameIndex DEF Live
<1>9. Covered(edited) /\ Withheld(edited)
  BY <1>1, <1>2, <1>8 DEF Covered, Withheld
<1>10. Laid(library', editor') /\ Covered(library') /\ Withheld(library)'
  <2>1. Withheld(library')
    BY <1>2, <1>3, <1>5, <1>9, RetitledKeeps
  <2>2. Laid(library', editor') /\ Covered(library')
    BY <1>2, <1>3, <1>5, <1>7, <1>9, RetitledKeeps
  <2> QED BY <1>3, <2>1, <2>2 DEF Withheld
<1>11. ASSUME ActiveId(library) # NoPage
       PROVE  Shown(library'.title[ActiveId(library)]) = FirstTitle(library'.text[ActiveId(library)])
  <2>1. ActiveId(library) = editor.page
    BY <1>1, <1>6, <1>11, ActiveIdFacts, PagesNat
  <2>2. Shown(library'.title[ActiveId(library)]) = laid.title /\ library'.text = edited.text
    <3> HIDE DEF laid
    <3>1. /\ Retitled(edited, laid.title).text = edited.text
          /\ ActiveId(edited) # NoPage =>
                Shown(Retitled(edited, laid.title).title[ActiveId(edited)]) = laid.title
      BY <1>2, <1>5, RetitledFacts
    <3> QED BY <1>3, <1>8, <1>11, <3>1
  <2> QED BY <1>5, <2>1, <2>2
<1> QED BY <1>10, <1>11

\* While a page is provisional no other is added.
LEMMA EditorCreate ==
    ASSUME EditorInv, ~CreatesEarly, NEW p \in Pages, Create(p)
    PROVE  Laid(library', editor') /\ Covered(library') /\ Withheld(library)'
<1> DEFINE titled == Retitled(library, editor.title)
           made == CreatePage(titled, p)
<1>1. titled \in Library /\ library.provisional = NoPage /\ library \in Library
      /\ editor.title \in LineTitles
  BY Running DEF Create, Clicks
<1>2. titled.provisional = NoPage
  BY <1>1, RetitledFacts
<1>3. /\ made \in Library /\ made.active = p /\ p \in Live(made)
      /\ made.provisional = NoPage
  <2> HIDE DEF titled
  <2>1. /\ made \in Library /\ made.active = p
        /\ Live(made) = Live(titled) \cup {p}
        /\ made.provisional = titled.provisional
    BY <1>1, CreatePageFacts
  <2> QED BY <1>2, <2>1
<1>4. library' = made /\ editor' = LoadActive(made, editor)
  BY DEF Create, Changed
<1> HIDE DEF made
<1>5. ActiveId(made) # NoPage
  BY <1>3, ActiveIdFacts
<1>6. Laid(made, editor')
  BY <1>3, <1>4, <1>5, LoadActiveLaid
<1> QED BY <1>3, <1>4, <1>6 DEF Covered, Withheld

LEMMA EditorSelect ==
    ASSUME EditorInv, NEW k, Select(k)
    PROVE  Laid(library', editor') /\ Covered(library') /\ Withheld(library)'
<1> DEFINE titled == Retitled(library, editor.title)
           q == sidebar.rows[k].id
           picked == SetActiveId(titled, q)
<1>1. titled \in Library /\ Laid(titled, editor) /\ Covered(titled) /\ Withheld(titled)
  BY Running DEF Select, Clicks
<1>2. /\ picked \in Library
      /\ picked = [titled EXCEPT !.active = picked.active]
      /\ picked.active = IF q \in Live(titled) THEN q ELSE titled.active
  BY <1>1, SetActiveIdFacts
<1>3. library' = picked /\ editor' = LoadActive(picked, editor) /\ link' = link
  BY DEF Select, Changed
<1> HIDE DEF titled, picked
<1>4. /\ picked.status = titled.status /\ picked.text = titled.text
      /\ picked.provisional = titled.provisional
  BY <1>1, <1>2 DEF Library
<1>5. Live(picked) = Live(titled)
  BY <1>4 DEF Live
<1>6. ActiveId(picked) # NoPage \/ Laid(picked, editor)
  <2>1. CASE q \in Live(titled)
    BY <1>2, <1>5, <2>1, ActiveIdFacts
  <2>2. CASE q \notin Live(titled)
    BY <1>1, <1>2, <1>4, <2>2, SameLaid
  <2> QED BY <2>1, <2>2
<1>7. Laid(picked, editor')
  BY <1>2, <1>3, <1>6, LoadActiveLaid
<1>8. Covered(picked) /\ Withheld(picked)
  BY <1>1, <1>2, <1>4, <1>5 DEF Covered, Withheld
<1> QED BY <1>3, <1>7, <1>8 DEF Withheld

\* A library with two pages has another one.
LEMMA AnotherPage ==
    ASSUME NEW lib, NEW p, Deletable(lib, p)
    PROVE  Live(lib) # {p} /\ Live(lib) \ {p} # {} /\ p \in Live(lib)
<1>1. Live(lib) # {p}
  BY FS_Singleton DEF Deletable
<1> QED BY <1>1 DEF Deletable

LEMMA EditorDelete ==
    ASSUME EditorInv, Delete
    PROVE  Laid(library', editor') /\ Covered(library') /\ Withheld(library)'
<1> DEFINE p == sidebar.rows[sidebar.confirm].id
           titled == Retitled(library, editor.title)
<1>1. titled \in Library /\ Laid(titled, editor) /\ Covered(titled) /\ Withheld(titled)
  BY Running DEF Delete
<1>2. CASE /\ Deletable(titled, p)
           /\ Changed(DeletePage(titled, p))
           /\ editor' = IF p = ActiveId(titled) THEN LoadActive(library', editor) ELSE editor
  <2> DEFINE left == DeletePage(titled, p)
             gone == Tombstoned(titled, p)
  <2>1. Live(titled) # {p} /\ Live(titled) \ {p} # {} /\ p \in Live(titled)
    BY <1>2, AnotherPage
  <2>2. p \in Pages /\ ActiveId(titled) = titled.active /\ titled.active \in Live(titled)
        /\ titled.active \in Pages
    BY <1>1, <2>1, FirstIdFacts, CoveredActive
  <2>3. library' = left /\ link' = link
    BY <1>2 DEF Changed
  <2> HIDE DEF p, titled
  <2>4. /\ left \in Library /\ left.provisional = titled.provisional
        /\ left.text = titled.text
        /\ Live(left) = Live(titled) \ {p}
        /\ left.active = IF titled.active = p THEN FirstId(gone) ELSE titled.active
    BY <1>1, <2>2, DeletePageFacts
  <2>5. gone \in Library /\ Live(gone) = Live(titled) \ {p}
    BY <1>1, <2>2, TombstonedFacts
  <2>6. FirstId(gone) \in Live(gone)
    BY <2>1, <2>5, FirstIdFacts
  <2>7. left.active \in Live(left)
    BY <2>2, <2>4, <2>5, <2>6
  <2> HIDE DEF left
  <2>8. Laid(left, editor')
    <3>1. CASE p = titled.active
      BY <1>2, <2>2, <2>3, <2>4, <2>7, <3>1, ActiveIdFacts, LoadActiveLaid DEF p, titled
    <3>2. CASE p # titled.active
      <4>1. editor' = editor
        BY <1>2, <2>2, <3>2 DEF p, titled
      <4> QED BY <1>1, <2>4, <3>2, <4>1, SameLaid
    <3> QED BY <3>1, <3>2
  <2>9. left.provisional = NoPage
    <3>1. titled.provisional # NoPage => Live(titled) = {titled.provisional}
      BY <1>1 DEF Withheld
    <3> QED BY <2>1, <2>4, <3>1
  <2> QED BY <2>3, <2>7, <2>8, <2>9 DEF Covered, Withheld
<1>3. CASE library' = titled /\ editor' = editor /\ link' = link
  BY <1>1, <1>3 DEF Withheld
<1> QED BY <1>2, <1>3 DEF Delete

LEMMA EditorHello ==
    ASSUME EditorInv, NEW empty \in BOOLEAN, HandleHello(empty)
    PROVE  /\ Laid(library', editor') /\ Covered(library') /\ Withheld(library)'
           /\ library'.title = library.title
<1>1. library \in Library /\ Laid(library, editor) /\ Covered(library) /\ Withheld(library)
  BY Running DEF HandleHello
<1>2. CASE library.provisional = NoPage /\ RefreshLibrary(library)
  BY <1>1, <1>2, RefreshLaid DEF Withheld
<1>3. CASE RefreshLibrary(ConfirmProvisional(library))
  <2> DEFINE kept == ConfirmProvisional(library)
  <2>1. /\ kept \in Library /\ kept.provisional = NoPage
        /\ kept.active = library.active /\ kept.text = library.text /\ kept.title = library.title
    BY <1>1, ConfirmProvisionalFacts
  <2>2. Laid(kept, editor)
    BY <1>1, <2>1, SameLaid
  <2> HIDE DEF kept
  <2> QED BY <1>3, <2>1, <2>2, RefreshLaid DEF kept, Withheld
<1>4. CASE library.provisional # NoPage /\ RefreshLibrary(DropProvisional(library))
  <2> DEFINE left == DropProvisional(library)
  <2>1. library.provisional \in Pages /\ Live(library) = {library.provisional}
    BY <1>1, <1>4 DEF Library, Withheld
  <2>2. library.active = library.provisional
    BY <1>1, <2>1 DEF Covered
  <2>3. /\ left \in Library /\ left.provisional = NoPage /\ left.active = NoPage
        /\ left.title = library.title
    BY <1>1, <2>1, <2>2, DropProvisionalFacts
  <2>4. Laid(left, editor)
    BY <2>3 DEF Laid
  <2> HIDE DEF left
  <2> QED BY <1>4, <2>3, <2>4, RefreshLaid DEF left, Withheld
<1> QED BY <1>2, <1>3, <1>4 DEF HandleHello

\* A frame changes the text of the pages it names, and no other.
LEMMA EditorAfterRecords ==
    ASSUME EditorInv, running, library.provisional = NoPage,
           NEW lib \in Library, NEW pages, NoPage \notin pages, AfterRecords(lib, pages),
           lib.active = library.active, lib.provisional = NoPage,
           lib.active \in Live(lib) \cap pages \/ lib.text[lib.active] = library.text[lib.active],
           lib.active \in pages \/ lib.title[lib.active] = library.title[lib.active]
    PROVE  /\ Laid(library', editor') /\ Covered(library') /\ library'.provisional = NoPage
           /\ ActiveId(library) # NoPage /\ ActiveId(library) \in Live(library')
                 /\ library'.title[ActiveId(library)] # library.title[ActiveId(library)] =>
                 Shown(library'.title[ActiveId(library)]) = FirstTitle(library'.text[ActiveId(library)])
<1> DEFINE title == DeriveDocumentTitle(lib, editor)
<1>1. library \in Library /\ editor.page \in Pages /\ Laid(library, editor)
  BY Running
<1>2. CASE ActiveId(lib) = NoPage /\ RefreshLibrary(lib)
  <2>1. lib.active \notin Live(lib)
    BY <1>2, ActiveIdFacts
  <2>2. Laid(lib, editor)
    BY <1>1, <2>1, SameLaid
  <2>3. /\ Laid(library', editor') /\ Covered(library') /\ library'.provisional = NoPage
        /\ Live(library') = Live(lib)
    BY <1>2, <2>2, RefreshLaid
  <2>4. ActiveId(library) # NoPage => ActiveId(library) \notin Live(library')
    BY <1>1, <2>1, <2>3, ActiveIdFacts
  <2> QED BY <2>3, <2>4
<1>3. CASE /\ ActiveId(lib) \in pages
           /\ ActiveId(lib) # NoPage
           /\ library' = Retitled(lib, title)
           /\ editor' = Relaid(lib, editor)
  <2>1. lib.active \in Live(lib) /\ ActiveId(lib) = lib.active /\ lib.active # NoPage
    BY <1>3, ActiveIdFacts
  <2>2. editor.page = lib.active
    BY <1>1, <2>1 DEF Laid, LoadDocument
  <2>3. title = FirstTitle(lib.text[lib.active]) /\ title \in LineTitles
    BY <1>1, <2>2, FirstTitleType DEF DeriveDocumentTitle, Library
  <2>4. Laid(lib, editor') /\ Covered(lib)
    BY <1>3, <2>1, <2>2 DEF Relaid, Laid, Covered
  <2> HIDE DEF title
  <2>5. /\ Laid(library', editor') /\ Covered(library') /\ library'.provisional = NoPage
    BY <1>3, <2>3, <2>4, RetitledKeeps, RetitledFacts
  <2>6. Shown(library'.title[lib.active]) = FirstTitle(library'.text[lib.active])
    <3>1. Shown(library'.title[lib.active]) = title
      <4>1. Shown(Retitled(lib, title).title[ActiveId(lib)]) = title
        BY <1>3, <2>3, RetitledFacts
      <4> QED BY <1>3, <2>1, <4>1
    <3>2. library'.text = lib.text
      BY <1>3, <2>3, RetitledFacts
    <3> QED BY <2>3, <3>1, <3>2
  <2>7. ActiveId(library) # NoPage => ActiveId(library) = lib.active
    BY <1>1, ActiveIdFacts
  <2> QED BY <2>5, <2>6, <2>7
<1>4. CASE /\ ActiveId(lib) \notin pages
           /\ ActiveId(lib) # NoPage
           /\ library' = lib
           /\ editor' = editor
  <2>1. lib.active \in Live(lib) /\ lib.active \notin pages
    BY <1>4, ActiveIdFacts
  <2>2. Laid(lib, editor) /\ Covered(lib)
    BY <1>1, <2>1, SameLaid DEF Covered
  <2>3. ActiveId(library) # NoPage => ActiveId(library) = lib.active
    BY <1>1, ActiveIdFacts
  <2> QED BY <1>4, <2>1, <2>2, <2>3
<1> QED BY <1>2, <1>3, <1>4 DEF AfterRecords

LEMMA EditorRecords ==
    ASSUME EditorInv, HandleRecords
    PROVE  /\ Laid(library', editor') /\ Covered(library') /\ Withheld(library)'
           /\ ActiveId(library) # NoPage /\ ActiveId(library) \in Live(library')
                 /\ library'.title[ActiveId(library)] # library.title[ActiveId(library)] =>
                 Shown(library'.title[ActiveId(library)]) = FirstTitle(library'.text[ActiveId(library)])
<1>1. library \in Library /\ running /\ library.provisional = NoPage
  BY Running DEF HandleRecords, Withheld
<1> DEFINE Goal ==
             /\ Laid(library', editor') /\ Covered(library') /\ library'.provisional = NoPage
             /\ ActiveId(library) # NoPage /\ ActiveId(library) \in Live(library')
                   /\ library'.title[ActiveId(library)] # library.title[ActiveId(library)] =>
                   Shown(library'.title[ActiveId(library)]) = FirstTitle(library'.text[ActiveId(library)])
<1>2. ASSUME AfterRecords(library, {})
      PROVE  Goal
  <2>1. NoPage \notin {} /\ library.active = library.active
        /\ library.text[library.active] = library.text[library.active]
        /\ library.title[library.active] = library.title[library.active]
    OBVIOUS
  <2> QED BY <1>1, <1>2, <2>1, EditorAfterRecords
<1>3. ASSUME NEW p \in Pages, AfterRecords(Tombstoned(library, p), {p})
      PROVE  Goal
  <2> DEFINE lib == Tombstoned(library, p)
  <2>1. /\ lib \in Library /\ lib.active = library.active /\ lib.provisional = NoPage
        /\ lib.title = [library.title EXCEPT ![p] = Untitled] /\ lib.text = library.text
    BY <1>1, TombstonedFacts
  <2>2. lib.active \in {p} \/ lib.title[lib.active] = library.title[lib.active]
    BY <1>1, <2>1 DEF Library
  <2> HIDE DEF lib
  <2> QED BY <1>1, <1>3, <2>1, <2>2, PagesNat, EditorAfterRecords DEF lib
<1>4. ASSUME NEW p \in Pages, NEW title \in StoredTitles, NEW text \in Texts,
             AfterRecords(Renewed(p, title, text), {p})
      PROVE  Goal
  <2> DEFINE lib == Renewed(p, title, text)
  <2>1. /\ lib \in Library /\ lib.active = library.active /\ lib.provisional = NoPage
        /\ lib.title = [library.title EXCEPT ![p] = title]
        /\ lib.text = [library.text EXCEPT ![p] = text]
        /\ Live(lib) = Live(library) \cup {p}
    BY <1>1, RenewedFacts
  <2>2. lib.active \in {p} \/ lib.title[lib.active] = library.title[lib.active]
    BY <1>1, <2>1 DEF Library
  <2>3. lib.active \in Live(lib) \cap {p} \/ lib.text[lib.active] = library.text[lib.active]
    BY <1>1, <2>1 DEF Library
  <2> HIDE DEF lib
  <2> QED BY <1>1, <1>4, <2>1, <2>2, <2>3, PagesNat, EditorAfterRecords DEF lib
<1>5. Goal
  <2> HIDE DEF Goal
  <2> QED BY <1>2, <1>3, <1>4 DEF HandleRecords
<1> QED BY <1>5 DEF Withheld

LEMMA EditorEnded ==
    ASSUME NEW lib \in Library, Ended(lib)
    PROVE  ~running' /\ library'.active = NoPage /\ library'.provisional = NoPage
BY DEF Ended, Library

\* Steps of a running process that leave library, editor and link alone.
LEMMA EditorKept ==
    ASSUME EditorInv, running, ViewsInv', UNCHANGED <<running, link, library, editor>>
    PROVE  EditorInv'
BY DEF EditorInv, Laid, Covered, Withheld

LEMMA EditorMoved ==
    ASSUME ViewsInv', running', Laid(library', editor'), Covered(library'), Withheld(library)'
    PROVE  EditorInv'
BY DEF EditorInv

LEMMA EditorInit == Init => EditorInv
BY ViewsInit DEF Init, EditorInv, NoLibrary

LEMMA EditorStep ==
    ASSUME ~CreatesEarly
    PROVE  EditorInv /\ [Next]_vars => EditorInv'
<1> SUFFICES ASSUME EditorInv, [Next]_vars PROVE EditorInv'
  OBVIOUS
<1>1. ViewsInv /\ ViewsInv'
  BY ViewsStep DEF EditorInv
<1>2. ASSUME NEW online \in BOOLEAN, Start(online) PROVE EditorInv'
  BY <1>1, <1>2, EditorStart, EditorMoved DEF Start
<1>3. CASE Close
  <2>1. Retitled(library, editor.title) \in Library
    BY <1>3, Running DEF Close
  <2> QED BY <1>1, <1>3, <2>1, EditorEnded DEF Close, EditorInv
<1>4. CASE Crash
  <2>1. library \in Library
    BY <1>4, Running DEF Crash
  <2> QED BY <1>1, <1>4, <2>1, EditorEnded DEF Crash, EditorInv
<1>5. ASSUME NEW text \in Texts, Type(text) PROVE EditorInv'
  BY <1>1, <1>5, EditorType, EditorMoved DEF Type
<1>6. ASSUME NEW p \in Pages, Create(p) PROVE EditorInv'
  BY <1>1, <1>6, EditorCreate, EditorMoved DEF Create, Clicks, Changed
<1>7. ASSUME NEW k \in 1 .. MaxPage, Select(k) PROVE EditorInv'
  BY <1>1, <1>7, EditorSelect, EditorMoved DEF Select, Clicks, Changed
<1>8. ASSUME NEW k \in 1 .. MaxPage, AskDelete(k) PROVE EditorInv'
  BY <1>1, <1>8, EditorKept DEF AskDelete, Clicks
<1>9. CASE Cancel
  BY <1>1, <1>9, EditorKept DEF Cancel
<1>10. CASE Delete
  BY <1>1, <1>10, EditorDelete, EditorMoved DEF Delete, Changed
<1>11. ASSUME NEW empty \in BOOLEAN, HandleHello(empty) PROVE EditorInv'
  BY <1>1, <1>11, EditorHello, EditorMoved DEF HandleHello
<1>12. CASE HandleRecords
  BY <1>1, <1>12, EditorRecords, EditorMoved DEF HandleRecords
<1>13. CASE UNCHANGED vars
  BY <1>1, <1>13 DEF vars, EditorInv, Laid, Covered, Withheld
<1> QED BY <1>2, <1>3, <1>4, <1>5, <1>6, <1>7, <1>8, <1>9, <1>10, <1>11, <1>12, <1>13 DEF Next

\* While there is a page, one is active and the editor shows it, as long as the
\* user adds no page while the first one is provisional: with one more page a
\* refused seed would leave the editor behind, which the run app_drop shows
\* (app.rs load_active, refresh_library).
THEOREM EditorFollows ==
    ASSUME ~CreatesEarly
    PROVE  Spec => []EditorInStep
<1>1. EditorInv => EditorInStep
  <2> SUFFICES ASSUME EditorInv, running, Live(library) # {}
               PROVE  ActiveId(library) # NoPage /\ editor.page = ActiveId(library)
    BY DEF EditorInStep
  <2>1. library \in Library /\ Laid(library, editor) /\ Covered(library)
    BY Running
  <2>2. ActiveId(library) = library.active /\ library.active \in Pages
    BY <2>1, CoveredActive
  <2> QED BY <2>1, <2>2, PagesNat DEF Laid, LoadDocument
<1>2. EditorInv /\ [Next]_vars => EditorInv'
  BY EditorStep
<1> QED BY EditorInit, <1>1, <1>2, PTL DEF Spec

-----------------------------------------------------------------------------
(* Titles are a page's own. *)

OwnTitle ==
    LET p == ActiveId(library)
    IN  p \in Live(library') /\ library'.title[p] # library.title[p] =>
          Shown(library'.title[p]) = FirstTitle(library'.text[p])

\* sync_title gives the page shown the title of its text.
LEMMA SyncedTitle ==
    ASSUME EditorInv, running, ActiveId(library) # NoPage
    PROVE  LET titled == Retitled(library, editor.title)
           IN  Shown(titled.title[ActiveId(library)]) = FirstTitle(titled.text[ActiveId(library)])
<1>1. library \in Library /\ editor.title \in LineTitles /\ Laid(library, editor)
  BY Running
<1>2. ActiveId(library) = library.active
  BY <1>1, ActiveIdFacts
<1>3. editor.title = FirstTitle(library.text[ActiveId(library)])
  BY <1>1, <1>2 DEF Laid, LoadDocument
<1>4. Shown(Retitled(library, editor.title).title[ActiveId(library)]) = editor.title
  BY <1>1, RetitledFacts
<1>5. Retitled(library, editor.title).text = library.text
  BY <1>1, RetitledFacts
<1> QED BY <1>3, <1>4, <1>5

\* Steps whose library keeps title and text of what sync_title wrote on page `p`.
LEMMA KeptTitle ==
    ASSUME EditorInv, running, NEW p \in Pages, p = ActiveId(library),
           library'.title[p] = Retitled(library, editor.title).title[p],
           library'.text[p] = Retitled(library, editor.title).text[p]
    PROVE  OwnTitle
<1>1. Shown(Retitled(library, editor.title).title[p]) = FirstTitle(Retitled(library, editor.title).text[p])
  BY PagesNat, SyncedTitle
<1> QED BY <1>1 DEF OwnTitle

LEMMA OwnTitleStep ==
    ASSUME ~CreatesEarly, EditorInv, Next
    PROVE  OwnTitle
<1> DEFINE p == ActiveId(library)
           titled == Retitled(library, editor.title)
<1>1. library \in Library /\ (p # NoPage => p \in Pages /\ p \in Live(library) /\ library.active = p)
  <2>1. library \in Library
    BY DEF EditorInv, ViewsInv, Typed
  <2> QED BY <2>1, ActiveIdFacts
<1>2. CASE p = NoPage
  <2>1. library' \in Library
    <3>1. [Next]_vars
      OBVIOUS
    <3> QED BY <3>1, ViewsStep DEF EditorInv, ViewsInv, Typed
  <2>2. p \notin Live(library')
    BY <1>2, <2>1, PagesNat, FirstIdFacts
  <2> QED BY <2>2 DEF OwnTitle
<1>3. CASE p # NoPage /\ running
  <2>1. /\ titled \in Library /\ titled.text = library.text
        /\ p \in Pages /\ p \in Live(library) /\ ActiveId(titled) = p
        /\ Live(titled) = Live(library)
    BY <1>1, <1>3, Running, RetitledFacts
  <2>2. CASE Close
    <3>1. library'.title = titled.title /\ library'.text = titled.text
      BY <2>1, <2>2 DEF Close, Ended, Library
    <3> QED BY <1>3, <2>1, <3>1, KeptTitle
  <2>3. CASE Crash
    <3>1. library'.title = library.title
      BY <1>1, <2>3 DEF Crash, Ended, Library
    <3> QED BY <3>1 DEF OwnTitle
  <2>4. ASSUME NEW text \in Texts, Type(text) PROVE OwnTitle
    BY <1>3, <2>4, EditorType DEF OwnTitle
  <2>5. ASSUME NEW q \in Pages, Create(q) PROVE OwnTitle
    <3>1. library' = CreatePage(titled, q) /\ q # p
      BY <1>1, <1>3, <2>5 DEF Create, Changed, NewPage, Unused, Live
    <3>2. /\ library'.title = [titled.title EXCEPT ![q] = Untitled]
          /\ library'.text = [titled.text EXCEPT ![q] = <<Blank>>]
      BY <2>1, <3>1, CreatePageFacts
    <3>3. library'.title[p] = titled.title[p] /\ library'.text[p] = titled.text[p]
      BY <2>1, <3>1, <3>2 DEF Library
    <3> QED BY <1>3, <2>1, <3>3, KeptTitle
  <2>6. ASSUME NEW k, Select(k) PROVE OwnTitle
    <3>1. library' = SetActiveId(titled, sidebar.rows[k].id)
      BY <2>6 DEF Select, Changed
    <3>2. library'.title = titled.title /\ library'.text = titled.text
      BY <2>1, <3>1, SetActiveIdFacts DEF Library
    <3> QED BY <1>3, <2>1, <3>2, KeptTitle
  <2>7. CASE Delete
    <3> DEFINE q == sidebar.rows[sidebar.confirm].id
    <3>1. CASE library' = titled
      BY <1>3, <2>1, <3>1, KeptTitle
    <3>2. CASE Deletable(titled, q) /\ library' = DeletePage(titled, q)
      <4>1. q \in Pages
        BY <2>1, <3>2, FirstIdFacts DEF Deletable
      <4>2. /\ library'.title = [titled.title EXCEPT ![q] = Untitled]
            /\ library'.text = titled.text
            /\ Live(library') = Live(titled) \ {q}
        BY <2>1, <3>2, <4>1, DeletePageFacts
      <4>3. CASE q = p
        BY <4>2, <4>3 DEF OwnTitle
      <4>4. CASE q # p
        <5>1. library'.title[p] = titled.title[p] /\ library'.text[p] = titled.text[p]
          BY <2>1, <4>1, <4>2, <4>4 DEF Library
        <5> QED BY <1>3, <2>1, <5>1, KeptTitle
      <4> QED BY <4>3, <4>4
    <3> QED BY <2>7, <3>1, <3>2 DEF Delete, Changed
  <2>8. ASSUME NEW empty \in BOOLEAN, HandleHello(empty) PROVE OwnTitle
    BY <2>8, EditorHello DEF OwnTitle
  <2>9. CASE HandleRecords
    BY <1>3, <2>9, EditorRecords DEF OwnTitle
  <2>10. ASSUME NEW k, AskDelete(k) PROVE OwnTitle
    BY <2>10 DEF AskDelete, OwnTitle
  <2>11. CASE Cancel
    BY <2>11 DEF Cancel, OwnTitle
  <2> QED
    BY <1>3, <2>2, <2>3, <2>4, <2>5, <2>6, <2>7, <2>8, <2>9, <2>10, <2>11 DEF Next, Start
<1>4. CASE p # NoPage /\ ~running
  BY <1>1, <1>4 DEF EditorInv, ActiveId
<1> QED BY <1>2, <1>3, <1>4 DEF EditorInv, ViewsInv, Typed

\* Whoever retitles the active page leaves it under the title of its own text
\* (app.rs sync_title, sync_title_from_document).
THEOREM TitlesOwn ==
    ASSUME ~CreatesEarly
    PROVE  Spec => OwnTitles
<1>1. EditorInv /\ [Next]_vars => [OwnTitle]_vars
  BY OwnTitleStep
<1>2. EditorInv /\ [Next]_vars => EditorInv'
  BY EditorStep
<1>3. [][OwnTitle]_vars => OwnTitles
  BY PTL DEF OwnTitle, OwnTitles
<1> QED BY EditorInit, <1>1, <1>2, <1>3, PTL DEF Spec

-----------------------------------------------------------------------------
(* The types of the rows, of the question and of the link. *)

LEMMA PagesFinite ==
    ASSUME NEW S \in SUBSET Pages
    PROVE  /\ IsFiniteSet(S) /\ Cardinality(S) \in Nat /\ Cardinality(S) <= MaxPage
           /\ S \subseteq Nat
<1>1. IsFiniteSet(Pages) /\ Cardinality(Pages) = MaxPage
  <2>1. MaxPage \in Nat /\ MaxPage > 0
    BY MaxPageAssumption
  <2>2. /\ IsFiniteSet(1 .. MaxPage)
        /\ Cardinality(1 .. MaxPage) = IF 1 > MaxPage THEN 0 ELSE MaxPage - 1 + 1
    BY <2>1, FS_Interval
  <2> QED BY <2>1, <2>2 DEF Pages
<1>2. IsFiniteSet(S) /\ Cardinality(S) <= Cardinality(Pages)
  BY <1>1, FS_Subset
<1>3. Cardinality(S) \in Nat
  BY <1>2, FS_CardinalityType
<1> QED BY <1>1, <1>2, <1>3, PagesNat

\* Every place of a set of pages is taken, each by one page.
LEMMA PlacesTaken ==
    ASSUME NEW S \in SUBSET Pages
    PROVE  /\ \A p \in S : IndexIn(S, p) \in 1 .. Cardinality(S)
           /\ \A k \in 1 .. Cardinality(S) : \E p \in S : IndexIn(S, p) = k
<1> DEFINE N == Cardinality(S)
           Upto(p) == {q \in S : q <= p}
           f == [p \in S |-> IndexIn(S, p)]
<1>1. IsFiniteSet(S) /\ N \in Nat /\ S \subseteq Nat
  BY PagesFinite
<1>2. \A p : IndexIn(S, p) = Cardinality(Upto(p))
  BY DEF IndexIn
<1>3. ASSUME NEW p \in S
      PROVE  IsFiniteSet(Upto(p)) /\ Cardinality(Upto(p)) \in 1 .. N /\ Cardinality(Upto(p)) \in Nat
  <2>1. Upto(p) \in SUBSET S /\ p \in Upto(p)
    BY <1>1
  <2>2. IsFiniteSet(Upto(p)) /\ Cardinality(Upto(p)) <= N
    BY <1>1, <2>1, FS_Subset
  <2>3. Cardinality(Upto(p)) \in Nat /\ Cardinality(Upto(p)) # 0
    BY <2>1, <2>2, FS_CardinalityType, FS_EmptySet
  <2> HIDE DEF Upto, N
  <2> QED BY <1>1, <2>2, <2>3
<1>4. ASSUME NEW p \in S, NEW q \in S, p < q
      PROVE  Cardinality(Upto(p)) # Cardinality(Upto(q))
  <2>1. p \in Nat /\ q \in Nat /\ q <= q /\ ~ (q <= p) /\ \A r \in S : r <= p => r <= q
    BY <1>1, <1>4
  <2>2. Upto(p) \in SUBSET Upto(q) /\ q \in Upto(q) /\ q \notin Upto(p)
    BY <2>1
  <2>3. Upto(p) # Upto(q) /\ IsFiniteSet(Upto(q))
    BY <1>3, <2>2
  <2> HIDE DEF Upto
  <2> QED BY <2>2, <2>3, FS_Subset
<1> HIDE DEF Upto
<1>5. ASSUME NEW p \in S, NEW q \in S, IndexIn(S, p) = IndexIn(S, q) PROVE p = q
  <2>1. ~ (p < q) /\ ~ (q < p)
    BY <1>2, <1>4, <1>5
  <2> QED BY <1>1, <2>1
<1>6. \A p \in S : IndexIn(S, p) \in 1 .. N
  BY <1>2, <1>3
<1>7. f \in [S -> 1 .. N] /\ \A p \in S : f[p] = IndexIn(S, p)
  BY <1>6
<1> HIDE DEF f
<1>8. IsFiniteSet(1 .. N) /\ Cardinality(1 .. N) = N
  <2> HIDE DEF N
  <2>1. IsFiniteSet(1 .. N) /\ Cardinality(1 .. N) = IF 1 > N THEN 0 ELSE N - 1 + 1
    BY <1>1, FS_Interval
  <2> QED BY <1>1, <2>1
<1>9. f \in Injection(S, 1 .. N)
  BY <1>5, <1>7 DEF Injection, IsInjective
<1>10. f \in Surjection(S, 1 .. N)
  BY <1>8, <1>9, FS_Injection
<1> QED BY <1>6, <1>7, <1>10 DEF Surjection

LEMMA OrderFacts ==
    ASSUME NEW S \in SUBSET Pages
    PROVE  /\ DOMAIN InOrder(S) = 1 .. Cardinality(S)
           /\ \A k \in 1 .. Cardinality(S) : InOrder(S)[k] \in S
<1>1. ASSUME NEW k \in 1 .. Cardinality(S) PROVE InOrder(S)[k] \in S
  <2>1. \E p \in S : IndexIn(S, p) = k
    BY PlacesTaken
  <2>2. InOrder(S)[k] = CHOOSE p \in S : IndexIn(S, p) = k
    BY DEF InOrder
  <2> QED BY <2>1, <2>2
<1> QED BY <1>1 DEF InOrder

\* What the sidebar is given of a library.
LEMMA EntriesTyped ==
    ASSUME NEW lib \in Library
    PROVE  /\ Entries(lib) \in Seq(Rows)
           /\ DOMAIN Entries(lib) \subseteq 1 .. MaxPage
           /\ ActiveIndex(lib) \in 1 .. MaxPage
<1> DEFINE S == Live(lib)
           N == Cardinality(S)
<1>1. S \in SUBSET Pages /\ N \in Nat /\ N <= MaxPage
  BY PagesFinite DEF Live
<1>2. DOMAIN Entries(lib) = 1 .. N
  BY <1>1, OrderFacts DEF Entries
<1>3. ASSUME NEW k \in 1 .. N
      PROVE  Entries(lib)[k] \in Rows
  <2>1. InOrder(S)[k] \in Pages /\ k \in DOMAIN InOrder(S)
    BY <1>1, <1>3, OrderFacts
  <2>2. Entries(lib)[k] = [id |-> InOrder(S)[k], title |-> Shown(lib.title[InOrder(S)[k]])]
    BY <2>1 DEF Entries
  <2>3. lib.title[InOrder(S)[k]] \in StoredTitles
    BY <2>1 DEF Library
  <2>4. Shown(lib.title[InOrder(S)[k]]) \in Titles \cup {Untitled}
    BY <2>3 DEF Shown, StoredTitles
  <2> QED BY <2>1, <2>2, <2>4 DEF Rows
<1>4. Entries(lib) = [k \in 1 .. N |-> Entries(lib)[k]]
  BY <1>1, OrderFacts DEF Entries
<1>5. MaxPage \in Nat /\ MaxPage # 0
  BY MaxPageAssumption
<1>6. ActiveIndex(lib) \in 1 .. MaxPage
  <2>1. CASE ActiveId(lib) = NoPage
    BY <1>5, <2>1 DEF ActiveIndex
  <2>2. CASE ActiveId(lib) # NoPage
    <3>1. ActiveId(lib) \in S
      BY <2>2, ActiveIdFacts
    <3>2. ActiveIndex(lib) \in 1 .. N
      BY <1>1, <2>2, <3>1, PlacesTaken DEF ActiveIndex
    <3> HIDE DEF N
    <3> QED BY <1>1, <1>5, <3>2
  <2> QED BY <2>1, <2>2
<1> HIDE DEF N
<1>7. Entries(lib) \in Seq(Rows)
  BY <1>1, <1>3, <1>4
<1> QED BY <1>1, <1>2, <1>5, <1>6, <1>7

\* Without a process there is neither a sidebar nor a question.
TypesInv ==
    /\ EditorInv
    /\ link \in {"offline", "waiting", "greeted"}
    /\ asked \in Pages \cup {NoPage}
    /\ ~running => sidebar = NoSidebar

LEMMA TypesStep ==
    ASSUME ~CreatesEarly
    PROVE  TypesInv /\ [Next]_vars => TypesInv'
<1> SUFFICES ASSUME TypesInv, [Next]_vars PROVE TypesInv'
  OBVIOUS
<1>1. EditorInv'
  BY EditorStep DEF TypesInv
<1> DEFINE Goal == /\ link' \in {"offline", "waiting", "greeted"}
                   /\ asked' \in Pages \cup {NoPage}
                   /\ ~running' => sidebar' = NoSidebar
<1>2. ASSUME NEW online \in BOOLEAN, Start(online) PROVE Goal
  BY <1>2 DEF Start, TypesInv
<1>3. ASSUME Close \/ Crash PROVE Goal
  BY <1>3 DEF Close, Crash, Ended
<1>4. ASSUME NEW text \in Texts, Type(text) PROVE Goal
  BY <1>4 DEF Type, TypesInv
<1>5. ASSUME NEW p \in Pages, Create(p) PROVE Goal
  BY <1>5 DEF Create, Clicks, Changed, Answered, TypesInv
<1>6. ASSUME NEW k \in 1 .. MaxPage, Select(k) PROVE Goal
  BY <1>6 DEF Select, Clicks, Changed, Answered, TypesInv
<1>7. ASSUME NEW k \in 1 .. MaxPage, AskDelete(k) PROVE Goal
  <2>1. running /\ k \in DOMAIN sidebar.rows /\ asked' = sidebar.rows[k].id
        /\ link' = link /\ running' = running
    BY <1>7 DEF AskDelete, Clicks
  <2>2. library \in Library /\ sidebar.rows = Entries(library)
    BY <2>1 DEF TypesInv, EditorInv, ViewsInv, Typed, SidebarInStep
  <2>3. sidebar.rows[k] \in Rows
    BY <2>1, <2>2, EntriesTyped
  <2> QED BY <2>1, <2>3 DEF TypesInv, Rows
<1>8. ASSUME Cancel PROVE Goal
  BY <1>8 DEF Cancel, Answered, TypesInv
<1>9. ASSUME Delete PROVE Goal
  BY <1>9 DEF Delete, Changed, Answered, TypesInv
<1>10. ASSUME NEW empty \in BOOLEAN, HandleHello(empty) PROVE Goal
  BY <1>10 DEF HandleHello, Answered, TypesInv
<1>11. ASSUME HandleRecords PROVE Goal
  BY <1>11 DEF HandleRecords, Answered, TypesInv
<1>12. ASSUME UNCHANGED vars PROVE Goal
  BY <1>12 DEF vars, TypesInv
<1>13. Goal
  <2> HIDE DEF Goal
  <2> QED BY <1>2, <1>3, <1>4, <1>5, <1>6, <1>7, <1>8, <1>9, <1>10, <1>11, <1>12 DEF Next
<1> QED BY <1>1, <1>13 DEF TypesInv

\* Every variable has its type, and a page is provisional only while it is live
\* and no hello has come.  With pages added meanwhile the provisional one could
\* be deleted and still be held back (library.rs delete_page).
THEOREM AppTypes ==
    ASSUME ~CreatesEarly
    PROVE  Spec => []TypeOK
<1>1. Init => TypesInv
  BY EditorInit DEF Init, TypesInv
<1>2. TypesInv /\ [Next]_vars => TypesInv'
  BY TypesStep
<1>3. TypesInv => TypeOK
  <2> SUFFICES ASSUME TypesInv PROVE TypeOK
    OBVIOUS
  <2>1. /\ running \in BOOLEAN /\ library \in Library /\ editor \in EditorState
        /\ SidebarInStep /\ ConfirmAims
    BY DEF TypesInv, EditorInv, ViewsInv, Typed
  <2>2. /\ library.status \in [Pages -> {"none", "live", "deleted", "purged"}]
        /\ library.title \in [Pages -> StoredTitles]
        /\ library.text \in [Pages -> Texts]
        /\ library.active \in Pages \cup {NoPage}
        /\ library.provisional \in Pages \cup {NoPage}
    BY <2>1 DEF Library, Statuses
  <2>3. editor.page \in Pages \cup {NoPage} /\ editor.title \in Titles \cup {Untitled}
    BY <2>1 DEF EditorState, LineTitles
  <2>4. /\ sidebar.rows \in Seq(Rows) /\ DOMAIN sidebar.rows \subseteq 1 .. MaxPage
        /\ sidebar.active \in 1 .. MaxPage
    <3>1. CASE running
      BY <2>1, <3>1, EntriesTyped DEF SidebarInStep
    <3>2. CASE ~running
      <4>1. sidebar.rows = <<>> /\ sidebar.active = 1
        BY <3>2 DEF TypesInv, NoSidebar
      <4>2. <<>> \in Seq(Rows) /\ DOMAIN <<>> = {}
        OBVIOUS
      <4>3. 1 \in 1 .. MaxPage
        BY MaxPageAssumption
      <4> QED BY <4>1, <4>2, <4>3
    <3> QED BY <3>1, <3>2
  <2>5. sidebar.confirm \in 0 .. MaxPage
    <3>1. sidebar.confirm # 0 => sidebar.confirm \in 1 .. MaxPage
      BY <2>1, <2>4 DEF ConfirmAims, NoRow
    <3> QED BY <3>1, MaxPageAssumption
  <2>6. library.provisional # NoPage => link = "waiting" /\ library.provisional \in Live(library)
    BY DEF TypesInv, EditorInv, Withheld
  <2> QED BY <2>1, <2>2, <2>3, <2>4, <2>5, <2>6 DEF TypeOK, TypesInv
<1> QED BY <1>1, <1>2, <1>3, PTL DEF Spec
=============================================================================
