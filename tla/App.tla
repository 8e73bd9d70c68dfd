-------------------------------- MODULE App ---------------------------------
(***************************************************************************)
(* One editor process above its store: the driver of src/src/app.rs, which *)
(* keeps three views of the pages in step -- the library (library.rs), the *)
(* sidebar (sidebar.rs) and the editor widget (editor.rs) -- while the     *)
(* user clicks and types and frames of the peers arrive.  Each view has a  *)
(* copy of its own: the sidebar its rows, the editor a handle on one page  *)
(* and the title of the text as last laid out.                             *)
(*                                                                         *)
(* An event and the action it submits are one step: the toolkit hands the  *)
(* driver every submitted action before the next event, and lays out what  *)
(* a handler marked dirty when that handler returns.  What a frame did to  *)
(* the store is chosen freely; Sync models where frames come from and what *)
(* `flush` does with local changes.  Pages are numbered by their place in  *)
(* the list.                                                               *)
(***************************************************************************)
EXTENDS Naturals, Sequences, FiniteSets, FiniteSetsExt

CONSTANTS
    Blank,          \* a line, or a title, of white space only
    Untitled,       \* the title shown in the place of none
    Titles,         \* the titles lines of text give
    Texts,          \* page texts: sequences of one first line for each block
    CreatesEarly,   \* whether the user may add pages while one is provisional
    MaxPage         \* bound of the model: pages ever made

Pages == 1 .. MaxPage
NoPage == 0
NoRow == 0

ASSUME MaxPageAssumption == MaxPage \in Nat \ {0}
ASSUME TitlesAssumption == Blank \notin Titles \cup {Untitled}
ASSUME TextsAssumption ==
    {<<>>, <<Blank>>} \subseteq Texts /\ Texts \subseteq Seq(Titles \cup {Blank})

StoredTitles == Titles \cup {Untitled, Blank}

VARIABLES
    running,    \* whether the process runs
    link,       \* "offline", "waiting" for the first hello of the run, or "greeted"
    library,    \* the store's pages; the page shown; the page withheld from sync
    editor,     \* the page of the editor's handle; the title of its laid out text
    sidebar,    \* its rows; the one drawn active; the one asked to be deleted
    asked       \* history: the page whose delete button opened the question

vars == <<running, link, library, editor, sidebar, asked>>

-----------------------------------------------------------------------------
(* title.rs and library.rs. *)

\* The first line that is not blank, of the blocks in order.
FirstTitle(text) ==
    LET titled == {k \in DOMAIN text : text[k] # Blank}
    IN  IF titled = {} THEN Untitled ELSE text[Min(titled)]

Live(lib) == {p \in Pages : lib.status[p] = "live"}
Shown(title) == IF title = Blank THEN Untitled ELSE title

\* The place of one page among others, by position, and all of them in order.
IndexIn(pages, p) == Cardinality({q \in pages : q <= p})
InOrder(pages) ==
    [k \in 1 .. Cardinality(pages) |-> CHOOSE p \in pages : IndexIn(pages, p) = k]

Entries(lib) ==
    LET order == InOrder(Live(lib))
    IN  [k \in DOMAIN order |-> [id |-> order[k], title |-> Shown(lib.title[order[k]])]]

FirstId(lib) == IF Live(lib) = {} THEN NoPage ELSE Min(Live(lib))
ActiveId(lib) == IF lib.active \in Live(lib) THEN lib.active ELSE NoPage

\* The row of the active page, the first one when there is none.
ActiveIndex(lib) ==
    IF ActiveId(lib) = NoPage
      THEN 1 ELSE IndexIn(Live(lib), ActiveId(lib))

SetActiveId(lib, p) == IF p \in Live(lib) THEN [lib EXCEPT !.active = p] ELSE lib

CreatePage(lib, p) ==
    [lib EXCEPT !.status[p] = "live", !.title[p] = Untitled, !.text[p] = <<Blank>>,
                !.active = p]

\* A tombstone; its title shows nowhere any more, so it is left out.
Tombstoned(lib, p) == [lib EXCEPT !.status[p] = "deleted", !.title[p] = Untitled]

\* Mutated DeletePage: the deleted page stays the active one.
DeleteKeepsActive(lib, p) == Tombstoned(lib, p)

\* The page that takes over when `p` is gone.
MoveFrom(lib, p) == IF lib.active = p THEN [lib EXCEPT !.active = FirstId(lib)] ELSE lib

Deletable(lib, p) == Cardinality(Live(lib)) > 1 /\ p \in Live(lib)
DeletePage(lib, p) == MoveFrom(Tombstoned(lib, p), p)

SetTitle(lib, p, title) == [lib EXCEPT !.title[p] = title]

\* Mutated ConfirmProvisional: the page joins the library, yet stays withheld.
StillProvisional(lib) == lib
ConfirmProvisional(lib) == [lib EXCEPT !.provisional = NoPage]
DropProvisional(lib) ==
    LET p == lib.provisional
    IN  MoveFrom([lib EXCEPT !.provisional = NoPage, !.status[p] = "purged",
                             !.text[p] = <<>>], p)

-----------------------------------------------------------------------------
(* The two widgets. *)

LoadDocument(lib, p) == [page |-> p, title |-> FirstTitle(lib.text[p])]
Relaid(lib, ed) == LoadDocument(lib, ed.page)

\* Mutated DeriveDocumentTitle: the title of the text as it was last laid out.
CachedTitle(lib, ed) == ed.title
DeriveDocumentTitle(lib, ed) == FirstTitle(lib.text[ed.page])

\* Mutated SetEntries: an open question survives the change of the rows.
SetEntriesKeepsConfirm(sb, lib) ==
    [sb EXCEPT !.rows = Entries(lib), !.active = ActiveIndex(lib)]

SetEntries(sb, lib) ==
    [rows |-> Entries(lib), active |-> ActiveIndex(lib), confirm |-> NoRow]

SetRowTitle(sb, p, title) ==
    [sb EXCEPT !.rows = [k \in DOMAIN @ |->
        IF @[k].id = p THEN [@[k] EXCEPT !.title = title] ELSE @[k]]]

-----------------------------------------------------------------------------
(* The driver's helpers. *)

LoadActive(lib, ed) ==
    IF ActiveId(lib) = NoPage THEN ed ELSE LoadDocument(lib, ActiveId(lib))

\* apply_active_title: the active page takes `title`, in the store and in its row.
Stale(lib, title) == ActiveId(lib) # NoPage /\ Shown(lib.title[ActiveId(lib)]) # title
Retitled(lib, title) == IF Stale(lib, title) THEN SetTitle(lib, ActiveId(lib), title) ELSE lib

\* Mutated RetitledRow: the sidebar is left as it is.
RowKept(sb, lib, title) == sb
RetitledRow(sb, lib, title) ==
    IF Stale(lib, title) THEN SetRowTitle(sb, ActiveId(lib), title) ELSE sb

\* refresh_library, over the library that a frame left.
RefreshLibrary(lib) ==
    LET picked == IF ActiveId(lib) = NoPage THEN SetActiveId(lib, FirstId(lib)) ELSE lib
    IN  /\ library' = picked
        /\ sidebar' = SetEntries(sidebar, picked)
        /\ editor' = IF ActiveId(picked) # ActiveId(lib)
                        THEN LoadActive(picked, editor) ELSE editor

-----------------------------------------------------------------------------
(* The process. *)

NoLibrary ==
    [status |-> [p \in Pages |-> "none"], title |-> [p \in Pages |-> Untitled],
     text |-> [p \in Pages |-> <<>>], active |-> NoPage, provisional |-> NoPage]
NoEditor == [page |-> NoPage, title |-> Untitled]
NoSidebar == [rows |-> <<>>, active |-> 1, confirm |-> NoRow]

Init ==
    /\ running = FALSE
    /\ link = "offline"
    /\ library = NoLibrary
    /\ editor = NoEditor
    /\ sidebar = NoSidebar
    /\ asked = NoPage

Unused(p) == library.status[p] = "none"
\* A new page is placed after every page of the list.
NewPage(p) == Unused(p) /\ \A q \in Live(library) : q < p

\* main: a store without a live page is seeded, provisionally when online.
Start(online) ==
    /\ ~running
    /\ running' = TRUE
    /\ link' = IF online THEN "waiting" ELSE "offline"
    /\ \/ Live(library) # {} /\ library' = [library EXCEPT !.active = FirstId(library)]
       \/ /\ Live(library) = {}
          /\ \E p \in Pages :
                /\ Unused(p)
                /\ library' = [CreatePage(library, p) EXCEPT
                                  !.provisional = IF online THEN p ELSE NoPage]
    /\ editor' = LoadDocument(library', library'.active)
    /\ sidebar' = SetEntries(NoSidebar, library')
    /\ UNCHANGED asked

\* The store outlives the process, the rest of the library does not.
Ended(lib) ==
    /\ running' = FALSE
    /\ link' = "offline"
    /\ library' = [lib EXCEPT !.active = NoPage, !.provisional = NoPage]
    /\ editor' = NoEditor
    /\ sidebar' = NoSidebar
    /\ asked' = NoPage

Close ==
    /\ running
    /\ Ended(Retitled(library, editor.title))

Crash ==
    /\ running
    /\ Ended(library)

-----------------------------------------------------------------------------
(* The user. *)

\* The history of a question ends with it.
Answered == asked' = IF sidebar'.confirm = NoRow THEN NoPage ELSE asked

\* An edit in the text: the editor lays it out anew, then announces it.  The
\* editor keeps at least one block, unless the page has lost them all: then a
\* key finds nothing to write to.
Type(text) ==
    /\ running
    /\ text # <<>> \/ library.text[editor.page] = <<>>
    /\ LET edited == [library EXCEPT !.text[editor.page] = text]
           laid == Relaid(edited, editor)
       IN  /\ library' = Retitled(edited, laid.title)
           /\ editor' = laid
           /\ sidebar' = RetitledRow(sidebar, edited, laid.title)
    /\ UNCHANGED <<running, link, asked>>

\* The end of Create, Select and an effective Delete.
Changed(lib) ==
    /\ library' = lib
    /\ sidebar' = SetEntries(sidebar, lib)
    /\ Answered
    /\ UNCHANGED <<running, link>>

\* A click in the sidebar outside an open question.
Clicks == running /\ sidebar.confirm = NoRow

Create(p) ==
    /\ Clicks
    /\ CreatesEarly \/ library.provisional = NoPage
    /\ NewPage(p)
    /\ LET made == CreatePage(Retitled(library, editor.title), p)
       IN  Changed(made) /\ editor' = LoadActive(made, editor)

Select(k) ==
    /\ Clicks
    /\ k \in DOMAIN sidebar.rows
    /\ LET picked == SetActiveId(Retitled(library, editor.title), sidebar.rows[k].id)
       IN  Changed(picked) /\ editor' = LoadActive(picked, editor)

AskDelete(k) ==
    /\ Clicks
    /\ k \in DOMAIN sidebar.rows
    /\ sidebar' = [sidebar EXCEPT !.confirm = k]
    /\ asked' = sidebar.rows[k].id
    /\ UNCHANGED <<running, link, library, editor>>

Cancel ==
    /\ running
    /\ sidebar.confirm # NoRow
    /\ sidebar' = [sidebar EXCEPT !.confirm = NoRow]
    /\ Answered
    /\ UNCHANGED <<running, link, library, editor>>

\* The delete button of the question: the page is the one in the row by then.
Delete ==
    /\ running
    /\ sidebar.confirm \in DOMAIN sidebar.rows
    /\ LET p == sidebar.rows[sidebar.confirm].id
           titled == Retitled(library, editor.title)
       IN  \/ /\ Deletable(titled, p)
              /\ Changed(DeletePage(titled, p))
              /\ editor' = IF p = ActiveId(titled)
                              THEN LoadActive(library', editor) ELSE editor
           \/ /\ ~Deletable(titled, p)
              /\ library' = titled
              /\ sidebar' = RetitledRow([sidebar EXCEPT !.confirm = NoRow],
                                        library, editor.title)
              /\ Answered
              /\ UNCHANGED <<running, link, editor>>

-----------------------------------------------------------------------------
(* The peers. *)

\* The server's digests.  Nobody but a peer empties a library by deletions, and
\* then the server has pages.
HandleHello(empty) ==
    /\ running
    /\ link # "offline"
    /\ empty => \A p \in Pages : library.status[p] # "deleted"
    /\ link' = "greeted"
    /\ \/ library.provisional = NoPage /\ RefreshLibrary(library)
       \/ library.provisional # NoPage /\ empty /\ RefreshLibrary(ConfirmProvisional(library))
       \/ library.provisional # NoPage /\ ~empty /\ RefreshLibrary(DropProvisional(library))
    /\ Answered
    /\ UNCHANGED running

\* The library after a frame of records was merged, and the pages it changed:
\* one, or none when every record was old.  A rename newer than a deletion
\* brings the page back.  Nobody else knows a purged page.
Renewed(p, title, text) ==
    [library EXCEPT !.status[p] = "live", !.title[p] = title, !.text[p] = text]

\* The driver's reaction: relay out the page shown, or just list the pages.
AfterRecords(lib, pages) ==
    LET title == DeriveDocumentTitle(lib, editor)
    IN  \/ ActiveId(lib) = NoPage /\ RefreshLibrary(lib)
        \/ /\ ActiveId(lib) \in pages
           /\ library' = Retitled(lib, title)
           /\ editor' = Relaid(lib, editor)
           /\ sidebar' = SetEntries(sidebar, library')
        \/ /\ ActiveId(lib) \notin pages \cup {NoPage}
           /\ library' = lib
           /\ sidebar' = SetEntries(sidebar, lib)
           /\ UNCHANGED editor

HandleRecords ==
    /\ running
    /\ link = "greeted"
    /\ \/ AfterRecords(library, {})
       \/ \E p \in Pages :
             /\ library.status[p] # "purged"
             /\ \/ AfterRecords(Tombstoned(library, p), {p})
                \/ \E title \in StoredTitles, text \in Texts :
                      AfterRecords(Renewed(p, title, text), {p})
    /\ Answered
    /\ UNCHANGED <<running, link>>

-----------------------------------------------------------------------------
Next ==
    \/ \E online \in BOOLEAN : Start(online)
    \/ Close
    \/ Crash
    \/ \E text \in Texts : Type(text)
    \/ \E p \in Pages : Create(p)
    \/ \E k \in 1 .. MaxPage : Select(k)
    \/ \E k \in 1 .. MaxPage : AskDelete(k)
    \/ Cancel
    \/ Delete
    \/ \E empty \in BOOLEAN : HandleHello(empty)
    \/ HandleRecords

Spec == Init /\ [][Next]_vars

-----------------------------------------------------------------------------
(* Properties. *)

Rows == [id : Pages, title : Titles \cup {Untitled}]

\* Every variable has its type; only a live page is provisional, and only while
\* no hello has come.
TypeOK ==
    /\ running \in BOOLEAN
    /\ link \in {"offline", "waiting", "greeted"}
    /\ library.status \in [Pages -> {"none", "live", "deleted", "purged"}]
    /\ library.title \in [Pages -> StoredTitles]
    /\ library.text \in [Pages -> Texts]
    /\ {library.active, library.provisional, editor.page, asked} \subseteq Pages \cup {NoPage}
    /\ editor.title \in Titles \cup {Untitled}
    /\ sidebar.rows \in Seq(Rows)
    /\ sidebar.active \in 1 .. MaxPage
    /\ sidebar.confirm \in 0 .. MaxPage
    /\ library.provisional # NoPage =>
          link = "waiting" /\ library.provisional \in Live(library)

\* Between two events the sidebar lists the library's pages, under their titles
\* and in their order, and draws the active one active, whichever path changed
\* them: a handler of the driver, an edit, a frame (app.rs sync_sidebar,
\* apply_active_title).
SidebarInStep ==
    running => /\ sidebar.rows = Entries(library)
               /\ sidebar.active = ActiveIndex(library)

\* While there is a page at all, one is active, and it is the page the editor
\* shows and writes to: a deletion, here or at a peer, moves both (app.rs
\* load_active, refresh_library).
EditorInStep ==
    running /\ Live(library) # {} =>
        ActiveId(library) # NoPage /\ editor.page = ActiveId(library)

\* The page a click on "Delete" deletes is the page whose delete button was
\* pressed, although the question holds a row number and frames insert and
\* remove rows behind it (sidebar.rs handle_down, apply_entries).
ConfirmAims ==
    sidebar.confirm # NoRow =>
        /\ sidebar.confirm \in DOMAIN sidebar.rows
        /\ sidebar.rows[sidebar.confirm].id = asked

\* Whoever retitles the page that is active, a handler of the driver or a
\* peer's frame, the step leaves it under the title of its own text: not of a
\* page shown before, nor of a text as it was before the frame (app.rs
\* sync_title, sync_title_from_document).
OwnTitles ==
    [][LET p == ActiveId(library)
       IN  p \in Live(library') /\ library'.title[p] # library.title[p] =>
              Shown(library'.title[p]) = FirstTitle(library'.text[p])]_vars
=============================================================================
