------------------------------ MODULE Editor ------------------------------
(***************************************************************************)
(* The editor widget over one page: src/src/editor/edit.rs, selection.rs,  *)
(* menu.rs, layout.rs and the event handlers of src/src/editor.rs.         *)
(*                                                                         *)
(* A handler works on the page and on the selection, then rebuilds the     *)
(* layouts, which moves selection ends whose block is gone.  Between two   *)
(* events the page may also change under the editor: a merge from the      *)
(* network, an undo or a redo (module History says which).  Layouts and    *)
(* page are one variable here, since both are equal when an event begins.  *)
(***************************************************************************)
EXTENDS Runs

CONSTANTS
    Ids,            \* block ids; a new block's is random and was never used
    Default1, Default2,     \* the ids of Position::default(): random, of no block
    Chars,          \* what is typed: each a sequence of bytes
    Slash, Marker,  \* of these, "/" and the prefix of a heading
    Paragraph, Heading,
    Bold,           \* the mark that is toggled
    Labelled,       \* the queries the label of some menu item contains
    Pages,          \* documents the editor opens
    PeerRuns,       \* contents that others write: any runs, if an agent does
    None,           \* no menu
    MaxChars,       \* bound on the characters of a page
    MaxSize         \* bound on its characters and blocks, a block counting as two

Kinds == {Paragraph, Heading}

VARIABLES
    doc,        \* the live blocks in order: id, kind and runs
    anchor,     \* the two ends of the selection: a block and a byte offset
    focus,
    menu        \* the open menu: its block, whether "/" opened it, the query

vars == <<doc, anchor, focus, menu>>

Block(id, kind, runs) == [id |-> id, kind |-> kind, runs |-> runs]
\* What the editor writes is normal; what others wrote is read as it is stored.
Contents == {runs \in Seq(TextRun) : IsNormal(runs)} \cup PeerRuns
Blocks == [id : Ids, kind : Kinds, runs : Contents]
At(block, offset) == [block |-> block, offset |-> offset]

IndexOf(d, id) == Max({0} \cup {i \in DOMAIN d : d[i].id = id})
TextOf(b) == RunsText(b.runs)
IdsOf(d) == {d[i].id : i \in DOMAIN d}
Distinct(d) == \A i, j \in DOMAIN d : d[i].id = d[j].id => i = j

NewlineByte == "newline"

\* A run's text is UTF-8: before a byte that continues a character there is one of
\* the same character, in the same run.  A marker, being ASCII, ends a character.
Uncut(reading) ==
    \A k \in DOMAIN reading :
        reading[k][1] \in Continuations =>
            k # 1 /\ reading[k - 1][1] # Last(Marker) /\ reading[k - 1][2] = reading[k][2]

ASSUME PagesAssumption == \A d \in Pages : d \in Seq(Blocks) /\ Distinct(d)
ASSUME ContentsAssumption ==
    /\ PeerRuns \subseteq Seq(TextRun)
    /\ Chars \cup {Slash, Marker} \subseteq Seq(Bytes)
    /\ Bold \in Marks
ASSUME TextsAssumption ==
    /\ NewlineByte \notin Continuations
    /\ Marker # <<>> /\ \A k \in DOMAIN Marker : Marker[k] # NewlineByte
    /\ \A text \in Chars : Uncut([k \in DOMAIN text |-> <<text[k], {}>>])
    /\ \A d \in Pages : \A i \in DOMAIN d : Uncut(Marked(d[i].runs))
    /\ \A runs \in PeerRuns : Uncut(Marked(runs))

Fresh ==
    Ids \ (IdsOf(doc) \cup {anchor.block, focus.block} \cup (IF menu = None THEN {} ELSE {menu.block}))

\* The id of the block an empty page gets when someone types.
SeedIds == IF doc = <<>> THEN Fresh ELSE {None}

\* The editor inside a handler; dirty says that the layouts are to be rebuilt.
Now == [doc |-> doc, anchor |-> anchor, focus |-> focus, menu |-> menu, dirty |-> FALSE]

Caret(e, pos) == [e EXCEPT !.anchor = pos, !.focus = pos]
Dirty(e) == [e EXCEPT !.dirty = TRUE]
Write(e, i, value) == [e EXCEPT !.doc[i].runs = SetText(@, value)]
Collapsed(e) == e.anchor = e.focus

\* selection, selection_in_block: the blocks the two ends are in, in document
\* order, and their offsets clamped to them; first is 0 if there are none.
Ends(d, a, f, from, to) ==
    IF a = 0 \/ f = 0 THEN [first |-> 0]
    ELSE [first |-> a, from |-> Clamp(TextOf(d[a]), from), last |-> f, to |-> Clamp(TextOf(d[f]), to)]
Between(e, a, f) ==
    IF a < f \/ (a = f /\ e.anchor.offset <= e.focus.offset)
    THEN Ends(e.doc, a, f, e.anchor.offset, e.focus.offset)
    ELSE Ends(e.doc, f, a, e.focus.offset, e.anchor.offset)
Selection(e) == Between(e, IndexOf(e.doc, e.anchor.block), IndexOf(e.doc, e.focus.block))

\* selected_text: what is selected of each block, joined by newlines.
PartOf(text, i, s) ==
    SubSeq(text, IF i = s.first THEN s.from + 1 ELSE 1, IF i = s.last THEN s.to ELSE Len(text))
SelectedIn(e, s) ==
    IF Collapsed(e) \/ s.first = 0 THEN <<>>
    ELSE FlattenSeq([k \in 1 .. s.last - s.first + 1 |->
             (IF k = 1 THEN <<>> ELSE <<NewlineByte>>)
             \o PartOf(TextOf(e.doc[s.first + k - 1]), s.first + k - 1, s)])
SelectedText(e) == SelectedIn(e, Selection(e))
-----------------------------------------------------------------------------
(* The editing operations. *)

\* Mutated Kept: the range of blocks to remove ends one early.
KeptEarly(d, first, last) == SubSeq(d, 1, first) \o SubSeq(d, Max({first + 1, last}), Len(d))
Kept(d, first, last) == SubSeq(d, 1, first) \o SubSeq(d, last + 1, Len(d))

\* The text around a selection, and the text up to and after an offset.
UpTo(text, at) == SubSeq(text, 1, at)
After(text, at) == SubSeq(text, at + 1, Len(text))
Without(text, from, to) == UpTo(text, from) \o After(text, to)

\* delete_selection: the text around it joins in its first block; the others go.
Joined(e, s) ==
    Dirty(Caret([Write(e, s.first, UpTo(TextOf(e.doc[s.first]), s.from)
                                   \o After(TextOf(e.doc[s.last]), s.to))
                    EXCEPT !.doc = Kept(@, s.first, s.last)],
                At(e.doc[s.first].id, s.from)))
Cut(e, s) == IF Collapsed(e) \/ s.first = 0 THEN e ELSE Joined(e, s)
DeleteSelection(e) == Cut(e, Selection(e))
CutSelection(e) == IF SelectedText(e) # <<>> THEN DeleteSelection(e) ELSE e

\* Mutated Seeded: an empty page stays empty.
SeededNever(e, id) == e

\* editable_block: an empty page gets a block with this id.
Seeded(e, id) ==
    IF e.doc # <<>> THEN e
    ELSE Dirty(Caret([e EXCEPT !.doc = <<Block(id, Paragraph, <<>>)>>], At(id, 0)))

MenuOf(block, slash) == [block |-> block, slash |-> slash, query |-> <<>>]

\* The rules for a paragraph whose text is now this.
Converted(e, i, value) ==
    IF e.doc[i].kind # Paragraph THEN e
    ELSE IF IsPrefix(Marker, value)
      THEN Caret(Write([e EXCEPT !.doc[i].kind = Heading], i, After(value, Len(Marker))),
                 At(e.doc[i].id, 0))
    ELSE IF value = Slash
      THEN [e EXCEPT !.menu = MenuOf(e.focus.block, TRUE)]
    ELSE e

\* insert_text, once the selection is deleted.
Typed(e, i, at, text, value) ==
    Converted(Dirty(Caret(Write(e, i, value), At(e.doc[i].id, at + Len(text)))), i, value)
TypeAt(e, i, at, text) ==
    Typed(e, i, at, text, UpTo(TextOf(e.doc[i]), at) \o text \o After(TextOf(e.doc[i]), at))
TypeIn(e, i, text) ==
    IF i = 0 THEN e ELSE TypeAt(e, i, Clamp(TextOf(e.doc[i]), e.focus.offset), text)
TypeAtFocus(e, text) == TypeIn(e, IndexOf(e.doc, e.focus.block), text)
InsertText(e, text, seed) == TypeAtFocus(Seeded(DeleteSelection(e), seed), text)

\* insert_block for place i: it lands there unless the blocks around that place
\* share a position; then no position lies between, it gets one behind both, and
\* lands `past` blocks further down.  Positions are left to module Positions:
\* here any two neighbours may be such twins.
Landed(d, i, b, past) == InsertAt(d, Min({i + past, Len(d) + 1}), b)

\* split: what is right of the caret moves to a new block below.
SplitAt(e, i, at, id, past) ==
    Dirty(Caret([Write(e, i, UpTo(TextOf(e.doc[i]), at)) EXCEPT
                    !.doc = Landed(@, i + 1,
                                   Block(id, Paragraph, SetText(<<>>, After(TextOf(e.doc[i]), at))),
                                   past)],
                At(id, 0)))
SplitIn(e, i, id, past) ==
    IF i = 0 THEN e ELSE SplitAt(e, i, Clamp(TextOf(e.doc[i]), e.focus.offset), id, past)
SplitAtFocus(e, id, past) == SplitIn(e, IndexOf(e.doc, e.focus.block), id, past)
Split(e, seed, id, past) == SplitAtFocus(Seeded(DeleteSelection(e), seed), id, past)

\* The i-th block's text goes to the end of the one before; the block goes.
Merge(e, i) ==
    [Write(e, i - 1, TextOf(e.doc[i - 1]) \o TextOf(e.doc[i])) EXCEPT !.doc = RemoveAt(@, i)]

\* Mutated NextBoundary: the next byte.
NextByte(text, at) == Min({Len(text), at + 1})

PrevBoundary(text, at) == Max({0} \cup {k \in Boundaries(text) : k < at})
NextBoundary(text, at) == Min({Len(text)} \cup {k \in Boundaries(text) : k > at})

\* backspace, without a selection: the character before the caret, or the border
\* to the block above.
EraseBack(e, i, text, at) ==
    Dirty(Caret(Write(e, i, Without(text, PrevBoundary(text, at), at)),
                At(e.focus.block, PrevBoundary(text, at))))
BackIn(e, i) ==
    IF i = 0 THEN e
    ELSE IF e.focus.offset > 0
      THEN EraseBack(e, i, TextOf(e.doc[i]), Clamp(TextOf(e.doc[i]), e.focus.offset))
    ELSE IF i > 1 THEN Dirty(Caret(Merge(e, i), At(e.doc[i - 1].id, Len(TextOf(e.doc[i - 1])))))
    ELSE Dirty(e)
Backspace(e) ==
    IF Collapsed(e) THEN BackIn(e, IndexOf(e.doc, e.focus.block)) ELSE DeleteSelection(e)

EraseForward(e, i, text, at) == Dirty(Write(e, i, Without(text, at, NextBoundary(text, at))))
ForwardIn(e, i) ==
    IF i = 0 THEN e
    ELSE IF e.focus.offset < Len(TextOf(e.doc[i]))
      THEN EraseForward(e, i, TextOf(e.doc[i]), Clamp(TextOf(e.doc[i]), e.focus.offset))
    ELSE IF i < Len(e.doc) THEN Dirty(Merge(e, i + 1))
    ELSE Dirty(e)
DeleteForward(e) ==
    IF Collapsed(e) THEN ForwardIn(e, IndexOf(e.doc, e.focus.block)) ELSE DeleteSelection(e)

\* toggle_mark: each block of the selection decides for itself.
Toggle(runs, from, to) ==
    IF from < to THEN MarkRange(runs, from, to, Bold, ~RangeMarked(runs, from, to, Bold)) ELSE runs
ToggleBlocks(e, s) ==
    [e EXCEPT !.doc = [i \in DOMAIN e.doc |->
        IF i \notin s.first .. s.last THEN e.doc[i]
        ELSE [e.doc[i] EXCEPT !.runs = Toggle(@, IF i = s.first THEN s.from ELSE 0,
                                              IF i = s.last THEN s.to ELSE Len(TextOf(e.doc[i])))]]]
ToggleIn(e, s) == IF Collapsed(e) \/ s.first = 0 THEN e ELSE Dirty(ToggleBlocks(e, s))
ToggleMark(e) == ToggleIn(e, Selection(e))

KindIn(e, s, kind) ==
    IF s.first = 0 THEN e
    ELSE Dirty([e EXCEPT !.doc = [i \in DOMAIN e.doc |->
                   IF i \in s.first .. s.last THEN [e.doc[i] EXCEPT !.kind = kind] ELSE e.doc[i]]])
SetSelectedKind(e, kind) == KindIn(e, Selection(e), kind)
-----------------------------------------------------------------------------
(* What follows every event. *)

Clamped(pos, b) == At(pos.block, Clamp(TextOf(b), pos.offset))

\* Mutated MovedTo: a position whose block is gone stays.
MovedNever(pos, d, slot) == pos

\* reconcile_position: a position whose block is gone moves to the block that
\* has its slot, or to the last; old are the blocks laid out before.
MovedTo(pos, d, slot) == IF d = <<>> THEN pos ELSE At(d[Min({Len(d), Max({1, slot})})].id, 0)
ReconciledIn(pos, i, old, d) ==
    IF i # 0 THEN Clamped(pos, d[i]) ELSE MovedTo(pos, d, IndexOf(old, pos.block))
Reconciled(pos, old, d) == ReconciledIn(pos, IndexOf(d, pos.block), old, d)

\* ensure_layouts, for layouts of the blocks old.
Relaid(e, old) ==
    IF ~e.dirty THEN e
    ELSE [e EXCEPT !.anchor = Reconciled(@, old, e.doc),
                   !.focus = Reconciled(@, old, e.doc)]

\* update_slash: the query is the block's text; without its "/" the menu goes.
SlashText(e, text) ==
    IF IsPrefix(Slash, text) THEN [e EXCEPT !.menu.query = After(text, Len(Slash))] ELSE [e EXCEPT !.menu = None]
SlashIn(e, i) == IF i = 0 THEN [e EXCEPT !.menu = None] ELSE SlashText(e, TextOf(e.doc[i]))
UpdateSlash(e) ==
    IF e.menu = None \/ ~e.menu.slash THEN e ELSE SlashIn(e, IndexOf(e.doc, e.menu.block))

\* A key that an open menu leaves alone closes one that "/" did not open.
Dismissed(e) == IF e.menu # None /\ ~e.menu.slash THEN [e EXCEPT !.menu = None] ELSE e

Characters(text) == Len(SelectSeq(text, LAMBDA byte : byte \notin Continuations))
Fits(size, chars) == chars <= MaxChars /\ 2 * size + chars <= MaxSize
Bounded(d) == Fits(Len(d), Characters(FlattenSeq([i \in DOMAIN d |-> TextOf(d[i])])))

Become(e) ==
    /\ e.doc # doc => Bounded(e.doc)
    /\ doc' = e.doc
    /\ anchor' = e.anchor
    /\ focus' = e.focus
    /\ menu' = e.menu

AfterEdit(e) == UpdateSlash(Relaid(e, doc))
-----------------------------------------------------------------------------
(* Events. *)

\* A key with a character; IME and clipboard pass an open menu by.
TypeKey(text, id) == Become(AfterEdit(InsertText(Dismissed(Now), text, id)))
Commit(text, id) ==
    /\ menu # None
    /\ Become(AfterEdit(InsertText(Now, text, id)))

\* Enter confirms an open menu instead.
EnterKey(seed, id, past) ==
    /\ menu = None
    /\ Become(AfterEdit(Split(Now, seed, id, past)))

BackspaceKey == Become(AfterEdit(Backspace(Dismissed(Now))))
CutKey == Become(AfterEdit(CutSelection(Dismissed(Now))))
DeleteKey == Become(AfterEdit(DeleteForward(Dismissed(Now))))
ToggleKey == Become(AfterEdit(ToggleMark(Dismissed(Now))))
KindKey(kind) == Become(Relaid(SetSelectedKind(Dismissed(Now), kind), doc))

\* set_focus, from the keys and the pointer: the caret goes to a place, or only
\* the focus does.
Places(d) == UNION {{At(d[i].id, k) : k \in Boundaries(TextOf(d[i]))} : i \in DOMAIN d}
SetFocus(e, to, extend) == [e EXCEPT !.anchor = IF extend THEN @ ELSE to, !.focus = to]
Move(to, extend) ==
    /\ to \in Places(doc)
    /\ Become(UpdateSlash(SetFocus(Dismissed(Now), to, extend)))

\* A double or triple click: a word or line of one block.  Dragging on from it,
\* which selects from this span to the one under the pointer, is left out.
SelectSpan(from, to) ==
    /\ menu = None
    /\ {from, to} \subseteq Places(doc)
    /\ from.block = to.block /\ from.offset <= to.offset
    /\ Become([Now EXCEPT !.anchor = from, !.focus = to])

SelectAll ==
    /\ doc # <<>>
    /\ Become(UpdateSlash([Dismissed(Now) EXCEPT
                              !.anchor = At(doc[1].id, 0),
                              !.focus = At(Last(doc).id, Len(TextOf(Last(doc))))]))

\* An arrow key collapses a selection to one of its ends, as that end is.
CollapseKey(end) ==
    /\ ~Collapsed(Now)
    /\ Become(UpdateSlash(Caret(Dismissed(Now), end)))

-----------------------------------------------------------------------------
(* Menus. *)

OpenBlockMenu(i) ==
    /\ menu = None
    /\ i \in DOMAIN doc
    /\ Become([Now EXCEPT !.menu = MenuOf(doc[i].id, FALSE)])

\* The gutter's plus at slot i, which an empty page has too.
InsertBlockBelow(i, id, past) ==
    /\ menu = None
    /\ i \in 1 .. Max({1, Len(doc)})
    /\ Become(Relaid(Dirty(Caret([Now EXCEPT !.doc = Landed(@, Min({i, Len(@)}) + 1,
                                                           Block(id, Paragraph, <<>>), past)],
                                 At(id, 0))), doc))

\* strip_slash_query, after the menu is taken.
StripIn(e, i) ==
    IF i = 0 THEN e
    ELSE IF IsPrefix(Slash, TextOf(e.doc[i]))
      THEN Dirty(Caret(Write(e, i, <<>>), At(e.doc[i].id, 0)))
    ELSE Dirty(e)
Taken == [Now EXCEPT !.menu = None]
Stripped == IF menu.slash THEN StripIn(Taken, IndexOf(doc, menu.block)) ELSE Taken

\* Whether the open menu has an item that sets a kind.
Offered == menu # None /\ (menu.slash => menu.query \in Labelled)

SetKind(e, i, kind) == IF i = 0 THEN e ELSE [e EXCEPT !.doc[i].kind = kind]
ConfirmKind(kind) ==
    /\ Offered
    /\ Become(Relaid(Dirty(SetKind(Stripped, IndexOf(doc, menu.block), kind)), doc))

\* What is left of a removed block: its place and its kind, without text.
Emptied(id, kind) == Block(id, kind, <<>>)

\* If the block was removed meanwhile and had another kind, set_kind writes its
\* tombstone back as a live block, at the place it had.
ConfirmRevives(kind, place) ==
    /\ Offered
    /\ IndexOf(doc, menu.block) = 0
    /\ Become(Relaid(Dirty([Taken EXCEPT !.doc = InsertAt(@, place, Emptied(menu.block, kind))]), doc))

DeleteIn(e, i) ==
    IF Len(doc) <= 1 \/ i = 0 THEN e
    ELSE IF i > 1 THEN Caret([e EXCEPT !.doc = RemoveAt(@, i)], At(doc[i - 1].id, 0))
    ELSE [e EXCEPT !.doc = RemoveAt(@, i)]
ConfirmDelete ==
    /\ menu # None
    /\ ~menu.slash
    /\ Become(Relaid(Dirty(DeleteIn(Taken, IndexOf(doc, menu.block))), doc))

\* Escape, or a click beside the menu.
CloseMenu ==
    /\ menu # None
    /\ Become(Relaid(Stripped, doc))
-----------------------------------------------------------------------------
(* The page changes under the editor. *)

\* A merge touches the page and the driver refreshes the editor; an undo or redo
\* is a key, which differs when a menu is open.
Changed(d, undo) ==
    /\ undo => menu # None
    /\ Become(IF undo THEN AfterEdit(Dirty([Dismissed(Now) EXCEPT !.doc = d]))
              ELSE Relaid(Dirty([Now EXCEPT !.doc = d]), doc))

PeerWrites(i, kind, runs, undo) ==
    /\ i \in DOMAIN doc
    /\ Changed([doc EXCEPT ![i] = Block(@.id, kind, runs)], undo)

\* Also a block that was here before, if someone undid its removal.
PeerInserts(place, id, runs, undo) ==
    /\ place \in 1 .. Len(doc) + 1
    /\ id \notin IdsOf(doc)
    /\ Changed(InsertAt(doc, place, Block(id, Paragraph, runs)), undo)

PeerRemoves(i, undo) ==
    /\ i \in DOMAIN doc
    /\ Changed(RemoveAt(doc, i), undo)

\* One batch with both.
PeerReplaces(i, place, id, runs) ==
    /\ i \in DOMAIN doc
    /\ place \in 1 .. Len(doc)
    /\ id \notin IdsOf(doc)
    /\ Changed(InsertAt(RemoveAt(doc, i), place, Block(id, Paragraph, runs)), FALSE)

\* reset_for_new_document and the layout that follows.
Loaded(d) ==
    Relaid(Dirty([doc |-> d, anchor |-> At(Default1, 0), focus |-> At(Default2, 0),
                  menu |-> None, dirty |-> FALSE]), <<>>)

LoadDocument(d) == Become(Loaded(d))

Init ==
    \E d \in Pages :
        /\ doc = d
        /\ anchor = Loaded(d).anchor
        /\ focus = Loaded(d).focus
        /\ menu = None

Typing ==
    \/ \E text \in Chars, seed \in SeedIds : TypeKey(text, seed) \/ Commit(text, seed)
    \/ \E seed \in SeedIds, id \in Fresh, past \in 0 .. Len(doc) :
          seed # id /\ EnterKey(seed, id, past)
    \/ BackspaceKey
    \/ CutKey
    \/ DeleteKey
    \/ ToggleKey
    \/ \E kind \in Kinds : KindKey(kind)

Selecting ==
    \/ \E to \in Places(doc), extend \in BOOLEAN : Move(to, extend)
    \/ \E end \in {anchor, focus} : CollapseKey(end)
    \/ \E from, to \in Places(doc) : SelectSpan(from, to)
    \/ SelectAll

Menus ==
    \/ \E i \in DOMAIN doc : OpenBlockMenu(i)
    \/ \E i \in 1 .. Max({1, Len(doc)}), id \in Fresh, past \in 0 .. Len(doc) :
          InsertBlockBelow(i, id, past)
    \/ \E kind \in Kinds : ConfirmKind(kind)
    \/ \E kind \in Kinds, place \in 1 .. Len(doc) + 1 : ConfirmRevives(kind, place)
    \/ ConfirmDelete
    \/ CloseMenu

Others ==
    \/ \E i \in DOMAIN doc, kind \in Kinds, runs \in PeerRuns, undo \in BOOLEAN :
          PeerWrites(i, kind, runs, undo)
    \/ \E place \in 1 .. Len(doc) + 1, id \in Ids, runs \in PeerRuns, undo \in BOOLEAN :
          PeerInserts(place, id, runs, undo)
    \/ \E i \in DOMAIN doc, undo \in BOOLEAN : PeerRemoves(i, undo)
    \/ \E i, place \in DOMAIN doc, id \in Ids, runs \in PeerRuns : PeerReplaces(i, place, id, runs)
    \/ \E d \in Pages : LoadDocument(d)

Next == Typing \/ Selecting \/ Menus \/ Others

Spec == Init /\ [][Next]_vars
-----------------------------------------------------------------------------
(* Properties.  A page reads as one text with a newline between blocks, and a *)
(* place in it as an offset into that text.                                   *)

Newline == <<NewlineByte, {}>>
Reading(d) ==
    FlattenSeq([i \in DOMAIN d |-> (IF i = 1 THEN <<>> ELSE <<Newline>>) \o Marked(d[i].runs)])
Plain(d) == Unmarked(Reading(d))

BlockStart(d, i) == i - 1 + Len(FlattenSeq([k \in 1 .. i - 1 |-> TextOf(d[k])]))
OffsetIn(d, i, offset) == IF i = 0 THEN 0 ELSE BlockStart(d, i) + Clamp(TextOf(d[i]), offset)
Offset(d, pos) == OffsetIn(d, IndexOf(d, pos.block), pos.offset)
CaretAt(e, offset) == Collapsed(e) /\ Offset(e.doc, e.focus) = offset

From == Min({Offset(doc, anchor), Offset(doc, focus)})
To == Max({Offset(doc, anchor), Offset(doc, focus)})
Spliced(reading, from, new, to) == UpTo(reading, from) \o new \o After(reading, to)

\* Every variable has its type: block ids are distinct, and a block that does not
\* read exactly as someone else wrote it has no empty run and no neighbouring runs
\* with the same marks, whatever was written into it before.
TypeOK ==
    /\ doc \in Seq(Blocks) /\ Distinct(doc)
    /\ {anchor, focus} \subseteq [block : Ids \cup {Default1, Default2}, offset : Nat]
    /\ menu = None \/ menu \in [block : Ids, slash : BOOLEAN, query : Seq(Bytes)]

\* Whatever others do to the page, both ends of the selection are in blocks of
\* the page as soon as it has any, between two characters of their texts.
SelectionAnchored == doc # <<>> => {anchor, focus} \subseteq Places(doc)

\* No edit, mark or merge cuts a character in two, at offsets that were taken from
\* an older text too: each run of each block has whole characters.
CharactersWhole == \A i \in DOMAIN doc : Uncut(Marked(doc[i].runs))

\* Typing replaces what is selected by what is typed, on an empty page too, and
\* nothing else; only a paragraph that now begins with a marker becomes a heading
\* and loses the marker.
TypesAs(e, text, typed, from) ==
    LET i == IndexOf(e.doc, e.focus.block)
        start == BlockStart(e.doc, i)
        before == IndexOf(doc, e.focus.block)
        wasParagraph == before = 0 \/ doc[before].kind = Paragraph
    IN  IF wasParagraph /\ IsPrefix(Marker, After(typed, start))
        THEN /\ Plain(e.doc) = Without(typed, start, start + Len(Marker))
             /\ CaretAt(e, start)
             /\ e.doc[i].kind = Heading
        ELSE /\ Plain(e.doc) = typed
             /\ CaretAt(e, from + Len(text))
             /\ wasParagraph <=> e.doc[i].kind = Paragraph
TypingSplices ==
    LET plain == Plain(doc)
        from == From
        to == To
    IN  \A text \in Chars, seed \in SeedIds :
          TypesAs(Relaid(InsertText(Now, text, seed), doc), text, Spliced(plain, from, text, to), from)

\* Enter replaces what is selected by a newline, on an empty page too, and the
\* caret is behind it; only the new block, and the caret with it, may stand as many
\* blocks further down as it landed past the place asked for, between twins.
Raised(d, k, j) == InsertAt(RemoveAt(d, k), j, d[k])
EnterSplits ==
    LET split == Spliced(Plain(doc), From, <<NewlineByte>>, To)
        from == From
        Splits(e) == Plain(e.doc) = split /\ CaretAt(e, from + 1)
        SplitsBut(past, e, k) ==
            \E j \in 1 .. k : k <= j + past /\ Splits([e EXCEPT !.doc = Raised(@, k, j)])
    IN  \A seed \in SeedIds, id \in Fresh, past \in 0 .. Len(doc) :
          seed # id =>
             LET e == Relaid(Split(Now, seed, id, past), doc)
             IN  SplitsBut(past, e, IndexOf(e.doc, id))

\* Backspace and Delete remove what is selected, else the character or newline
\* before or after the caret, and nothing else; what Cut removes is what it copies.
Erases(e, plain, from, to) == Plain(e.doc) = Without(plain, from, to) /\ CaretAt(e, from)
ErasesBack(e, plain, from, to) ==
    Erases(e, plain, IF Collapsed(Now) THEN PrevBoundary(plain, from) ELSE from, to)
ErasesForward(e, plain, from, to) ==
    Erases(e, plain, from, IF Collapsed(Now) THEN NextBoundary(plain, to) ELSE to)
DeletesSplice ==
    IF doc = <<>> THEN Backspace(Now).doc = <<>> /\ DeleteForward(Now).doc = <<>>
    ELSE /\ ErasesBack(Relaid(Backspace(Now), doc), Plain(doc), From, To)
         /\ ErasesForward(Relaid(DeleteForward(Now), doc), Plain(doc), From, To)
         /\ SelectedText(Now) = SubSeq(Plain(doc), From + 1, To)
         /\ Erases(Relaid(CutSelection(Now), doc), Plain(doc), From, To) \/ Collapsed(Now)

\* Typing a character the block does not have keeps the marks of all others, and
\* the new one has those of the character it came before, or at the end of a block
\* those of its last run: the last character's, if that run has any (an agent may
\* write a last run that is empty, and its marks then show on no other character).
IsCharacter(text) == text # <<>> /\ Boundaries(text) = {0, Len(text)}
KeepsMarks(before, after, text, from, marks) ==
    Unmarked(after) = Spliced(Unmarked(before), from, text, from) =>
        after = Spliced(before, from, [k \in DOMAIN text |-> <<text[k], marks>>], from)
TypingKeepsMarks ==
    LET i == IndexOf(doc, focus.block)
        runs == doc[i].runs
        old == RunsText(runs)
        at == Clamp(old, focus.offset)
        marks == IF at < Len(old) THEN Marked(runs)[at + 1][2]
                 ELSE IF runs # <<>> THEN Last(runs).marks ELSE {}
    IN  doc # <<>> /\ Collapsed(Now) =>
          \A text \in {t \in Chars : IsCharacter(t) /\ \A k \in DOMAIN old : old[k] # t[Len(t)]} :
             KeepsMarks(Reading(doc), Reading(InsertText(Now, text, None).doc), text, From, marks)

\* Toggling a mark changes no text and no mark outside the selection; in each
\* block, what is selected of it has the mark afterwards unless all of it had it
\* before.
Toggles(before, after, inBlock, touched) ==
    LET HasMark(reading, k) == Bold \in reading[k][2]
    IN  /\ Unmarked(after) = Unmarked(before)
        /\ \A k \in DOMAIN before \ touched : after[k] = before[k]
        /\ \A here \in inBlock : \A k \in here \cap touched :
              HasMark(after, k) <=> \E j \in here \cap touched : ~HasMark(before, j)
ToggleExact ==
    Toggles(Reading(doc), Reading(ToggleMark(Now).doc),
            {BlockStart(doc, i) + 1 .. BlockStart(doc, i) + Len(TextOf(doc[i])) : i \in DOMAIN doc},
            From + 1 .. To)
=============================================================================
