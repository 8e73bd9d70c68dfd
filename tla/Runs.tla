------------------------------- MODULE Runs -------------------------------
(***************************************************************************)
(* A block's content as a list of runs, and the splices the page handle    *)
(* edits it with: src/src/runs.rs and set_text and mark of src/src/page.rs.*)
(* A run is a piece of text with the marks all of it carries.  Offsets     *)
(* count bytes; a character is one or more bytes, and every byte but its   *)
(* first is a continuation.                                                *)
(***************************************************************************)
EXTENDS Naturals, Sequences, SequencesExt

CONSTANTS
    Bytes,          \* the bytes of texts
    Continuations,  \* of these, the ones that do not begin a character
    Marks           \* the marks a run may have

TextRun == [text : Seq(Bytes), marks : SUBSET Marks]
Run(text, marks) == [text |-> text, marks |-> marks]
RunsText(runs) == FlattenSeq([i \in DOMAIN runs |-> runs[i].text])

\* The marked bytes of a run list: what it means; and bytes without their marks.
Marked(runs) ==
    FlattenSeq([i \in DOMAIN runs |->
                   [j \in DOMAIN runs[i].text |-> <<runs[i].text[j], runs[i].marks>>]])
Unmarked(reading) == [k \in DOMAIN reading |-> reading[k][1]]

IsNormal(runs) ==
    /\ \A i \in DOMAIN runs : runs[i].text # <<>>
    /\ \A i \in 1 .. Len(runs) - 1 : runs[i].marks # runs[i + 1].marks

\* The offsets between characters.
Boundaries(text) ==
    {i \in 0 .. Len(text) : i \in {0, Len(text)} \/ text[i + 1] \notin Continuations}

\* clamp_boundary, clamp_char_boundary: to the text, and back to a boundary.
Clamp(text, at) ==
    IF at >= Len(text) THEN Len(text) ELSE Max({i \in Boundaries(text) : i <= at})

\* Mutated Coalesce: equal neighbours stay apart.
CoalesceEmpty(runs) == SelectSeq(runs, LAMBDA run : run.text # <<>>)
Coalesce(runs) ==
    LET Joined(out, run) ==
            IF run.text = <<>> THEN out
            ELSE IF out # <<>> /\ Last(out).marks = run.marks
              THEN [out EXCEPT ![Len(out)].text = @ \o run.text]
            ELSE Append(out, run)
        upto[i \in 0 .. Len(runs)] == IF i = 0 THEN <<>> ELSE Joined(upto[i - 1], runs[i])
    IN  upto[Len(runs)]

\* split_runs: the runs before and after a byte offset; a run across it is cut.
StartOf(runs, i) == Len(RunsText(SubSeq(runs, 1, i - 1)))
LeftOf(runs, at) ==
    LET before == {i \in DOMAIN runs : StartOf(runs, i) < at}
    IN  [i \in before |-> [runs[i] EXCEPT !.text = SubSeq(@, 1, Min({Len(@), at - StartOf(runs, i)}))]]
RightOf(runs, at) ==
    LET first == Cardinality({i \in DOMAIN runs : StartOf(runs, i) < at})
        cut == IF first = 0 THEN <<>>
               ELSE SubSeq(runs[first].text, at - StartOf(runs, first) + 1, Len(runs[first].text))
        rest == SubSeq(runs, first + 1, Len(runs))
    IN  IF cut = <<>> THEN rest ELSE <<Run(cut, runs[first].marks)>> \o rest

\* Mutated MarksAt: the marks of the character before the offset.
MarksBefore(runs, at) ==
    IF LeftOf(runs, at) = <<>> THEN {} ELSE Last(LeftOf(runs, at)).marks

\* The marks of the character at an offset, or of the last one.
MarksAt(runs, at) ==
    LET reaching == {i \in DOMAIN runs : at < StartOf(runs, i + 1)}
    IN  IF runs = <<>> THEN {}
        ELSE IF reaching = {} THEN Last(runs).marks ELSE runs[Min(reaching)].marks

SamePrefix(a, b, n) == SubSeq(a, 1, n) = SubSeq(b, 1, n)
SameSuffix(a, b, n) ==
    SubSeq(a, Len(a) - n + 1, Len(a)) = SubSeq(b, Len(b) - n + 1, Len(b))

\* common_edges: the longest shared prefix that ends between characters of both.
CommonPrefix(old, new) ==
    LET max == Min({Len(old), Len(new)})
        shared == Max({n \in 0 .. max : SamePrefix(old, new, n)})
    IN  Max({n \in 0 .. shared : n \in Boundaries(old) /\ n \in Boundaries(new)})

SuffixWithin(old, new, max) ==
    LET shared == Max({n \in 0 .. max : SameSuffix(old, new, n)})
    IN  Max({n \in 0 .. shared :
                Len(old) - n \in Boundaries(old) /\ Len(new) - n \in Boundaries(new)})

\* Mutated CommonSuffix: it may overlap the prefix.
CommonSuffixOverlap(old, new) == SuffixWithin(old, new, Min({Len(old), Len(new)}))
CommonSuffix(old, new) ==
    SuffixWithin(old, new, Min({Len(old), Len(new)}) - CommonPrefix(old, new))

\* set_text: replace what differs; the new text takes the marks at its place.
Splice(runs, from, to, text) ==
    Coalesce(LeftOf(runs, from) \o <<Run(text, MarksAt(runs, from))>> \o RightOf(runs, to))
Differing(runs, old, new, prefix, suffix) ==
    Splice(runs, prefix, Len(old) - suffix, SubSeq(new, prefix + 1, Len(new) - suffix))
SetText(runs, value) ==
    LET old == RunsText(runs)
    IN  IF old = value THEN runs
        ELSE Differing(runs, old, value, CommonPrefix(old, value), CommonSuffix(old, value))

\* mark: set or clear one mark on a range of bytes.
Remarked(runs, mark, on) ==
    [i \in DOMAIN runs |-> [runs[i] EXCEPT !.marks = IF on THEN @ \cup {mark} ELSE @ \ {mark}]]
MarkBetween(runs, from, to, mark, on) ==
    IF from >= to THEN runs
    ELSE Coalesce(LeftOf(runs, from) \o Remarked(LeftOf(RightOf(runs, from), to - from), mark, on)
                  \o RightOf(runs, to))
MarkRange(runs, start, end, mark, on) ==
    MarkBetween(runs, Clamp(RunsText(runs), start), Clamp(RunsText(runs), end), mark, on)

\* range_marked: whether every character of a range carries the mark.
Covering(runs, from, to) ==
    {i \in DOMAIN runs : Max({StartOf(runs, i), from}) < Min({StartOf(runs, i + 1), to})}

\* Mutated RangeMarked: one marked character is enough.
RangeMarkedSome(runs, from, to, mark) == \E i \in Covering(runs, from, to) : mark \in runs[i].marks
RangeMarked(runs, from, to, mark) ==
    /\ Covering(runs, from, to) # {}
    /\ \A i \in Covering(runs, from, to) : mark \in runs[i].marks
=============================================================================
