------------------------------- MODULE SpanMerge -------------------------------
(***************************************************************************)
(* Identifier spans: the order in which PrivacyMinimizer._merge takes      *)
(* them, one turn of its loop, and what _replace makes of the merged list. *)
(* Positions are Python's: counted from 0, the end of a span excluded, and *)
(* a slice that runs past the text is cut short instead of refused.        *)
(***************************************************************************)
EXTENDS Integers, Sequences, SequencesExt, FiniteSetsExt

CONSTANT Category    \* the span categories, as a sequence in alphabetical order

Span == [start: Int, end: Int, category: 1..Len(Category)]

\* _merge drops a span that starts before the text or holds nothing.
Valid(found) == {s \in found : s.start >= 0 /\ s.end > s.start}

\* The sort key (start, -length, category).
Before(s, t) ==
    \/ s.start < t.start
    \/ s.start = t.start /\ s.end > t.end
    \/ s.start = t.start /\ s.end = t.end /\ s.category <= t.category

\* The place p lies inside span s.
Inside(p, s) == s.start <= p /\ p < s.end

\* Faulty: a span that overlaps the last one is dropped although it ends later.
DropTail(selected, s) ==
    IF selected # <<>> /\ s.start < selected[Len(selected)].end
    THEN selected
    ELSE Append(selected, s)

\* One turn of the loop over the sorted spans.
MergeStep(selected, s) ==
    IF selected # <<>> /\ s.start < selected[Len(selected)].end
    THEN IF s.end > selected[Len(selected)].end
         THEN [selected EXCEPT ![Len(selected)] = [start |-> @.start, end |-> s.end, category |-> @.category]]
         ELSE selected
    ELSE Append(selected, s)

\* text[a : b]
Slice(text, a, b) == SubSeq(text, a + 1, IF b < Len(text) THEN b ELSE Len(text))

\* NER_CATEGORY_MAP and the clean-up of a category's name, as the number the
\* category has in Label; Label[c] is the placeholder's name.
CONSTANT Label
Placeholder(s) == Label[s.category]

\* Faulty: the text goes on from where the last span began.
CursorAtStart(selected, k) == IF k = 1 THEN 0 ELSE selected[k - 1].start

\* The end of the last span before the k-th: the cursor of _replace.
Cursor(selected, k) == IF k = 1 THEN 0 ELSE selected[k - 1].end

Replaced(text, selected) ==
    LET n == Len(selected)
        part(k) == Append(Slice(text, Cursor(selected, k), selected[k].start), Placeholder(selected[k]))
    IN  FlattenSeq([k \in 1..n |-> part(k)]) \o Slice(text, Cursor(selected, n + 1), Len(text))

\* What _merge and _replace are to make of a text: at every place the label of
\* the group that begins there, nothing if a span covers it, or the text's cell.
Redacted(text, found) ==
    LET starts == {s.start : s \in {t \in found : ~\E u \in found : u.start < t.start /\ t.start < u.end}}
        first(a) == CHOOSE s \in found : s.start = a /\ \A t \in found : t.start = a => Before(s, t)
        part(i) == IF i - 1 \in starts THEN <<Placeholder(first(i - 1))>>
                   ELSE IF i > Len(text) \/ \E s \in found : Inside(i - 1, s) THEN <<>>
                   ELSE <<text[i]>>
    IN  FlattenSeq([i \in 1..Max({Len(text)} \cup {s.end : s \in found}) |-> part(i)])

SpanAssumption ==
    /\ Category \in Seq(STRING)
    /\ DOMAIN Label = 1..Len(Category) /\ \A c \in DOMAIN Label : Label[c] \in STRING
ASSUME SpanAssumption
================================================================================
