-------------------------------- MODULE TextOps --------------------------------
(***************************************************************************)
(* What the privacy boundary computes from one text.  A text is a sequence *)
(* of cells: a cell is a word, a mark, a blank, an inline language tag or  *)
(* a piece of an identifier, and a placeholder is one cell, its label.     *)
(* A regular expression matches its lead and one of its forms, behind no   *)
(* cell of before and in front of no cell of after: these stand for its    *)
(* look-arounds and word boundaries.  The form is the group that counts.   *)
(***************************************************************************)
EXTENDS SpanMerge, FiniteSets, Functions

CONSTANTS
    Rules,             \* RULES: records [category, before, lead, forms, after]
    Residual,          \* HIGH_CERTAINTY_RESIDUALS: the same without a category
    Fold,              \* NFKC, as a function on the cells it changes
    InlineTag,         \* the cells that are inline language tags
    SafeTag,           \* those of a family in _SAFE_MIXED_FAMILIES
    MAX_TEXT_CHARACTERS, MAX_LANGUAGE_SEGMENTS, MAX_REDACTION_CATEGORIES

TextAssumption ==
    /\ \A r \in Rules : /\ r.category \in 1..Len(Category)
                        /\ r.lead \in Seq(STRING) /\ r.forms \subseteq Seq(STRING) \ {<<>>}
    /\ SafeTag \subseteq InlineTag
    /\ \A c \in DOMAIN Fold : Fold[c] \in STRING
    /\ MAX_TEXT_CHARACTERS \in Nat
    /\ MAX_LANGUAGE_SEGMENTS \in Nat
    /\ MAX_REDACTION_CATEGORIES \in Nat
ASSUME TextAssumption

LabelSet == {Label[c] : c \in DOMAIN Label}

Blank(text) == \A i \in DOMAIN text : text[i] = "blank"

Strip(text) ==
    LET kept == {i \in DOMAIN text : text[i] # "blank"}
    IN  IF kept = {} THEN <<>> ELSE SubSeq(text, Min(kept), Max(kept))

\* unicodedata.normalize("NFKC", raw).strip()
Normalized(text) ==
    Strip([i \in DOMAIN text |-> IF text[i] \in DOMAIN Fold THEN Fold[text[i]] ELSE text[i]])

TagCount(text) == Cardinality({i \in DOMAIN text : text[i] \in InlineTag})

\* A tag of another family refuses the whole text.
TagsAreSafe(text) == \A i \in DOMAIN text : text[i] \in InlineTag => text[i] \in SafeTag

\* Where a segment begins: at the start of the text and after every tag.
Heads(text) ==
    FlattenSeq([i \in 1..Len(text) + 1 |->
                  IF i = 1 \/ text[i - 1] \in InlineTag THEN <<i - 1>> ELSE <<>>])

\* segment_inline_tags: what stands before the first tag keeps the declared
\* language, a segment with no content is dropped.
Segments(text, declared) ==
    LET heads == Heads(text)
        tail(k) == IF k = Len(heads) THEN Len(text) ELSE heads[k + 1] - 1
        segment(k) == [text |-> SubSeq(text, heads[k] + 1, tail(k)),
                       tag  |-> IF heads[k] = 0 THEN declared ELSE text[heads[k]]]
    IN  FlattenSeq([k \in 1..Len(heads) |-> IF Blank(segment(k).text) THEN <<>> ELSE <<segment(k)>>])

\* The forms in which expression r can match from place i on.
FormsAt(r, text, i) ==
    IF i > 1 /\ text[i - 1] \in r.before THEN {}
    ELSE {f \in r.forms : LET next == i + Len(r.lead) + Len(f)
                          IN  /\ next <= Len(text) + 1
                              /\ SubSeq(text, i, next - 1) = r.lead \o f
                              /\ next <= Len(text) => text[next] \notin r.after}

\* The repetitions are greedy: the longest of them is the match.
Longest(r, text, i) ==
    LET forms == FormsAt(r, text, i)
    IN  {f \in forms : \A g \in forms : Len(g) <= Len(f)}

\* finditer goes from left to right: from[i] is where its scan may find the
\* next match when it comes to i, behind the end of the last one.
From(r, text) ==
    LET from[i \in 1..Len(text)] ==
            IF i = 1 THEN 1
            ELSE LET free == from[i - 1]
                     ends == {i - 1 + Len(r.lead) + Len(f) : f \in Longest(r, text, i - 1)}
                 IN  IF i - 1 < free \/ ends = {} THEN free ELSE Max(ends)
    IN  from

Finditer(r, text) == {i \in 1..Len(text) : Longest(r, text, i) # {} /\ From(r, text)[i] <= i}

\* _pattern_spans: of every match of every rule, the group.
PatternSpans(text) ==
    UNION {UNION {{[start |-> i - 1 + Len(r.lead), end |-> i - 1 + Len(r.lead) + Len(f),
                    category |-> r.category] : f \in Longest(r, text, i)} : i \in Finditer(r, text)} : r \in Rules}

\* residual_surface: what is left when every placeholder is deleted, its sides joined.
Surface(text) == SelectSeq(text, LAMBDA cell : cell \notin LabelSet)

HasResidual(text) == \E r \in Residual, i \in DOMAIN Surface(text) : FormsAt(r, Surface(text), i) # {}

\* _COARSE_CATEGORY, and "other" for a label it does not know.
Coarse(label) ==
    CASE label \in {"PERSON", "PERSON_CONTEXT"} -> "person_name"
      [] label \in {"LOCATION", "LOCATION_CONTEXT", "ADDRESS", "POSTCODE"} -> "location"
      [] label \in {"EMAIL", "PHONE"} -> "contact"
      [] label \in {"HANDLE", "URL"} -> "online_handle"
      [] label \in {"IP_ADDRESS", "IBAN", "PAYMENT_CARD"} -> "identifier"
      [] OTHER -> "other"

CoarseCategory == {"person_name", "location", "contact", "online_handle", "identifier", "other"}
\* Faulty: the counter of a segment takes the place of the earlier ones.
CountedAnew(counts, selected) ==
    [l \in LabelSet |-> Cardinality({k \in DOMAIN selected : Placeholder(selected[k]) = l})]

\* Counter.update with the placeholders of one segment.
Counted(counts, selected) ==
    [l \in LabelSet |-> counts[l] + Cardinality({k \in DOMAIN selected : Placeholder(selected[k]) = l})]

\* build_receipt: coarse counts and their sum, no content.
Receipt(counts) ==
    LET coarse == [c \in CoarseCategory |-> SumFunctionOnSet(counts, {l \in LabelSet : Coarse(l) = c})]
    IN  [counts |-> coarse, total |-> SumFunction(coarse)]
================================================================================
