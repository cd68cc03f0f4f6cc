-------------------------- MODULE TextPipeline_proofs --------------------------
(***************************************************************************)
(* MergeSound, CuesWellChosen, QuotesDoNotCount, RedactsExactly and        *)
(* OnlyMinimised for every text, every list of patterns, every detector    *)
(* and every registry.  MergeInv says what the loop of _merge relies on    *)
(* without checking: no span still to come starts before one that is       *)
(* already merged.  TextInv follows the text on to the response, GroupInv  *)
(* says which spans a merged one stands for, and ShownInv that the counter *)
(* has every placeholder of what is put together from the segments.        *)
(***************************************************************************)
EXTENDS TextPipeline, FiniteSetTheorems, SequenceTheorems, WellFoundedInduction, TLAPS

Nonempty == \A s \in spans : s.start < s.end
Merged ==
    /\ \A k \in DOMAIN selected : selected[k].start < selected[k].end
    /\ \A j, k \in DOMAIN selected : j < k => selected[j].end <= selected[k].start
Ahead == \A k \in DOMAIN selected : \A s \in todo : selected[k].start <= s.start
SamePlaces ==
    \A p \in Int : (\E k \in DOMAIN selected : Inside(p, selected[k]))
                     <=> (\E s \in spans \ todo : Inside(p, s))
MergeInv == TextTypeOK /\ Nonempty /\ Merged /\ Ahead /\ SamePlaces

\* The patterns' matches are spans, whatever the text: whole positions and a
\* known category.
LEMMA PatternSpansTyped == ASSUME NEW text PROVE PatternSpans(text) \subseteq Span
  <1>1. SUFFICES ASSUME NEW r \in Rules, NEW i \in Finditer(r, text), NEW f \in Longest(r, text, i)
                 PROVE  [start |-> i - 1 + Len(r.lead), end |-> i - 1 + Len(r.lead) + Len(f),
                         category |-> r.category] \in Span
    BY DEF PatternSpans
  <1>2. i \in Int /\ f \in r.forms
    BY DEF Finditer, Longest, FormsAt
  <1>3. r.category \in 1..Len(Category) /\ r.lead \in Seq(STRING) /\ f \in Seq(STRING)
    BY <1>2, TextAssumption DEF TextAssumption
  <1>4. Len(r.lead) \in Nat /\ Len(f) \in Nat
    BY <1>3
  <1>. QED BY <1>2, <1>3, <1>4 DEF Span

\* What is up to n is n, or below it.
LEMMA Below ==
    \A n \in Nat : /\ \A k \in 1..n : k = n \/ k < n
                  /\ \A k \in 1..n - 1 : k \in 1..n /\ k # n
  OBVIOUS

\* A span is its fields.
LEMMA SpanFields ==
    ASSUME NEW sel \in Seq(Span)
    PROVE  \A k \in DOMAIN sel : sel[k] \in Span /\ sel[k].start \in Int /\ sel[k].end \in Int
  <1>1. \A k \in DOMAIN sel : sel[k] \in Span
    OBVIOUS
  <1>. QED BY <1>1 DEF Span

\* What Counter.update adds to a label is a number.
LEMMA CountedTyped ==
    ASSUME NEW c \in [LabelSet -> Nat], NEW sel \in Seq(Span)
    PROVE  Counted(c, sel) \in [LabelSet -> Nat]
  <1>1. SUFFICES ASSUME NEW l \in LabelSet
                 PROVE  c[l] + Cardinality({k \in DOMAIN sel : Placeholder(sel[k]) = l}) \in Nat
    BY DEF Counted
  <1>2. IsFiniteSet(1..Len(sel)) /\ DOMAIN sel = 1..Len(sel)
    BY FS_Interval
  <1>3. Cardinality({k \in DOMAIN sel : Placeholder(sel[k]) = l}) \in Nat
    BY <1>2, FS_Subset, FS_CardinalityType
  <1>. QED BY <1>3

\* One turn of the loop, on any merged list and any span that does not start
\* before the list's last one: the list stays merged and gains the places of
\* the span, no others.
LEMMA MergeStepSound ==
    ASSUME NEW sel \in Seq(Span), NEW s \in Span, s.start < s.end,
           \A k \in DOMAIN sel : sel[k].start < sel[k].end,
           \A j, k \in DOMAIN sel : j < k => sel[j].end <= sel[k].start,
           \A k \in DOMAIN sel : sel[k].start <= s.start
    PROVE  LET new == MergeStep(sel, s)
           IN  /\ new \in Seq(Span)
               /\ \A k \in DOMAIN new : new[k].start < new[k].end
               /\ \A j, k \in DOMAIN new : j < k => new[j].end <= new[k].start
               /\ \A k \in DOMAIN new : new[k].start <= s.start
               /\ \A p \in Int : (\E k \in DOMAIN new : Inside(p, new[k]))
                                   <=> (Inside(p, s) \/ \E k \in DOMAIN sel : Inside(p, sel[k]))
  <1>. DEFINE new == MergeStep(sel, s)
              n == Len(sel)
  <1>1. n \in Nat /\ DOMAIN sel = 1..n /\ \A k \in 1..n : sel[k] \in Span
    OBVIOUS
  <1>2. s.start \in Int /\ s.end \in Int /\ \A k \in 1..n : sel[k].start \in Int /\ sel[k].end \in Int
    BY <1>1 DEF Span
  <1>3. CASE sel = <<>> \/ ~(s.start < sel[n].end)
    <2>1. new = Append(sel, s)
      BY <1>3 DEF MergeStep
    <2>2. /\ new \in Seq(Span) /\ DOMAIN new = 1..n + 1
          /\ new[n + 1] = s /\ \A k \in 1..n : new[k] = sel[k]
      BY <2>1, <1>1
    <2>3. \A k \in 1..n : sel[k].end <= s.start
      <3>1. SUFFICES ASSUME NEW k \in 1..n PROVE sel[k].end <= s.start
        OBVIOUS
      <3>2. n \in 1..n /\ sel[n].end <= s.start
        BY <1>1, <1>2, <1>3, <3>1
      <3>3. k = n \/ k < n
        BY <1>1, Below
      <3>4. k < n => sel[k].end <= sel[n].start
        BY <1>1, <3>2
      <3>5. sel[n].start < sel[n].end
        BY <1>1, <3>2
      <3>6. sel[k].end \in Int /\ sel[n].start \in Int /\ sel[n].end \in Int
        BY <1>2, <3>2
      <3>. QED BY <1>2, <3>2, <3>3, <3>4, <3>5, <3>6
    <2>4. \A p \in Int : (\E k \in DOMAIN new : Inside(p, new[k]))
                            <=> (Inside(p, s) \/ \E k \in DOMAIN sel : Inside(p, sel[k]))
      BY <1>1, <2>2
    <2>5. \A j, k \in DOMAIN new : j < k => new[j].end <= new[k].start
      BY <1>1, <2>2, <2>3
    <2>6. \A k \in DOMAIN new : new[k].start < new[k].end /\ new[k].start <= s.start
      BY <1>1, <1>2, <2>2
    <2>. QED BY <2>2, <2>4, <2>5, <2>6
  <1>4. CASE sel # <<>> /\ s.start < sel[n].end /\ s.end > sel[n].end
    <2>. DEFINE longer == [start |-> sel[n].start, end |-> s.end, category |-> sel[n].category]
    <2>1. new = [sel EXCEPT ![n] = longer]
      BY <1>4 DEF MergeStep
    <2>2. n \in 1..n
      BY <1>1, <1>4
    <2>4. /\ new \in Seq(Span) /\ DOMAIN new = 1..n
          /\ new[n].start = sel[n].start /\ new[n].end = s.end
          /\ \A k \in 1..n - 1 : new[k] = sel[k]
      <3>1. longer \in Span
        BY <1>1, <1>2, <2>2 DEF Span
      <3>2. new = [k \in 1..n |-> IF k = n THEN longer ELSE sel[k]]
        BY <2>1, <1>1, <2>2
      <3>3. new \in Seq(Span)
        BY <1>1, <3>1, <3>2
      <3>4. new[n] = longer
        BY <3>2, <2>2
      <3>5. new[n].start = sel[n].start /\ new[n].end = s.end
        BY <3>4
      <3>6. DOMAIN new = 1..n
        BY <3>2
      <3>7. \A k \in 1..n - 1 : k \in 1..n /\ k # n
        BY <1>1, Below
      <3>8. \A k \in 1..n - 1 : new[k] = sel[k]
        BY <3>2, <3>7
      <3>. QED BY <3>3, <3>5, <3>6, <3>8
    <2>5. \A k \in DOMAIN new : new[k].start = sel[k].start /\ sel[k].end <= new[k].end
      BY <1>1, <1>2, <1>4, <2>2, <2>4
    <2>6. \A k \in DOMAIN new : new[k].start < new[k].end /\ new[k].start <= s.start
      BY <1>1, <1>2, <1>4, <2>2, <2>4, <2>5
    <2>7. \A j, k \in DOMAIN new : j < k => new[j].end <= new[k].start
      BY <1>1, <2>4, <2>5
    <2>8. \A p \in Int : Inside(p, new[n]) <=> (Inside(p, s) \/ Inside(p, sel[n]))
      BY <1>1, <1>2, <1>4, <2>2, <2>4 DEF Inside
    <2>9. \A p \in Int : (\E k \in DOMAIN new : Inside(p, new[k]))
                            <=> (Inside(p, s) \/ \E k \in DOMAIN sel : Inside(p, sel[k]))
      BY <1>1, <2>2, <2>4, <2>8, SMTT(20)
    <2>. QED BY <2>4, <2>6, <2>7, <2>9
  <1>5. CASE sel # <<>> /\ s.start < sel[n].end /\ ~(s.end > sel[n].end)
    <2>1. new = sel /\ n \in 1..n
      BY <1>1, <1>5 DEF MergeStep
    <2>2. \A p \in Int : Inside(p, s) => Inside(p, sel[n])
      BY <1>1, <1>2, <1>5, <2>1 DEF Inside
    <2>. QED BY <1>1, <2>1, <2>2
  <1>. QED BY <1>3, <1>4, <1>5

\* The invariant holds before a text arrives.
LEMMA InitMergeInv == TextInit => MergeInv
  BY DEF TextInit, MergeInv, TextTypeOK, Nonempty, Merged, Ahead, SamePlaces, Span

\* The loop's one step: the least of the spans still to come goes in.
LEMMA MergeOneInv == MergeInv /\ MergeOne => MergeInv'
  <1>1. SUFFICES ASSUME MergeInv, MergeOne PROVE MergeInv'
    OBVIOUS
  <1>. USE <1>1
  <1>2. PICK s \in todo : /\ \A t \in todo : Before(s, t)
                          /\ selected' = MergeStep(selected, s)
                          /\ todo' = todo \ {s}
    BY DEF MergeOne
  <1>3. /\ UNCHANGED <<stage, spans, counts>>
        /\ selected \in Seq(Span) /\ s \in Span /\ s \in spans /\ s.start < s.end
    BY <1>2 DEF MergeOne, MergeInv, TextTypeOK, Nonempty
  <1>4. /\ \A k \in DOMAIN selected : selected[k].start < selected[k].end
        /\ \A j, k \in DOMAIN selected : j < k => selected[j].end <= selected[k].start
        /\ \A k \in DOMAIN selected : selected[k].start <= s.start
    BY <1>2 DEF MergeInv, Merged, Ahead
  <1>5. /\ selected' \in Seq(Span)
        /\ \A k \in DOMAIN selected' : selected'[k].start < selected'[k].end
        /\ \A j, k \in DOMAIN selected' : j < k => selected'[j].end <= selected'[k].start
        /\ \A k \in DOMAIN selected' : selected'[k].start <= s.start
        /\ \A p \in Int : (\E k \in DOMAIN selected' : Inside(p, selected'[k]))
                            <=> (Inside(p, s) \/ \E k \in DOMAIN selected : Inside(p, selected[k]))
    BY <1>2, <1>3, <1>4, MergeStepSound
  <1>6. TextTypeOK'
    BY <1>2, <1>3, <1>5 DEF MergeInv, TextTypeOK
  <1>7. Nonempty' /\ Merged'
    BY <1>3, <1>5 DEF MergeInv, Nonempty, Merged
  <1>8. Ahead'
    <2>1. SUFFICES ASSUME NEW k \in DOMAIN selected', NEW t \in todo' PROVE selected'[k].start <= t.start
      BY DEF Ahead
    <2>2. t \in Span /\ Before(s, t)
      BY <1>2 DEF MergeInv, TextTypeOK
    <2>3. s.start <= t.start /\ s.start \in Int /\ t.start \in Int
      BY <1>3, <2>2 DEF Before, Span
    <2>4. selected'[k].start \in Int
      BY <1>5, SpanFields
    <2>. QED BY <1>5, <2>3, <2>4
  <1>9. SamePlaces'
    <2>1. spans' \ todo' = (spans \ todo) \cup {s}
      BY <1>2, <1>3 DEF MergeInv, TextTypeOK
    <2>2. SUFFICES ASSUME NEW p \in Int
                   PROVE (\E k \in DOMAIN selected' : Inside(p, selected'[k]))
                            <=> (\E t \in (spans \ todo) \cup {s} : Inside(p, t))
      BY <2>1 DEF SamePlaces
    <2>3. (\E k \in DOMAIN selected : Inside(p, selected[k])) <=> (\E t \in spans \ todo : Inside(p, t))
      BY DEF MergeInv, SamePlaces
    <2>. QED BY <1>5, <2>3
  <1>. QED BY <1>6, <1>7, <1>8, <1>9 DEF MergeInv

\* The spans are gone before and after a segment's merge.
LEMMA Cleared ==
    ASSUME MergeInv, spans' = {}, todo' = {}, selected' = <<>>,
           TextTypeOK'
    PROVE  MergeInv'
  BY DEF MergeInv, Nonempty, Merged, Ahead, SamePlaces

\* An action that leaves the merge alone.
LEMMA Untouched == ASSUME MergeInv, UNCHANGED mergeVars, TextTypeOK' PROVE MergeInv'
  BY DEF MergeInv, mergeVars, Nonempty, Merged, Ahead, SamePlaces

\* What a detector finds keeps it.
LEMMA DetectInv == ASSUME NEW found, MergeInv, Detect(found) PROVE MergeInv'
  <1>1. CASE request.mode = "t1" /\ Head(segments).tag \notin DetectorTag
    <2>1. TextTypeOK' /\ UNCHANGED mergeVars
      BY <1>1 DEF Detect, Stop, MergeInv, TextTypeOK, Ended, mergeVars
    <2>. QED BY <2>1, Untouched
  <1>2. CASE ~(request.mode = "t1" /\ Head(segments).tag \notin DetectorTag)
    <2>1. /\ stage' = "merge" /\ counts' = counts
          /\ spans' = Valid(PatternSpans(Head(segments).text) \cup found)
          /\ todo' = spans' /\ selected' = <<>>
          /\ found \subseteq Span
      BY <1>2 DEF Detect
    <2>2. spans' \subseteq Span /\ \A s \in spans' : s.start < s.end
      BY <2>1, PatternSpansTyped DEF Valid, Span
    <2>3. counts' \in [LabelSet -> Nat]
      BY <2>1 DEF MergeInv, TextTypeOK
    <2>4. selected' \in Seq(Span) /\ DOMAIN selected' = {}
      BY <2>1
    <2>5. todo' \subseteq spans' /\ spans' \ todo' = {}
      BY <2>1
    <2>6. TextTypeOK'
      BY <2>1, <2>2, <2>3, <2>4, <2>5 DEF TextTypeOK
    <2>7. Nonempty' /\ Merged' /\ Ahead'
      BY <2>2, <2>4 DEF Nonempty, Merged, Ahead
    <2>8. SamePlaces'
      BY <2>4, <2>5 DEF SamePlaces
    <2>. QED BY <2>6, <2>7, <2>8 DEF MergeInv
  <1>. QED BY <1>1, <1>2

\* Replacing a segment keeps it.
LEMMA ReplaceSegmentInv == ASSUME MergeInv, ReplaceSegment PROVE MergeInv'
  <1>1. /\ stage' = "detect" /\ spans' = {} /\ selected' = <<>> /\ todo' = {}
        /\ counts' = Counted(counts, selected)
    BY DEF ReplaceSegment
  <1>2. counts' \in [LabelSet -> Nat]
    BY <1>1, CountedTyped DEF MergeInv, TextTypeOK
  <1>3. TextTypeOK'
    BY <1>1, <1>2 DEF TextTypeOK
  <1>. QED BY <1>1, <1>3, Cleared

\* Every step keeps it.
LEMMA NextMergeInv == MergeInv /\ [TextNext]_textVars => MergeInv'
  <1>1. SUFFICES ASSUME MergeInv, [TextNext]_textVars PROVE MergeInv'
    OBVIOUS
  <1>. USE <1>1
  <1>2. ASSUME NEW t \in Text, NEW l \in Declared, NEW p \in Profile, NEW d \in BOOLEAN, ReceiveDraft(t, l, p, d)
        PROVE MergeInv'
    <2>1. TextTypeOK' /\ UNCHANGED mergeVars
      BY <1>2 DEF ReceiveDraft, MergeInv, TextTypeOK, Ended, mergeVars
    <2>. QED BY <2>1, Untouched
  <1>3. ASSUME NEW id, NEW text, NEW k, NEW l, NEW p, ReceiveFixture(id, text, k, l, p)
        PROVE MergeInv'
    <2>1. TextTypeOK' /\ UNCHANGED mergeVars
      BY <1>3 DEF ReceiveFixture, MergeInv, TextTypeOK, Ended, mergeVars
    <2>. QED BY <2>1, Untouched
  <1>4. CASE Segment
    <2>1. stage' \in {"refused", "detect"} /\ UNCHANGED <<spans, todo, selected, counts>>
      BY <1>4 DEF Segment
    <2>2. TextTypeOK' /\ UNCHANGED mergeVars
      BY <2>1 DEF MergeInv, TextTypeOK, Ended, mergeVars
    <2>. QED BY <2>2, Untouched
  <1>5. ASSUME NEW f, Detect(f) PROVE MergeInv'
    BY <1>5, DetectInv
  <1>6. CASE MergeOne
    BY <1>6, MergeOneInv
  <1>7. CASE ReplaceSegment
    BY <1>7, ReplaceSegmentInv
  <1>8. CASE Check
    <2>1. stage' \in {"sanitized", "refused"} /\ UNCHANGED <<spans, todo, selected, counts>>
      BY <1>8 DEF Check, Stop
    <2>2. TextTypeOK' /\ UNCHANGED mergeVars
      BY <2>1 DEF MergeInv, TextTypeOK, Ended, mergeVars
    <2>. QED BY <2>2, Untouched
  <1>9. CASE Prepare
    <2>1. TextTypeOK' /\ UNCHANGED mergeVars
      BY <1>9 DEF Prepare, Stop, MergeInv, TextTypeOK, Ended, mergeVars
    <2>. QED BY <2>1, Untouched
  <1>10. CASE Analyse
    <2>1. stage' \in Ended /\ UNCHANGED <<spans, todo, selected, counts>>
      BY <1>10 DEF Analyse, Stop, Ended
    <2>2. TextTypeOK' /\ UNCHANGED mergeVars
      BY <2>1 DEF MergeInv, TextTypeOK, Ended, mergeVars
    <2>. QED BY <2>2, Untouched
  <1>11. CASE Return
    <2>1. /\ stage' = "waiting" /\ spans' = {} /\ todo' = {} /\ selected' = <<>>
          /\ counts' = [l \in LabelSet |-> 0]
      BY <1>11 DEF Return
    <2>2. TextTypeOK'
      BY <2>1 DEF TextTypeOK
    <2>. QED BY <2>1, <2>2, Cleared
  <1>12. CASE UNCHANGED textVars
    <2>1. TextTypeOK' /\ UNCHANGED mergeVars
      BY <1>12 DEF textVars, MergeInv, TextTypeOK, Ended, mergeVars
    <2>. QED BY <2>1, Untouched
  <1>. QED
    BY <1>2, <1>3, <1>4, <1>5, <1>6, <1>7, <1>8, <1>9, <1>10, <1>11, <1>12 DEF TextNext

\* It implies what the run checks.
LEMMA MergeInvImplies == MergeInv => MergeSound
  <1>1. SUFFICES ASSUME MergeInv PROVE MergeSound
    OBVIOUS
  <1>. USE <1>1
  <1>2. \A k \in DOMAIN selected : \A p \in selected[k].start..selected[k].end - 1 : p \in Int /\ Inside(p, selected[k])
    BY SpanFields DEF Inside, MergeInv, TextTypeOK
  <1>3. \A s \in spans \ todo : \A p \in s.start..s.end - 1 : p \in Int /\ Inside(p, s)
    BY DEF Inside, MergeInv, TextTypeOK, Span
  <1>. QED BY <1>2, <1>3 DEF MergeInv, Merged, SamePlaces, MergeSound

\* _merge keeps what it owes for any text: the merged spans are in order and
\* apart, and they hold the places of the spans taken so far, no more and no less.
THEOREM MergeIsSound == TextSpec => []MergeSound
  <1>1. TextInit => MergeInv
    BY InitMergeInv
  <1>2. MergeInv /\ [TextNext]_textVars => MergeInv'
    BY NextMergeInv
  <1>3. MergeInv => MergeSound
    BY MergeInvImplies
  <1>. QED BY <1>1, <1>2, <1>3, PTL DEF TextSpec

(***************************************************************************)
(* Naturals, and sequences that are joined.                                *)
(***************************************************************************)

\* A nonempty set of naturals has a least element.
LEMMA LeastNatural ==
  ASSUME NEW S \in SUBSET Nat, S # {}
  PROVE  \E x \in S : \A y \in S : x <= y
  <1>. DEFINE R == OpToRel(<, Nat)
  <1>1. IsWellFoundedOn(R, Nat)
    BY NatLessThanWellFounded
  <1>2. PICK x \in S : \A y \in S : ~(<<y, x>> \in R)
    <2>. HIDE DEF R
    <2>. QED BY <1>1, WFMin
  <1>3. ASSUME NEW y \in S PROVE x <= y
    <2>1. ~(<<y, x>> \in R)
      BY <1>2
    <2>2. ~(y < x)
      BY <2>1 DEF OpToRel
    <2>. QED BY <2>2
  <1>. QED BY <1>3

\* What holds at 0 and passes from each number below n to the next holds up to
\* n: of numbers that fail there is no least one.
LEMMA UpTo ==
  ASSUME NEW n \in Nat, NEW H \in SUBSET Nat, 0 \in H,
         \A k \in 0..n - 1 : k \in H => k + 1 \in H
  PROVE  \A k \in 0..n : k \in H
  <1>. DEFINE S == {k \in 0..n : k \notin H}
  <1>1. SUFFICES ASSUME S # {} PROVE FALSE
    OBVIOUS
  <1>2. S \in SUBSET Nat
    OBVIOUS
  <1>3. PICK x \in S : \A y \in S : x <= y
    <2>. HIDE DEF S
    <2>. QED BY <1>1, <1>2, LeastNatural
  <1>4. x \in 1..n /\ x \notin H
    BY <1>3
  <1>5. x - 1 \in 0..n - 1 /\ x - 1 \in 0..n /\ (x - 1) + 1 = x
    BY <1>4
  <1>6. x - 1 \in H
    <2>1. x - 1 \notin S
      BY <1>3, <1>4
    <2>. QED BY <1>5, <2>1
  <1>. QED BY <1>4, <1>5, <1>6

\* The least and the greatest of finitely many naturals.
LEMMA LeastAndGreatest ==
  ASSUME NEW n \in Nat, NEW S \in SUBSET (1..n), S # {}
  PROVE  /\ Min(S) \in S /\ \A y \in S : Min(S) <= y
         /\ Max(S) \in S /\ \A y \in S : Max(S) >= y
  <1>1. \E x \in S : \A y \in S : x <= y
    BY LeastNatural
  <1>2. \E x \in S : \A y \in S : x >= y
    <2>. DEFINE T == {n - x : x \in S}
    <2>1. T \in SUBSET Nat /\ T # {}
      OBVIOUS
    <2>2. PICK t \in T : \A u \in T : t <= u
      <3>. HIDE DEF T
      <3>. QED BY <2>1, LeastNatural
    <2>3. PICK x \in S : t = n - x
      OBVIOUS
    <2>4. ASSUME NEW y \in S PROVE x >= y
      <3>1. n - y \in T
        OBVIOUS
      <3>2. x \in 1..n /\ y \in 1..n
        OBVIOUS
      <3>3. n - x <= n - y
        BY <2>2, <2>3, <3>1
      <3>. HIDE DEF T
      <3>. QED BY <3>2, <3>3
    <2>. QED BY <2>4
  <1>. QED BY <1>1, <1>2 DEF Min, Max

\* FlattenSeq's function, on the first n sequences.
Joins(f, q, n) == f = [i \in 1..n |-> IF i = 1 THEN q[i] ELSE f[i - 1] \o q[i]]

\* Sequences of elements of a set are joined one by one.
LEMMA FlattenJoins ==
  ASSUME NEW S, NEW q \in Seq(Seq(S))
  PROVE  \E J \in [0..Len(q) -> Seq(S)] : /\ J[0] = <<>> /\ J[Len(q)] = FlattenSeq(q)
                                         /\ \A i \in 1..Len(q) : J[i] = J[i - 1] \o q[i]
  <1>. DEFINE n == Len(q)
  <1>1. n \in Nat /\ \A i \in 1..n : q[i] \in Seq(S)
    OBVIOUS
  <1>2. CASE n = 0
    <2>1. FlattenSeq(q) = q /\ q = <<>>
      BY <1>2 DEF FlattenSeq
    <2>. DEFINE J == [i \in 0..0 |-> <<>>]
    <2>2. J \in [0..n -> Seq(S)] /\ J[0] = <<>> /\ J[n] = FlattenSeq(q) /\ \A i \in 1..n : J[i] = J[i - 1] \o q[i]
      BY <1>2, <2>1
    <2>. QED BY <2>2
  <1>3. CASE n # 0
    <2>. DEFINE H == {k \in Nat : \E f : Joins(f, q, k)}
                f == CHOOSE f : Joins(f, q, n)
                G == {k \in Nat : k \in 1..n => f[k] \in Seq(S)}
    <2>1. 0 \in H
      <3>1. Joins([i \in 1..0 |-> <<>>], q, 0)
        BY DEF Joins
      <3>. QED BY <3>1
    <2>2. ASSUME NEW k \in 0..n - 1, k \in H PROVE k + 1 \in H
      <3>1. PICK g : Joins(g, q, k)
        BY <2>2
      <3>. DEFINE last == IF k + 1 = 1 THEN q[k + 1] ELSE g[k] \o q[k + 1]
                  h == [i \in 1..k + 1 |-> IF i = k + 1 THEN last ELSE g[i]]
      <3>2. ASSUME NEW i \in 1..k + 1 PROVE h[i] = IF i = 1 THEN q[i] ELSE h[i - 1] \o q[i]
        <4>1. CASE i = k + 1
          <5>1. i # 1 => h[i - 1] = g[k]
            BY <1>1, <4>1
          <5>. QED BY <4>1, <5>1
        <4>2. CASE i # k + 1
          <5>1. i \in 1..k /\ (i # 1 => i - 1 \in 1..k + 1 /\ i - 1 # k + 1)
            BY <1>1, <4>2
          <5>2. h[i] = g[i] /\ (i # 1 => h[i - 1] = g[i - 1])
            BY <4>2, <5>1
          <5>3. g[i] = IF i = 1 THEN q[i] ELSE g[i - 1] \o q[i]
            BY <3>1, <5>1 DEF Joins
          <5>. QED BY <5>2, <5>3
        <4>. QED BY <4>1, <4>2
      <3>3. Joins(h, q, k + 1)
        BY <3>2 DEF Joins
      <3>. HIDE DEF h
      <3>. QED BY <1>1, <3>3
    <2>3. n \in H
      <3>. HIDE DEF H
      <3>1. H \in SUBSET Nat
        BY DEF H
      <3>2. \A k \in 0..n : k \in H
        BY <1>1, <2>1, <2>2, <3>1, UpTo
      <3>. QED BY <1>1, <3>2
    <2>4. Joins(f, q, n)
      BY <2>3
    <2>5. FlattenSeq(q) = f[n]
      BY <1>3 DEF FlattenSeq, Joins
    <2>. HIDE DEF f
    <2>6. ASSUME NEW k \in 0..n - 1, k \in G PROVE k + 1 \in G
      <3>1. k + 1 \in 1..n /\ q[k + 1] \in Seq(S) /\ k + 1 \in Nat
        BY <1>1
      <3>2. f[k + 1] = IF k + 1 = 1 THEN q[k + 1] ELSE f[(k + 1) - 1] \o q[k + 1]
        BY <2>4, <3>1 DEF Joins
      <3>3. CASE k = 0
        BY <3>1, <3>2, <3>3
      <3>4. CASE k # 0
        <4>1. f[k] \in Seq(S) /\ (k + 1) - 1 = k /\ k + 1 # 1
          BY <1>1, <2>6, <3>4
        <4>2. f[k + 1] = f[k] \o q[k + 1]
          BY <3>2, <4>1
        <4>3. f[k] \o q[k + 1] \in Seq(S)
          BY <3>1, <4>1
        <4>. QED BY <3>1, <4>2, <4>3
      <3>. QED BY <3>3, <3>4
    <2>7. \A k \in 0..n : k \in G
      <3>. HIDE DEF G
      <3>1. G \in SUBSET Nat /\ 0 \in G
        BY DEF G
      <3>. QED BY <1>1, <2>6, <3>1, UpTo
    <2>. DEFINE J == [i \in 0..n |-> IF i = 0 THEN <<>> ELSE f[i]]
    <2>8. J \in [0..n -> Seq(S)]
      <3>1. \A i \in 0..n : i # 0 => i \in 1..n
        BY <1>1
      <3>2. \A i \in 0..n : (IF i = 0 THEN <<>> ELSE f[i]) \in Seq(S)
        BY <2>7, <3>1
      <3>. QED BY <3>2
    <2>9. J[0] = <<>> /\ J[n] = FlattenSeq(q)
      BY <1>1, <1>3, <2>5
    <2>10. ASSUME NEW i \in 1..n PROVE J[i] = J[i - 1] \o q[i]
      <3>1. i \in 0..n /\ i # 0 /\ J[i] = f[i] /\ f[i] = IF i = 1 THEN q[i] ELSE f[i - 1] \o q[i]
        <4>1. i \in 0..n /\ i # 0
          BY <1>1
        <4>2. J[i] = f[i]
          BY <4>1
        <4>. HIDE DEF J
        <4>3. f[i] = IF i = 1 THEN q[i] ELSE f[i - 1] \o q[i]
          BY <2>4 DEF Joins
        <4>. QED BY <4>1, <4>2, <4>3
      <3>2. CASE i = 1
        <4>1. J[i - 1] = <<>> /\ <<>> \o q[i] = q[i]
          BY <1>1, <2>9, <3>2, ConcatEmptySeq
        <4>. QED BY <3>1, <3>2, <4>1
      <3>3. CASE i # 1
        <4>1. i - 1 \in 0..n /\ i - 1 # 0
          BY <1>1, <3>3
        <4>2. J[i - 1] = f[i - 1]
          BY <4>1
        <4>. QED BY <3>1, <3>3, <4>2
      <3>. QED BY <3>2, <3>3
    <2>. HIDE DEF J
    <2>. QED BY <2>8, <2>9, <2>10
  <1>. QED BY <1>2, <1>3

\* So what they are joined to is a sequence of them.
LEMMA FlattenTyped == ASSUME NEW S, NEW q \in Seq(Seq(S)) PROVE FlattenSeq(q) \in Seq(S)
  <1>1. PICK J \in [0..Len(q) -> Seq(S)] : J[Len(q)] = FlattenSeq(q)
    BY FlattenJoins
  <1>2. Len(q) \in 0..Len(q)
    OBVIOUS
  <1>. QED BY <1>1, <1>2

(***************************************************************************)
(* What the operators on texts return: texts.  The provers do not know of  *)
(* a string that it is in STRING, so the one the code puts in is named.    *)
(***************************************************************************)
Cell == STRING \cup {"newline"}

\* A part of a text is one.
LEMMA PartTyped ==
  ASSUME NEW S, NEW text \in Seq(S), NEW a \in Nat \ {0}, NEW b \in Int, b <= Len(text)
  PROVE  SubSeq(text, a, b) \in Seq(S)
  <1>1. CASE a <= b
    BY <1>1
  <1>2. CASE ~(a <= b)
    BY <1>2
  <1>. QED BY <1>1, <1>2

\* A Python slice of a text is one, wherever it is cut.
LEMMA SliceTyped ==
  ASSUME NEW S, NEW text \in Seq(S), NEW a \in Nat, NEW b \in Int
  PROVE  Slice(text, a, b) \in Seq(S)
  <1>. DEFINE last == IF b < Len(text) THEN b ELSE Len(text)
  <1>1. last \in Int /\ last <= Len(text) /\ a + 1 \in Nat \ {0}
    OBVIOUS
  <1>2. Slice(text, a, b) = SubSeq(text, a + 1, last)
    BY DEF Slice
  <1>. HIDE DEF last
  <1>. QED BY <1>1, <1>2, PartTyped

\* What somebody sends is one.
LEMMA SeqOfCells == ASSUME NEW text \in Seq(STRING) PROVE text \in Seq(Cell)
  <1>1. \A i \in 1..Len(text) : text[i] \in Cell
    BY DEF Cell
  <1>. QED BY <1>1

\* A text without its blanks at both ends is one.
LEMMA StripTyped ==
  ASSUME NEW text \in Seq(Cell)
  PROVE  Strip(text) \in Seq(Cell)
  <1>. DEFINE kept == {i \in DOMAIN text : text[i] # "blank"}
  <1>1. CASE kept = {}
    BY <1>1 DEF Strip
  <1>2. CASE kept # {}
    <2>1. Len(text) \in Nat /\ kept \in SUBSET (1..Len(text))
      OBVIOUS
    <2>2. Strip(text) = SubSeq(text, Min(kept), Max(kept))
      BY <1>2 DEF Strip
    <2>. HIDE DEF kept
    <2>3. Min(kept) \in 1..Len(text) /\ Max(kept) \in 1..Len(text)
      BY <1>2, <2>1, LeastAndGreatest
    <2>. QED BY <2>1, <2>2, <2>3, PartTyped
  <1>. QED BY <1>1, <1>2

\* A normalised text is one.
LEMMA NormalizedTyped ==
  ASSUME NEW text \in Seq(Cell)
  PROVE  Normalized(text) \in Seq(Cell)
  <1>. DEFINE folded == [i \in DOMAIN text |-> IF text[i] \in DOMAIN Fold THEN Fold[text[i]] ELSE text[i]]
  <1>1. folded \in Seq(Cell)
    <2>1. \A i \in 1..Len(text) : (IF text[i] \in DOMAIN Fold THEN Fold[text[i]] ELSE text[i]) \in Cell
      BY TextAssumption DEF TextAssumption, Cell
    <2>. QED BY <2>1
  <1>2. Normalized(text) = Strip(folded)
    BY DEF Normalized
  <1>. HIDE DEF folded
  <1>. QED BY <1>1, <1>2, StripTyped

\* One element is a sequence.
LEMMA OneTyped == ASSUME NEW S, NEW x \in S PROVE <<x>> \in Seq(S)
  OBVIOUS

\* Segments begin at places of the text.
LEMMA HeadsTyped ==
  ASSUME NEW text \in Seq(Cell)
  PROVE  Heads(text) \in Seq(0..Len(text))
  <1>. DEFINE n == Len(text)
              part(i) == IF i = 1 \/ text[i - 1] \in InlineTag THEN <<i - 1>> ELSE <<>>
              parts == [i \in 1..n + 1 |-> part(i)]
  <1>1. ASSUME NEW i \in 1..n + 1 PROVE part(i) \in Seq(0..n)
    <2>1. i - 1 \in 0..n
      OBVIOUS
    <2>. HIDE DEF n
    <2>2. <<i - 1>> \in Seq(0..n)
      BY <2>1, OneTyped
    <2>3. <<>> \in Seq(0..n)
      OBVIOUS
    <2>. QED BY <2>2, <2>3
  <1>2. parts \in Seq(Seq(0..n))
    <2>. HIDE DEF part
    <2>. QED BY <1>1
  <1>3. Heads(text) = FlattenSeq(parts)
    BY DEF Heads
  <1>. HIDE DEF parts
  <1>. QED BY <1>2, <1>3, FlattenTyped

\* A text is cut into segments of text, each with a tag.
SegmentRec == [text : Seq(Cell), tag : Cell]

\* A text of cells of a set is cut into texts of them.
LEMMA SegmentsTyped ==
  ASSUME NEW C \in SUBSET Cell, NEW text \in Seq(C), NEW declared \in Cell
  PROVE  Segments(text, declared) \in Seq([text : Seq(C), tag : Cell])
  <1>0. text \in Seq(Cell)
    <2>1. \A S, T : T \subseteq S => Seq(T) \subseteq Seq(S)
      OBVIOUS
    <2>. QED BY <2>1
  <1>. DEFINE heads == Heads(text)
              n == Len(heads)
              tail(k) == IF k = n THEN Len(text) ELSE heads[k + 1] - 1
              segment(k) == [text |-> SubSeq(text, heads[k] + 1, tail(k)),
                             tag  |-> IF heads[k] = 0 THEN declared ELSE text[heads[k]]]
              part(k) == IF Blank(segment(k).text) THEN <<>> ELSE <<segment(k)>>
              parts == [k \in 1..n |-> part(k)]
              Rec == [text : Seq(C), tag : Cell]
  <1>1. n \in Nat /\ \A k \in 1..n : heads[k] \in 0..Len(text)
    BY <1>0, HeadsTyped
  <1>2. Segments(text, declared) = FlattenSeq(parts)
    BY DEF Segments
  <1>. HIDE DEF heads
  <1>3. ASSUME NEW k \in 1..n PROVE segment(k) \in Rec
    <2>1. tail(k) \in Int /\ tail(k) <= Len(text)
      <3>1. CASE k = n
        BY <3>1
      <3>2. CASE k # n
        <4>1. k + 1 \in 1..n
          BY <1>1, <3>2
        <4>2. heads[k + 1] \in 0..Len(text)
          BY <1>1, <4>1
        <4>. QED BY <3>2, <4>2
      <3>. QED BY <3>1, <3>2
    <2>2. heads[k] + 1 \in Nat \ {0} /\ heads[k] \in 0..Len(text)
      BY <1>1
    <2>3. (IF heads[k] = 0 THEN declared ELSE text[heads[k]]) \in Cell
      <3>1. CASE heads[k] = 0
        BY <3>1
      <3>2. CASE heads[k] # 0
        <4>1. heads[k] \in 1..Len(text)
          BY <2>2, <3>2
        <4>2. text[heads[k]] \in Cell
          BY <1>0, <4>1
        <4>. QED BY <3>2, <4>2
      <3>. QED BY <3>1, <3>2
    <2>. HIDE DEF tail
    <2>4. SubSeq(text, heads[k] + 1, tail(k)) \in Seq(C)
      BY <2>1, <2>2, PartTyped
    <2>. QED BY <2>3, <2>4
  <1>. HIDE DEF segment, n, Rec
  <1>4. parts \in Seq(Seq(Rec))
    BY <1>1, <1>3
  <1>. HIDE DEF parts
  <1>5. FlattenSeq(parts) \in Seq(Rec)
    BY <1>4, FlattenTyped
  <1>. QED BY <1>2, <1>5 DEF Rec

\* _replace puts the text together span by span: what stands before a span, its
\* placeholder, and at the end the rest.
UpToSpan(text, sel, k) == Append(Slice(text, Cursor(sel, k), sel[k].start), Placeholder(sel[k]))

\* That is how it is put together, of texts.
LEMMA ReplacedJoins ==
  ASSUME NEW text \in Seq(Cell), NEW sel \in Seq(Span),
         \A k \in DOMAIN sel : 0 <= sel[k].start /\ sel[k].start < sel[k].end
  PROVE  /\ \A k \in 1..Len(sel) + 1 : Cursor(sel, k) \in Nat
         /\ \A k \in 1..Len(sel) : UpToSpan(text, sel, k) \in Seq(Cell)
         /\ Slice(text, Cursor(sel, Len(sel) + 1), Len(text)) \in Seq(Cell)
         /\ \E K \in [0..Len(sel) -> Seq(Cell)] :
              /\ K[0] = <<>>
              /\ \A k \in 1..Len(sel) : K[k] = K[k - 1] \o UpToSpan(text, sel, k)
              /\ Replaced(text, sel) = K[Len(sel)] \o Slice(text, Cursor(sel, Len(sel) + 1), Len(text))
  <1>. DEFINE n == Len(sel)
              part(k) == UpToSpan(text, sel, k)
              parts == [k \in 1..n |-> part(k)]
              rest == Slice(text, Cursor(sel, n + 1), Len(text))
  <1>1. n \in Nat /\ \A k \in 1..n : sel[k] \in Span /\ 0 <= sel[k].start /\ sel[k].start < sel[k].end
    OBVIOUS
  <1>2. ASSUME NEW k \in 1..n + 1 PROVE Cursor(sel, k) \in Nat
    <2>1. CASE k = 1
      BY <2>1 DEF Cursor
    <2>2. CASE k # 1
      <3>1. k - 1 \in 1..n
        BY <1>1, <2>2
      <3>2. /\ sel[k - 1].start \in Int /\ sel[k - 1].end \in Int
            /\ 0 <= sel[k - 1].start /\ sel[k - 1].start < sel[k - 1].end
        BY <1>1, <3>1 DEF Span
      <3>3. sel[k - 1].end \in Nat
        BY <3>2
      <3>. QED BY <2>2, <3>3 DEF Cursor
    <2>. QED BY <2>1, <2>2
  <1>3. ASSUME NEW k \in 1..n PROVE part(k) \in Seq(Cell)
    <2>1. Cursor(sel, k) \in Nat
      BY <1>1, <1>2
    <2>2. sel[k].start \in Int
      BY <1>1 DEF Span
    <2>3. Placeholder(sel[k]) \in Cell
      BY <1>1, SpanAssumption DEF SpanAssumption, Placeholder, Span, Cell
    <2>4. Slice(text, Cursor(sel, k), sel[k].start) \in Seq(Cell)
      BY <2>1, <2>2, SliceTyped
    <2>. QED BY <2>3, <2>4 DEF UpToSpan
  <1>4. parts \in Seq(Seq(Cell))
    <2>. HIDE DEF part
    <2>. QED BY <1>1, <1>3
  <1>5. rest \in Seq(Cell)
    <2>1. Cursor(sel, n + 1) \in Nat /\ Len(text) \in Int
      BY <1>1, <1>2
    <2>. QED BY <2>1, SliceTyped
  <1>6. Replaced(text, sel) = FlattenSeq(parts) \o rest
    BY DEF Replaced, UpToSpan
  <1>7. Len(parts) = n /\ \A k \in 1..n : parts[k] = UpToSpan(text, sel, k)
    BY <1>1
  <1>. HIDE DEF parts
  <1>8. PICK K \in [0..Len(parts) -> Seq(Cell)] :
          /\ K[0] = <<>> /\ K[Len(parts)] = FlattenSeq(parts)
          /\ \A k \in 1..Len(parts) : K[k] = K[k - 1] \o parts[k]
    BY <1>4, FlattenJoins
  <1>9. /\ K \in [0..n -> Seq(Cell)] /\ K[0] = <<>>
        /\ \A k \in 1..n : K[k] = K[k - 1] \o UpToSpan(text, sel, k)
        /\ Replaced(text, sel) = K[n] \o rest
    BY <1>6, <1>7, <1>8
  <1>. QED BY <1>2, <1>3, <1>5, <1>9

\* So it is a text.
LEMMA ReplacedTyped ==
  ASSUME NEW text \in Seq(Cell), NEW sel \in Seq(Span),
         \A k \in DOMAIN sel : 0 <= sel[k].start /\ sel[k].start < sel[k].end
  PROVE  Replaced(text, sel) \in Seq(Cell)
  <1>. DEFINE rest == Slice(text, Cursor(sel, Len(sel) + 1), Len(text))
  <1>1. PICK K \in [0..Len(sel) -> Seq(Cell)] : Replaced(text, sel) = K[Len(sel)] \o rest
    BY ReplacedJoins
  <1>2. rest \in Seq(Cell)
    BY ReplacedJoins
  <1>. HIDE DEF rest
  <1>3. K[Len(sel)] \in Seq(Cell)
    OBVIOUS
  <1>. QED BY <1>1, <1>2, <1>3, ConcatProperties


(***************************************************************************)
(* Sums.  SumFunctionOnSet adds the values of a function up by a recursion *)
(* over the subsets of a finite set.                                       *)
(***************************************************************************)
One(s) == CHOOSE x \in s : TRUE
Adds(g, w, S) == g = [s \in SUBSET S |-> IF s = {} THEN 0 ELSE w[One(s)] + g[s \ {One(s)}]]

\* A quantity that is 0 for no element and grows by w[x] with every x is the
\* sum: it satisfies the recursion, and of what satisfies it there is no
\* smallest set on which it is something else.
LEMMA SumIs ==
  ASSUME NEW w, NEW S, IsFiniteSet(S), NEW N, N[{}] = 0,
         \A s \in SUBSET S : \A x \in s : N[s] = w[x] + N[s \ {x}]
  PROVE  SumFunctionOnSet(w, S) = N[S]
  <1>. DEFINE g == [s \in SUBSET S |-> N[s]]
              h == CHOOSE f : Adds(f, w, S)
              n == Cardinality(S)
              H == {k \in Nat : \A s \in SUBSET S : Cardinality(s) = k => h[s] = N[s]}
  <1>1. n \in Nat /\ \A s \in SUBSET S : IsFiniteSet(s) /\ Cardinality(s) \in Nat
    BY FS_CardinalityType, FS_Subset
  <1>2. SumFunctionOnSet(w, S) = h[S]
    BY DEF SumFunctionOnSet, FoldFunctionOnSet, MapThenFoldSet, Adds, One
  <1>3. Adds(g, w, S)
    <2>1. ASSUME NEW s \in SUBSET S PROVE N[s] = IF s = {} THEN 0 ELSE w[One(s)] + g[s \ {One(s)}]
      <3>1. CASE s = {}
        BY <3>1
      <3>2. CASE s # {}
        <4>1. One(s) \in s /\ s \ {One(s)} \in SUBSET S
          BY <3>2 DEF One
        <4>2. g[s \ {One(s)}] = N[s \ {One(s)}]
          BY <4>1
        <4>. QED BY <3>2, <4>1, <4>2
      <3>. QED BY <3>1, <3>2
    <2>. QED BY <2>1 DEF Adds
  <1>4. Adds(h, w, S)
    <2>. HIDE DEF g
    <2>. QED BY <1>3
  <1>. HIDE DEF g, h
  <1>5. ASSUME NEW s \in SUBSET S PROVE h[s] = IF s = {} THEN 0 ELSE w[One(s)] + h[s \ {One(s)}]
    BY <1>4 DEF Adds
  <1>6. 0 \in H
    <2>1. ASSUME NEW s \in SUBSET S, Cardinality(s) = 0 PROVE h[s] = N[s]
      <3>1. s = {}
        BY <1>1, <2>1, FS_EmptySet
      <3>. QED BY <1>5, <3>1
    <2>. QED BY <2>1
  <1>7. ASSUME NEW k \in 0..n - 1, k \in H PROVE k + 1 \in H
    <2>1. ASSUME NEW s \in SUBSET S, Cardinality(s) = k + 1 PROVE h[s] = N[s]
      <3>1. IsFiniteSet(s) /\ s # {}
        BY <1>1, <2>1, FS_EmptySet
      <3>2. One(s) \in s /\ s \ {One(s)} \in SUBSET S
        BY <3>1 DEF One
      <3>3. Cardinality(s \ {One(s)}) = k
        <4>1. Cardinality(s \ {One(s)}) = Cardinality(s) - 1
          BY <3>1, <3>2, FS_RemoveElement
        <4>. QED BY <1>1, <2>1, <4>1
      <3>4. h[s \ {One(s)}] = N[s \ {One(s)}]
        BY <1>7, <3>2, <3>3
      <3>5. h[s] = w[One(s)] + h[s \ {One(s)}]
        BY <1>5, <3>1
      <3>6. N[s] = w[One(s)] + N[s \ {One(s)}]
        BY <3>2
      <3>. QED BY <3>4, <3>5, <3>6
    <2>. QED BY <1>1, <2>1
  <1>8. n \in H
    <2>. HIDE DEF H
    <2>1. H \in SUBSET Nat
      BY DEF H
    <2>2. \A k \in 0..n : k \in H
      BY <1>1, <1>6, <1>7, <2>1, UpTo
    <2>. QED BY <1>1, <2>2
  <1>. QED BY <1>2, <1>8

(***************************************************************************)
(* Offsets.  The characters of the first cells are counted one by one: a   *)
(* character is a cell's place and its number within the cell.             *)
(***************************************************************************)
Characters(out, S) == {c \in S \X (1..Bound.label) : c[2] <= Width(out[c[1]])}

\* A cell is one character wide at least, and no wider than a placeholder.
LEMMA WidthTyped == ASSUME NEW cell PROVE Width(cell) \in 1..Bound.label
  BY CueAssumption DEF CueAssumption, Width

\* The characters of finitely many cells are finitely many.
LEMMA CharactersFinite ==
  ASSUME NEW out, NEW S, IsFiniteSet(S)
  PROVE  IsFiniteSet(Characters(out, S)) /\ Cardinality(Characters(out, S)) \in Nat
  <1>1. IsFiniteSet(1..Bound.label)
    <2>1. 1 \in Int /\ Bound.label \in Int
      BY CueAssumption DEF CueAssumption
    <2>. QED BY <2>1, FS_Interval
  <1>2. IsFiniteSet(S \X (1..Bound.label))
    BY <1>1, FS_Product
  <1>3. Characters(out, S) \in SUBSET (S \X (1..Bound.label))
    BY DEF Characters
  <1>4. IsFiniteSet(Characters(out, S))
    BY <1>2, <1>3, FS_Subset
  <1>. QED BY <1>4, FS_CardinalityType

\* A cell has as many characters as it is wide.
LEMMA CharactersOfOne ==
  ASSUME NEW out, NEW x
  PROVE  /\ IsFiniteSet(Characters(out, {x}))
         /\ Cardinality(Characters(out, {x})) = Width(out[x])
  <1>. DEFINE w == Width(out[x])
              f == [k \in 1..w |-> <<x, k>>]
              T == Characters(out, {x})
  <1>1. w \in 1..Bound.label /\ Bound.label \in Nat
    BY WidthTyped, CueAssumption DEF CueAssumption
  <1>2. \A k \in 1..w : <<x, k>> \in T
    BY <1>1 DEF Characters
  <1>3. \A t \in T : \E k \in 1..w : t = <<x, k>>
    BY <1>1 DEF Characters
  <1>4. f \in Bijection(1..w, T)
    <2>. HIDE DEF T, w
    <2>1. f \in [1..w -> T]
      BY <1>2
    <2>2. \A j, k \in 1..w : f[j] = f[k] => j = k
      OBVIOUS
    <2>3. \A t \in T : \E k \in 1..w : f[k] = t
      BY <1>3
    <2>. QED BY <2>1, <2>2, <2>3 DEF Bijection, Injection, Surjection, IsInjective
  <1>5. ExistsBijection(1..w, T)
    <2>. HIDE DEF f, T, w
    <2>. QED BY <1>4 DEF ExistsBijection
  <1>6. IsFiniteSet(1..w) /\ Cardinality(1..w) = w
    BY <1>1, FS_Interval
  <1>. HIDE DEF T, w
  <1>7. IsFiniteSet(T) /\ Cardinality(T) = w
    BY <1>5, <1>6, FS_Bijection
  <1>. QED BY <1>7 DEF T, w

\* Without one cell there are so many characters less.
LEMMA CharactersWithout ==
  ASSUME NEW out, NEW S, IsFiniteSet(S), NEW x \in S
  PROVE  Cardinality(Characters(out, S)) = Width(out[x]) + Cardinality(Characters(out, S \ {x}))
  <1>. DEFINE A == Characters(out, {x})
              B == Characters(out, S \ {x})
  <1>1. Characters(out, S) = A \cup B /\ A \cap B = {}
    BY DEF Characters
  <1>2. IsFiniteSet(S \ {x})
    BY FS_RemoveElement
  <1>3. IsFiniteSet(A) /\ Cardinality(A) = Width(out[x])
    BY CharactersOfOne
  <1>4. IsFiniteSet(B) /\ Cardinality(B) \in Nat
    BY <1>2, CharactersFinite
  <1>. HIDE DEF A, B
  <1>5. Cardinality(A \cup B) = Cardinality(A) + Cardinality(B) - Cardinality(A \cap B)
    BY <1>3, <1>4, FS_Union
  <1>6. Cardinality(A \cap B) = 0
    BY <1>1, FS_EmptySet
  <1>7. Width(out[x]) \in Nat
    BY WidthTyped, CueAssumption DEF CueAssumption
  <1>8. Cardinality(A \cup B) = Width(out[x]) + Cardinality(B)
    BY <1>3, <1>4, <1>5, <1>6, <1>7
  <1>. QED BY <1>1, <1>8 DEF B

\* An offset is the number of characters before it.
LEMMA OffsetCounts ==
  ASSUME NEW out, NEW i \in Nat
  PROVE  Offset(out, i) = Cardinality(Characters(out, 1..i))
  <1>. DEFINE S == 1..i
              w == [j \in S |-> Width(out[j])]
              N == [s \in SUBSET S |-> Cardinality(Characters(out, s))]
  <1>1. IsFiniteSet(S) /\ Offset(out, i) = SumFunctionOnSet(w, S)
    BY FS_Interval DEF Offset, SumFunction
  <1>2. N[{}] = 0
    <2>1. Characters(out, {}) = {}
      BY DEF Characters
    <2>2. N[{}] = Cardinality(Characters(out, {}))
      OBVIOUS
    <2>. QED BY <2>1, <2>2, FS_EmptySet
  <1>3. ASSUME NEW s \in SUBSET S, NEW x \in s PROVE N[s] = w[x] + N[s \ {x}]
    <2>1. IsFiniteSet(s)
      BY <1>1, FS_Subset
    <2>2. Cardinality(Characters(out, s)) = Width(out[x]) + Cardinality(Characters(out, s \ {x}))
      BY <2>1, CharactersWithout
    <2>3. N[s] = Cardinality(Characters(out, s)) /\ w[x] = Width(out[x])
      OBVIOUS
    <2>4. N[s \ {x}] = Cardinality(Characters(out, s \ {x}))
      OBVIOUS
    <2>. QED BY <2>2, <2>3, <2>4
  <1>4. N[S] = Cardinality(Characters(out, S))
    OBVIOUS
  <1>. HIDE DEF S, w, N
  <1>5. SumFunctionOnSet(w, S) = N[S]
    BY <1>1, <1>2, <1>3, SumIs
  <1>. QED BY <1>1, <1>4, <1>5 DEF S

\* Later offsets are larger.
LEMMA OffsetGrows ==
  ASSUME NEW out, NEW i \in Nat, NEW j \in Nat, i <= j
  PROVE  /\ Offset(out, i) \in Nat /\ Offset(out, j) \in Nat
         /\ Offset(out, i) <= Offset(out, j)
         /\ i < j => Offset(out, i) < Offset(out, j)
  <1>. DEFINE A == Characters(out, 1..i)
              B == Characters(out, 1..j)
  <1>1. Offset(out, i) = Cardinality(A) /\ Offset(out, j) = Cardinality(B)
    BY OffsetCounts
  <1>2. IsFiniteSet(1..i) /\ IsFiniteSet(1..j)
    BY FS_Interval
  <1>3. IsFiniteSet(A) /\ IsFiniteSet(B) /\ Cardinality(A) \in Nat /\ Cardinality(B) \in Nat
    BY <1>2, CharactersFinite
  <1>4. A \in SUBSET B
    BY DEF Characters
  <1>5. i < j => A # B
    <2>1. SUFFICES ASSUME i < j PROVE <<j, 1>> \in B /\ <<j, 1>> \notin A
      OBVIOUS
    <2>2. Width(out[j]) \in 1..Bound.label /\ Bound.label \in Nat
      BY WidthTyped, CueAssumption DEF CueAssumption
    <2>. QED BY <2>1, <2>2 DEF Characters
  <1>. HIDE DEF A, B
  <1>6. Cardinality(A) <= Cardinality(B) /\ (i < j => Cardinality(A) # Cardinality(B))
    BY <1>3, <1>4, <1>5, FS_Subset
  <1>. QED BY <1>1, <1>3, <1>6


(***************************************************************************)
(* Places.  The sort key orders the cues strictly and totally, so every    *)
(* place from 1 to their number is held by exactly one of them.            *)
(***************************************************************************)
Stronger(found, d) == {e \in found : Outranks(e, d)}
Place(found, d) == Cardinality(Stronger(found, d)) + 1

\* The fields the order reads.
LEMMA CueFields ==
  ASSUME NEW d \in Cues
  PROVE  d.priority \in Int /\ d.rank \in Int /\ d.id # "none"
  BY CueAssumption DEF CueAssumption

\* One of two cues outranks the other, and the order is transitive.
LEMMA OutranksOrders ==
  /\ \A d \in Cues : ~Outranks(d, d)
  /\ \A d, e \in Cues : d # e => Outranks(d, e) \/ Outranks(e, d)
  /\ \A d, e, f \in Cues : Outranks(d, e) /\ Outranks(e, f) => Outranks(d, f)
  <1>1. \A d \in Cues : d.priority \in Int /\ d.rank \in Int
    BY CueFields
  <1>2. \A d, e \in Cues : d.rank = e.rank => d = e
    BY CueAssumption DEF CueAssumption
  <1>3. \A d \in Cues : ~Outranks(d, d)
    BY <1>1 DEF Outranks
  <1>4. ASSUME NEW d \in Cues, NEW e \in Cues, d # e PROVE Outranks(d, e) \/ Outranks(e, d)
    <2>1. d.rank # e.rank
      BY <1>2, <1>4
    <2>2. d.priority \in Int /\ d.rank \in Int /\ e.priority \in Int /\ e.rank \in Int
      BY <1>1
    <2>. QED BY <2>1, <2>2 DEF Outranks
  <1>5. ASSUME NEW d \in Cues, NEW e \in Cues, NEW f \in Cues, Outranks(d, e), Outranks(e, f)
        PROVE  Outranks(d, f)
    <2>1. /\ d.priority \in Int /\ d.rank \in Int /\ e.priority \in Int /\ e.rank \in Int
          /\ f.priority \in Int /\ f.rank \in Int
      BY <1>1
    <2>. QED BY <1>5, <2>1 DEF Outranks
  <1>. QED BY <1>3, <1>4, <1>5

\* A set of cues is finite, and so are those that outrank one of them.
LEMMA StrongerFinite ==
  ASSUME NEW found \in SUBSET Cues
  PROVE  /\ IsFiniteSet(found) /\ Cardinality(found) \in Nat
         /\ \A d \in found : /\ IsFiniteSet(Stronger(found, d))
                             /\ Cardinality(Stronger(found, d)) \in Nat
  <1>1. IsFiniteSet(found)
    BY CueAssumption, FS_Subset DEF CueAssumption
  <1>2. \A d \in found : Stronger(found, d) \in SUBSET found
    BY DEF Stronger
  <1>3. \A d \in found : IsFiniteSet(Stronger(found, d))
    BY <1>1, <1>2, FS_Subset
  <1>. QED BY <1>1, <1>3, FS_CardinalityType

\* A place lies between 1 and the number of cues.
LEMMA PlaceTyped ==
  ASSUME NEW found \in SUBSET Cues, NEW d \in found
  PROVE  Place(found, d) \in 1..Cardinality(found)
  <1>1. d \notin Stronger(found, d) /\ Stronger(found, d) \in SUBSET found
    BY OutranksOrders DEF Stronger
  <1>2. Stronger(found, d) # found
    BY <1>1
  <1>3. /\ IsFiniteSet(found) /\ Cardinality(found) \in Nat
        /\ Cardinality(Stronger(found, d)) \in Nat
    BY StrongerFinite
  <1>4. /\ Cardinality(Stronger(found, d)) <= Cardinality(found)
        /\ Cardinality(Stronger(found, d)) # Cardinality(found)
    BY <1>1, <1>2, <1>3, FS_Subset
  <1>. QED BY <1>3, <1>4 DEF Place

\* Whoever outranks a cue comes before it.
LEMMA PlaceFollows ==
  ASSUME NEW found \in SUBSET Cues, NEW d \in found, NEW e \in found, Outranks(d, e)
  PROVE  Place(found, d) < Place(found, e)
  <1>. DEFINE A == Stronger(found, d)
              B == Stronger(found, e)
  <1>1. A \in SUBSET B
    BY OutranksOrders DEF Stronger
  <1>2. d \in B /\ d \notin A
    BY OutranksOrders DEF Stronger
  <1>3. IsFiniteSet(B) /\ Cardinality(A) \in Nat /\ Cardinality(B) \in Nat
    BY StrongerFinite
  <1>4. Place(found, d) = Cardinality(A) + 1 /\ Place(found, e) = Cardinality(B) + 1
    BY DEF Place
  <1>. HIDE DEF A, B
  <1>5. Cardinality(A) <= Cardinality(B) /\ Cardinality(A) # Cardinality(B)
    BY <1>1, <1>2, <1>3, FS_Subset
  <1>. QED BY <1>3, <1>4, <1>5

\* Two cues never share a place.
LEMMA PlaceUnique ==
  ASSUME NEW found \in SUBSET Cues, NEW d \in found, NEW e \in found, Place(found, d) = Place(found, e)
  PROVE  d = e
  <1>1. SUFFICES ASSUME d # e PROVE FALSE
    OBVIOUS
  <1>2. Outranks(d, e) \/ Outranks(e, d)
    BY <1>1, OutranksOrders
  <1>3. Place(found, d) < Place(found, e) \/ Place(found, e) < Place(found, d)
    BY <1>2, PlaceFollows
  <1>4. Place(found, d) \in Int /\ Place(found, e) \in Int
    BY PlaceTyped
  <1>. QED BY <1>3, <1>4

\* No place is free: as many places as cues, and no two cues at the same one.
LEMMA PlaceTaken ==
  ASSUME NEW found \in SUBSET Cues, NEW k \in 1..Cardinality(found)
  PROVE  \E d \in found : Place(found, d) = k
  <1>. DEFINE n == Cardinality(found)
              f == [d \in found |-> Place(found, d)]
  <1>1. IsFiniteSet(found) /\ n \in Nat
    BY StrongerFinite
  <1>2. IsFiniteSet(1..n) /\ Cardinality(1..n) = n
    BY <1>1, FS_Interval
  <1>3. f \in [found -> 1..n]
    BY PlaceTyped
  <1>4. \A d, e \in found : f[d] = f[e] => d = e
    BY PlaceUnique
  <1>5. f \in Injection(found, 1..n)
    <2>. HIDE DEF f
    <2>. QED BY <1>3, <1>4 DEF Injection, IsInjective
  <1>6. f \in Surjection(found, 1..n)
    <2>. HIDE DEF f
    <2>. QED BY <1>2, <1>5, FS_Injection
  <1>. QED BY <1>6 DEF Surjection

\* How many cues are chosen.
Chosen(found) == Min({MAX_CUES, Cardinality(found)})

\* The smaller of two numbers.
LEMMA LesserOf ==
  ASSUME NEW a \in Nat, NEW b \in Nat
  PROVE  /\ Min({a, b}) \in {a, b}
         /\ Min({a, b}) <= a /\ Min({a, b}) <= b
  <1>1. \E x \in {a, b} : \A y \in {a, b} : x <= y
    OBVIOUS
  <1>. QED BY <1>1 DEF Min

\* The k-th chosen cue is the one at the k-th place.
LEMMA SelectedByPlace ==
  ASSUME NEW found \in SUBSET Cues
  PROVE  LET n == Chosen(found)
             sel == Selected(found)
         IN  /\ n \in Nat /\ n <= MAX_CUES /\ n <= Cardinality(found)
             /\ DOMAIN sel = 1..n /\ sel \in Seq(found) /\ Len(sel) = n
             /\ \A k \in 1..n : sel[k] \in found /\ Place(found, sel[k]) = k
  <1>. DEFINE n == Chosen(found)
              pick(k) == CHOOSE d \in found : Place(found, d) = k
  <1>1. MAX_CUES \in Nat /\ Cardinality(found) \in Nat
    BY CueAssumption, StrongerFinite DEF CueAssumption
  <1>2. n \in Nat /\ n <= MAX_CUES /\ n <= Cardinality(found)
    BY <1>1, LesserOf DEF Chosen
  <1>3. Selected(found) = [k \in 1..n |-> pick(k)]
    BY DEF Selected, Place, Stronger, Chosen
  <1>. HIDE DEF n
  <1>4. ASSUME NEW k \in 1..n PROVE pick(k) \in found /\ Place(found, pick(k)) = k
    <2>1. k \in 1..Cardinality(found)
      BY <1>1, <1>2
    <2>2. \E d \in found : Place(found, d) = k
      BY <2>1, PlaceTaken
    <2>. QED BY <2>2
  <1>. HIDE DEF pick
  <1>5. DOMAIN Selected(found) = 1..n /\ \A k \in 1..n : Selected(found)[k] = pick(k)
    BY <1>3
  <1>6. Selected(found) \in Seq(found) /\ Len(Selected(found)) = n
    BY <1>2, <1>3, <1>4
  <1>. QED BY <1>2, <1>4, <1>5, <1>6 DEF n


\* The chosen cues: as many as are listed, none weaker than one left out, in
\* the order of the list.
LEMMA ChosenAreStrongest ==
  ASSUME NEW found \in SUBSET Cues
  PROVE  LET n == Chosen(found)
             sel == Selected(found)
             shown == {d \in found : \E k \in 1..n : sel[k].id = d.id}
         IN  /\ Cardinality(shown) = n
             /\ \A d \in shown, e \in found \ shown : d.priority >= e.priority
             /\ \A d, e \in shown, j, k \in 1..n :
                   sel[j].id = d.id /\ sel[k].id = e.id /\ j < k => d.priority >= e.priority
             /\ \A j, k \in 1..n : sel[j].id = sel[k].id => j = k
  <1>. DEFINE n == Chosen(found)
              sel == Selected(found)
              shown == {d \in found : \E k \in 1..n : sel[k].id = d.id}
  <1>1. /\ n \in Nat /\ n <= Cardinality(found) /\ DOMAIN sel = 1..n
        /\ \A k \in 1..n : sel[k] \in found /\ Place(found, sel[k]) = k
    BY SelectedByPlace
  <1>2. \A d, e \in Cues : d.id = e.id => d = e
    BY CueAssumption DEF CueAssumption
  <1>. HIDE DEF n, sel
  <1>3. \A d \in found, k \in 1..n : sel[k].id = d.id => sel[k] = d
    BY <1>1, <1>2
  <1>4. \A d \in shown : Place(found, d) \in 1..n
    BY <1>1, <1>3
  <1>5. ASSUME NEW d \in found, Place(found, d) \in 1..n PROVE d \in shown
    <2>1. PICK k \in 1..n : k = Place(found, d)
      BY <1>5
    <2>2. sel[k] = d
      BY <1>1, <2>1, PlaceUnique
    <2>. QED BY <2>1, <2>2
  <1>6. ASSUME NEW d \in found, NEW e \in found, Place(found, d) < Place(found, e)
        PROVE  d.priority >= e.priority
    <2>1. d \in Cues /\ e \in Cues
      OBVIOUS
    <2>2. d # e
      BY <1>6, PlaceTyped
    <2>3. ~Outranks(e, d)
      <3>1. SUFFICES ASSUME Outranks(e, d) PROVE FALSE
        OBVIOUS
      <3>2. Place(found, e) < Place(found, d)
        BY <3>1, PlaceFollows
      <3>3. Place(found, e) \in Int /\ Place(found, d) \in Int
        BY PlaceTyped
      <3>. QED BY <1>6, <3>2, <3>3
    <2>4. Outranks(d, e)
      BY <2>1, <2>2, <2>3, OutranksOrders
    <2>5. d.priority \in Int /\ e.priority \in Int
      BY <2>1, CueFields
    <2>. QED BY <2>4, <2>5 DEF Outranks
  <1>7. ASSUME NEW d \in shown, NEW e \in found \ shown PROVE d.priority >= e.priority
    <2>1. Place(found, d) \in 1..n /\ d \in found /\ e \in found
      BY <1>4
    <2>2. Place(found, e) \notin 1..n
      BY <1>5
    <2>3. Place(found, e) \in Nat \ {0}
      <3>1. Place(found, e) \in 1..Cardinality(found)
        BY <2>1, PlaceTyped
      <3>2. Cardinality(found) \in Nat
        BY StrongerFinite
      <3>. QED BY <3>1, <3>2
    <2>4. Place(found, d) < Place(found, e)
      BY <1>1, <2>1, <2>2, <2>3
    <2>. QED BY <1>6, <2>1, <2>4
  <1>8. ASSUME NEW d \in shown, NEW e \in shown, NEW j \in 1..n, NEW k \in 1..n,
               sel[j].id = d.id, sel[k].id = e.id, j < k
        PROVE  d.priority >= e.priority
    <2>1. sel[j] = d /\ sel[k] = e /\ d \in found /\ e \in found
      BY <1>3, <1>8
    <2>2. Place(found, d) = j /\ Place(found, e) = k
      BY <1>1, <2>1
    <2>. QED BY <1>6, <1>8, <2>1, <2>2
  <1>9. \A j, k \in 1..n : sel[j].id = sel[k].id => j = k
    <2>1. SUFFICES ASSUME NEW j \in 1..n, NEW k \in 1..n, sel[j].id = sel[k].id PROVE j = k
      OBVIOUS
    <2>2. sel[j] = sel[k]
      BY <1>1, <1>2, <2>1
    <2>. QED BY <1>1, <2>2
  <1>10. Cardinality(shown) = n
    <2>. DEFINE f == [k \in 1..n |-> sel[k]]
    <2>1. \A k \in 1..n : sel[k] \in shown
      BY <1>1
    <2>2. \A j, k \in 1..n : sel[j] = sel[k] => j = k
      BY <1>9
    <2>3. \A d \in shown : \E k \in 1..n : sel[k] = d
      BY <1>3
    <2>. HIDE DEF shown
    <2>4. f \in [1..n -> shown]
      BY <2>1
    <2>5. f \in Bijection(1..n, shown)
      BY <2>2, <2>3, <2>4 DEF Bijection, Injection, Surjection, IsInjective
    <2>6. ExistsBijection(1..n, shown)
      <3>. HIDE DEF f
      <3>. QED BY <2>5 DEF ExistsBijection
    <2>7. IsFiniteSet(1..n) /\ Cardinality(1..n) = n
      BY <1>1, FS_Interval
    <2>. QED BY <2>6, <2>7, FS_Bijection
  <1>. HIDE DEF shown
  <1>11. \A d \in shown, e \in found \ shown : d.priority >= e.priority
    BY <1>7
  <1>12. \A d, e \in shown, j, k \in 1..n :
            sel[j].id = d.id /\ sel[k].id = e.id /\ j < k => d.priority >= e.priority
    BY <1>8
  <1>. QED BY <1>9, <1>10, <1>11, <1>12 DEF n, sel, shown

(***************************************************************************)
(* What a rule's match rests on.                                           *)
(***************************************************************************)

\* Places of the text, whichever rule.
LEMMA EvaluatePlaces ==
  ASSUME NEW out \in Seq(Cell), NEW rule
  PROVE  Evaluate(rule, out) \in SUBSET (1..Len(out))
  <1>1. DOMAIN out = 1..Len(out) /\ Len(out) \in Nat
    OBVIOUS
  <1>2. \A marker, reported, rejected : Found(out, marker, reported, rejected) \in SUBSET (1..Len(out))
    BY <1>1 DEF Found
  <1>3. \A marker : Plain(out, marker) \in SUBSET (1..Len(out))
    BY <1>2 DEF Plain
  <1>4. Questions(out) \in SUBSET (1..Len(out))
    BY <1>1 DEF Questions
  <1>5. {i \in DOMAIN out : WordsIn(out[i]) > 0} \in SUBSET (1..Len(out))
    BY <1>1
  <1>6. ASSUME NEW places \in SUBSET (1..Len(out)) PROVE FirstOf(places) \in SUBSET (1..Len(out))
    <2>1. CASE places = {}
      BY <2>1 DEF FirstOf
    <2>2. CASE places # {}
      <3>1. Min(places) \in places
        BY <1>1, <2>2, LeastAndGreatest
      <3>. QED BY <2>2, <3>1 DEF FirstOf
    <2>. QED BY <2>1, <2>2
  <1>7. FirstOf(Plain(out, "window")) \in SUBSET (1..Len(out)) /\ FirstOf(Plain(out, "process")) \in SUBSET (1..Len(out))
    BY <1>3, <1>6
  <1>. QED BY <1>2, <1>3, <1>4, <1>5, <1>7 DEF Evaluate

\* The two answers to "is there a time window" exclude each other.
LEMMA WindowRulesExclude ==
  ASSUME NEW out
  PROVE  \/ Evaluate("processing_request_with_time_window", out) = {}
         \/ Evaluate("processing_request_without_time_window", out) = {}
  <1>1. CASE Plain(out, "window") = {}
    <2>1. FirstOf(Plain(out, "window")) = {}
      BY <1>1 DEF FirstOf
    <2>2. Evaluate("processing_request_with_time_window", out) = {}
      BY <2>1 DEF Evaluate
    <2>. QED BY <2>2
  <1>2. CASE Plain(out, "window") # {}
    <2>1. Evaluate("processing_request_without_time_window", out) = {}
      BY <1>2 DEF Evaluate
    <2>. QED BY <2>1
  <1>. QED BY <1>1, <1>2

\* So at most one of the candidates gives one of them.
LEMMA OneWindowAnswer ==
  ASSUME NEW out, NEW profile, NEW languages, NEW shown \in SUBSET Candidates(out, profile, languages)
  PROVE  Cardinality({d \in shown : d.rule \in WindowRule}) <= 1
  <1>. DEFINE W == {d \in shown : d.rule \in WindowRule}
  <1>1. \A d \in W : d \in Cues /\ d.rule \in WindowRule /\ Evaluate(d.rule, out) # {}
    BY DEF Candidates
  <1>2. \A d, e \in W : d = e
    <2>1. SUFFICES ASSUME NEW d \in W, NEW e \in W PROVE d = e
      OBVIOUS
    <2>2. d.rule = e.rule
      BY <1>1, WindowRulesExclude DEF WindowRule
    <2>. HIDE DEF W
    <2>. QED BY <1>1, <2>2, CueAssumption DEF CueAssumption
  <1>. HIDE DEF W
  <1>3. CASE W = {}
    <2>1. Cardinality(W) = 0
      BY <1>3, FS_EmptySet
    <2>. QED BY <2>1 DEF W
  <1>4. CASE W # {}
    <2>1. PICK d \in W : W = {d}
      BY <1>2, <1>4
    <2>2. Cardinality(W) = 1
      BY <2>1, FS_Singleton
    <2>. QED BY <2>2 DEF W
  <1>. QED BY <1>3, <1>4

\* The range of a cue holds a character at least, and ends within the text.
LEMMA ObservationRange ==
  ASSUME NEW out \in Seq(Cell), NEW d, Evaluate(d.rule, out) # {}
  PROVE  /\ Observation(d, out).start < Observation(d, out).end
         /\ Observation(d, out).end <= Offset(out, Len(out))
         /\ Observation(d, out).end \in Nat /\ Offset(out, Len(out)) \in Nat
  <1>. DEFINE places == Evaluate(d.rule, out)
              first == Min(places)
              last == Max(places)
  <1>1. Len(out) \in Nat /\ places \in SUBSET (1..Len(out))
    BY EvaluatePlaces
  <1>2. Observation(d, out).start = Offset(out, first - 1) /\ Observation(d, out).end = Offset(out, last)
    BY DEF Observation
  <1>. HIDE DEF places
  <1>3. first \in places /\ last \in places /\ first <= last
    BY <1>1, LeastAndGreatest DEF places
  <1>. HIDE DEF first, last
  <1>4. first \in 1..Len(out) /\ last \in 1..Len(out)
    BY <1>1, <1>3
  <1>5. first - 1 \in Nat /\ last \in Nat /\ first - 1 < last /\ first - 1 <= last /\ last <= Len(out)
    BY <1>1, <1>3, <1>4
  <1>6. Offset(out, first - 1) < Offset(out, last)
    BY <1>5, OffsetGrows
  <1>7. Offset(out, last) <= Offset(out, Len(out)) /\ Offset(out, last) \in Nat /\ Offset(out, Len(out)) \in Nat
    BY <1>1, <1>5, OffsetGrows
  <1>. QED BY <1>2, <1>6, <1>7


(***************************************************************************)
(* The result of the rules.                                                *)
(***************************************************************************)
Matches(out, profile) == Candidates(out, profile, tags)

\* What the rules find are cues of the registry that match.
LEMMA FoundTyped ==
  ASSUME NEW out, NEW profile
  PROVE  /\ Matches(out, profile) \in SUBSET Cues
         /\ \A d \in Matches(out, profile) : Evaluate(d.rule, out) # {}
  BY DEF Matches, Candidates

\* A text with too few words gives no cue and no repair.
LEMMA LowOutcome ==
  ASSUME NEW out, NEW profile, Outcome(out, profile).low
  PROVE  Outcome(out, profile).cues = <<>> /\ Outcome(out, profile).repair = "none"
  <1>1. Words(out) < Bound.signal
    BY DEF Outcome
  <1>. QED BY <1>1 DEF Outcome

\* Any other gives the chosen cues, one by one, and the repair of the first.
LEMMA FullOutcome ==
  ASSUME NEW out, NEW profile, ~Outcome(out, profile).low
  PROVE  LET r == Outcome(out, profile)
             n == Chosen(Matches(out, profile))
             sel == Selected(Matches(out, profile))
         IN  /\ n \in Nat /\ DOMAIN sel = 1..n /\ \A k \in 1..n : sel[k] \in Matches(out, profile)
             /\ DOMAIN r.cues = 1..n /\ Len(r.cues) = n
             /\ \A k \in 1..n : r.cues[k] = Observation(sel[k], out)
             /\ \A k \in 1..n : r.cues[k].id = sel[k].id
             /\ n = 0 => r.cues = <<>> /\ r.repair = "none"
             /\ n # 0 => r.cues # <<>> /\ r.repair = sel[1].id
  <1>. DEFINE r == Outcome(out, profile)
              n == Chosen(Matches(out, profile))
              sel == Selected(Matches(out, profile))
  <1>1. ~(Words(out) < Bound.signal)
    BY DEF Outcome
  <1>2. /\ r.cues = [k \in DOMAIN sel |-> Observation(sel[k], out)]
        /\ r.repair = IF sel = <<>> THEN "none" ELSE sel[1].id
    BY <1>1 DEF Outcome, Matches
  <1>3. n \in Nat /\ DOMAIN sel = 1..n /\ Len(sel) = n /\ sel \in Seq(Matches(out, profile))
    BY FoundTyped, SelectedByPlace
  <1>. HIDE DEF r, sel, n
  <1>4. DOMAIN r.cues = 1..n /\ \A k \in 1..n : r.cues[k] = Observation(sel[k], out)
    BY <1>2, <1>3
  <1>5. Len(r.cues) = n
    BY <1>2, <1>3
  <1>6. \A k \in 1..n : r.cues[k].id = sel[k].id /\ sel[k] \in Matches(out, profile)
    <2>1. SUFFICES ASSUME NEW k \in 1..n PROVE r.cues[k].id = sel[k].id /\ sel[k] \in Matches(out, profile)
      OBVIOUS
    <2>2. Observation(sel[k], out).id = sel[k].id
      BY DEF Observation
    <2>3. sel[k] \in Matches(out, profile)
      BY <1>3
    <2>. QED BY <1>4, <2>2, <2>3
  <1>7. n = 0 => sel = <<>> /\ r.cues = <<>>
    BY <1>2, <1>3
  <1>8. n # 0 => sel # <<>> /\ r.cues # <<>>
    BY <1>3, <1>4
  <1>. QED BY <1>2, <1>3, <1>4, <1>5, <1>6, <1>7, <1>8 DEF r, sel, n

\* Every range of a result holds a character and ends within its text.
LEMMA OutcomeRanges ==
  ASSUME NEW out \in Seq(Cell), NEW profile, ~RangesFit(Outcome(out, profile))
  PROVE  Offset(out, Len(out)) > Bound.offset
  <1>. DEFINE r == Outcome(out, profile)
              n == Chosen(Matches(out, profile))
              sel == Selected(Matches(out, profile))
  <1>1. PICK k \in DOMAIN r.cues : ~(r.cues[k].start < r.cues[k].end /\ r.cues[k].end <= Bound.offset)
    BY DEF RangesFit
  <1>2. ~r.low
    <2>1. SUFFICES ASSUME r.low PROVE FALSE
      OBVIOUS
    <2>2. r.cues = <<>>
      BY <2>1, LowOutcome
    <2>. HIDE DEF r
    <2>. QED BY <1>1, <2>2
  <1>3. DOMAIN r.cues = 1..n /\ (\A i \in 1..n : r.cues[i] = Observation(sel[i], out) /\ sel[i] \in Matches(out, profile))
    BY <1>2, FullOutcome
  <1>4. k \in 1..n /\ r.cues[k] = Observation(sel[k], out) /\ sel[k] \in Matches(out, profile)
    BY <1>1, <1>3
  <1>5. Evaluate(sel[k].rule, out) # {}
    BY <1>4, FoundTyped
  <1>. HIDE DEF r, sel, n
  <1>6. /\ r.cues[k].start < r.cues[k].end
        /\ r.cues[k].end <= Offset(out, Len(out))
        /\ r.cues[k].end \in Nat /\ Offset(out, Len(out)) \in Nat
    BY <1>4, <1>5, ObservationRange
  <1>7. Bound.offset \in Nat
    BY CueAssumption DEF CueAssumption
  <1>. QED BY <1>1, <1>6, <1>7

\* The checks on a result never fire.
LEMMA OutcomePasses ==
  ASSUME NEW out, NEW profile, ReceiptConsistent(response)
  PROVE  OwnChecks(Outcome(out, profile))
  <1>. DEFINE r == Outcome(out, profile)
              found == Matches(out, profile)
              n == Chosen(found)
              sel == Selected(found)
  <1>. SUFFICES OwnChecks(r)
    OBVIOUS
  <1>1. ReceiptConsistent(r)
    <2>1. r.receipt = response.receipt
      BY DEF Outcome
    <2>. HIDE DEF r
    <2>. QED BY <2>1 DEF ReceiptConsistent
  <1>2. MAX_CUES \in Nat
    BY CueAssumption DEF CueAssumption
  <1>3. CASE r.low
    <2>1. r.cues = <<>> /\ r.repair = "none"
      BY <1>3, LowOutcome
    <2>. HIDE DEF r
    <2>. QED BY <1>1, <1>2, <2>1 DEF OwnChecks, ResultConsistent, OutputCanonical
  <1>4. CASE ~r.low
    <2>1. /\ n \in Nat /\ DOMAIN sel = 1..n /\ \A k \in 1..n : sel[k] \in found
          /\ DOMAIN r.cues = 1..n /\ Len(r.cues) = n
          /\ \A k \in 1..n : r.cues[k].id = sel[k].id
          /\ n = 0 => r.cues = <<>> /\ r.repair = "none"
          /\ n # 0 => r.cues # <<>> /\ r.repair = sel[1].id
      BY <1>4, FullOutcome
    <2>2. found \in SUBSET Cues
      BY FoundTyped
    <2>3. n <= MAX_CUES
      BY <2>2, SelectedByPlace
    <2>4. \A j, k \in 1..n : sel[j].id = sel[k].id => j = k
      BY <2>2, ChosenAreStrongest
    <2>. HIDE DEF r, sel, n, found
    <2>5. n # 0 => r.repair # "none" /\ r.repair = r.cues[1].id
      <3>1. SUFFICES ASSUME n # 0 PROVE r.repair # "none" /\ r.repair = r.cues[1].id
        OBVIOUS
      <3>2. 1 \in 1..n
        BY <2>1, <3>1
      <3>3. sel[1] \in Cues
        BY <2>1, <2>2, <3>2
      <3>. QED BY <2>1, <3>1, <3>2, <3>3, CueFields
    <2>6. ResultConsistent(r)
      BY <1>4, <2>1, <2>3, <2>4, <2>5 DEF ResultConsistent
    <2>7. OutputCanonical(r)
      BY <2>1, <2>5 DEF OutputCanonical
    <2>. QED BY <1>1, <2>6, <2>7 DEF OwnChecks
  <1>. QED BY <1>3, <1>4


(***************************************************************************)
(* From the request to the response.                                       *)
(***************************************************************************)

Requested == stage = "minimise" => request.text \in Seq(Cell) /\ request.declared \in Cell
Parts ==
    /\ segments \in Seq(SegmentRec) /\ output \in Seq(Cell)
    /\ stage = "merge" => segments # <<>>
Within == \A s \in spans : s.start >= 0
Answered ==
    /\ stage # "rejected"
    /\ stage \in {"sanitized", "prepared"} => response.receipt.total = SumFunction(response.receipt.counts)
    /\ stage = "released" => response = Outcome(output, request.profile)
    /\ stage = "failed" => ~RangesFit(Outcome(output, request.profile))
TextInv == MergeInv /\ Requested /\ Parts /\ Within /\ Answered

\* A merged span starts in a span, so not before the text.
LEMMA MergedWithin ==
  ASSUME MergeInv, Within
  PROVE  \A k \in DOMAIN selected : 0 <= selected[k].start /\ selected[k].start < selected[k].end
  <1>1. SUFFICES ASSUME NEW k \in DOMAIN selected
                 PROVE  0 <= selected[k].start /\ selected[k].start < selected[k].end
    OBVIOUS
  <1>2. selected[k].start \in Int /\ selected[k].end \in Int
    BY SpanFields DEF MergeInv, TextTypeOK
  <1>3. selected[k].start < selected[k].end
    BY DEF MergeInv, Merged
  <1>4. Inside(selected[k].start, selected[k])
    BY <1>2, <1>3 DEF Inside
  <1>5. PICK s \in spans \ todo : Inside(selected[k].start, s)
    BY <1>2, <1>4 DEF MergeInv, SamePlaces
  <1>6. s.start \in Int /\ s.start >= 0 /\ s.start <= selected[k].start
    BY <1>5 DEF MergeInv, TextTypeOK, Span, Within, Inside
  <1>. QED BY <1>2, <1>3, <1>6

\* A receipt's total is the sum of its coarse counts.
LEMMA ReceiptAdds == ASSUME NEW c PROVE Receipt(c).total = SumFunction(Receipt(c).counts)
  <1>. DEFINE coarse == [x \in CoarseCategory |-> SumFunctionOnSet(c, {l \in LabelSet : Coarse(l) = x})]
  <1>1. Receipt(c) = [counts |-> coarse, total |-> SumFunction(coarse)]
    BY DEF Receipt
  <1>. HIDE DEF coarse
  <1>. QED BY <1>1

\* Before a text arrives.
LEMMA InitTextInv == TextInit => TextInv
  <1>1. SUFFICES ASSUME TextInit PROVE TextInv
    OBVIOUS
  <1>2. MergeInv
    BY <1>1, InitMergeInv
  <1>3. stage = "waiting" /\ segments = <<>> /\ output = <<>> /\ spans = {}
    BY <1>1 DEF TextInit
  <1>. QED BY <1>2, <1>3 DEF TextInv, Requested, Parts, Within, Answered

\* A call that stops before it has a receipt.
LEMMA StopInv ==
  ASSUME TextInv, NEW how \in {"refused"}, Stop(how)
  PROVE  Requested' /\ Parts' /\ Within' /\ Answered'
  BY DEF Stop, TextInv, Requested, Parts, Within, Answered

\* A request.
LEMMA ReceiveInv ==
  ASSUME TextInv, stage' \in {"minimise", "refused"},
         stage' = "minimise" => request'.text \in Seq(Cell) /\ request'.declared \in Cell,
         UNCHANGED <<segments, spans, output, response>>
  PROVE  Requested' /\ Parts' /\ Within' /\ Answered'
  BY DEF TextInv, Requested, Parts, Within, Answered

\* Cutting the text.
LEMMA SegmentInv == ASSUME TextInv, Segment PROVE Requested' /\ Parts' /\ Within' /\ Answered'
  <1>. DEFINE cut == Segments(Normalized(request.text), request.declared)
  <1>1. cut \in Seq(SegmentRec)
    <2>1. request.text \in Seq(Cell) /\ request.declared \in Cell
      BY DEF TextInv, Requested, Segment
    <2>2. Normalized(request.text) \in Seq(Cell)
      BY <2>1, NormalizedTyped
    <2>. HIDE DEF cut
    <2>3. cut \in Seq([text : Seq(Cell), tag : Cell])
      BY <2>1, <2>2, SegmentsTyped DEF cut
    <2>. QED BY <2>3 DEF SegmentRec
  <1>2. /\ stage' \in {"refused", "detect"}
        /\ segments' \in {segments, cut}
        /\ UNCHANGED <<spans, output>>
    BY DEF Segment
  <1>. HIDE DEF cut
  <1>3. segments' \in Seq(SegmentRec) /\ output' \in Seq(Cell)
    BY <1>1, <1>2 DEF TextInv, Parts
  <1>. QED BY <1>2, <1>3 DEF TextInv, Requested, Parts, Within, Answered

\* Finding the spans of a segment.
LEMMA DetectTextInv == ASSUME TextInv, NEW found, Detect(found) PROVE Requested' /\ Parts' /\ Within' /\ Answered'
  <1>1. CASE request.mode = "t1" /\ Head(segments).tag \notin DetectorTag
    BY <1>1, StopInv DEF Detect
  <1>2. CASE ~(request.mode = "t1" /\ Head(segments).tag \notin DetectorTag)
    <2>1. /\ stage' = "merge" /\ segments # <<>>
          /\ spans' = Valid(PatternSpans(Head(segments).text) \cup found)
          /\ UNCHANGED <<segments, output>>
      BY <1>2 DEF Detect
    <2>2. \A s \in spans' : s.start >= 0
      BY <2>1 DEF Valid
    <2>. QED BY <2>1, <2>2 DEF TextInv, Requested, Parts, Within, Answered
  <1>. QED BY <1>1, <1>2

\* One turn of the merge.
LEMMA MergeOneTextInv == ASSUME TextInv, MergeOne PROVE Requested' /\ Parts' /\ Within' /\ Answered'
  <1>1. stage = "merge" /\ UNCHANGED <<stage, segments, spans, output>>
    BY DEF MergeOne
  <1>. QED BY <1>1 DEF TextInv, Requested, Parts, Within, Answered

\* Putting the placeholders in.
LEMMA ReplaceTextInv == ASSUME TextInv, ReplaceSegment PROVE Requested' /\ Parts' /\ Within' /\ Answered'
  <1>. DEFINE text == Head(segments).text
              before == IF output = <<>> THEN <<>> ELSE Append(output, "newline")
  <1>1. /\ stage = "merge" /\ stage' = "detect" /\ spans' = {}
        /\ segments' = Tail(segments)
        /\ output' = before \o Replaced(text, selected)
    BY DEF ReplaceSegment
  <1>2. segments \in Seq(SegmentRec) /\ segments # <<>> /\ output \in Seq(Cell)
    BY <1>1 DEF TextInv, Parts
  <1>3. Head(segments) \in SegmentRec /\ Tail(segments) \in Seq(SegmentRec)
    BY <1>2
  <1>4. text \in Seq(Cell)
    BY <1>3 DEF SegmentRec
  <1>5. before \in Seq(Cell)
    <2>1. "newline" \in Cell
      BY DEF Cell
    <2>2. Append(output, "newline") \in Seq(Cell)
      BY <1>2, <2>1
    <2>. QED BY <1>2, <2>2
  <1>. HIDE DEF text, before
  <1>6. Replaced(text, selected) \in Seq(Cell)
    BY <1>4, MergedWithin, ReplacedTyped DEF TextInv, MergeInv, TextTypeOK
  <1>7. output' \in Seq(Cell)
    BY <1>1, <1>5, <1>6
  <1>. QED BY <1>1, <1>3, <1>7 DEF Requested, Parts, Within, Answered

\* The check on the whole text, and the receipt.
LEMMA CheckInv == ASSUME TextInv, Check PROVE Requested' /\ Parts' /\ Within' /\ Answered'
  <1>1. CASE stage' = "refused"
    <2>1. Stop("refused")
      BY <1>1 DEF Check, Stop
    <2>. QED BY <2>1, StopInv
  <1>2. CASE stage' # "refused"
    <2>1. /\ stage' = "sanitized" /\ output' = Strip(output)
          /\ response' = [NoResponse EXCEPT !.receipt = Receipt(counts)]
          /\ UNCHANGED <<segments, spans>>
      BY <1>2 DEF Check, Stop
    <2>2. output' \in Seq(Cell)
      BY <2>1, StripTyped DEF TextInv, Parts
    <2>3. response'.receipt = Receipt(counts)
      BY <2>1 DEF NoResponse
    <2>4. response'.receipt.total = SumFunction(response'.receipt.counts)
      BY <2>3, ReceiptAdds
    <2>. QED BY <2>1, <2>2, <2>4 DEF TextInv, Requested, Parts, Within, Answered
  <1>. QED BY <1>1, <1>2

\* The preview.
LEMMA PrepareInv == ASSUME TextInv, Prepare PROVE Requested' /\ Parts' /\ Within' /\ Answered'
  <1>1. stage = "sanitized" /\ stage' \in {"prepared", "refused"} /\ UNCHANGED <<segments, spans, output, response>>
    BY DEF Prepare, Stop
  <1>. QED BY <1>1 DEF TextInv, Requested, Parts, Within, Answered

\* The rules and the checks on what they give.
LEMMA AnalyseInv == ASSUME TextInv, Analyse PROVE Requested' /\ Parts' /\ Within' /\ Answered'
  <1>. DEFINE r == Outcome(output, request.profile)
  <1>1. ReceiptConsistent(response)
    <2>1. response.receipt.total = SumFunction(response.receipt.counts)
      BY DEF Analyse, TextInv, Answered
    <2>. QED BY <2>1 DEF ReceiptConsistent
  <1>2. OwnChecks(r)
    BY <1>1, OutcomePasses
  <1>3. \/ Stop("refused")
        \/ ~RangesFit(r) /\ Stop("failed")
        \/ /\ stage' = "released" /\ response' = r
           /\ UNCHANGED <<request, segments, spans, output, tags>>
    BY <1>2 DEF Analyse
  <1>4. r.receipt = response.receipt
    BY DEF Outcome
  <1>5. CASE Stop("refused")
    BY <1>5, StopInv
  <1>6. CASE ~RangesFit(r) /\ Stop("failed")
    <2>1. stage' = "failed" /\ UNCHANGED <<request, segments, spans, output, tags, response>>
      BY <1>6 DEF Stop
    <2>2. Outcome(output, request.profile)' = r
      BY <2>1 DEF Outcome
    <2>3. (~RangesFit(Outcome(output, request.profile)))'
      BY <1>6, <2>2 DEF RangesFit
    <2>. QED BY <2>1, <2>3 DEF TextInv, Requested, Parts, Within, Answered
  <1>7. CASE /\ stage' = "released" /\ response' = r
             /\ UNCHANGED <<request, segments, spans, output, tags>>
    <2>1. Outcome(output, request.profile)' = r
      BY <1>4, <1>7 DEF Outcome
    <2>. QED BY <1>7, <2>1 DEF TextInv, Requested, Parts, Within, Answered
  <1>. QED BY <1>3, <1>5, <1>6, <1>7


\* A stuttering step.
LEMMA IdleInv == ASSUME TextInv, UNCHANGED textVars PROVE Requested' /\ Parts' /\ Within' /\ Answered'
  <1>1. UNCHANGED <<stage, request, segments, spans, output, tags, response>>
    BY DEF textVars
  <1>2. Outcome(output, request.profile)' = Outcome(output, request.profile)
    BY <1>1 DEF Outcome
  <1>3. RangesFit(Outcome(output, request.profile))' <=> RangesFit(Outcome(output, request.profile))
    BY <1>2 DEF RangesFit
  <1>. QED BY <1>1, <1>2, <1>3 DEF TextInv, Requested, Parts, Within, Answered

\* The end of a call.
LEMMA ReturnInv == ASSUME TextInv, Return PROVE Requested' /\ Parts' /\ Within' /\ Answered'
  <1>1. stage' = "waiting" /\ segments' = <<>> /\ output' = <<>> /\ spans' = {}
    BY DEF Return
  <1>. QED BY <1>1 DEF Requested, Parts, Within, Answered

\* Every step keeps it.
LEMMA NextTextInv == TextInv /\ [TextNext]_textVars => TextInv'
  <1>1. SUFFICES ASSUME TextInv, [TextNext]_textVars PROVE TextInv'
    OBVIOUS
  <1>. USE <1>1
  <1>. DEFINE Rest == Requested' /\ Parts' /\ Within' /\ Answered'
  <1>2. MergeInv'
    BY NextMergeInv DEF TextInv
  <1>. SUFFICES Rest
    BY <1>2 DEF TextInv
  <1>3. ASSUME NEW t \in Text, NEW l \in Declared, NEW p \in Profile, NEW d \in BOOLEAN, ReceiveDraft(t, l, p, d)
        PROVE  Rest
    <2>1. /\ stage' \in {"minimise", "refused"}
          /\ request'.text = t /\ request'.declared = l
          /\ UNCHANGED <<segments, spans, output, response>>
      BY <1>3 DEF ReceiveDraft
    <2>2. t \in Seq(Cell) /\ l \in Cell
      BY PipelineAssumption, SeqOfCells DEF PipelineAssumption, Cell
    <2>. QED BY <2>1, <2>2, ReceiveInv
  <1>4. ASSUME NEW id \in DOMAIN Fixture \cup {"unlisted"}, NEW j \in DOMAIN Fixture, NEW k \in Task,
               NEW l \in Declared, NEW p \in Profile, ReceiveFixture(id, Fixture[j].text, k, l, p)
        PROVE  Rest
    <2>1. /\ stage' \in {"minimise", "refused"}
          /\ request'.text = Fixture[j].text /\ request'.declared = l
          /\ UNCHANGED <<segments, spans, output, response>>
      BY <1>4 DEF ReceiveFixture
    <2>2. Fixture[j].text \in Seq(Cell) /\ l \in Cell
      BY PipelineAssumption, SeqOfCells DEF PipelineAssumption, Cell
    <2>. QED BY <2>1, <2>2, ReceiveInv
  <1>5. CASE Segment
    BY <1>5, SegmentInv
  <1>6. ASSUME NEW f, Detect(f) PROVE Rest
    BY <1>6, DetectTextInv
  <1>7. CASE MergeOne
    BY <1>7, MergeOneTextInv
  <1>8. CASE ReplaceSegment
    BY <1>8, ReplaceTextInv
  <1>9. CASE Check
    BY <1>9, CheckInv
  <1>10. CASE Prepare
    BY <1>10, PrepareInv
  <1>11. CASE Analyse
    BY <1>11, AnalyseInv
  <1>12. CASE Return
    BY <1>12, ReturnInv
  <1>13. CASE UNCHANGED textVars
    BY <1>13, IdleInv
  <1>. HIDE DEF Rest
  <1>. QED
    BY <1>3, <1>4, <1>5, <1>6, <1>7, <1>8, <1>9, <1>10, <1>11, <1>12, <1>13 DEF TextNext

\* It implies what the run checks.
LEMMA TextInvImplies == TextInv => CuesWellChosen
  <1>1. SUFFICES ASSUME TextInv PROVE CuesWellChosen
    OBVIOUS
  <1>. USE <1>1
  <1>2. stage # "rejected"
    BY DEF TextInv, Answered
  <1>3. stage = "failed" => Offset(output, Len(output)) > Bound.offset
    BY OutcomeRanges DEF TextInv, Answered, Parts
  <1>4. ASSUME stage = "released", ~response.low
        PROVE  LET found == Candidates(output, request.profile, tags)
                   shown == {d \in found : \E k \in DOMAIN response.cues : response.cues[k].id = d.id}
               IN  /\ Cardinality(shown) = Len(response.cues)
                   /\ \A d \in shown, e \in found \ shown : d.priority >= e.priority
                   /\ Cardinality(shown) = Min({MAX_CUES, Cardinality(found)})
                   /\ \A d, e \in shown, j, k \in DOMAIN response.cues :
                         response.cues[j].id = d.id /\ response.cues[k].id = e.id /\ j < k => d.priority >= e.priority
                   /\ Cardinality({d \in shown : d.rule \in WindowRule}) <= 1
    <2>. DEFINE found == Candidates(output, request.profile, tags)
                shown == {d \in found : \E k \in DOMAIN response.cues : response.cues[k].id = d.id}
                n == Chosen(found)
                sel == Selected(found)
                top == {d \in found : \E k \in 1..n : sel[k].id = d.id}
    <2>1. response = Outcome(output, request.profile)
      BY <1>4 DEF TextInv, Answered
    <2>2. /\ found = Matches(output, request.profile)
          /\ found \in SUBSET Cues
      BY FoundTyped DEF Matches
    <2>3. /\ DOMAIN response.cues = 1..n /\ Len(response.cues) = n
          /\ \A k \in 1..n : response.cues[k].id = sel[k].id
      BY <1>4, <2>1, <2>2, FullOutcome
    <2>4. Cardinality({d \in shown : d.rule \in WindowRule}) <= 1
      BY OneWindowAnswer
    <2>. HIDE DEF found, n, sel
    <2>5. shown = top
      BY <2>3
    <2>6. /\ Cardinality(top) = n
          /\ \A d \in top, e \in found \ top : d.priority >= e.priority
          /\ \A d, e \in top, j, k \in 1..n :
                sel[j].id = d.id /\ sel[k].id = e.id /\ j < k => d.priority >= e.priority
      BY <2>2, ChosenAreStrongest DEF n, sel
    <2>. HIDE DEF top, shown
    <2>7. n = Min({MAX_CUES, Cardinality(found)})
      BY DEF n, Chosen
    <2>8. \A d, e \in shown, j, k \in DOMAIN response.cues :
            response.cues[j].id = d.id /\ response.cues[k].id = e.id /\ j < k => d.priority >= e.priority
      BY <2>3, <2>5, <2>6
    <2>. QED BY <2>3, <2>4, <2>5, <2>6, <2>7, <2>8 DEF found, shown
  <1>. QED BY <1>2, <1>3, <1>4 DEF CuesWellChosen

\* Whatever the registry, the patterns, the detector and the text: what is
\* released holds the strongest cues in their order, none of the same kind
\* twice, the checks on a response never fire, and building one fails only for
\* a text longer than an offset may be.
THEOREM CuesAreWellChosen == TextSpec => []CuesWellChosen
  <1>1. TextInit => TextInv
    BY InitTextInv
  <1>2. TextInv /\ [TextNext]_textVars => TextInv'
    BY NextTextInv
  <1>3. TextInv => CuesWellChosen
    BY TextInvImplies
  <1>. QED BY <1>1, <1>2, <1>3, PTL DEF TextSpec


(***************************************************************************)
(* The half of OnlyMinimised that rests on the checks alone.               *)
(***************************************************************************)
Reviewed == \E id \in DOMAIN Fixture : request.text = Fixture[id].text /\ request.declared = Fixture[id].language

\* Nobody is shown, and no rule reads, a text with a high-certainty residual, and
\* a v1 text is a reviewed one in its reviewed language.
ResidualFree ==
    stage \in {"sanitized", "prepared", "released"} =>
        /\ ~HasResidual(output)
        /\ request.mode = "v1" => Reviewed

\* From the moment it is admitted, a v1 text is one.
Admitted == stage \notin {"waiting", "refused"} => (request.mode = "v1" => Reviewed)
CleanInv == Admitted /\ ResidualFree

\* A step within a call, to a stage that shows no text or with the text it had.
LEMMA WithinCall ==
  ASSUME CleanInv, stage \notin {"waiting", "refused"}, request' = request,
         stage' \in {"sanitized", "prepared", "released"} =>
            ~HasResidual(output') \/ (output' = output /\ stage \in {"sanitized", "prepared", "released"})
  PROVE  CleanInv'
  <1>1. Reviewed' <=> Reviewed
    BY DEF Reviewed
  <1>2. stage' \in {"sanitized", "prepared", "released"} => ~HasResidual(output)'
    BY DEF CleanInv, ResidualFree, HasResidual
  <1>. QED BY <1>1, <1>2 DEF CleanInv, Admitted, ResidualFree

\* Every step keeps both.
LEMMA NextCleanInv == CleanInv /\ [TextNext]_textVars => CleanInv'
  <1>1. SUFFICES ASSUME CleanInv, [TextNext]_textVars PROVE CleanInv'
    OBVIOUS
  <1>. USE <1>1
  <1>2. ASSUME NEW t, NEW l, NEW p, NEW d, ReceiveDraft(t, l, p, d) PROVE CleanInv'
    BY <1>2 DEF ReceiveDraft, CleanInv, Admitted, ResidualFree
  <1>3. ASSUME NEW id, NEW text, NEW k, NEW l, NEW p, ReceiveFixture(id, text, k, l, p) PROVE CleanInv'
    <2>1. stage' \in {"minimise", "refused"}
      BY <1>3 DEF ReceiveFixture
    <2>2. stage' = "minimise" => Reviewed'
      BY <1>3 DEF ReceiveFixture, Attest, Reviewed
    <2>. QED BY <2>1, <2>2 DEF CleanInv, Admitted, ResidualFree
  <1>4. CASE Segment
    <2>1. stage = "minimise" /\ stage' \in {"refused", "detect"} /\ request' = request
      BY <1>4 DEF Segment
    <2>. QED BY <2>1, WithinCall
  <1>5. ASSUME NEW f, Detect(f) PROVE CleanInv'
    <2>1. stage = "detect" /\ stage' \in {"refused", "merge"} /\ request' = request
      BY <1>5 DEF Detect, Stop
    <2>. QED BY <2>1, WithinCall
  <1>6. CASE MergeOne
    <2>1. stage = "merge" /\ stage' = "merge" /\ request' = request
      BY <1>6 DEF MergeOne
    <2>. QED BY <2>1, WithinCall
  <1>7. CASE ReplaceSegment
    <2>1. stage = "merge" /\ stage' = "detect" /\ request' = request
      BY <1>7 DEF ReplaceSegment
    <2>. QED BY <2>1, WithinCall
  <1>8. CASE Check
    <2>1. /\ stage = "detect" /\ request' = request
          /\ stage' = "refused" \/ (output' = Strip(output) /\ Releasable(Strip(output)) /\ stage' = "sanitized")
      BY <1>8 DEF Check, Stop
    <2>2. stage' = "sanitized" => ~HasResidual(output')
      BY <2>1 DEF Releasable
    <2>. QED BY <2>1, <2>2, WithinCall
  <1>9. CASE Prepare
    <2>1. stage = "sanitized" /\ UNCHANGED <<request, output>>
      BY <1>9 DEF Prepare, Stop
    <2>. QED BY <2>1, WithinCall
  <1>10. CASE Analyse
    <2>1. stage \in {"sanitized", "prepared"} /\ UNCHANGED <<request, output>>
      BY <1>10 DEF Analyse, Stop
    <2>. QED BY <2>1, WithinCall
  <1>11. CASE Return
    <2>1. stage' = "waiting"
      BY <1>11 DEF Return
    <2>. QED BY <2>1 DEF CleanInv, Admitted, ResidualFree
  <1>12. CASE UNCHANGED textVars
    <2>1. UNCHANGED <<stage, request, output>>
      BY <1>12 DEF textVars
    <2>. QED BY <2>1 DEF CleanInv, Admitted, ResidualFree, Reviewed, HasResidual
  <1>. QED
    BY <1>2, <1>3, <1>4, <1>5, <1>6, <1>7, <1>8, <1>9, <1>10, <1>11, <1>12 DEF TextNext

\* Nothing with a residual is shown or analysed, and no v1 text but a reviewed one.
THEOREM NothingResidualShown == TextSpec => []ResidualFree
  <1>1. TextInit => CleanInv
    BY DEF TextInit, CleanInv, Admitted, ResidualFree
  <1>2. CleanInv /\ [TextNext]_textVars => CleanInv'
    BY NextCleanInv
  <1>3. CleanInv => ResidualFree
    BY DEF CleanInv
  <1>. QED BY <1>1, <1>2, <1>3, PTL DEF TextSpec

(***************************************************************************)
(* Quotations.  A plain word in place of a quoted marker changes nothing   *)
(* the rules look at.                                                      *)
(***************************************************************************)
Unmarked(out) == [i \in DOMAIN out |-> IF Quoted(out, i) /\ out[i] \in Marker THEN "word" ELSE out[i]]

\* A marker is no mark and no word that is counted apart, and neither it nor a
\* plain word is a placeholder.
LEMMA MarkersApart ==
  /\ Marker \cap (Mark \cup {"word", "the", "contraction"}) = {}
  /\ "word" \notin Mark
  /\ \A x \in Marker \cup {"word"} : x \notin LabelSet
  /\ \A rule \in DOMAIN MarkerOf : MarkerOf[rule] \in Marker
  /\ {"assure", "process", "window"} \subseteq Marker
  <1>1. \A x \in Marker : x \in {"direct", "hedge", "push", "assure", "repair", "turn", "process", "think",
                                "final", "short", "channel", "window", "said", "reject"}
    BY DEF Marker, MarkerOf
  <1>2. Marker \cap (Mark \cup {"word", "the", "contraction"}) = {} /\ "word" \notin Mark
    BY <1>1 DEF Mark
  <1>3. \A x \in Marker \cup {"word"} : x \notin LabelSet
    BY CueAssumption DEF CueAssumption
  <1>4. \A rule \in DOMAIN MarkerOf : MarkerOf[rule] \in Marker
    BY DEF Marker
  <1>5. {"assure", "process", "window"} \subseteq Marker
    BY DEF Marker, MarkerOf
  <1>. QED BY <1>2, <1>3, <1>4, <1>5

\* The marks stand where they stood, and an unquoted cell is what it was.
LEMMA UnmarkedCells ==
  ASSUME NEW out
  PROVE  /\ DOMAIN Unmarked(out) = DOMAIN out
         /\ \A i \in DOMAIN out : \A x \in Mark : Unmarked(out)[i] = x <=> out[i] = x
         /\ \A i \in DOMAIN out : \A x \in {"the", "contraction"} : Unmarked(out)[i] = x <=> out[i] = x
         /\ \A i \in DOMAIN out : WordsIn(Unmarked(out)[i]) = WordsIn(out[i])
         /\ \A i \in DOMAIN out : ~Quoted(out, i) => Unmarked(out)[i] = out[i]
  <1>1. DOMAIN Unmarked(out) = DOMAIN out
    BY DEF Unmarked
  <1>2. ASSUME NEW i \in DOMAIN out
        PROVE  \/ Unmarked(out)[i] = out[i]
               \/ Unmarked(out)[i] = "word" /\ out[i] \in Marker /\ Quoted(out, i)
    BY DEF Unmarked
  <1>3. \A x \in Marker \cup {"word"} : WordsIn(x) = 1
    BY MarkersApart DEF WordsIn
  <1>4. ASSUME NEW i \in DOMAIN out, NEW x \in Mark PROVE Unmarked(out)[i] = x <=> out[i] = x
    BY <1>2, MarkersApart
  <1>. QED BY <1>1, <1>2, <1>3, <1>4, MarkersApart

\* So the same cells are quoted.
LEMMA UnmarkedQuotes ==
  ASSUME NEW out \in Seq(Cell), NEW i \in DOMAIN out
  PROVE  Quoted(Unmarked(out), i) <=> Quoted(out, i)
  <1>. DEFINE plain == Unmarked(out)
  <1>1. /\ DOMAIN plain = DOMAIN out
        /\ \A j \in DOMAIN out : plain[j] = "newline" <=> out[j] = "newline"
        /\ \A x \in {"quote", "opening", "closing", "apostrophe", "contraction"} :
              \A j \in DOMAIN out : plain[j] = x <=> out[j] = x
    BY UnmarkedCells DEF Mark
  <1>2. Len(plain) = Len(out)
    BY <1>1 DEF Unmarked
  <1>. HIDE DEF plain
  <1>3. ASSUME NEW j \in DOMAIN out PROVE EndOfQuote(plain, j) = EndOfQuote(out, j)
    <2>1. Line(plain, j) = Line(out, j)
      <3>1. ASSUME NEW l \in DOMAIN out, NEW k \in Min({j, l})..Max({j, l}) PROVE k \in DOMAIN out
        <4>1. Len(out) \in Nat /\ DOMAIN out = 1..Len(out) /\ {j, l} \in SUBSET (1..Len(out))
          OBVIOUS
        <4>2. Min({j, l}) \in 1..Len(out) /\ Max({j, l}) \in 1..Len(out)
          BY <4>1, LeastAndGreatest
        <4>. QED BY <4>1, <4>2
      <3>. QED BY <1>1, <3>1 DEF Line
    <2>2. ASSUME NEW l \in DOMAIN out
          PROVE  (plain[j] \in DOMAIN Ending /\ plain[l] \in Ending[plain[j]])
                   <=> (out[j] \in DOMAIN Ending /\ out[l] \in Ending[out[j]])
      BY <1>1 DEF Ending
    <2>3. Line(out, j) \subseteq DOMAIN out
      BY DEF Line
    <2>4. {l \in Line(plain, j) : j < l /\ plain[j] \in DOMAIN Ending /\ plain[l] \in Ending[plain[j]]}
            = {l \in Line(out, j) : j < l /\ out[j] \in DOMAIN Ending /\ out[l] \in Ending[out[j]]}
      BY <2>1, <2>2, <2>3
    <2>. QED BY <2>4 DEF EndOfQuote
  <1>4. [j \in DOMAIN plain |-> EndOfQuote(plain, j)] = [j \in DOMAIN out |-> EndOfQuote(out, j)]
    BY <1>1, <1>3
  <1>5. Quoted(plain, i) <=> Quoted(out, i)
    BY <1>2, <1>4 DEF Quoted
  <1>. QED BY <1>5 DEF plain

\* And the same unquoted markers are found.
LEMMA UnmarkedFound ==
  ASSUME NEW out \in Seq(Cell), NEW marker \in Marker, NEW reported, NEW rejected
  PROVE  Found(Unmarked(out), marker, reported, rejected) = Found(out, marker, reported, rejected)
  <1>. DEFINE plain == Unmarked(out)
              before(t, i) == {t[j] : j \in {k \in DOMAIN t : i - Reach <= k /\ k < i /\ ~Quoted(t, k)}}
  <1>1. /\ DOMAIN plain = DOMAIN out
        /\ \A j \in DOMAIN out : Quoted(plain, j) <=> Quoted(out, j)
        /\ \A j \in DOMAIN out : ~Quoted(out, j) => plain[j] = out[j]
    BY UnmarkedCells, UnmarkedQuotes
  <1>. HIDE DEF plain
  <1>2. ASSUME NEW i \in DOMAIN out PROVE before(plain, i) = before(out, i)
    BY <1>1
  <1>3. ASSUME NEW t
        PROVE  Found(t, marker, reported, rejected) =
                 {i \in DOMAIN t : /\ t[i] = marker /\ ~Quoted(t, i)
                                   /\ ~(reported /\ "said" \in before(t, i))
                                   /\ ~(rejected /\ "reject" \in before(t, i))}
    BY DEF Found
  <1>. HIDE DEF before
  <1>4. Found(plain, marker, reported, rejected) = Found(out, marker, reported, rejected)
    BY <1>1, <1>2, <1>3
  <1>. QED BY <1>4 DEF plain

\* Words, questions and commas are as many, at the same places.
LEMMA UnmarkedCounts ==
  ASSUME NEW out
  PROVE  /\ Words(Unmarked(out)) = Words(out)
         /\ Questions(Unmarked(out)) = Questions(out)
         /\ Dense(Unmarked(out)) <=> Dense(out)
         /\ {i \in DOMAIN Unmarked(out) : Unmarked(out)[i] = "comma"} = {i \in DOMAIN out : out[i] = "comma"}
         /\ {i \in DOMAIN Unmarked(out) : WordsIn(Unmarked(out)[i]) > 0} = {i \in DOMAIN out : WordsIn(out[i]) > 0}
  <1>. DEFINE plain == Unmarked(out)
  <1>1. /\ DOMAIN plain = DOMAIN out
        /\ \A j \in DOMAIN out : plain[j] = "question" <=> out[j] = "question"
        /\ \A j \in DOMAIN out : plain[j] = "comma" <=> out[j] = "comma"
        /\ \A j \in DOMAIN out : plain[j] = "the" <=> out[j] = "the"
        /\ \A j \in DOMAIN out : WordsIn(plain[j]) = WordsIn(out[j])
    BY UnmarkedCells DEF Mark
  <1>. HIDE DEF plain
  <1>2. Words(plain) = Words(out)
    <2>1. [i \in DOMAIN plain |-> WordsIn(plain[i])] = [i \in DOMAIN out |-> WordsIn(out[i])]
      BY <1>1
    <2>. QED BY <2>1 DEF Words
  <1>3. Questions(plain) = Questions(out)
    BY <1>1 DEF Questions
  <1>4. {i \in DOMAIN plain : plain[i] = "the"} = {i \in DOMAIN out : out[i] = "the"}
    BY <1>1
  <1>5. Dense(plain) <=> Dense(out)
    BY <1>2, <1>4 DEF Dense
  <1>6. {i \in DOMAIN plain : plain[i] = "comma"} = {i \in DOMAIN out : out[i] = "comma"}
    BY <1>1
  <1>7. {i \in DOMAIN plain : WordsIn(plain[i]) > 0} = {i \in DOMAIN out : WordsIn(out[i]) > 0}
    BY <1>1
  <1>. QED BY <1>2, <1>3, <1>5, <1>6, <1>7 DEF plain

\* Every precondition and every rule answers as before.
LEMMA UnmarkedAnswers ==
  ASSUME NEW out \in Seq(Cell)
  PROVE  /\ \A name : Precondition(name, Unmarked(out)) <=> Precondition(name, out)
         /\ \A rule \in RuleHandler : Evaluate(rule, Unmarked(out)) = Evaluate(rule, out)
  <1>. DEFINE plain == Unmarked(out)
  <1>1. \A m \in Marker : Plain(plain, m) = Plain(out, m)
    BY UnmarkedFound DEF Plain
  <1>2. /\ Words(plain) = Words(out) /\ Questions(plain) = Questions(out) /\ (Dense(plain) <=> Dense(out))
        /\ {i \in DOMAIN plain : plain[i] = "comma"} = {i \in DOMAIN out : out[i] = "comma"}
        /\ {i \in DOMAIN plain : WordsIn(plain[i]) > 0} = {i \in DOMAIN out : WordsIn(out[i]) > 0}
    BY UnmarkedCounts
  <1>3. \A m \in Marker : /\ Found(plain, m, TRUE, FALSE) = Found(out, m, TRUE, FALSE)
                          /\ Found(plain, m, TRUE, TRUE) = Found(out, m, TRUE, TRUE)
    BY UnmarkedFound
  <1>4. /\ Plain(plain, "assure") = Plain(out, "assure")
        /\ Plain(plain, "process") = Plain(out, "process")
        /\ Plain(plain, "window") = Plain(out, "window")
    BY <1>1, MarkersApart
  <1>. HIDE DEF plain
  <1>5. ASSUME NEW name PROVE Precondition(name, plain) <=> Precondition(name, out)
    BY <1>2, <1>4 DEF Precondition
  <1>6. ASSUME NEW rule \in RuleHandler PROVE Evaluate(rule, plain) = Evaluate(rule, out)
    <2>1. CASE rule \in DOMAIN MarkerOf
      <3>1. /\ Plain(plain, MarkerOf[rule]) = Plain(out, MarkerOf[rule])
            /\ Found(plain, MarkerOf[rule], TRUE, FALSE) = Found(out, MarkerOf[rule], TRUE, FALSE)
            /\ Found(plain, MarkerOf[rule], TRUE, TRUE) = Found(out, MarkerOf[rule], TRUE, TRUE)
        BY <1>1, <1>3, <2>1, MarkersApart
      <3>. QED BY <1>2, <1>4, <3>1 DEF Evaluate
    <2>2. CASE rule \notin DOMAIN MarkerOf
      <3>1. rule \in WindowRule \cup {"question_count_threshold", "lexical_density_threshold",
                                      "long_comma_separated_run"}
        BY <2>2 DEF RuleHandler
      <3>. QED BY <1>2, <1>4, <3>1 DEF Evaluate, WindowRule
    <2>. QED BY <2>1, <2>2
  <1>. QED BY <1>5, <1>6 DEF plain

\* The wording of somebody else does not count: with every quoted marker of a
\* released text turned into a plain word the rules, their preconditions and
\* the density of the words find the same cues.
THEOREM QuotedWordingIgnored == TextSpec => []QuotesDoNotCount
  <1>1. ASSUME TextInv, NEW profile, NEW languages
        PROVE  Candidates(Unmarked(output), profile, languages) = Candidates(output, profile, languages)
    <2>1. \A d \in Cues : d.rule \in RuleHandler
      BY CueAssumption DEF CueAssumption
    <2>2. output \in Seq(Cell)
      BY <1>1 DEF TextInv, Parts
    <2>. QED BY <2>1, <2>2, UnmarkedAnswers DEF Candidates
  <1>2. TextInv => QuotesDoNotCount
    BY <1>1 DEF QuotesDoNotCount, Unmarked
  <1>. QED BY <1>2, InitTextInv, NextTextInv, PTL DEF TextSpec

(***************************************************************************)
(* Groups.  A merged span is a group of overlapping ones: each span taken  *)
(* lies in one, no place strictly inside is a seam between two, and the    *)
(* first of the sort order among those at its start gave it its category.  *)
(***************************************************************************)
Nested(sel, taken) == \A s \in taken : \E k \in DOMAIN sel : sel[k].start <= s.start /\ s.end <= sel[k].end
Connected(sel, taken) ==
    \A k \in DOMAIN sel : \A p \in Int :
      sel[k].start < p /\ p < sel[k].end => \E u \in taken : u.start < p /\ p < u.end
Leads(h, all) == \A t \in all : t.start = h.start => Before(h, t)
Headed(sel, taken, all) ==
    \A k \in DOMAIN sel : \E h \in taken :
      h.start = sel[k].start /\ h.category = sel[k].category /\ Leads(h, all)

\* The fields of the spans of a set are whole numbers.
LEMMA SpanIntegers ==
    ASSUME NEW S \in SUBSET Span
    PROVE  \A s \in S : s.start \in Int /\ s.end \in Int /\ s.category \in Int
  BY DEF Span

\* One turn of the loop keeps the groups.
LEMMA MergeStepGroups ==
    ASSUME NEW sel \in Seq(Span), NEW all \in SUBSET Span, NEW taken \in SUBSET all, NEW s \in all \ taken,
           \A t \in all : t.start < t.end,
           \A k \in DOMAIN sel : sel[k].start < sel[k].end,
           \A j, k \in DOMAIN sel : j < k => sel[j].end <= sel[k].start,
           \A k \in DOMAIN sel : sel[k].start <= s.start,
           \A t \in all \ taken : Before(s, t),
           Nested(sel, taken), Connected(sel, taken), Headed(sel, taken, all)
    PROVE  LET new == MergeStep(sel, s)
           IN  /\ Nested(new, taken \cup {s})
               /\ Connected(new, taken \cup {s})
               /\ Headed(new, taken \cup {s}, all)
  <1>. DEFINE new == MergeStep(sel, s)
              n == Len(sel)
              now == taken \cup {s}
  <1>1. n \in Nat /\ DOMAIN sel = 1..n /\ \A k \in 1..n : sel[k] \in Span
    OBVIOUS
  <1>2. /\ s.start \in Int /\ s.end \in Int /\ s.start < s.end
        /\ \A k \in 1..n : sel[k].start \in Int /\ sel[k].end \in Int /\ sel[k].category \in Int
        /\ \A t \in taken : t.start \in Int /\ t.end \in Int /\ t.start < t.end
    BY <1>1, SpanIntegers DEF Span
  <1>3. CASE sel = <<>> \/ ~(s.start < sel[n].end)
    <2>1. new = Append(sel, s)
      BY <1>3 DEF MergeStep
    <2>2. DOMAIN new = 1..n + 1 /\ new[n + 1] = s /\ \A k \in 1..n : new[k] = sel[k]
      BY <2>1, <1>1
    <2>. HIDE DEF new
    <2>3. 1..n \subseteq 1..n + 1 /\ n + 1 \in 1..n + 1 /\ \A k \in 1..n + 1 : k = n + 1 \/ k \in 1..n
      BY <1>1
    <2>4. Nested(new, now)
      <3>1. SUFFICES ASSUME NEW t \in now PROVE \E k \in 1..n + 1 : new[k].start <= t.start /\ t.end <= new[k].end
        BY <2>2 DEF Nested
      <3>2. CASE t = s
        <4>1. s.start <= s.start /\ s.end <= s.end
          BY <1>2
        <4>. QED BY <2>2, <2>3, <3>2, <4>1
      <3>3. CASE t \in taken
        <4>1. PICK k \in 1..n : sel[k].start <= t.start /\ t.end <= sel[k].end
          BY <1>1, <3>3 DEF Nested
        <4>. QED BY <2>2, <2>3, <4>1
      <3>. QED BY <3>2, <3>3
    <2>5. Connected(new, now)
      <3>1. SUFFICES ASSUME NEW k \in 1..n + 1, NEW p \in Int, new[k].start < p, p < new[k].end
                     PROVE  \E u \in now : u.start < p /\ p < u.end
        BY <2>2 DEF Connected
      <3>2. CASE k = n + 1
        BY <2>2, <3>1, <3>2
      <3>3. CASE k \in 1..n
        BY <1>1, <2>2, <3>1, <3>3 DEF Connected
      <3>. QED BY <2>3, <3>2, <3>3
    <2>6. \A k \in 1..n : sel[k].end <= s.start
      <3>1. SUFFICES ASSUME NEW k \in 1..n PROVE sel[k].end <= s.start
        OBVIOUS
      <3>2. n \in 1..n /\ sel[n].end <= s.start
        BY <1>1, <1>2, <1>3, <3>1
      <3>3. k = n \/ k < n
        BY <1>1, Below
      <3>4. k < n => sel[k].end <= sel[n].start
        BY <1>1, <3>2
      <3>5. sel[n].start < sel[n].end
        BY <1>1, <3>2
      <3>6. sel[k].end \in Int /\ sel[n].start \in Int /\ sel[n].end \in Int
        BY <1>2, <3>2
      <3>. QED BY <1>2, <3>2, <3>3, <3>4, <3>5, <3>6
    <2>7. Leads(s, all)
      <3>1. SUFFICES ASSUME NEW t \in taken, t.start = s.start PROVE FALSE
        BY DEF Leads
      <3>2. PICK k \in 1..n : sel[k].start <= t.start /\ t.end <= sel[k].end
        BY <1>1 DEF Nested
      <3>3. sel[k].end <= s.start
        BY <2>6
      <3>4. t.start \in Int /\ t.end \in Int /\ t.start < t.end /\ sel[k].end \in Int
        BY <1>2
      <3>. QED BY <1>2, <3>1, <3>2, <3>3, <3>4
    <2>8. Headed(new, now, all)
      BY <1>1, <2>2, <2>3, <2>7 DEF Headed
    <2>. QED BY <2>4, <2>5, <2>8 DEF new
  <1>4. CASE sel # <<>> /\ s.start < sel[n].end /\ s.end > sel[n].end
    <2>. DEFINE longer == [start |-> sel[n].start, end |-> s.end, category |-> sel[n].category]
    <2>1. new = [sel EXCEPT ![n] = longer]
      BY <1>4 DEF MergeStep
    <2>2. n \in 1..n
      BY <1>1, <1>4
    <2>3. DOMAIN new = 1..n /\ new[n] = longer /\ \A k \in 1..n : k # n => new[k] = sel[k]
      BY <2>1, <1>1, <2>2
    <2>. HIDE DEF new
    <2>4. new[n].start = sel[n].start /\ new[n].end = s.end /\ new[n].category = sel[n].category
      BY <2>3
    <2>5. \A k \in 1..n : new[k].start = sel[k].start /\ sel[k].end <= new[k].end /\ new[k].category = sel[k].category
      BY <1>2, <1>4, <2>2, <2>3, <2>4
    <2>. HIDE DEF longer
    <2>6. Nested(new, now)
      <3>1. SUFFICES ASSUME NEW t \in now PROVE \E k \in 1..n : new[k].start <= t.start /\ t.end <= new[k].end
        BY <2>3 DEF Nested
      <3>2. CASE t = s
        <4>1. new[n].start <= s.start /\ s.end <= new[n].end
          BY <1>1, <1>2, <2>2, <2>4
        <4>. QED BY <2>2, <3>2, <4>1
      <3>3. CASE t \in taken
        <4>1. PICK k \in 1..n : sel[k].start <= t.start /\ t.end <= sel[k].end
          BY <1>1, <3>3 DEF Nested
        <4>2. new[k].end \in Int
          BY <1>2, <2>2, <2>3, <2>4
        <4>3. t.end <= new[k].end /\ new[k].start <= t.start
          BY <1>2, <2>5, <3>3, <4>1, <4>2
        <4>. QED BY <4>3
      <3>. QED BY <3>2, <3>3
    <2>7. Connected(new, now)
      <3>1. SUFFICES ASSUME NEW k \in 1..n, NEW p \in Int, new[k].start < p, p < new[k].end
                     PROVE  \E u \in now : u.start < p /\ p < u.end
        BY <2>3 DEF Connected
      <3>2. CASE p < sel[k].end
        <4>1. sel[k].start < p
          BY <2>5, <3>1
        <4>. QED BY <1>1, <3>2, <4>1 DEF Connected
      <3>3. CASE ~(p < sel[k].end)
        <4>1. k = n
          BY <2>3, <3>1, <3>3
        <4>2. s.start < p /\ p < s.end
          BY <1>2, <1>4, <2>2, <2>4, <3>1, <3>3, <4>1
        <4>. QED BY <4>2
      <3>. QED BY <3>2, <3>3
    <2>8. Headed(new, now, all)
      BY <1>1, <2>3, <2>5 DEF Headed
    <2>. QED BY <2>6, <2>7, <2>8 DEF new
  <1>5. CASE sel # <<>> /\ s.start < sel[n].end /\ ~(s.end > sel[n].end)
    <2>1. new = sel /\ n \in 1..n
      BY <1>1, <1>5 DEF MergeStep
    <2>2. sel[n].start <= s.start /\ s.end <= sel[n].end
      BY <1>1, <1>2, <1>5, <2>1
    <2>3. Nested(sel, now)
      BY <1>1, <2>1, <2>2 DEF Nested
    <2>4. Connected(sel, now) /\ Headed(sel, now, all)
      BY DEF Connected, Headed
    <2>5. Nested(new, now) /\ Connected(new, now) /\ Headed(new, now, all)
      BY <2>1, <2>3, <2>4
    <2>. QED BY <2>5
  <1>. QED BY <1>3, <1>4, <1>5

Groups == Nested(selected, spans \ todo) /\ Connected(selected, spans \ todo) /\ Headed(selected, spans \ todo, spans)
GroupInv == Groups

\* The groups before a merge begins.
LEMMA NoGroups == ASSUME NEW all PROVE Nested(<<>>, {}) /\ Connected(<<>>, {}) /\ Headed(<<>>, {}, all)
  BY DEF Nested, Connected, Headed

\* Every step keeps the groups.
LEMMA NextGroupInv == MergeInv /\ GroupInv /\ [TextNext]_textVars => GroupInv'
  <1>1. SUFFICES ASSUME MergeInv, GroupInv, [TextNext]_textVars PROVE GroupInv'
    OBVIOUS
  <1>. USE <1>1
  <1>2. ASSUME UNCHANGED mergeVars, stage' # "merge" PROVE GroupInv'
    BY <1>2 DEF GroupInv, Groups, mergeVars
  <1>3. ASSUME NEW t \in Text, NEW l \in Declared, NEW p \in Profile, NEW d \in BOOLEAN, ReceiveDraft(t, l, p, d)
        PROVE GroupInv'
    BY <1>2, <1>3 DEF ReceiveDraft, mergeVars
  <1>4. ASSUME NEW id, NEW text, NEW k, NEW l, NEW p, ReceiveFixture(id, text, k, l, p)
        PROVE GroupInv'
    BY <1>2, <1>4 DEF ReceiveFixture, mergeVars
  <1>5. CASE Segment
    BY <1>2, <1>5 DEF Segment, mergeVars
  <1>6. ASSUME NEW f, Detect(f) PROVE GroupInv'
    <2>1. CASE request.mode = "t1" /\ Head(segments).tag \notin DetectorTag
      BY <1>2, <1>6, <2>1 DEF Detect, Stop, mergeVars
    <2>2. CASE ~(request.mode = "t1" /\ Head(segments).tag \notin DetectorTag)
      <3>1. /\ segments' = segments /\ todo' = spans' /\ selected' = <<>>
        BY <1>6, <2>2 DEF Detect
      <3>2. Groups'
        <4>1. spans' \ todo' = {}
          BY <3>1
        <4>. QED BY <3>1, <4>1, NoGroups DEF Groups
      <3>. QED BY <3>2 DEF GroupInv
    <2>. QED BY <2>1, <2>2
  <1>7. CASE MergeOne
    <2>1. PICK s \in todo : /\ \A t \in todo : Before(s, t)
                            /\ selected' = MergeStep(selected, s)
                            /\ todo' = todo \ {s}
      BY <1>7 DEF MergeOne
    <2>2. UNCHANGED <<stage, spans, segments>>
      BY <1>7 DEF MergeOne
    <2>. DEFINE taken == spans \ todo
    <2>3. /\ selected \in Seq(Span) /\ spans \in SUBSET Span /\ taken \in SUBSET spans
          /\ s \in spans \ taken /\ todo = spans \ taken
      BY DEF MergeInv, TextTypeOK
    <2>4. /\ \A t \in spans : t.start < t.end
          /\ \A k \in DOMAIN selected : selected[k].start < selected[k].end
          /\ \A j, k \in DOMAIN selected : j < k => selected[j].end <= selected[k].start
          /\ \A k \in DOMAIN selected : selected[k].start <= s.start
      BY <2>1 DEF MergeInv, Nonempty, Merged, Ahead
    <2>5. Nested(selected, taken) /\ Connected(selected, taken) /\ Headed(selected, taken, spans)
      BY DEF GroupInv, Groups
    <2>6. spans' \ todo' = taken \cup {s}
      BY <2>1, <2>2, <2>3
    <2>. HIDE DEF taken
    <2>7. \A t \in spans \ taken : Before(s, t)
      BY <2>1, <2>3
    <2>8. /\ Nested(selected', taken \cup {s}) /\ Connected(selected', taken \cup {s})
          /\ Headed(selected', taken \cup {s}, spans)
      BY <2>1, <2>3, <2>4, <2>5, <2>7, MergeStepGroups
    <2>9. Groups'
      BY <2>2, <2>6, <2>8 DEF Groups
    <2>. QED BY <2>2, <2>9 DEF GroupInv
  <1>8. CASE ReplaceSegment
    <2>1. spans' = {} /\ selected' = <<>> /\ stage' = "detect"
      BY <1>8 DEF ReplaceSegment
    <2>2. Groups'
      <3>1. spans' \ todo' = {}
        BY <2>1
      <3>. QED BY <2>1, <3>1, NoGroups DEF Groups
    <2>. QED BY <2>1, <2>2 DEF GroupInv
  <1>9. CASE Check
    BY <1>2, <1>9 DEF Check, Stop, mergeVars
  <1>10. CASE Prepare
    BY <1>2, <1>10 DEF Prepare, Stop, mergeVars
  <1>11. CASE Analyse
    <2>1. UNCHANGED mergeVars /\ stage' # "merge"
      BY <1>11 DEF Analyse, Stop, mergeVars
    <2>. QED BY <1>2, <2>1
  <1>12. CASE Return
    <2>1. spans' = {} /\ selected' = <<>> /\ stage' = "waiting"
      BY <1>12 DEF Return
    <2>2. Groups'
      <3>1. spans' \ todo' = {}
        BY <2>1
      <3>. QED BY <2>1, <3>1, NoGroups DEF Groups
    <2>. QED BY <2>1, <2>2 DEF GroupInv
  <1>13. CASE UNCHANGED textVars
    BY <1>13 DEF textVars, GroupInv, Groups
  <1>. QED
    BY <1>3, <1>4, <1>5, <1>6, <1>7, <1>8, <1>9, <1>10, <1>11, <1>12, <1>13 DEF TextNext

(***************************************************************************)
(* Replacement, place by place.                                            *)
(***************************************************************************)

\* What stands at the i-th place, by the merged spans.
CellAt(text, sel, i) ==
    IF \E k \in DOMAIN sel : sel[k].start = i - 1
    THEN <<Placeholder(sel[CHOOSE k \in DOMAIN sel : sel[k].start = i - 1])>>
    ELSE IF i > Len(text) \/ \E k \in DOMAIN sel : Inside(i - 1, sel[k]) THEN <<>> ELSE <<text[i]>>

\* A slice grows by the next cell, as long as there is one.
LEMMA SliceGrows ==
  ASSUME NEW S, NEW text \in Seq(S), NEW c \in Nat, NEW b \in Nat, c <= b
  PROVE  /\ Slice(text, c, c) = <<>>
         /\ Slice(text, c, b + 1) = Slice(text, c, b) \o (IF b + 1 > Len(text) THEN <<>> ELSE <<text[b + 1]>>)
  <1>. DEFINE n == Len(text)
  <1>0. n \in Nat
    OBVIOUS
  <1>1. Slice(text, c, c) = <<>>
    <2>1. (IF c < n THEN c ELSE n) \in Int /\ (IF c < n THEN c ELSE n) < c + 1 /\ c + 1 \in Int
      BY <1>0
    <2>. QED BY <2>1, SubSeqEmpty DEF Slice
  <1>2. CASE b + 1 > n
    <2>1. (IF b + 1 < n THEN b + 1 ELSE n) = (IF b < n THEN b ELSE n)
      BY <1>0, <1>2
    <2>2. Slice(text, c, b + 1) = Slice(text, c, b)
      BY <2>1 DEF Slice
    <2>3. Slice(text, c, b) \o <<>> = Slice(text, c, b)
      BY SliceTyped, ConcatEmptySeq
    <2>. QED BY <1>1, <1>2, <2>2, <2>3
  <1>3. CASE ~(b + 1 > n)
    <2>1. (IF b + 1 < n THEN b + 1 ELSE n) = b + 1 /\ (IF b < n THEN b ELSE n) = b /\ (b + 1) - 1 = b
      BY <1>0, <1>3
    <2>2. c + 1 \in 1..n /\ b + 1 \in (c + 1)..n
      BY <1>0, <1>3
    <2>3. SubSeq(text, c + 1, b + 1) = SubSeq(text, c + 1, (b + 1) - 1) \o <<text[b + 1]>>
      BY <2>2, SubSeqRecursiveSecond
    <2>4. Slice(text, c, b + 1) = Slice(text, c, b) \o <<text[b + 1]>>
      BY <2>1, <2>3 DEF Slice
    <2>. QED BY <1>1, <1>3, <2>4
  <1>. QED BY <1>2, <1>3

\* From c to m every place adds its own cell; or none adds anything.
Copies(J, text, c, m) ==
    \A i \in c + 1..m : J[i] = J[i - 1] \o (IF i > Len(text) THEN <<>> ELSE <<text[i]>>)
Idles(J, c, m) == \A i \in c + 1..m : J[i] = J[i - 1] \o <<>>

\* Where every place adds its own cell a slice is added.
LEMMA CopiesSlice ==
  ASSUME NEW S, NEW text \in Seq(S), NEW c \in Nat, NEW m \in Nat, c <= m, NEW J,
         J[c] \in Seq(S), Copies(J, text, c, m)
  PROVE  J[m] = J[c] \o Slice(text, c, m)
  <1>. DEFINE Copied(d) == J[c + d] = J[c] \o Slice(text, c, c + d)
              H == {d \in Nat : d <= m - c => Copied(d)}
  <1>1. 0 \in H
    <2>1. J[c] \o <<>> = J[c]
      BY ConcatEmptySeq
    <2>2. Slice(text, c, c) = <<>>
      BY SliceGrows
    <2>3. c + 0 = c
      OBVIOUS
    <2>. QED BY <2>1, <2>2, <2>3
  <1>2. ASSUME NEW d \in 0..(m - c) - 1, d \in H PROVE d + 1 \in H
    <2>. DEFINE b == c + d
                x == IF b + 1 > Len(text) THEN <<>> ELSE <<text[b + 1]>>
    <2>1. b \in Nat /\ c <= b /\ b + 1 \in c + 1..m /\ (b + 1) - 1 = b /\ c + (d + 1) = b + 1 /\ d <= m - c
      OBVIOUS
    <2>2. J[b] = J[c] \o Slice(text, c, b)
      BY <1>2, <2>1
    <2>3. J[b + 1] = J[b] \o x
      BY <2>1 DEF Copies
    <2>4. x \in Seq(S)
      <3>1. b + 1 <= Len(text) => b + 1 \in 1..Len(text)
        BY <2>1
      <3>2. b + 1 <= Len(text) => text[b + 1] \in S
        BY <3>1
      <3>3. <<>> \in Seq(S) /\ \A y \in S : <<y>> \in Seq(S)
        BY OneTyped, EmptySeq
      <3>. HIDE DEF b
      <3>. QED BY <2>1, <3>2, <3>3
    <2>. HIDE DEF x, b
    <2>5. Slice(text, c, b) \in Seq(S)
      BY <2>1, SliceTyped
    <2>6. Slice(text, c, b + 1) = Slice(text, c, b) \o x
      BY <2>1, SliceGrows DEF x
    <2>7. (J[c] \o Slice(text, c, b)) \o x = J[c] \o (Slice(text, c, b) \o x)
      <3>. DEFINE u == J[c]
                  v == Slice(text, c, b)
      <3>1. u \in Seq(S) /\ v \in Seq(S)
        BY <2>5
      <3>. HIDE DEF u, v
      <3>2. (u \o v) \o x = u \o (v \o x)
        BY <2>4, <3>1, ConcatAssociative, SMTT(20)
      <3>. QED BY <3>2 DEF u, v
    <2>8. Copied(d + 1)
      BY <2>1, <2>2, <2>3, <2>6, <2>7
    <2>. HIDE DEF Copied
    <2>. QED BY <2>8
  <1>3. m - c \in H
    <2>. HIDE DEF H
    <2>1. H \in SUBSET Nat
      BY DEF H
    <2>0. m - c \in Nat
      OBVIOUS
    <2>2. \A d \in 0..m - c : d \in H
      BY <1>1, <1>2, <2>0, <2>1, UpTo
    <2>. QED BY <2>0, <2>2
  <1>4. c + (m - c) = m /\ m - c <= m - c
    OBVIOUS
  <1>. QED BY <1>3, <1>4

\* Where no place adds anything nothing changes.
LEMMA AddsNothing ==
  ASSUME NEW S, NEW c \in Nat, NEW m \in Nat, c <= m, NEW J, J[c] \in Seq(S), Idles(J, c, m)
  PROVE  J[m] = J[c]
  <1>. DEFINE H == {d \in Nat : d <= m - c => J[c + d] = J[c]}
  <1>1. 0 \in H
    OBVIOUS
  <1>2. ASSUME NEW d \in 0..(m - c) - 1, d \in H PROVE d + 1 \in H
    <2>1. c + d + 1 \in c + 1..m /\ (c + d + 1) - 1 = c + d /\ c + (d + 1) = c + d + 1 /\ d <= m - c
      OBVIOUS
    <2>2. J[c + d] = J[c] /\ J[c] \o <<>> = J[c]
      BY <1>2, <2>1, ConcatEmptySeq
    <2>3. J[c + d + 1] = J[c + d] \o <<>>
      BY <2>1 DEF Idles
    <2>. QED BY <2>1, <2>2, <2>3
  <1>3. m - c \in H
    <2>. HIDE DEF H
    <2>1. H \in SUBSET Nat
      BY DEF H
    <2>0. m - c \in Nat
      OBVIOUS
    <2>2. \A d \in 0..m - c : d \in H
      BY <1>1, <1>2, <2>0, <2>1, UpTo
    <2>. QED BY <2>0, <2>2
  <1>4. c + (m - c) = m /\ m - c <= m - c
    OBVIOUS
  <1>. QED BY <1>3, <1>4

\* Between the end of a merged span and the start of the next no place is covered.
LEMMA Gap ==
  ASSUME NEW sel \in Seq(Span),
         \A k \in DOMAIN sel : sel[k].start < sel[k].end,
         \A j, k \in DOMAIN sel : j < k => sel[j].end <= sel[k].start,
         NEW k \in 0..Len(sel), NEW p \in Int, Cursor(sel, k + 1) <= p,
         k < Len(sel) => p < sel[k + 1].start
  PROVE  \A j \in DOMAIN sel : ~Inside(p, sel[j])
  <1>1. Len(sel) \in Nat /\ DOMAIN sel = 1..Len(sel)
    OBVIOUS
  <1>2. \A j \in DOMAIN sel : sel[j].start \in Int /\ sel[j].end \in Int
    BY SpanFields
  <1>3. SUFFICES ASSUME NEW j \in 1..Len(sel), sel[j].start <= p, p < sel[j].end PROVE FALSE
    BY <1>1 DEF Inside
  <1>4. CASE j <= k
    <2>1. k \in 1..Len(sel) /\ k # 0 /\ (k + 1) - 1 = k /\ k + 1 # 1
      BY <1>1, <1>4
    <2>2. sel[k].end <= p
      BY <2>1 DEF Cursor
    <2>3. j = k \/ sel[j].end <= sel[k].start
      BY <1>1, <1>4, <2>1
    <2>4. sel[k].start < sel[k].end
      BY <1>1, <2>1
    <2>5. sel[k].start \in Int /\ sel[k].end \in Int /\ sel[j].end \in Int
      BY <1>1, <1>2, <2>1
    <2>6. CASE j = k
      BY <1>3, <2>2, <2>5, <2>6
    <2>7. CASE sel[j].end <= sel[k].start
      BY <1>3, <2>2, <2>4, <2>5, <2>7
    <2>. QED BY <2>3, <2>6, <2>7
  <1>5. CASE j > k
    <2>1. k < Len(sel) /\ k + 1 \in 1..Len(sel) /\ k + 1 <= j
      BY <1>1, <1>5
    <2>2. p < sel[k + 1].start
      BY <2>1
    <2>3. j = k + 1 \/ sel[k + 1].end <= sel[j].start
      BY <1>1, <2>1
    <2>4. sel[k + 1].start < sel[k + 1].end
      BY <1>1, <2>1
    <2>5. sel[k + 1].start \in Int /\ sel[k + 1].end \in Int /\ sel[j].start \in Int
      BY <1>1, <1>2, <2>1
    <2>6. CASE j = k + 1
      BY <1>3, <2>2, <2>5, <2>6
    <2>7. CASE sel[k + 1].end <= sel[j].start
      BY <1>3, <2>2, <2>4, <2>5, <2>7
    <2>. QED BY <2>3, <2>6, <2>7
  <1>. QED BY <1>1, <1>4, <1>5

\* Merged spans that begin at one place are one.
LEMMA OneStart ==
  ASSUME NEW sel \in Seq(Span),
         \A k \in DOMAIN sel : sel[k].start < sel[k].end,
         \A j, k \in DOMAIN sel : j < k => sel[j].end <= sel[k].start,
         NEW j \in DOMAIN sel, NEW k \in DOMAIN sel, sel[j].start <= sel[k].start, sel[k].start < sel[j].end
  PROVE  j = k
  <1>1. j \in Int /\ k \in Int
    OBVIOUS
  <1>2. /\ sel[j].start \in Int /\ sel[j].end \in Int /\ sel[k].start \in Int /\ sel[k].end \in Int
        /\ sel[j].start < sel[j].end /\ sel[k].start < sel[k].end
    BY SpanFields
  <1>3. (j < k => sel[j].end <= sel[k].start) /\ (k < j => sel[k].end <= sel[j].start)
    OBVIOUS
  <1>4. ~(j < k) /\ ~(k < j)
    BY <1>2, <1>3
  <1>. QED BY <1>1, <1>4

\* What stands at the places of a gap, at a start, and behind one.
LEMMA CellsOfGroups ==
  ASSUME NEW text, NEW sel \in Seq(Span),
         \A k \in DOMAIN sel : sel[k].start < sel[k].end,
         \A j, k \in DOMAIN sel : j < k => sel[j].end <= sel[k].start
  PROVE  /\ \A i \in Int : (\A j \in DOMAIN sel : ~Inside(i - 1, sel[j]))
                             => CellAt(text, sel, i) = IF i > Len(text) THEN <<>> ELSE <<text[i]>>
         /\ \A k \in DOMAIN sel : CellAt(text, sel, sel[k].start + 1) = <<Placeholder(sel[k])>>
         /\ \A k \in DOMAIN sel, i \in Int :
              sel[k].start + 1 < i /\ i <= sel[k].end => CellAt(text, sel, i) = <<>>
  <1>1. \A k \in DOMAIN sel : sel[k].start \in Int /\ sel[k].end \in Int
    BY SpanFields
  <1>2. ASSUME NEW i \in Int, \A j \in DOMAIN sel : ~Inside(i - 1, sel[j])
        PROVE  CellAt(text, sel, i) = IF i > Len(text) THEN <<>> ELSE <<text[i]>>
    <2>1. ASSUME NEW k \in DOMAIN sel, sel[k].start = i - 1 PROVE FALSE
      <3>1. ~Inside(i - 1, sel[k]) /\ sel[k].start < sel[k].end
        BY <1>2
      <3>. QED BY <1>1, <2>1, <3>1 DEF Inside
    <2>. QED BY <1>2, <2>1 DEF CellAt
  <1>3. ASSUME NEW k \in DOMAIN sel PROVE CellAt(text, sel, sel[k].start + 1) = <<Placeholder(sel[k])>>
    <2>. DEFINE a == sel[k].start
                c == CHOOSE j \in DOMAIN sel : sel[j].start = (a + 1) - 1
    <2>1. (a + 1) - 1 = a
      BY <1>1
    <2>2. c \in DOMAIN sel /\ sel[c].start = a
      BY <2>1
    <2>3. c = k
      <3>. HIDE DEF c
      <3>1. sel[c].start <= sel[k].start /\ sel[k].start < sel[c].end
        BY <1>1, <2>2
      <3>. QED BY <2>2, <3>1, OneStart
    <2>4. CellAt(text, sel, a + 1) = <<Placeholder(sel[c])>>
      BY <2>1 DEF CellAt
    <2>. HIDE DEF c
    <2>. QED BY <2>3, <2>4
  <1>4. ASSUME NEW k \in DOMAIN sel, NEW i \in Int, sel[k].start + 1 < i, i <= sel[k].end
        PROVE  CellAt(text, sel, i) = <<>>
    <2>1. Inside(i - 1, sel[k])
      BY <1>1, <1>4 DEF Inside
    <2>2. ASSUME NEW j \in DOMAIN sel, sel[j].start = i - 1 PROVE FALSE
      <3>1. sel[k].start <= sel[j].start /\ sel[j].start < sel[k].end
        BY <1>1, <1>4, <2>2
      <3>2. k = j
        BY <3>1, OneStart
      <3>. QED BY <1>1, <1>4, <2>2, <3>2
    <2>. QED BY <2>1, <2>2 DEF CellAt
  <1>. QED BY <1>2, <1>3, <1>4

Apart(sel) ==
    /\ \A k \in DOMAIN sel : 0 <= sel[k].start /\ sel[k].start < sel[k].end
    /\ \A j, k \in DOMAIN sel : j < k => sel[j].end <= sel[k].start

\* A place of 0..n is the first, the last, or between the two.
LEMMA FirstLastOrBetween ==
  ASSUME NEW n \in Nat, NEW k \in 0..n
  PROVE  k = 0 \/ k = n \/ (k \in 1..n /\ n \in 1..n /\ k < n)
  OBVIOUS

\* The cursor stands before the next span and moves to its end.
LEMMA CursorMoves ==
  ASSUME NEW sel \in Seq(Span), Apart(sel)
  PROVE  /\ Cursor(sel, 1) = 0
         /\ \A k \in 0..Len(sel) : Cursor(sel, k + 1) \in Nat /\ Cursor(sel, k + 1) <= Cursor(sel, Len(sel) + 1)
         /\ \A k \in 0..Len(sel) - 1 :
              /\ sel[k + 1].start \in Nat /\ Cursor(sel, k + 1) <= sel[k + 1].start
              /\ sel[k + 1].start < sel[k + 1].end /\ Cursor(sel, (k + 1) + 1) = sel[k + 1].end
  <1>. DEFINE n == Len(sel)
              c(k) == Cursor(sel, k + 1)
  <1>1. n \in Nat /\ DOMAIN sel = 1..n
    OBVIOUS
  <1>2. \A k \in 1..n : sel[k].start \in Nat /\ sel[k].end \in Nat /\ sel[k].start < sel[k].end
    <2>1. \A k \in 1..n : sel[k].start \in Int /\ sel[k].end \in Int
      BY <1>1, SpanFields
    <2>. QED BY <1>1, <2>1 DEF Apart
  <1>3. c(0) = 0 /\ Cursor(sel, 1) = 0
    BY DEF Cursor
  <1>4. \A k \in 1..n : c(k) = sel[k].end
    <2>1. \A k \in 1..n : k + 1 # 1 /\ (k + 1) - 1 = k
      BY <1>1
    <2>. QED BY <2>1 DEF Cursor
  <1>. HIDE DEF c
  <1>5. \A k \in 0..n : k = 0 \/ k \in 1..n
    BY <1>1
  <1>6. \A k \in 0..n : c(k) \in Nat
    BY <1>2, <1>3, <1>4, <1>5
  <1>7. ASSUME NEW k \in 0..n PROVE c(k) <= c(n)
    <2>1. k = 0 \/ k = n \/ (k \in 1..n /\ n \in 1..n /\ k < n)
      <3>. HIDE DEF n
      <3>. QED BY <1>1, FirstLastOrBetween
    <2>2. CASE k \in 1..n /\ n \in 1..n /\ k < n
      <3>1. sel[k].end <= sel[n].start
        BY <1>1, <2>2 DEF Apart
      <3>2. sel[n].start < sel[n].end /\ sel[k].end \in Nat /\ sel[n].start \in Nat /\ sel[n].end \in Nat
        BY <1>2, <2>2
      <3>3. c(k) = sel[k].end /\ c(n) = sel[n].end
        BY <1>4, <2>2
      <3>. QED BY <3>1, <3>2, <3>3
    <2>3. c(k) \in Nat /\ n \in 0..n /\ c(n) \in Nat
      BY <1>1, <1>6
    <2>4. CASE k = 0 \/ k = n
      BY <1>3, <2>3, <2>4
    <2>. QED BY <2>1, <2>2, <2>4
  <1>8. ASSUME NEW k \in 0..n - 1 PROVE c(k) <= sel[k + 1].start
    <2>1. k + 1 \in 1..n /\ k \in 0..n /\ k < k + 1
      BY <1>1
    <2>2. CASE k = 0
      BY <1>2, <1>3, <2>1, <2>2
    <2>3. CASE k \in 1..n
      BY <1>1, <1>4, <2>1, <2>3 DEF Apart
    <2>. QED BY <1>5, <2>1, <2>2, <2>3
  <1>9. \A k \in 0..n - 1 : k + 1 \in 1..n
    BY <1>1
  <1>10. \A k \in 0..n - 1 : /\ sel[k + 1].start \in Nat /\ sel[k + 1].start < sel[k + 1].end
                             /\ c(k + 1) = sel[k + 1].end
    BY <1>2, <1>4, <1>9
  <1>. QED BY <1>3, <1>6, <1>7, <1>8, <1>10 DEF c

Three(S, u, v, w) == u \in Seq(S) /\ v \in Seq(S) /\ w \in Seq(S)

\* Three sequences may be joined in either order.
LEMMA Associates ==
  ASSUME NEW S, NEW u, NEW v, NEW w, Three(S, u, v, w)
  PROVE  (u \o v) \o w = u \o (v \o w)
  BY ConcatAssociative DEF Three

\* From c to a the places are copied, the next adds w, and those up to e nothing.
GroupOf(S, J, text, c, a, e, w) ==
    /\ text \in Seq(S) /\ w \in Seq(S) /\ J[c] \in Seq(S) /\ J[a + 1] \in Seq(S)
    /\ c \in Nat /\ a \in Nat /\ e \in Nat /\ c <= a /\ a < e
    /\ Copies(J, text, c, a) /\ J[a + 1] = J[a] \o w /\ Idles(J, a + 1, e)

Cat(u, v) == u \o v
Follows(J, c, e, x) == J[e] = J[c] \o x

\* The places of one group: what is copied before it, and its placeholder.
LEMMA JoinGroup ==
  ASSUME NEW S, NEW J, NEW text, NEW c, NEW a, NEW e, NEW w, GroupOf(S, J, text, c, a, e, w)
  PROVE  Follows(J, c, e, Cat(Slice(text, c, a), w))
  <1>1. J[a] = J[c] \o Slice(text, c, a)
    BY CopiesSlice DEF GroupOf
  <1>2. J[e] = J[a + 1]
    <2>1. a + 1 \in Nat /\ a + 1 <= e
      BY DEF GroupOf
    <2>2. e \in Nat /\ Idles(J, a + 1, e) /\ J[a + 1] \in Seq(S)
      BY DEF GroupOf
    <2>. QED BY <2>1, <2>2, AddsNothing
  <1>. DEFINE u == J[c]
              v == Slice(text, c, a)
  <1>3. Three(S, u, v, w)
    BY SliceTyped DEF GroupOf, Three
  <1>4. J[a + 1] = J[a] \o w
    BY DEF GroupOf
  <1>5. J[e] = (u \o v) \o w
    BY <1>1, <1>2, <1>4
  <1>. HIDE DEF u, v
  <1>6. (u \o v) \o w = u \o (v \o w)
    BY <1>3, Associates
  <1>. QED BY <1>5, <1>6 DEF u, v, Follows, Cat

JoinsCells(J, text, sel, last) ==
    /\ J \in [0..last -> Seq(Cell)] /\ J[0] = <<>>
    /\ \A i \in 1..last : J[i] = J[i - 1] \o CellAt(text, sel, i)

\* What the places of a gap add, and those of a group.
LEMMA JoinedPlaces ==
  ASSUME NEW text \in Seq(Cell), NEW sel \in Seq(Span), Apart(sel),
         NEW last \in Nat, Cursor(sel, Len(sel) + 1) <= last, NEW J, JoinsCells(J, text, sel, last)
  PROVE  /\ \A k \in 0..Len(sel), m \in Nat :
              m <= last /\ (k < Len(sel) => m <= sel[k + 1].start) => Copies(J, text, Cursor(sel, k + 1), m)
         /\ \A k \in 1..Len(sel) : J[sel[k].start + 1] = J[sel[k].start] \o <<Placeholder(sel[k])>>
         /\ \A k \in 1..Len(sel) : Idles(J, sel[k].start + 1, sel[k].end)
  <1>1. Len(sel) \in Nat /\ DOMAIN sel = 1..Len(sel)
    OBVIOUS
  <1>2. \A i \in 1..last : J[i] = J[i - 1] \o CellAt(text, sel, i)
    BY DEF JoinsCells
  <1>3. /\ \A k \in DOMAIN sel : sel[k].start < sel[k].end
        /\ \A j, k \in DOMAIN sel : j < k => sel[j].end <= sel[k].start
    BY DEF Apart
  <1>4. ASSUME NEW k \in 0..Len(sel), NEW m \in Nat, m <= last, k < Len(sel) => m <= sel[k + 1].start,
               NEW i \in Cursor(sel, k + 1) + 1..m
        PROVE  J[i] = J[i - 1] \o (IF i > Len(text) THEN <<>> ELSE <<text[i]>>)
    <2>1. Cursor(sel, k + 1) \in Nat
      BY CursorMoves
    <2>2. i \in 1..last /\ i \in Int /\ i - 1 \in Int /\ Cursor(sel, k + 1) <= i - 1 /\ i <= m
      BY <1>4, <2>1
    <2>3. k < Len(sel) => i - 1 < sel[k + 1].start
      <3>1. k < Len(sel) => k \in 0..Len(sel) - 1
        BY <1>1
      <3>2. k < Len(sel) => sel[k + 1].start \in Nat
        BY <3>1, CursorMoves
      <3>. QED BY <1>4, <2>2, <3>2
    <2>4. \A j \in DOMAIN sel : ~Inside(i - 1, sel[j])
      BY <1>3, <2>2, <2>3, Gap
    <2>5. CellAt(text, sel, i) = IF i > Len(text) THEN <<>> ELSE <<text[i]>>
      BY <1>3, <2>2, <2>4, CellsOfGroups
    <2>. QED BY <1>2, <2>2, <2>5
  <1>5. ASSUME NEW k \in 1..Len(sel) PROVE sel[k].start \in Nat /\ sel[k].end \in Nat /\ sel[k].start < sel[k].end /\ sel[k].end <= last
    <2>1. k - 1 \in 0..Len(sel) - 1 /\ (k - 1) + 1 = k /\ k \in 0..Len(sel) /\ Len(sel) \in 0..Len(sel)
      BY <1>1
    <2>2. sel[k].start \in Nat /\ sel[k].start < sel[k].end /\ Cursor(sel, k + 1) = sel[k].end
      BY <2>1, CursorMoves
    <2>3. Cursor(sel, k + 1) \in Nat /\ Cursor(sel, k + 1) <= Cursor(sel, Len(sel) + 1) /\ Cursor(sel, Len(sel) + 1) \in Nat
      BY <2>1, CursorMoves
    <2>. QED BY <2>2, <2>3
  <1>6. ASSUME NEW k \in 1..Len(sel) PROVE J[sel[k].start + 1] = J[sel[k].start] \o <<Placeholder(sel[k])>>
    <2>1. sel[k].start + 1 \in 1..last /\ (sel[k].start + 1) - 1 = sel[k].start
      BY <1>5
    <2>2. CellAt(text, sel, sel[k].start + 1) = <<Placeholder(sel[k])>>
      BY <1>1, <1>3, CellsOfGroups
    <2>. QED BY <1>2, <2>1, <2>2
  <1>7. ASSUME NEW k \in 1..Len(sel), NEW i \in (sel[k].start + 1) + 1..sel[k].end
        PROVE  J[i] = J[i - 1] \o <<>>
    <2>1. i \in 1..last /\ i \in Int /\ sel[k].start + 1 < i /\ i <= sel[k].end
      BY <1>5
    <2>2. k \in DOMAIN sel
      BY <1>1
    <2>3. CellAt(text, sel, i) = <<>>
      BY <1>3, <2>1, <2>2, CellsOfGroups
    <2>. QED BY <1>2, <2>1, <2>3
  <1>8. \A k \in 0..Len(sel), m \in Nat :
          m <= last /\ (k < Len(sel) => m <= sel[k + 1].start) => Copies(J, text, Cursor(sel, k + 1), m)
    BY <1>4 DEF Copies
  <1>9. \A k \in 1..Len(sel) : Idles(J, sel[k].start + 1, sel[k].end)
    BY <1>7 DEF Idles
  <1>. QED BY <1>6, <1>8, <1>9

\* One group adds what _replace puts for it.
LEMMA GroupJoins ==
  ASSUME NEW text \in Seq(Cell), NEW sel \in Seq(Span), Apart(sel),
         NEW last \in Nat, Cursor(sel, Len(sel) + 1) <= last, NEW J, JoinsCells(J, text, sel, last),
         NEW k \in 0..Len(sel) - 1
  PROVE  Follows(J, Cursor(sel, k + 1), Cursor(sel, (k + 1) + 1), UpToSpan(text, sel, k + 1))
  <1>. SUFFICES ASSUME NEW b, b = Cursor(sel, k + 1), NEW a, a = sel[k + 1].start, NEW e, e = sel[k + 1].end,
                       NEW P, P = Placeholder(sel[k + 1]), NEW w, w = <<P>>
                PROVE  Follows(J, b, e, Append(Slice(text, b, a), P))
    <2>1. Cursor(sel, (k + 1) + 1) = sel[k + 1].end
      BY CursorMoves
    <2>2. (k + 1) - 1 + 1 = k + 1 /\ k + 1 - 1 = k
      OBVIOUS
    <2>. QED BY <2>1, <2>2 DEF UpToSpan
  <1>1. k \in 0..Len(sel) /\ k + 1 \in 1..Len(sel) /\ Len(sel) \in 0..Len(sel)
    OBVIOUS
  <1>2. a \in Nat /\ b <= a /\ a < e /\ Cursor(sel, (k + 1) + 1) = e
    BY CursorMoves
  <1>3. b \in Nat /\ e \in Nat /\ e <= last
    <2>1. b \in Nat
      BY <1>1, CursorMoves
    <2>2. e \in Nat /\ e <= Cursor(sel, Len(sel) + 1) /\ Cursor(sel, Len(sel) + 1) \in Nat
      <3>1. k + 1 \in 0..Len(sel)
        BY <1>1
      <3>. QED BY <1>1, <1>2, <3>1, CursorMoves
    <2>. QED BY <2>1, <2>2
  <1>4. P \in Cell
    <2>1. sel[k + 1] \in Span
      BY <1>1
    <2>. QED BY <2>1, SpanAssumption DEF SpanAssumption, Placeholder, Span, Cell
  <1>5. J[b] \in Seq(Cell) /\ J[a + 1] \in Seq(Cell)
    <2>1. b \in 0..last /\ a + 1 \in 0..last
      BY <1>2, <1>3, SMTT(20)
    <2>. QED BY <2>1 DEF JoinsCells
  <1>6. Copies(J, text, b, a)
    <2>1. a <= last /\ a <= sel[k + 1].start
      BY <1>2, <1>3
    <2>. QED BY <1>1, <1>2, <2>1, JoinedPlaces
  <1>7. J[a + 1] = J[a] \o w
    BY <1>1, JoinedPlaces
  <1>8. Idles(J, a + 1, e)
    BY <1>1, JoinedPlaces
  <1>9. w \in Seq(Cell)
    BY <1>4, OneTyped
  <1>10. GroupOf(Cell, J, text, b, a, e, w)
    BY <1>2, <1>3, <1>5, <1>6, <1>7, <1>8, <1>9 DEF GroupOf
  <1>11. Follows(J, b, e, Cat(Slice(text, b, a), w))
    BY <1>10, JoinGroup
  <1>12. Append(Slice(text, b, a), P) = Cat(Slice(text, b, a), w)
    <2>1. ASSUME NEW c \in Nat, NEW d \in Nat PROVE Slice(text, c, d) \in Seq(Cell)
      BY SliceTyped
    <2>2. Slice(text, b, a) \in Seq(Cell)
      BY <1>2, <1>3, <2>1
    <2>. QED BY <1>4, <2>2, AppendIsConcat DEF Cat
  <1>. QED BY <1>11, <1>12

\* Joined up to the end of the last span, or further, what stands at the places
\* is what _replace makes.
LEMMA PlacesJoin ==
  ASSUME NEW text \in Seq(Cell), NEW sel \in Seq(Span), Apart(sel),
         NEW last \in Nat, Len(text) <= last, Cursor(sel, Len(sel) + 1) <= last,
         NEW J, JoinsCells(J, text, sel, last)
  PROVE  J[last] = Replaced(text, sel)
  <1>. DEFINE n == Len(sel)
              c(k) == Cursor(sel, k + 1)
              rest == Slice(text, c(n), Len(text))
              Grouped(K) == \A k \in 1..n : K[k] = K[k - 1] \o UpToSpan(text, sel, k)
  <1>1. n \in Nat /\ n \in 0..n
    OBVIOUS
  <1>2. PICK K \in [0..n -> Seq(Cell)] : K[0] = <<>> /\ Grouped(K) /\ Replaced(text, sel) = K[n] \o rest
    BY ReplacedJoins DEF Apart
  <1>3. J[0] = <<>> /\ \A i \in 0..last : J[i] \in Seq(Cell)
    BY DEF JoinsCells
  <1>4. \A k \in 0..n : c(k) \in Nat /\ c(k) <= last
    <2>1. \A k \in 0..n : c(k) \in Nat /\ c(k) <= c(n)
      BY CursorMoves
    <2>. HIDE DEF c
    <2>2. c(n) <= last
      BY DEF c
    <2>. QED BY <1>1, <2>1, <2>2
  <1>. DEFINE Agree(k) == J[c(k)] = K[k]
              H == {k \in Nat : k <= n => Agree(k)}
  <1>5. 0 \in H
    <2>1. Agree(0)
      BY <1>2, <1>3, CursorMoves
    <2>. HIDE DEF Agree
    <2>. QED BY <2>1
  <1>. HIDE DEF Grouped, rest
  <1>6. ASSUME NEW k \in 0..n - 1, k \in H PROVE k + 1 \in H
    <2>1. k + 1 \in 1..n /\ (k + 1) - 1 = k /\ k <= n
      BY <1>1
    <2>2. K[k + 1] = K[k] \o UpToSpan(text, sel, k + 1)
      BY <1>2, <2>1 DEF Grouped
    <2>3. Agree(k)
      <3>. HIDE DEF Agree
      <3>. QED BY <1>6, <2>1
    <2>4. Agree(k + 1)
      <3>1. Follows(J, c(k), c(k + 1), UpToSpan(text, sel, k + 1))
        BY GroupJoins
      <3>. QED BY <2>2, <2>3, <3>1 DEF Follows
    <2>. HIDE DEF Agree
    <2>. QED BY <2>4
  <1>7. Agree(n)
    <2>. HIDE DEF Agree
    <2>1. H \in SUBSET Nat
      OBVIOUS
    <2>. HIDE DEF H
    <2>2. \A k \in 0..n : k \in H
      BY <1>1, <1>5, <1>6, <2>1, UpTo
    <2>. QED BY <1>1, <2>2 DEF H
  <1>8. J[last] = J[c(n)] \o Slice(text, c(n), last)
    <2>3. Copies(J, text, c(n), last)
      <3>1. ~(n < n) /\ last <= last
        BY <1>1
      <3>. QED BY <1>1, <3>1, JoinedPlaces
    <2>. HIDE DEF c
    <2>4. J[c(n)] \in Seq(Cell) /\ c(n) \in Nat /\ c(n) <= last
      <3>1. c(n) \in Nat /\ c(n) <= last
        BY <1>1, <1>4
      <3>2. c(n) \in 0..last
        BY <3>1
      <3>. QED BY <1>3, <3>1, <3>2
    <2>5. ASSUME NEW e, e = c(n) PROVE J[last] = J[e] \o Slice(text, e, last)
      <3>1. Copies(J, text, e, last) /\ J[e] \in Seq(Cell) /\ e \in Nat /\ e <= last
        BY <2>3, <2>4, <2>5
      <3>. QED BY <1>1, <3>1, CopiesSlice
    <2>. QED BY <2>5
  <1>9. Slice(text, c(n), last) = rest
    <2>1. (IF last < Len(text) THEN last ELSE Len(text)) = Len(text) /\ ~(Len(text) < Len(text))
      OBVIOUS
    <2>. QED BY <2>1 DEF Slice, rest
  <1>. HIDE DEF c
  <1>. QED BY <1>2, <1>7, <1>8, <1>9

\* What a merge is to make of a set of spans: groups, apart.
GroupsOf(sel, found) ==
    /\ Apart(sel) /\ Nested(sel, found) /\ Connected(sel, found) /\ Headed(sel, found, found)
    /\ \A t \in found : t.start < t.end

\* The places of the groups are those of the spans.
LEMMA GroupPlaces ==
  ASSUME NEW found \in SUBSET Span, NEW sel \in Seq(Span), GroupsOf(sel, found), NEW p \in Int
  PROVE  (\E s \in found : Inside(p, s)) <=> (\E k \in DOMAIN sel : Inside(p, sel[k]))
  <1>1. \A s \in found : s.start \in Int /\ s.end \in Int
    BY SpanIntegers
  <1>2. \A k \in DOMAIN sel : sel[k].start \in Int /\ sel[k].end \in Int
    BY SpanFields
  <1>3. ASSUME NEW s \in found, Inside(p, s) PROVE \E k \in DOMAIN sel : Inside(p, sel[k])
    <2>1. PICK k \in DOMAIN sel : sel[k].start <= s.start /\ s.end <= sel[k].end
      BY DEF GroupsOf, Nested
    <2>. QED BY <1>1, <1>2, <1>3, <2>1 DEF Inside
  <1>4. ASSUME NEW k \in DOMAIN sel, Inside(p, sel[k]) PROVE \E s \in found : Inside(p, s)
    <2>1. CASE p = sel[k].start
      <3>1. PICK h \in found : h.start = sel[k].start
        BY DEF GroupsOf, Headed
      <3>2. h.start < h.end
        BY DEF GroupsOf
      <3>. QED BY <1>1, <2>1, <3>1, <3>2 DEF Inside
    <2>2. CASE p # sel[k].start
      <3>1. sel[k].start < p /\ p < sel[k].end
        BY <1>2, <1>4, <2>2 DEF Inside
      <3>2. PICK u \in found : u.start < p /\ p < u.end
        BY <3>1 DEF GroupsOf, Connected
      <3>. QED BY <1>1, <3>2 DEF Inside
    <2>. QED BY <2>1, <2>2
  <1>. QED BY <1>3, <1>4

\* The starts of the groups are the starts no other span runs over.
LEMMA GroupStarts ==
  ASSUME NEW found \in SUBSET Span, NEW sel \in Seq(Span), GroupsOf(sel, found), NEW p
  PROVE  p \in {s.start : s \in {t \in found : ~\E u \in found : u.start < t.start /\ t.start < u.end}}
           <=> \E k \in DOMAIN sel : sel[k].start = p
  <1>1. \A s \in found : s.start \in Int /\ s.end \in Int /\ s.start < s.end
    BY SpanIntegers DEF GroupsOf
  <1>2. \A k \in DOMAIN sel : sel[k].start \in Int /\ sel[k].end \in Int
    BY SpanFields
  <1>3. ASSUME NEW t \in found, ~\E u \in found : u.start < t.start /\ t.start < u.end
        PROVE  \E k \in DOMAIN sel : sel[k].start = t.start
    <2>1. PICK k \in DOMAIN sel : sel[k].start <= t.start /\ t.end <= sel[k].end
      BY DEF GroupsOf, Nested
    <2>2. ~(sel[k].start < t.start /\ t.start < sel[k].end)
      BY <1>1, <1>3 DEF GroupsOf, Connected
    <2>. QED BY <1>1, <1>2, <2>1, <2>2
  <1>4. ASSUME NEW k \in DOMAIN sel
        PROVE  \E t \in found : t.start = sel[k].start /\ ~\E u \in found : u.start < t.start /\ t.start < u.end
    <2>1. PICK h \in found : h.start = sel[k].start
      BY DEF GroupsOf, Headed
    <2>2. ASSUME NEW u \in found, u.start < h.start, h.start < u.end PROVE FALSE
      <3>1. PICK j \in DOMAIN sel : sel[j].start <= u.start /\ u.end <= sel[j].end
        BY DEF GroupsOf, Nested
      <3>2. sel[j].start <= sel[k].start /\ sel[k].start < sel[j].end /\ sel[j].start # sel[k].start
        BY <1>1, <1>2, <2>1, <2>2, <3>1
      <3>3. j = k
        BY <3>2, OneStart DEF GroupsOf, Apart
      <3>. QED BY <3>2, <3>3
    <2>. QED BY <2>1, <2>2
  <1>. QED BY <1>3, <1>4

\* The first span at the start of a group has the group's category.
LEMMA GroupLabel ==
  ASSUME NEW found \in SUBSET Span, NEW sel \in Seq(Span), GroupsOf(sel, found), NEW k \in DOMAIN sel
  PROVE  Placeholder(CHOOSE s \in found : s.start = sel[k].start
                                          /\ \A t \in found : t.start = sel[k].start => Before(s, t))
           = Placeholder(sel[k])
  <1>. DEFINE First(s) == s.start = sel[k].start /\ \A t \in found : t.start = sel[k].start => Before(s, t)
              f == CHOOSE s \in found : First(s)
  <1>1. PICK h \in found : h.start = sel[k].start /\ h.category = sel[k].category /\ Leads(h, found)
    BY DEF GroupsOf, Headed
  <1>2. First(h)
    BY <1>1 DEF Leads
  <1>3. f \in found /\ First(f)
    BY <1>2
  <1>. HIDE DEF f
  <1>4. Before(f, h) /\ Before(h, f) /\ f.start = h.start
    BY <1>1, <1>2, <1>3
  <1>5. /\ f.start \in Int /\ f.end \in Int /\ f.category \in Int
        /\ h.start \in Int /\ h.end \in Int /\ h.category \in Int
    BY <1>3, SpanIntegers
  <1>6. f.category = h.category
    BY <1>4, <1>5 DEF Before
  <1>7. Placeholder(f) = Placeholder(sel[k])
    BY <1>1, <1>6 DEF Placeholder
  <1>. QED BY <1>7 DEF f

\* The last place the reference looks at, and the merge too.
LEMMA LastPlace ==
  ASSUME NEW found \in SUBSET Span, NEW sel \in Seq(Span), GroupsOf(sel, found), NEW n \in Nat
  PROVE  LET last == Max({n} \cup {s.end : s \in found})
         IN  last \in Nat /\ n <= last /\ Cursor(sel, Len(sel) + 1) <= last
  <1>. DEFINE S == {n} \cup {s.end : s \in found}
              c == Cursor(sel, Len(sel) + 1)
              m == IF c > n THEN c ELSE n
  <1>1. Len(sel) \in Nat /\ DOMAIN sel = 1..Len(sel) /\ Len(sel) \in 0..Len(sel) /\ Apart(sel)
    BY DEF GroupsOf
  <1>2. c \in Nat
    BY <1>1, CursorMoves
  <1>3. \A s \in found : s.end \in Int /\ s.start \in Int
    BY SpanIntegers
  <1>4. \A k \in DOMAIN sel : sel[k].end \in Int /\ sel[k].end <= c
    <2>1. SUFFICES ASSUME NEW k \in 1..Len(sel) PROVE sel[k].end \in Int /\ sel[k].end <= c
      BY <1>1
    <2>2. k + 1 # 1 /\ (k + 1) - 1 = k /\ k \in 0..Len(sel)
      BY <1>1
    <2>3. Cursor(sel, k + 1) = sel[k].end
      BY <2>2 DEF Cursor
    <2>. QED BY <1>1, <2>2, <2>3, CursorMoves
  <1>5. \A s \in found : s.end <= c
    <2>1. SUFFICES ASSUME NEW s \in found PROVE s.end <= c
      OBVIOUS
    <2>2. PICK k \in DOMAIN sel : s.end <= sel[k].end
      BY DEF GroupsOf, Nested
    <2>3. sel[k].end \in Int /\ sel[k].end <= c /\ s.end \in Int
      BY <1>3, <1>4
    <2>. HIDE DEF c
    <2>. QED BY <1>2, <2>2, <2>3
  <1>6. c > n => c \in {s.end : s \in found}
    <2>1. SUFFICES ASSUME c > n PROVE \E s \in found : s.end = c
      OBVIOUS
    <2>2. Len(sel) \in DOMAIN sel /\ c = sel[Len(sel)].end
      <3>1. Len(sel) # 0
        <4>1. Len(sel) = 0 => c = 0
          BY DEF Cursor
        <4>. HIDE DEF c
        <4>. QED BY <2>1, <4>1
      <3>2. Len(sel) + 1 # 1 /\ (Len(sel) + 1) - 1 = Len(sel) /\ Len(sel) \in 1..Len(sel)
        BY <1>1, <3>1
      <3>. QED BY <1>1, <3>2 DEF Cursor
    <2>. HIDE DEF c
    <2>3. sel[Len(sel)].start < c /\ sel[Len(sel)].start \in Int
      BY <1>1, <2>2, SpanFields DEF Apart
    <2>4. Inside(c - 1, sel[Len(sel)])
      BY <1>2, <2>2, <2>3 DEF Inside
    <2>5. c - 1 \in Int
      BY <1>2
    <2>6. PICK s \in found : Inside(c - 1, s)
      BY <2>2, <2>4, <2>5, GroupPlaces
    <2>7. c - 1 < s.end /\ s.end <= c /\ s.end \in Int
      BY <1>3, <1>5, <2>6 DEF Inside
    <2>8. s.end = c
      BY <1>2, <2>7
    <2>. QED BY <2>8
  <1>. HIDE DEF c
  <1>7. m \in S /\ m \in Nat /\ n <= m /\ c <= m
    BY <1>2, <1>6
  <1>8. \A y \in S : m >= y
    <2>1. m >= n /\ m >= c
      BY <1>2
    <2>2. \A s \in found : m >= s.end
      <3>. HIDE DEF m
      <3>. QED BY <1>2, <1>3, <1>5, <1>7, <2>1
    <2>. HIDE DEF m
    <2>. QED BY <2>1, <2>2
  <1>9. \A y \in S : y \in Int
    BY <1>3
  <1>10. Max(S) \in S /\ \A y \in S : Max(S) >= y
    <2>. HIDE DEF S, m
    <2>. QED BY <1>7, <1>8 DEF Max
  <1>11. Max(S) = m
    <2>1. Max(S) >= m /\ m >= Max(S) /\ Max(S) \in Int /\ m \in Int
      <3>. HIDE DEF S, m
      <3>. QED BY <1>7, <1>8, <1>9, <1>10
    <2>. HIDE DEF S, m
    <2>. QED BY <2>1
  <1>. HIDE DEF S, m
  <1>12. Max(S) \in Nat /\ n <= Max(S) /\ c <= Max(S)
    BY <1>7, <1>11
  <1>. QED BY <1>12 DEF S, c

\* What stands at a place is a sequence of cells.
LEMMA CellAtTyped ==
  ASSUME NEW text \in Seq(Cell), NEW sel \in Seq(Span), NEW i \in Nat, i >= 1
  PROVE  CellAt(text, sel, i) \in Seq(Cell)
  <1>1. <<>> \in Seq(Cell) /\ \A y \in Cell : <<y>> \in Seq(Cell)
    BY OneTyped, EmptySeq
  <1>2. ASSUME \E k \in DOMAIN sel : sel[k].start = i - 1 PROVE CellAt(text, sel, i) \in Seq(Cell)
    <2>. DEFINE c == CHOOSE k \in DOMAIN sel : sel[k].start = i - 1
    <2>1. c \in DOMAIN sel
      BY <1>2
    <2>. HIDE DEF c
    <2>2. sel[c] \in Span
      BY <2>1, SpanFields
    <2>3. Placeholder(sel[c]) \in Cell
      BY <2>2, SpanAssumption DEF SpanAssumption, Placeholder, Span, Cell
    <2>4. CellAt(text, sel, i) = <<Placeholder(sel[c])>>
      BY <1>2 DEF CellAt, c
    <2>. QED BY <1>1, <2>3, <2>4
  <1>3. ASSUME ~\E k \in DOMAIN sel : sel[k].start = i - 1, i <= Len(text) PROVE text[i] \in Cell
    BY <1>3
  <1>4. i > Len(text) \/ i <= Len(text)
    OBVIOUS
  <1>5. CellAt(text, sel, i) = <<>> \/ (i <= Len(text) /\ CellAt(text, sel, i) = <<text[i]>>)
          \/ \E k \in DOMAIN sel : sel[k].start = i - 1
    BY <1>4 DEF CellAt
  <1>. QED BY <1>1, <1>2, <1>3, <1>5

\* _merge and _replace do what the reference asks, place by place.
LEMMA RedactedIsReplaced ==
  ASSUME NEW text \in Seq(Cell), NEW found \in SUBSET Span, NEW sel \in Seq(Span), GroupsOf(sel, found)
  PROVE  Redacted(text, found) = Replaced(text, sel)
  <1>. DEFINE starts == {s.start : s \in {t \in found : ~\E u \in found : u.start < t.start /\ t.start < u.end}}
              first(a) == CHOOSE s \in found : s.start = a /\ \A t \in found : t.start = a => Before(s, t)
              part(i) == IF i - 1 \in starts THEN <<Placeholder(first(i - 1))>>
                         ELSE IF i > Len(text) \/ \E s \in found : Inside(i - 1, s) THEN <<>>
                         ELSE <<text[i]>>
              last == Max({Len(text)} \cup {s.end : s \in found})
              q == [i \in 1..last |-> CellAt(text, sel, i)]
  <1>1. Redacted(text, found) = FlattenSeq([i \in 1..last |-> part(i)])
    BY DEF Redacted
  <1>2. ASSUME NEW i \in Int PROVE part(i) = CellAt(text, sel, i)
    <2>1. i - 1 \in starts <=> \E k \in DOMAIN sel : sel[k].start = i - 1
      <3>1. ASSUME NEW p PROVE p \in starts <=> \E k \in DOMAIN sel : sel[k].start = p
        BY GroupStarts
      <3>. HIDE DEF starts
      <3>. QED BY <3>1
    <2>. DEFINE c == CHOOSE k \in DOMAIN sel : sel[k].start = i - 1
    <2>2. ASSUME \E k \in DOMAIN sel : sel[k].start = i - 1 PROVE Placeholder(first(i - 1)) = Placeholder(sel[c])
      <3>1. c \in DOMAIN sel /\ sel[c].start = i - 1
        BY <2>2
      <3>. HIDE DEF c
      <3>2. Placeholder(first(sel[c].start)) = Placeholder(sel[c])
        BY <3>1, GroupLabel
      <3>. HIDE DEF first
      <3>. QED BY <3>1, <3>2
    <2>3. i - 1 \in Int
      OBVIOUS
    <2>4. (\E s \in found : Inside(i - 1, s)) <=> (\E k \in DOMAIN sel : Inside(i - 1, sel[k]))
      BY <2>3, GroupPlaces
    <2>. HIDE DEF first, starts
    <2>. QED BY <2>1, <2>2, <2>4 DEF CellAt
  <1>3. Len(text) \in Nat
    OBVIOUS
  <1>. HIDE DEF part
  <1>4. last \in Nat /\ Len(text) <= last /\ Cursor(sel, Len(sel) + 1) <= last
    BY <1>3, LastPlace
  <1>. HIDE DEF last
  <1>5. [i \in 1..last |-> part(i)] = q
    BY <1>2, <1>4
  <1>6. q \in Seq(Seq(Cell)) /\ Len(q) = last
    <2>1. \A i \in 1..last : CellAt(text, sel, i) \in Seq(Cell)
      BY <1>4, CellAtTyped
    <2>2. q \in [1..last -> Seq(Cell)]
      BY <2>1
    <2>. HIDE DEF q
    <2>. QED BY <1>4, <2>2
  <1>7. \A i \in 1..last : q[i] = CellAt(text, sel, i)
    OBVIOUS
  <1>. HIDE DEF q
  <1>8. PICK J \in [0..last -> Seq(Cell)] : /\ J[0] = <<>> /\ J[last] = FlattenSeq(q)
                                            /\ \A i \in 1..last : J[i] = J[i - 1] \o q[i]
    BY <1>6, FlattenJoins
  <1>9. JoinsCells(J, text, sel, last)
    BY <1>7, <1>8 DEF JoinsCells
  <1>10. J[last] = Replaced(text, sel)
    <2>1. Apart(sel)
      BY DEF GroupsOf
    <2>. QED BY <1>4, <1>9, <2>1, PlacesJoin
  <1>11. Redacted(text, found) = J[last]
    BY <1>1, <1>5, <1>8
  <1>. QED BY <1>10, <1>11

\* Once every span is taken, the merged ones are the groups of the segment's spans.
LEMMA MergeDone ==
  ASSUME TextInv, GroupInv, stage = "merge", todo = {}
  PROVE  /\ selected \in Seq(Span) /\ spans \in SUBSET Span /\ Head(segments).text \in Seq(Cell)
         /\ GroupsOf(selected, spans)
  <1>1. MergeInv /\ spans \ todo = spans
    BY DEF TextInv
  <1>2. selected \in Seq(Span) /\ spans \in SUBSET Span
    BY <1>1 DEF MergeInv, TextTypeOK
  <1>3. Head(segments).text \in Seq(Cell)
    <2>1. Head(segments) \in SegmentRec
      BY DEF TextInv, Parts
    <2>. QED BY <2>1 DEF SegmentRec
  <1>4. Apart(selected)
    <2>1. \A k \in DOMAIN selected : 0 <= selected[k].start /\ selected[k].start < selected[k].end
      BY MergedWithin DEF TextInv
    <2>. QED BY <1>1, <2>1 DEF Apart, MergeInv, Merged
  <1>5. \A t \in spans : t.start < t.end
    BY <1>1 DEF MergeInv, Nonempty
  <1>6. Nested(selected, spans) /\ Connected(selected, spans) /\ Headed(selected, spans, spans)
    BY <1>1 DEF GroupInv, Groups
  <1>. QED BY <1>2, <1>3, <1>4, <1>5, <1>6 DEF GroupsOf

\* So is RedactsExactly.
LEMMA GroupInvImplies == TextInv /\ GroupInv => RedactsExactly
  <1>1. SUFFICES ASSUME TextInv, GroupInv, stage = "merge", todo = {}
                 PROVE  Replaced(Head(segments).text, selected) = Redacted(Head(segments).text, spans)
    BY DEF RedactsExactly
  <1>. QED BY <1>1, MergeDone, RedactedIsReplaced

\* Before a text arrives.
LEMMA InitGroupInv == TextInit => GroupInv
  <1>1. TextInit => Nested(selected, spans \ todo) /\ Connected(selected, spans \ todo) /\ Headed(selected, spans \ todo, spans)
    <2>1. TextInit => selected = <<>> /\ spans \ todo = {}
      BY DEF TextInit
    <2>2. Nested(<<>>, {}) /\ Connected(<<>>, {}) /\ Headed(<<>>, {}, spans)
      BY NoGroups
    <2>. QED BY <2>1, <2>2
  <1>. QED BY <1>1 DEF TextInit, GroupInv, Groups

\* _merge and _replace, whatever the texts, the patterns and the detector: what
\* they make of a segment is its text cell by cell, with one placeholder for
\* every group of overlapping spans.
THEOREM ReplacementIsExact == TextSpec => []RedactsExactly
  <1>1. TextInit => TextInv /\ GroupInv
    BY InitTextInv, InitGroupInv
  <1>2. TextInv /\ GroupInv /\ [TextNext]_textVars => (TextInv /\ GroupInv)'
    BY NextTextInv, NextGroupInv DEF TextInv
  <1>3. TextInv /\ GroupInv => RedactsExactly
    BY GroupInvImplies
  <1>. QED BY <1>1, <1>2, <1>3, PTL DEF TextSpec

(***************************************************************************)
(* Counting.  How often a cell occurs in a text, and where replacing,      *)
(* joining and stripping leave that number.                                *)
(***************************************************************************)
Places(t, l) == {i \in DOMAIN t : t[i] = l}
Occurs(t, l) == Cardinality(Places(t, l))

\* A finite set of places moved along has as many elements.
LEMMA Moved ==
  ASSUME NEW A \in SUBSET Int, IsFiniteSet(A), NEW d \in Int, NEW B, B = {x + d : x \in A}
  PROVE  IsFiniteSet(B) /\ Cardinality(B) = Cardinality(A)
  <1>. DEFINE f == [x \in A |-> x + d]
  <1>1. f \in [A -> B] /\ \A x \in A : f[x] = x + d
    OBVIOUS
  <1>2. \A x, y \in A : x \in Int /\ y \in Int /\ (x + d = y + d => x = y)
    OBVIOUS
  <1>3. \A y \in B : \E x \in A : f[x] = y
    BY <1>1
  <1>. HIDE DEF f
  <1>4. f \in Bijection(A, B)
    <2>1. \A x, y \in A : f[x] = f[y] => x = y
      BY <1>1, <1>2
    <2>. QED BY <1>1, <1>3, <2>1 DEF Bijection, Injection, Surjection, IsInjective
  <1>5. ExistsBijection(A, B)
    BY <1>4 DEF ExistsBijection
  <1>. QED BY <1>5, FS_Bijection

\* The places of a cell are finitely many.
LEMMA PlacesFinite ==
  ASSUME NEW S, NEW t \in Seq(S), NEW l
  PROVE  IsFiniteSet(Places(t, l)) /\ Occurs(t, l) \in Nat /\ Places(t, l) \in SUBSET Int
  <1>1. DOMAIN t = 1..Len(t) /\ Len(t) \in Nat
    OBVIOUS
  <1>2. IsFiniteSet(1..Len(t))
    BY <1>1, FS_Interval
  <1>3. Places(t, l) \in SUBSET (1..Len(t))
    BY <1>1 DEF Places
  <1>4. IsFiniteSet(Places(t, l)) /\ Places(t, l) \in SUBSET Int
    BY <1>2, <1>3, FS_Subset
  <1>. QED BY <1>4, FS_CardinalityType DEF Occurs

\* u is the part of t behind place d, and every place of l lies in it.
HoldsAll(t, u, d, l) ==
    /\ \A i \in DOMAIN u : i + d \in DOMAIN t /\ t[i + d] = u[i]
    /\ \A j \in DOMAIN t : t[j] = l => j - d \in DOMAIN u

\* A part that holds every place of a cell holds it as often.
LEMMA OccursInPart ==
  ASSUME NEW t \in Seq(Cell), NEW u \in Seq(Cell), NEW d \in Int, NEW l, HoldsAll(t, u, d, l)
  PROVE  Occurs(u, l) = Occurs(t, l)
  <1>0. /\ \A i \in DOMAIN u : i + d \in DOMAIN t /\ t[i + d] = u[i]
        /\ \A j \in DOMAIN t : t[j] = l => j - d \in DOMAIN u
    BY DEF HoldsAll
  <1>1. DOMAIN t = 1..Len(t) /\ DOMAIN u = 1..Len(u)
    OBVIOUS
  <1>2. Places(t, l) = {x + d : x \in Places(u, l)}
    <2>1. ASSUME NEW j \in Places(t, l) PROVE \E x \in Places(u, l) : j = x + d
      <3>1. j \in DOMAIN t /\ t[j] = l /\ j \in Int
        BY <1>1 DEF Places
      <3>2. (j - d) + d = j
        BY <3>1
      <3>3. j - d \in Places(u, l)
        BY <1>0, <3>1, <3>2 DEF Places
      <3>. QED BY <3>2, <3>3
    <2>2. ASSUME NEW x \in Places(u, l) PROVE x + d \in Places(t, l)
      BY <1>0 DEF Places
    <2>. QED BY <2>1, <2>2
  <1>3. IsFiniteSet(Places(u, l)) /\ Places(u, l) \in SUBSET Int
    BY PlacesFinite
  <1>4. ASSUME NEW A, A = Places(u, l), NEW B, B = Places(t, l) PROVE Cardinality(B) = Cardinality(A)
    <2>1. A \in SUBSET Int /\ IsFiniteSet(A)
      BY <1>3, <1>4
    <2>2. B = {x + d : x \in A}
      BY <1>2, <1>4
    <2>. QED BY <2>1, <2>2, Moved
  <1>. QED BY <1>4 DEF Occurs

\* A cell occurs in two texts joined as often as in both together.
LEMMA OccursInBoth ==
  ASSUME NEW S, NEW t \in Seq(S), NEW u \in Seq(S), NEW l
  PROVE  Occurs(t \o u, l) = Occurs(t, l) + Occurs(u, l)
  <1>. DEFINE v == t \o u
              n == Len(t)
              A == Places(t, l)
              B == {x + n : x \in Places(u, l)}
  <1>1. n \in Nat /\ Len(u) \in Nat /\ DOMAIN t = 1..n /\ DOMAIN u = 1..Len(u)
    OBVIOUS
  <1>2. /\ DOMAIN v = 1..n + Len(u)
        /\ \A i \in 1..n : v[i] = t[i]
        /\ \A i \in 1..Len(u) : v[i + n] = u[i]
    <2>1. v \in Seq(S) /\ Len(v) = n + Len(u) /\ \A i \in 1..n + Len(u) : v[i] = IF i <= n THEN t[i] ELSE u[i - n]
      BY ConcatProperties
    <2>2. DOMAIN v = 1..n + Len(u)
      BY <2>1
    <2>. HIDE DEF v
    <2>3. ASSUME NEW i \in 1..n PROVE v[i] = t[i]
      <3>1. i \in 1..n + Len(u) /\ i <= n
        BY <1>1
      <3>. QED BY <2>1, <3>1
    <2>4. ASSUME NEW i \in 1..Len(u) PROVE v[i + n] = u[i]
      <3>1. i + n \in 1..n + Len(u) /\ ~(i + n <= n) /\ (i + n) - n = i
        BY <1>1
      <3>. QED BY <2>1, <3>1
    <2>. QED BY <2>2, <2>3, <2>4
  <1>. HIDE DEF v, n
  <1>3. Places(v, l) = A \cup B
    <2>1. ASSUME NEW j \in Places(v, l) PROVE j \in A \cup B
      <3>1. j \in 1..n + Len(u) /\ v[j] = l
        BY <1>2 DEF Places
      <3>2. CASE j <= n
        <4>1. j \in 1..n
          BY <1>1, <3>1, <3>2
        <4>. QED BY <1>1, <1>2, <3>1, <4>1 DEF Places
      <3>3. CASE ~(j <= n)
        <4>1. j - n \in 1..Len(u) /\ (j - n) + n = j
          BY <1>1, <3>1, <3>3
        <4>2. u[j - n] = l
          BY <1>2, <3>1, <4>1
        <4>3. j - n \in Places(u, l)
          BY <1>1, <4>1, <4>2 DEF Places
        <4>. QED BY <4>1, <4>3
      <3>. QED BY <3>2, <3>3
    <2>2. ASSUME NEW j \in A PROVE j \in Places(v, l)
      <3>1. j \in 1..n /\ t[j] = l
        BY <1>1 DEF Places
      <3>2. j \in 1..n + Len(u)
        BY <1>1, <3>1
      <3>. QED BY <1>2, <3>1, <3>2 DEF Places
    <2>3. ASSUME NEW x \in Places(u, l) PROVE x + n \in Places(v, l)
      <3>1. x \in 1..Len(u) /\ u[x] = l
        BY <1>1 DEF Places
      <3>2. x + n \in 1..n + Len(u)
        BY <1>1, <3>1
      <3>. QED BY <1>2, <3>1, <3>2 DEF Places
    <2>. QED BY <2>1, <2>2, <2>3
  <1>4. IsFiniteSet(A) /\ IsFiniteSet(Places(u, l)) /\ Places(u, l) \in SUBSET Int
    BY PlacesFinite
  <1>5. IsFiniteSet(B) /\ Cardinality(B) = Cardinality(Places(u, l))
    <2>. DEFINE P == Places(u, l)
    <2>1. B = {x + n : x \in P} /\ IsFiniteSet(P) /\ P \in SUBSET Int /\ n \in Int
      BY <1>1, <1>4
    <2>. HIDE DEF B, P
    <2>2. IsFiniteSet(B) /\ Cardinality(B) = Cardinality(P)
      BY <2>1, Moved
    <2>. QED BY <2>2 DEF P
  <1>6. A \cap B = {}
    <2>1. ASSUME NEW x \in Places(u, l) PROVE x + n \notin A
      <3>1. x \in 1..Len(u)
        BY <1>1 DEF Places
      <3>2. x + n \notin 1..n
        BY <1>1, <3>1
      <3>. QED BY <1>1, <3>2 DEF Places
    <2>. QED BY <2>1
  <1>. HIDE DEF A, B
  <1>7. Cardinality(A \cup B) = Cardinality(A) + Cardinality(B) - Cardinality(A \cap B)
    BY <1>4, <1>5, FS_Union
  <1>8. Cardinality(A \cap B) = 0 /\ Cardinality(A) \in Nat /\ Cardinality(B) \in Nat
    BY <1>4, <1>5, <1>6, FS_EmptySet, FS_CardinalityType
  <1>9. Cardinality(Places(v, l)) = Cardinality(A) + Cardinality(Places(u, l))
    BY <1>3, <1>5, <1>7, <1>8
  <1>. QED BY <1>9 DEF Occurs, A, v

\* What is stripped is blanks.
LEMMA OccursStripped ==
  ASSUME NEW t \in Seq(Cell), NEW l, l # "blank"
  PROVE  Occurs(Strip(t), l) = Occurs(t, l)
  <1>. DEFINE kept == {i \in DOMAIN t : t[i] # "blank"}
              a == Min(kept)
              b == Max(kept)
  <1>1. Len(t) \in Nat /\ DOMAIN t = 1..Len(t) /\ kept \in SUBSET (1..Len(t))
    OBVIOUS
  <1>2. CASE kept = {}
    <2>1. Strip(t) = <<>>
      BY <1>2 DEF Strip
    <2>2. Places(t, l) = {} /\ Places(<<>>, l) = {}
      BY <1>2 DEF Places
    <2>. QED BY <2>1, <2>2 DEF Occurs
  <1>3. CASE kept # {}
    <2>1. Strip(t) = SubSeq(t, a, b)
      BY <1>3 DEF Strip
    <2>2. /\ a \in kept /\ \A y \in kept : a <= y
          /\ b \in kept /\ \A y \in kept : b >= y
      <3>. HIDE DEF kept
      <3>. QED BY <1>1, <1>3, LeastAndGreatest
    <2>3. \A j \in DOMAIN t : t[j] = l => j \in kept
      OBVIOUS
    <2>. HIDE DEF a, b, kept
    <2>4. a \in 1..Len(t) /\ b \in 1..Len(t) /\ a <= b
      BY <1>1, <2>2
    <2>. DEFINE u == SubSeq(t, a, b)
    <2>5. u \in Seq(Cell) /\ Len(u) = b - a + 1 /\ \A i \in 1..b - a + 1 : u[i] = t[a + i - 1]
      <3>1. \A i \in a..b : i \in 1..Len(t)
        BY <2>4
      <3>2. a \in Int /\ b \in Int /\ \A i \in a..b : t[i] \in Cell
        BY <1>1, <2>4, <3>1
      <3>. QED BY <2>4, <3>2, SubSeqProperties
    <2>6. DOMAIN u = 1..b - a + 1
      BY <2>5
    <2>. HIDE DEF u
    <2>7. ASSUME NEW i \in DOMAIN u PROVE i + (a - 1) \in DOMAIN t /\ t[i + (a - 1)] = u[i]
      <3>1. i \in 1..b - a + 1 /\ i + (a - 1) = a + i - 1 /\ i + (a - 1) \in 1..Len(t)
        BY <1>1, <2>4, <2>6
      <3>. QED BY <1>1, <2>5, <3>1
    <2>8. ASSUME NEW j \in DOMAIN t, t[j] = l PROVE j - (a - 1) \in DOMAIN u
      <3>1. j \in kept /\ a <= j /\ j <= b /\ j \in Int
        BY <1>1, <2>2, <2>3, <2>4, <2>8
      <3>. QED BY <2>4, <2>6, <3>1
    <2>9. ASSUME NEW d \in Int, d = a - 1 PROVE Occurs(u, l) = Occurs(t, l)
      <3>1. \A i \in DOMAIN u : i + d \in DOMAIN t /\ t[i + d] = u[i]
        BY <2>7, <2>9
      <3>2. \A j \in DOMAIN t : t[j] = l => j - d \in DOMAIN u
        BY <2>8, <2>9
      <3>3. u \in Seq(Cell)
        BY <2>5
      <3>4. HoldsAll(t, u, d, l)
        BY <3>1, <3>2 DEF HoldsAll
      <3>. QED BY <2>9, <3>3, <3>4, OccursInPart
    <2>10. Occurs(u, l) = Occurs(t, l)
      <3>1. a - 1 \in Int
        BY <2>4
      <3>. QED BY <2>9, <3>1
    <2>. QED BY <2>1, <2>10 DEF u
  <1>. QED BY <1>2, <1>3

\* Cells nobody can take for a placeholder.
Free == Cell \ LabelSet

\* A label does not occur where no cell is one.
LEMMA OccursNowhere ==
  ASSUME NEW t \in Seq(Free), NEW l \in LabelSet
  PROVE  Occurs(t, l) = 0
  <1>1. ASSUME NEW i \in DOMAIN t PROVE t[i] # l
    BY DEF Free
  <1>2. Places(t, l) = {}
    BY <1>1 DEF Places
  <1>. QED BY <1>2, FS_EmptySet DEF Occurs

\* In one cell.
LEMMA OccursOnce ==
  ASSUME NEW x, NEW l
  PROVE  Occurs(<<x>>, l) = IF x = l THEN 1 ELSE 0
  <1>1. DOMAIN <<x>> = {1} /\ <<x>>[1] = x
    OBVIOUS
  <1>2. CASE x = l
    <2>1. Places(<<x>>, l) = {1}
      BY <1>1, <1>2 DEF Places
    <2>. QED BY <1>2, <2>1, FS_Singleton DEF Occurs
  <1>3. CASE x # l
    <2>1. Places(<<x>>, l) = {}
      BY <1>1, <1>3 DEF Places
    <2>. QED BY <1>3, <2>1, FS_EmptySet DEF Occurs
  <1>. QED BY <1>2, <1>3

\* The spans up to the k-th with label l.
Labelled(sel, l, k) == {j \in 1..k : Placeholder(sel[j]) = l}

\* One span more.
LEMMA LabelledNext ==
  ASSUME NEW sel, NEW l, NEW k \in Nat
  PROVE  /\ Labelled(sel, l, 0) = {}
         /\ Cardinality(Labelled(sel, l, k)) \in Nat
         /\ Cardinality(Labelled(sel, l, k + 1))
              = Cardinality(Labelled(sel, l, k)) + (IF Placeholder(sel[k + 1]) = l THEN 1 ELSE 0)
  <1>1. IsFiniteSet(1..k) /\ Labelled(sel, l, k) \in SUBSET (1..k)
    BY FS_Interval DEF Labelled
  <1>2. IsFiniteSet(Labelled(sel, l, k))
    BY <1>1, FS_Subset
  <1>3. Cardinality(Labelled(sel, l, k)) \in Nat
    BY <1>2, FS_CardinalityType
  <1>4. 1..k + 1 = (1..k) \cup {k + 1} /\ k + 1 \notin 1..k
    OBVIOUS
  <1>5. Labelled(sel, l, 0) = {}
    BY DEF Labelled
  <1>6. CASE Placeholder(sel[k + 1]) = l
    <2>1. Labelled(sel, l, k + 1) = Labelled(sel, l, k) \cup {k + 1} /\ k + 1 \notin Labelled(sel, l, k)
      BY <1>4, <1>6 DEF Labelled
    <2>2. Cardinality(Labelled(sel, l, k) \cup {k + 1}) = Cardinality(Labelled(sel, l, k)) + 1
      BY <1>2, <2>1, FS_AddElement
    <2>. QED BY <1>3, <1>5, <1>6, <2>1, <2>2
  <1>7. CASE Placeholder(sel[k + 1]) # l
    <2>1. Labelled(sel, l, k + 1) = Labelled(sel, l, k)
      BY <1>4, <1>7 DEF Labelled
    <2>. QED BY <1>3, <1>5, <1>7, <2>1
  <1>. QED BY <1>6, <1>7

\* What stands up to a span in a replaced text has its label and no other.
LEMMA OccursUpTo ==
  ASSUME NEW text \in Seq(Free), NEW sel \in Seq(Span), NEW k \in 1..Len(sel), NEW l \in LabelSet,
         Cursor(sel, k) \in Nat
  PROVE  Occurs(UpToSpan(text, sel, k), l) = IF Placeholder(sel[k]) = l THEN 1 ELSE 0
  <1>. DEFINE v == Slice(text, Cursor(sel, k), sel[k].start)
              P == Placeholder(sel[k])
  <1>1. sel[k] \in Span /\ sel[k].start \in Int
    BY SpanFields
  <1>2. v \in Seq(Free)
    BY <1>1, SliceTyped
  <1>3. P \in Cell
    BY <1>1, SpanAssumption DEF SpanAssumption, Placeholder, Span, Cell
  <1>4. \A S, T : T \subseteq S => Seq(T) \subseteq Seq(S)
    OBVIOUS
  <1>5. v \in Seq(Cell)
    BY <1>2, <1>4 DEF Free
  <1>6. UpToSpan(text, sel, k) = Append(v, P)
    BY DEF UpToSpan
  <1>. HIDE DEF v, P
  <1>7. Append(v, P) = v \o <<P>>
    BY <1>3, <1>5, AppendIsConcat
  <1>8. <<P>> \in Seq(Cell)
    BY <1>3, OneTyped
  <1>9. Occurs(v \o <<P>>, l) = Occurs(v, l) + Occurs(<<P>>, l)
    BY <1>5, <1>8, OccursInBoth
  <1>10. Occurs(v, l) = 0
    BY <1>2, OccursNowhere
  <1>11. Occurs(<<P>>, l) = IF P = l THEN 1 ELSE 0
    BY OccursOnce
  <1>12. Occurs(UpToSpan(text, sel, k), l) = 0 + (IF P = l THEN 1 ELSE 0)
    BY <1>6, <1>7, <1>9, <1>10, <1>11
  <1>. QED BY <1>12 DEF P

\* In the whole of it, every label occurs as often as merged spans have it.
LEMMA OccursReplaced ==
  ASSUME NEW text \in Seq(Free), NEW sel \in Seq(Span), NEW l \in LabelSet,
         \A k \in DOMAIN sel : 0 <= sel[k].start /\ sel[k].start < sel[k].end
  PROVE  Occurs(Replaced(text, sel), l) = Cardinality(Labelled(sel, l, Len(sel)))
  <1>. DEFINE n == Len(sel)
              rest == Slice(text, Cursor(sel, n + 1), Len(text))
              N(k) == Cardinality(Labelled(sel, l, k))
  <1>1. n \in Nat
    OBVIOUS
  <1>2. text \in Seq(Cell)
    <2>1. \A S, T : T \subseteq S => Seq(T) \subseteq Seq(S)
      OBVIOUS
    <2>. QED BY <2>1 DEF Free
  <1>3. /\ \A k \in 1..n + 1 : Cursor(sel, k) \in Nat
        /\ \A k \in 1..n : UpToSpan(text, sel, k) \in Seq(Cell)
        /\ rest \in Seq(Cell)
    BY <1>2, ReplacedJoins
  <1>4. PICK K \in [0..n -> Seq(Cell)] : /\ K[0] = <<>>
                                         /\ \A k \in 1..n : K[k] = K[k - 1] \o UpToSpan(text, sel, k)
                                         /\ Replaced(text, sel) = K[n] \o rest
    BY <1>2, ReplacedJoins
  <1>5. rest \in Seq(Free)
    <2>1. n + 1 \in 1..n + 1 /\ Len(text) \in Int
      BY <1>1
    <2>2. Cursor(sel, n + 1) \in Nat
      BY <1>3, <2>1
    <2>. QED BY <2>1, <2>2, SliceTyped
  <1>. HIDE DEF rest
  <1>. DEFINE AsMany(k) == Occurs(K[k], l) = N(k)
              H == {k \in Nat : k <= n => AsMany(k)}
  <1>6. 0 \in H
    <2>1. Places(<<>>, l) = {}
      BY DEF Places
    <2>2. AsMany(0)
      BY <1>4, <2>1, LabelledNext DEF Occurs
    <2>. HIDE DEF AsMany
    <2>. QED BY <2>2
  <1>7. ASSUME NEW k \in 0..n - 1, k \in H PROVE k + 1 \in H
    <2>1. k \in Nat /\ k <= n /\ k + 1 \in 1..n /\ (k + 1) - 1 = k /\ k \in 0..n /\ k + 1 \in 1..n + 1
      BY <1>1
    <2>2. AsMany(k)
      <3>. HIDE DEF AsMany
      <3>. QED BY <1>7, <2>1
    <2>3. K[k] \in Seq(Cell) /\ UpToSpan(text, sel, k + 1) \in Seq(Cell)
      BY <1>3, <2>1
    <2>4. K[k + 1] = K[k] \o UpToSpan(text, sel, k + 1)
      <3>1. K[k + 1] = K[(k + 1) - 1] \o UpToSpan(text, sel, k + 1)
        BY <1>4, <2>1
      <3>. QED BY <2>1, <3>1
    <2>5. Occurs(K[k] \o UpToSpan(text, sel, k + 1), l) = Occurs(K[k], l) + Occurs(UpToSpan(text, sel, k + 1), l)
      BY <2>3, OccursInBoth, Zenon
    <2>6. Occurs(UpToSpan(text, sel, k + 1), l) = IF Placeholder(sel[k + 1]) = l THEN 1 ELSE 0
      BY <1>3, <2>1, OccursUpTo
    <2>7. N(k + 1) = N(k) + (IF Placeholder(sel[k + 1]) = l THEN 1 ELSE 0)
      BY <2>1, LabelledNext, SMTT(20)
    <2>8. AsMany(k + 1)
      BY <2>2, <2>4, <2>5, <2>6, <2>7
    <2>. HIDE DEF AsMany
    <2>. QED BY <2>8
  <1>8. AsMany(n)
    <2>. HIDE DEF AsMany
    <2>1. H \in SUBSET Nat
      OBVIOUS
    <2>. HIDE DEF H
    <2>2. \A k \in 0..n : k \in H
      BY <1>1, <1>6, <1>7, <2>1, UpTo
    <2>3. n \in H
      BY <1>1, <2>2
    <2>. QED BY <1>1, <2>3 DEF H
  <1>9. K[n] \in Seq(Cell)
    BY <1>1
  <1>10. Occurs(K[n] \o rest, l) = Occurs(K[n], l) + Occurs(rest, l)
    BY <1>3, <1>9, OccursInBoth
  <1>11. Occurs(rest, l) = 0
    BY <1>5, OccursNowhere
  <1>12. N(n) \in Nat
    BY <1>1, LabelledNext
  <1>. HIDE DEF N
  <1>13. Occurs(Replaced(text, sel), l) = N(n)
    BY <1>4, <1>8, <1>10, <1>11, <1>12
  <1>. QED BY <1>13 DEF N

\* w has the size of every class of I that g makes, and their sum that of all.
Sizes(I, g, T, w) == \A x \in T : w[x] = Cardinality({i \in I : g[i] = x})
AddUp(I, g, T, w) == SumFunctionOnSet(w, T) = Cardinality({i \in I : g[i] \in T})

\* The elements of a finite set, added up class by class.
LEMMA SumOfClasses ==
  ASSUME NEW I, IsFiniteSet(I), NEW g, NEW T, IsFiniteSet(T), NEW w, Sizes(I, g, T, w)
  PROVE  AddUp(I, g, T, w)
  <1>. DEFINE In(s) == {i \in I : g[i] \in s}
              N == [s \in SUBSET T |-> Cardinality(In(s))]
  <1>1. \A J \in SUBSET I : IsFiniteSet(J) /\ Cardinality(J) \in Nat
    BY FS_Subset, FS_CardinalityType
  <1>2. N[{}] = 0
    <2>1. In({}) = {} /\ {} \in SUBSET T
      OBVIOUS
    <2>2. Cardinality({}) = 0
      BY FS_EmptySet
    <2>3. N[{}] = Cardinality(In({}))
      BY <2>1
    <2>. QED BY <2>1, <2>2, <2>3
  <1>3. ASSUME NEW s \in SUBSET T, NEW x \in s PROVE N[s] = w[x] + N[s \ {x}]
    <2>. DEFINE A == {i \in I : g[i] = x}
                B == In(s \ {x})
    <2>1. In(s) = A \cup B /\ A \cap B = {}
      OBVIOUS
    <2>2. A \in SUBSET I /\ B \in SUBSET I
      OBVIOUS
    <2>3. N[s] = Cardinality(In(s)) /\ N[s \ {x}] = Cardinality(B) /\ w[x] = Cardinality(A)
      BY DEF Sizes
    <2>. HIDE DEF A, B, N, In
    <2>4. IsFiniteSet(A) /\ IsFiniteSet(B) /\ Cardinality(A) \in Nat /\ Cardinality(B) \in Nat
      BY <1>1, <2>2
    <2>5. Cardinality(A \cup B) = Cardinality(A) + Cardinality(B) - Cardinality(A \cap B)
      BY <2>4, FS_Union
    <2>6. Cardinality(A \cap B) = 0
      BY <2>1, FS_EmptySet
    <2>7. Cardinality(In(s)) = Cardinality(A) + Cardinality(B)
      BY <2>1, <2>4, <2>5, <2>6
    <2>. QED BY <2>3, <2>7
  <1>4. N[T] = Cardinality(In(T))
    OBVIOUS
  <1>. HIDE DEF N
  <1>5. SumFunctionOnSet(w, T) = N[T]
    BY <1>2, <1>3, SumIs
  <1>. QED BY <1>4, <1>5 DEF AddUp

\* There are finitely many labels, and six coarse categories.
LEMMA LabelsFinite == IsFiniteSet(LabelSet) /\ IsFiniteSet(CoarseCategory)
  <1>. DEFINE f == [c \in DOMAIN Label |-> Label[c]]
  <1>1. f \in [DOMAIN Label -> LabelSet] /\ \A l \in LabelSet : \E c \in DOMAIN Label : f[c] = l
    BY DEF LabelSet
  <1>2. IsFiniteSet(DOMAIN Label)
    <2>1. DOMAIN Label = 1..Len(Category) /\ Category \in Seq(STRING)
      BY SpanAssumption DEF SpanAssumption
    <2>2. Len(Category) \in Int
      BY <2>1
    <2>. QED BY <2>1, <2>2, FS_Interval
  <1>. HIDE DEF f
  <1>3. f \in Surjection(DOMAIN Label, LabelSet)
    BY <1>1 DEF Surjection
  <1>4. IsFiniteSet(LabelSet)
    BY <1>2, <1>3, FS_Surjection
  <1>5. \A S, x : IsFiniteSet(S) => IsFiniteSet(S \cup {x})
    BY FS_AddElement
  <1>6. CoarseCategory = {} \cup {"person_name"} \cup {"location"} \cup {"contact"} \cup {"online_handle"}
                            \cup {"identifier"} \cup {"other"}
    BY DEF CoarseCategory
  <1>7. IsFiniteSet(CoarseCategory)
    BY <1>5, <1>6, FS_EmptySet
  <1>. QED BY <1>4, <1>7

Placed(out, C) == {i \in DOMAIN out : out[i] \in LabelSet /\ Coarse(out[i]) \in C}
Shows(receipt, out) ==
    /\ \A c \in CoarseCategory : receipt.counts[c] = Cardinality(Placed(out, {c}))
    /\ receipt.total = Cardinality(Placed(out, CoarseCategory))

\* A receipt of how often every label occurs shows the placeholders.
LEMMA ReceiptShows ==
  ASSUME NEW out \in Seq(Cell), NEW n, \A l \in LabelSet : n[l] = Occurs(out, l)
  PROVE  Shows(Receipt(n), out)
  <1>. DEFINE class(c) == {l \in LabelSet : Coarse(l) = c}
              coarse == [c \in CoarseCategory |-> SumFunctionOnSet(n, class(c))]
  <1>1. Receipt(n) = [counts |-> coarse, total |-> SumFunction(coarse)]
    BY DEF Receipt
  <1>2. IsFiniteSet(DOMAIN out)
    <2>1. DOMAIN out = 1..Len(out) /\ Len(out) \in Int
      OBVIOUS
    <2>. QED BY <2>1, FS_Interval
  <1>3. ASSUME NEW c \in CoarseCategory PROVE SumFunctionOnSet(n, class(c)) = Cardinality(Placed(out, {c}))
    <2>1. class(c) \in SUBSET LabelSet
      OBVIOUS
    <2>2. {i \in DOMAIN out : out[i] \in class(c)} = Placed(out, {c})
      BY DEF Placed
    <2>3. Sizes(DOMAIN out, out, class(c), n)
      BY DEF Occurs, Places, Sizes
    <2>. HIDE DEF class
    <2>4. IsFiniteSet(class(c))
      BY <2>1, LabelsFinite, FS_Subset
    <2>5. AddUp(DOMAIN out, out, class(c), n)
      BY <1>2, <2>3, <2>4, SumOfClasses
    <2>. QED BY <2>2, <2>5 DEF AddUp
  <1>4. \A c \in CoarseCategory : coarse[c] = Cardinality(Placed(out, {c}))
    BY <1>3
  <1>5. SumFunction(coarse) = SumFunctionOnSet(coarse, CoarseCategory)
    BY DEF SumFunction
  <1>. HIDE DEF coarse
  <1>6. SumFunctionOnSet(coarse, CoarseCategory) = Cardinality(Placed(out, CoarseCategory))
    <2>. DEFINE I == {i \in DOMAIN out : out[i] \in LabelSet}
                g == [i \in I |-> Coarse(out[i])]
    <2>1. I \in SUBSET (DOMAIN out)
      OBVIOUS
    <2>2. {i \in I : g[i] \in CoarseCategory} = Placed(out, CoarseCategory)
      BY DEF Placed
    <2>3. \A c \in CoarseCategory : {i \in I : g[i] = c} = Placed(out, {c})
      BY DEF Placed
    <2>. HIDE DEF I, g
    <2>4. IsFiniteSet(I)
      BY <1>2, <2>1, FS_Subset
    <2>5. Sizes(I, g, CoarseCategory, coarse)
      BY <1>4, <2>3 DEF Sizes
    <2>6. AddUp(I, g, CoarseCategory, coarse)
      BY <2>4, <2>5, LabelsFinite, SumOfClasses
    <2>. QED BY <2>2, <2>6 DEF AddUp
  <1>7. Receipt(n).counts = coarse /\ Receipt(n).total = SumFunction(coarse)
    BY <1>1
  <1>. QED BY <1>4, <1>5, <1>6, <1>7 DEF Shows

(***************************************************************************)
(* What a user is shown, and the receipt that goes with it.                *)
(***************************************************************************)
FreeRec == [text : Seq(Free), tag : Cell]

\* Nobody has typed a placeholder into the text.
Untyped(text) == \A i \in DOMAIN Normalized(text) : Normalized(text)[i] \notin LabelSet

\* The counter has how often every label occurs.
CountsAll(n, out) == \A l \in LabelSet : n[l] = Occurs(out, l)

ShownInv ==
    /\ stage \in {"waiting", "minimise"} => output = <<>> /\ counts = [l \in LabelSet |-> 0]
    /\ stage \in {"detect", "merge"} /\ Untyped(request.text) => segments \in Seq(FreeRec) /\ CountsAll(counts, output)
    /\ stage \in {"sanitized", "prepared", "released"} /\ Untyped(request.text) => Shows(response.receipt, output)

\* Neither a blank nor the newline is a placeholder.
LEMMA MarksNoLabels == "blank" \notin LabelSet /\ "newline" \notin LabelSet /\ "newline" \in Cell
  BY CueAssumption DEF CueAssumption, Mark, Cell

\* A text without a placeholder.
LEMMA FreeText ==
  ASSUME NEW text \in Seq(Cell), \A i \in DOMAIN text : text[i] \notin LabelSet
  PROVE  text \in Seq(Free)
  <1>1. \A i \in 1..Len(text) : text[i] \in Free
    BY DEF Free
  <1>. QED BY <1>1

\* What stands before the next segment.
LEMMA BeforeSegment ==
  ASSUME NEW out \in Seq(Cell), NEW u \in Seq(Cell)
  PROVE  /\ (IF out = <<>> THEN <<>> ELSE Append(out, "newline")) \o u =
              IF out = <<>> THEN u ELSE Append(out, "newline") \o u
         /\ Append(out, "newline") = out \o <<"newline">>
  <1>1. <<>> \o u = u
    OBVIOUS
  <1>2. Append(out, "newline") = out \o <<"newline">>
    BY MarksNoLabels
  <1>. QED BY <1>1, <1>2

\* What the counter has with one segment more.
LEMMA NextCounts ==
  ASSUME NEW text \in Seq(Free), NEW sel \in Seq(Span),
         \A k \in DOMAIN sel : 0 <= sel[k].start /\ sel[k].start < sel[k].end,
         NEW out \in Seq(Cell), NEW n, CountsAll(n, out),
         NEW new, new = (IF out = <<>> THEN <<>> ELSE Append(out, "newline")) \o Replaced(text, sel)
  PROVE  CountsAll(Counted(n, sel), new)
  <1>1. SUFFICES ASSUME NEW u, u = Replaced(text, sel), NEW l \in LabelSet
                 PROVE  Counted(n, sel)[l] = Occurs(new, l)
    BY DEF CountsAll
  <1>2. u \in Seq(Cell)
    <2>1. text \in Seq(Cell)
      BY DEF Free
    <2>. QED BY <1>1, <2>1, ReplacedTyped
  <1>3. Occurs(u, l) = Cardinality(Labelled(sel, l, Len(sel)))
    BY <1>1, OccursReplaced
  <1>4. Counted(n, sel)[l] = n[l] + Cardinality(Labelled(sel, l, Len(sel)))
    <2>1. {k \in DOMAIN sel : Placeholder(sel[k]) = l} = Labelled(sel, l, Len(sel))
      BY DEF Labelled
    <2>. QED BY <2>1 DEF Counted
  <1>5. n[l] = Occurs(out, l)
    BY DEF CountsAll
  <1>6. new = IF out = <<>> THEN u ELSE Append(out, "newline") \o u
    BY <1>1, <1>2, BeforeSegment
  <1>7. Occurs(out, l) \in Nat /\ Occurs(u, l) \in Nat
    BY <1>2, PlacesFinite
  <1>8. CASE out = <<>>
    <2>1. Occurs(out, l) = 0
      <3>1. Places(out, l) = {}
        BY <1>8 DEF Places
      <3>. QED BY <3>1, FS_EmptySet DEF Occurs
    <2>. QED BY <1>3, <1>4, <1>5, <1>6, <1>7, <1>8, <2>1
  <1>9. CASE out # <<>>
    <2>1. SUFFICES ASSUME NEW w, w = Append(out, "newline") PROVE Counted(n, sel)[l] = Occurs(new, l)
      OBVIOUS
    <2>2. w \in Seq(Cell)
      BY <2>1, MarksNoLabels
    <2>3. Occurs(w, l) = Occurs(out, l)
      <3>1. <<"newline">> \in Seq(Cell)
        BY MarksNoLabels
      <3>2. Occurs(<<"newline">>, l) = 0
        BY OccursOnce, MarksNoLabels
      <3>3. Occurs(out \o <<"newline">>, l) = Occurs(out, l) + Occurs(<<"newline">>, l)
        BY <3>1, OccursInBoth
      <3>4. w = out \o <<"newline">>
        BY <1>2, <2>1, BeforeSegment
      <3>. QED BY <1>7, <3>2, <3>3, <3>4
    <2>4. Occurs(w \o u, l) = Occurs(w, l) + Occurs(u, l)
      BY <1>2, <2>2, OccursInBoth
    <2>5. new = w \o u
      BY <1>6, <1>9, <2>1
    <2>6. Occurs(new, l) = Occurs(w, l) + Occurs(u, l)
      BY <2>4, <2>5
    <2>. QED BY <1>3, <1>4, <1>5, <1>7, <2>3, <2>6
  <1>. QED BY <1>8, <1>9

\* The receipt of a counter that has every label of the text shows those of
\* the stripped one.
LEMMA StrippedShows ==
  ASSUME NEW out \in Seq(Cell), NEW n, CountsAll(n, out)
  PROVE  Shows(Receipt(n), Strip(out))
  <1>1. Strip(out) \in Seq(Cell)
    BY StripTyped
  <1>2. \A l \in LabelSet : n[l] = Occurs(Strip(out), l)
    BY OccursStripped, MarksNoLabels DEF CountsAll
  <1>. QED BY <1>1, <1>2, ReceiptShows

\* A step within a call that leaves the text and the counter alone.
LEMMA ShownStays ==
  ASSUME ShownInv, UNCHANGED <<request, segments, output, counts, response>>,
         \/ stage' \in {"refused", "failed", "rejected"}
         \/ stage \in {"detect", "merge"} /\ stage' \in {"detect", "merge"}
         \/ stage \in {"sanitized", "prepared", "released"} /\ stage' \in {"sanitized", "prepared", "released"}
         \/ stage' = stage
  PROVE  ShownInv'
  BY DEF ShownInv

\* A call begins.
LEMMA ReceiveShown ==
  ASSUME ShownInv, stage = "waiting", stage' \in {"minimise", "refused"}, UNCHANGED <<output, counts>>
  PROVE  ShownInv'
  BY DEF ShownInv

\* It ends.
LEMMA ReturnShown == ASSUME Return PROVE ShownInv'
  <1>1. stage' = "waiting" /\ output' = <<>> /\ counts' = [l \in LabelSet |-> 0]
    BY DEF Return
  <1>. QED BY <1>1 DEF ShownInv

\* The text is cut into segments.
LEMMA SegmentShown == ASSUME TextInv, ShownInv, Segment PROVE ShownInv'
  <1>. DEFINE text == Normalized(request.text)
  <1>1. stage = "minimise" /\ UNCHANGED <<request, output, counts, response>> /\ stage' \in {"refused", "detect"}
    BY DEF Segment
  <1>2. CASE stage' = "refused"
    <2>1. segments' = segments
      BY <1>2 DEF Segment
    <2>. QED BY <1>1, <1>2, <2>1, ShownStays
  <1>3. CASE stage' = "detect"
    <2>1. segments' = Segments(text, request.declared)
      BY <1>3 DEF Segment
    <2>2. output = <<>> /\ counts = [l \in LabelSet |-> 0]
      BY <1>1 DEF ShownInv
    <2>3. ASSUME Untyped(request.text) PROVE segments' \in Seq(FreeRec)
      <3>1. request.text \in Seq(Cell) /\ request.declared \in Cell
        BY <1>1 DEF TextInv, Requested
      <3>2. text \in Seq(Cell)
        BY <3>1, NormalizedTyped
      <3>3. \A i \in DOMAIN text : text[i] \notin LabelSet
        BY <2>3 DEF Untyped
      <3>. HIDE DEF text
      <3>4. text \in Seq(Free)
        BY <3>2, <3>3, FreeText
      <3>5. Free \in SUBSET Cell
        BY DEF Free
      <3>. QED BY <2>1, <3>1, <3>4, <3>5, SegmentsTyped DEF FreeRec
    <2>4. CountsAll(counts, output)
      <3>1. \A l \in LabelSet : Occurs(<<>>, l) = 0
        <4>1. \A l : Places(<<>>, l) = {}
          BY DEF Places
        <4>. QED BY <4>1, FS_EmptySet DEF Occurs
      <3>. QED BY <2>2, <3>1 DEF CountsAll
    <2>. QED BY <1>1, <1>3, <2>3, <2>4 DEF ShownInv
  <1>. QED BY <1>1, <1>2, <1>3

\* A segment is replaced: its placeholders are counted.
LEMMA ReplaceShown == ASSUME TextInv, ShownInv, ReplaceSegment PROVE ShownInv'
  <1>. DEFINE text == Head(segments).text
  <1>1. /\ stage = "merge" /\ todo = {} /\ stage' = "detect" /\ request' = request
        /\ output' = (IF output = <<>> THEN <<>> ELSE Append(output, "newline")) \o Replaced(text, selected)
        /\ counts' = Counted(counts, selected)
        /\ segments' = Tail(segments)
    BY DEF ReplaceSegment
  <1>2. selected \in Seq(Span)
    BY DEF TextInv, MergeInv, TextTypeOK
  <1>3. output \in Seq(Cell) /\ segments # <<>>
    BY <1>1 DEF TextInv, Parts
  <1>4. \A k \in DOMAIN selected : 0 <= selected[k].start /\ selected[k].start < selected[k].end
    BY MergedWithin DEF TextInv
  <1>5. ASSUME Untyped(request.text)
        PROVE  text \in Seq(Free) /\ Tail(segments) \in Seq(FreeRec) /\ CountsAll(counts, output)
    <2>1. segments \in Seq(FreeRec) /\ CountsAll(counts, output)
      BY <1>1, <1>5 DEF ShownInv
    <2>2. Head(segments) \in FreeRec /\ Tail(segments) \in Seq(FreeRec)
      BY <1>3, <2>1
    <2>. QED BY <2>1, <2>2 DEF FreeRec
  <1>. HIDE DEF text
  <1>8. ASSUME Untyped(request.text) PROVE CountsAll(counts', output')
    <2>1. SUFFICES ASSUME NEW new, new = (IF output = <<>> THEN <<>> ELSE Append(output, "newline")) \o Replaced(text, selected)
                   PROVE  CountsAll(Counted(counts, selected), new)
      BY <1>1
    <2>. QED BY <1>2, <1>3, <1>4, <1>5, <1>8, <2>1, NextCounts
  <1>9. (stage \in {"detect", "merge"} /\ Untyped(request.text) => segments \in Seq(FreeRec) /\ CountsAll(counts, output))'
    <2>1. Untyped(request.text)' <=> Untyped(request.text)
      BY <1>1
    <2>. QED BY <1>1, <1>5, <1>8, <2>1
  <1>. QED BY <1>1, <1>9 DEF ShownInv

\* The text is stripped, and the receipt is made.
LEMMA CheckShown == ASSUME TextInv, ShownInv, Check PROVE ShownInv'
  <1>1. CASE Stop("refused")
    <2>1. stage' = "refused" /\ UNCHANGED <<request, segments, output, counts, response>>
      BY <1>1 DEF Stop
    <2>. QED BY <2>1, ShownStays
  <1>2. CASE ~Stop("refused")
    <2>1. /\ stage = "detect" /\ stage' = "sanitized" /\ output' = Strip(output) /\ request' = request
          /\ response' = [NoResponse EXCEPT !.receipt = Receipt(counts)]
      BY <1>2 DEF Check
    <2>2. response'.receipt = Receipt(counts)
      BY <2>1 DEF NoResponse
    <2>3. output \in Seq(Cell)
      BY DEF TextInv, Parts
    <2>5. ASSUME Untyped(request.text) PROVE Shows(response'.receipt, output')
      <3>1. CountsAll(counts, output)
        BY <2>1, <2>5 DEF ShownInv
      <3>. QED BY <2>1, <2>2, <2>3, <3>1, StrippedShows
    <2>. QED BY <2>1, <2>5 DEF ShownInv
  <1>. QED BY <1>1, <1>2

\* The rules pass the receipt on.
LEMMA AnalyseShown == ASSUME ShownInv, Analyse PROVE ShownInv'
  <1>. DEFINE r == Outcome(output, request.profile)
  <1>1. \/ \E how \in {"refused", "failed", "rejected"} : Stop(how)
        \/ stage' = "released" /\ response' = r /\ UNCHANGED <<request, output>>
    BY DEF Analyse
  <1>2. stage \in {"sanitized", "prepared"}
    BY DEF Analyse
  <1>3. ASSUME NEW how \in {"refused", "failed", "rejected"}, Stop(how) PROVE ShownInv'
    <2>1. stage' = how /\ UNCHANGED <<request, segments, output, counts, response>>
      BY <1>3 DEF Stop
    <2>. QED BY <1>3, <2>1, ShownStays
  <1>4. CASE stage' = "released" /\ response' = r /\ UNCHANGED <<request, output>>
    <2>1. r.receipt = response.receipt
      BY DEF Outcome
    <2>. HIDE DEF r
    <2>2. response'.receipt = response.receipt
      BY <1>4, <2>1
    <2>3. ASSUME Untyped(request.text) PROVE Shows(response'.receipt, output')
      BY <1>2, <1>4, <2>2, <2>3 DEF ShownInv
    <2>. QED BY <1>4, <2>3 DEF ShownInv
  <1>. QED BY <1>1, <1>3, <1>4

\* Every step keeps it.
LEMMA NextShownInv == TextInv /\ ShownInv /\ [TextNext]_textVars => ShownInv'
  <1>1. SUFFICES ASSUME TextInv, ShownInv, [TextNext]_textVars PROVE ShownInv'
    OBVIOUS
  <1>. USE <1>1
  <1>2. ASSUME NEW t, NEW l, NEW p, NEW d, ReceiveDraft(t, l, p, d) PROVE ShownInv'
    BY <1>2, ReceiveShown DEF ReceiveDraft
  <1>3. ASSUME NEW id, NEW text, NEW k, NEW l, NEW p, ReceiveFixture(id, text, k, l, p) PROVE ShownInv'
    BY <1>3, ReceiveShown DEF ReceiveFixture
  <1>4. CASE Segment
    BY <1>4, SegmentShown
  <1>5. ASSUME NEW f, Detect(f) PROVE ShownInv'
    <2>1. stage = "detect" /\ stage' \in {"refused", "merge"} /\ UNCHANGED <<request, segments, output, counts, response>>
      BY <1>5 DEF Detect, Stop
    <2>. QED BY <2>1, ShownStays
  <1>6. CASE MergeOne
    <2>1. UNCHANGED <<stage, request, segments, output, counts, response>>
      BY <1>6 DEF MergeOne
    <2>. QED BY <2>1, ShownStays
  <1>7. CASE ReplaceSegment
    BY <1>7, ReplaceShown
  <1>8. CASE Check
    BY <1>8, CheckShown
  <1>9. CASE Prepare
    <2>1. /\ stage = "sanitized" /\ stage' \in {"prepared", "refused"}
          /\ UNCHANGED <<request, segments, output, counts, response>>
      BY <1>9 DEF Prepare, Stop
    <2>. QED BY <2>1, ShownStays
  <1>10. CASE Analyse
    BY <1>10, AnalyseShown
  <1>11. CASE Return
    BY <1>11, ReturnShown
  <1>12. CASE UNCHANGED textVars
    <2>1. UNCHANGED <<stage, request, segments, output, counts, response>>
      BY <1>12 DEF textVars
    <2>. QED BY <2>1, ShownStays
  <1>. QED
    BY <1>2, <1>3, <1>4, <1>5, <1>6, <1>7, <1>8, <1>9, <1>10, <1>11, <1>12 DEF TextNext

\* So is what a user is shown.
LEMMA ShownInvImplies == TextInv /\ CleanInv /\ ShownInv => OnlyMinimised
  <1>1. SUFFICES ASSUME TextInv, CleanInv, ShownInv, stage \in {"sanitized", "prepared", "released"}
                 PROVE  ~HasResidual(output) /\ (Untyped(request.text) => Shows(response.receipt, output))
    BY DEF OnlyMinimised, Untyped, Shows, Placed
  <1>. QED BY <1>1 DEF CleanInv, ResidualFree, ShownInv

\* Whatever the patterns, the detector and the text: a text a user is shown or
\* the rules read holds no residual, its segments joined and its placeholders
\* deleted, and its receipt has as many of every category as it shows
\* placeholders, over all its segments.
THEOREM ShownTextIsMinimised == TextSpec => []OnlyMinimised
  <1>1. TextInit => TextInv /\ CleanInv /\ ShownInv
    <2>1. TextInit => CleanInv
      BY DEF TextInit, CleanInv, Admitted, ResidualFree
    <2>2. TextInit => ShownInv
      BY DEF TextInit, ShownInv
    <2>. QED BY <2>1, <2>2, InitTextInv
  <1>2. TextInv /\ CleanInv /\ ShownInv /\ [TextNext]_textVars => (TextInv /\ CleanInv /\ ShownInv)'
    BY NextTextInv, NextCleanInv, NextShownInv DEF TextInv
  <1>3. TextInv /\ CleanInv /\ ShownInv => OnlyMinimised
    BY ShownInvImplies
  <1>. QED BY <1>1, <1>2, <1>3, PTL DEF TextSpec
=============================================================================
