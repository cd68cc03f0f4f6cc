----------------------------- MODULE TextPipeline ------------------------------
(***************************************************************************)
(* One text on its way through the signal engine: admission (the reviewed  *)
(* fixture of v1, the detector of T1), minimisation segment by segment,    *)
(* the receipt, for T1 the preview the user confirms, the cue rules and    *)
(* the checks on the response.  _merge's loop is one step per span.        *)
(***************************************************************************)
EXTENDS CueOps

CONSTANTS
    Text,              \* the texts a T1 user may send
    Declared,          \* the language tags a request may declare
    Profile,
    Fixture,           \* the allowlist: id -> [text, task, language]
    Task,
    DetectorTag,       \* the languages the test detector supports
    Detected(_)        \* the span lists the test detector may return for a segment

ASSUME PipelineAssumption ==
    /\ Text \subseteq Seq(STRING) /\ Declared \subseteq STRING
    /\ \A id \in DOMAIN Fixture : Fixture[id].text \in Seq(STRING)

VARIABLES
    stage,             \* where the call is
    request,           \* what was asked
    segments,          \* the segments still to minimise
    spans,             \* the valid spans of the segment in hand
    todo,              \* those the merge loop has not taken yet
    selected,          \* the merged spans so far
    output,            \* sanitized_parts, joined
    tags,              \* the languages of the segments
    counts,            \* the redactions by label
    response

textVars == <<stage, request, segments, spans, todo, selected, output, tags, counts, response>>
mergeVars == <<spans, todo, selected>>

NoRequest == [mode |-> "none"]
NoResponse == [low |-> TRUE, cues |-> <<>>, repair |-> "none", receipt |-> [counts |-> <<>>, total |-> 0]]

TextInit ==
    /\ stage = "waiting"
    /\ request = NoRequest
    /\ segments = <<>> /\ spans = {} /\ todo = {} /\ selected = <<>>
    /\ output = <<>> /\ tags = <<>>
    /\ counts = [l \in LabelSet |-> 0]
    /\ response = NoResponse

Stop(how) ==
    /\ stage' = how
    /\ UNCHANGED <<request, segments, spans, todo, selected, output, tags, counts, response>>

\* T1Protocol.prepare and the v1 route: a request arrives.  With no detector
\* (the inventory's one never loads) a T1 text is refused by minimize.
ReceiveDraft(text, declared, profile, detector) ==
    /\ stage = "waiting"
    /\ request' = [mode |-> "t1", text |-> text, declared |-> declared, profile |-> profile]
    /\ stage' = IF detector THEN "minimise" ELSE "refused"
    /\ UNCHANGED <<segments, spans, todo, selected, output, tags, counts, response>>

\* SyntheticFixtureAllowlist.attest
Attest(id, text, task, declared) ==
    /\ id \in DOMAIN Fixture
    /\ text = Fixture[id].text
    /\ task = Fixture[id].task
    /\ declared = Fixture[id].language

ReceiveFixture(id, text, task, declared, profile) ==
    /\ stage = "waiting"
    /\ request' = [mode |-> "v1", text |-> text, declared |-> declared, profile |-> profile]
    /\ stage' = IF Attest(id, text, task, declared) THEN "minimise" ELSE "refused"
    /\ UNCHANGED <<segments, spans, todo, selected, output, tags, counts, response>>

\* minimize up to the loop over the segments.
Segment ==
    /\ stage = "minimise"
    /\ LET text == Normalized(request.text)
           cut == Segments(text, request.declared)
           refused == \/ text = <<>> \/ Len(text) > MAX_TEXT_CHARACTERS
                      \/ TagCount(text) > MAX_LANGUAGE_SEGMENTS
                      \/ ~TagsAreSafe(text)
                      \/ cut = <<>>
       IN  /\ stage' = IF refused THEN "refused" ELSE "detect"
           /\ segments' = IF refused THEN segments ELSE cut
           /\ tags' = IF refused THEN tags ELSE [k \in DOMAIN cut |-> cut[k].tag]
    /\ UNCHANGED <<request, spans, todo, selected, output, counts, response>>

\* The patterns and the detector on the next segment.
Detect(found) ==
    /\ stage = "detect" /\ segments # <<>>
    /\ found \subseteq Span
    /\ request.mode = "v1" => found = {}
    /\ IF request.mode = "t1" /\ Head(segments).tag \notin DetectorTag
       THEN Stop("refused")
       ELSE /\ stage' = "merge"
            /\ spans' = Valid(PatternSpans(Head(segments).text) \cup found)
            /\ todo' = spans'
            /\ selected' = <<>>
            /\ UNCHANGED <<request, segments, output, tags, counts, response>>

\* One turn of _merge's loop: the first span in the sort order.
MergeOne ==
    /\ stage = "merge"
    /\ \E s \in todo :
          /\ \A t \in todo : Before(s, t)
          /\ selected' = MergeStep(selected, s)
          /\ todo' = todo \ {s}
    /\ UNCHANGED <<stage, request, segments, spans, output, tags, counts, response>>

\* _replace, and the loop goes on to the next segment.
ReplaceSegment ==
    /\ stage = "merge" /\ todo = {}
    /\ output' = (IF output = <<>> THEN <<>> ELSE Append(output, "newline"))
                 \o Replaced(Head(segments).text, selected)
    /\ counts' = Counted(counts, selected)
    /\ segments' = Tail(segments)
    /\ stage' = "detect"
    /\ spans' = {} /\ selected' = <<>>
    /\ UNCHANGED <<request, todo, tags, response>>

\* What is checked once every segment is replaced.
Releasable(out) == out # <<>> /\ ~HasResidual(out)

Check ==
    /\ stage = "detect" /\ segments = <<>>
    /\ IF /\ Cardinality({l \in LabelSet : counts[l] > 0}) <= MAX_REDACTION_CATEGORIES
          /\ Releasable(Strip(output))
       THEN /\ stage' = "sanitized"
            /\ output' = Strip(output)
            /\ response' = [NoResponse EXCEPT !.receipt = Receipt(counts)]
            /\ UNCHANGED <<request, segments, spans, todo, selected, tags, counts>>
       ELSE Stop("refused")

Width(cell) == IF cell \in LabelSet THEN Bound.label ELSE 1
Offset(out, i) == SumFunction([j \in 1..i |-> Width(out[j])])

\* T1: the preview is released for review only within its bound.
Prepare ==
    /\ stage = "sanitized" /\ request.mode = "t1"
    /\ Stop(IF Offset(output, Len(output)) <= Bound.preview THEN "prepared" ELSE "refused")

\* A cue as CueObservation carries it; its range is in sanitized characters.
Observation(d, out) ==
    LET places == Evaluate(d.rule, out)
    IN  [id |-> d.id, start |-> Offset(out, Min(places) - 1), end |-> Offset(out, Max(places))]

Outcome(out, profile) ==
    LET low == Words(out) < Bound.signal
        chosen == IF low THEN <<>> ELSE Selected(Candidates(out, profile, tags))
    IN  [low     |-> low,
         cues    |-> [k \in DOMAIN chosen |-> Observation(chosen[k], out)],
         repair  |-> IF chosen = <<>> THEN "none" ELSE chosen[1].id,
         receipt |-> response.receipt]

\* SanitizedOffset refuses an end beyond its bound: building the cue fails.
RangesFit(r) == \A k \in DOMAIN r.cues : r.cues[k].start < r.cues[k].end /\ r.cues[k].end <= Bound.offset

\* PrivacyReceipt.receipt_is_consistent
ReceiptConsistent(r) == r.receipt.total = SumFunction(r.receipt.counts)

\* AnalysisResponse.bounded_result_is_consistent
ResultConsistent(r) ==
    /\ Len(r.cues) <= MAX_CUES
    /\ \A j, k \in DOMAIN r.cues : r.cues[j].id = r.cues[k].id => j = k
    /\ r.low => r.cues = <<>> /\ r.repair = "none"
    /\ (r.cues # <<>>) <=> (r.repair # "none")

\* _validate_output: the repair is that of the first cue.
OutputCanonical(r) == r.cues # <<>> => r.repair = r.cues[1].id

OwnChecks(r) == ReceiptConsistent(r) /\ ResultConsistent(r) /\ OutputCanonical(r)

\* The rules, and the checks on what they give, on an attested text.
Analyse ==
    /\ \/ stage = "sanitized" /\ request.mode = "v1"
       \/ stage = "prepared"
    /\ LET r == Outcome(output, request.profile)
       IN  IF request.mode = "t1" /\ HasResidual(output) THEN Stop("refused")
           ELSE IF ~RangesFit(r) THEN Stop("failed")
           ELSE IF ~OwnChecks(r) THEN Stop("rejected")
           ELSE /\ stage' = "released"
                /\ response' = r
                /\ UNCHANGED <<request, segments, spans, todo, selected, output, tags, counts>>

Ended == {"released", "refused", "failed", "rejected"}

\* The call returns and the text is deleted; T1's clear ends a prepared review.
Return ==
    /\ stage \in Ended \cup {"prepared"}
    /\ stage' = "waiting" /\ request' = NoRequest
    /\ segments' = <<>> /\ spans' = {} /\ todo' = {} /\ selected' = <<>>
    /\ output' = <<>> /\ tags' = <<>> /\ counts' = [l \in LabelSet |-> 0]
    /\ response' = NoResponse

TextNext ==
    \/ \E t \in Text, l \in Declared, p \in Profile, d \in BOOLEAN : ReceiveDraft(t, l, p, d)
    \/ \E id \in DOMAIN Fixture \cup {"unlisted"}, j \in DOMAIN Fixture, k \in Task, l \in Declared, p \in Profile :
          ReceiveFixture(id, Fixture[j].text, k, l, p)
    \/ Segment
    \/ \E f \in (IF segments = <<>> THEN {{}} ELSE Detected(Head(segments).text)) : Detect(f)
    \/ MergeOne
    \/ ReplaceSegment
    \/ Check
    \/ Prepare
    \/ Analyse
    \/ Return

TextSpec == TextInit /\ [][TextNext]_textVars
--------------------------------------------------------------------------------
(***************************************************************************)
(* Properties.                                                             *)
(***************************************************************************)

\* The shape of the state.
TextTypeOK ==
    /\ stage \in {"waiting", "minimise", "detect", "merge", "sanitized", "prepared"} \cup Ended
    /\ spans \subseteq Span /\ todo \subseteq spans
    /\ selected \in Seq(Span)
    /\ counts \in [LabelSet -> Nat]

\* _merge, at every turn of its loop: the merged spans are in order and
\* apart, and together they hold exactly the places of the spans taken so
\* far, however those overlap, nest or repeat.
MergeSound ==
    /\ TextTypeOK
    /\ stage = "merge" =>
        /\ \A k \in DOMAIN selected : selected[k].start < selected[k].end
        /\ \A j, k \in DOMAIN selected : j < k => selected[j].end <= selected[k].start
        /\ \A k \in DOMAIN selected : \A p \in selected[k].start..selected[k].end - 1 :
              \E s \in spans \ todo : Inside(p, s)
        /\ \A s \in spans \ todo : \A p \in s.start..s.end - 1 : \E k \in DOMAIN selected : Inside(p, selected[k])

\* What _replace makes of the merged spans is the text cell by cell: a cell
\* that no span covers stays, and where a group of overlapping spans begins
\* stands one placeholder, of the span the sort puts first there.
RedactsExactly ==
    stage = "merge" /\ todo = {} =>
        Replaced(Head(segments).text, selected) = Redacted(Head(segments).text, spans)

\* A text the user sees, or the rules read, holds no residual, whatever its
\* placeholders are deleted between and whatever its segments join to.  Its
\* receipt counts the placeholders that stand in it, in every category and
\* over all its segments, unless somebody has typed one.
OnlyMinimised ==
    stage \in {"sanitized", "prepared", "released"} =>
        /\ ~HasResidual(output)
        /\ (\A i \in DOMAIN Normalized(request.text) : Normalized(request.text)[i] \notin LabelSet) =>
              LET shown(C) == {i \in DOMAIN output : output[i] \in LabelSet /\ Coarse(output[i]) \in C}
              IN  /\ \A c \in CoarseCategory : response.receipt.counts[c] = Cardinality(shown({c}))
                  /\ response.receipt.total = Cardinality(shown(CoarseCategory))

\* What is released passes the checks that follow it, so those never fire,
\* and holds the strongest cues: in order, none left out that outranks one
\* shown, and never both answers to "is there a time window".  Building the
\* response fails only for a text that is longer, placeholders included, than
\* an offset may be; a T1 user has then confirmed its preview.
CuesWellChosen ==
    /\ stage # "rejected"
    /\ stage = "failed" => Offset(output, Len(output)) > Bound.offset
    /\ stage = "released" /\ ~response.low =>
          LET found == Candidates(output, request.profile, tags)
              shown == {d \in found : \E k \in DOMAIN response.cues : response.cues[k].id = d.id}
          IN  /\ Cardinality(shown) = Len(response.cues)
              /\ \A d \in shown, e \in found \ shown : d.priority >= e.priority
              /\ Cardinality(shown) = Min({MAX_CUES, Cardinality(found)})
              /\ \A d, e \in shown, j, k \in DOMAIN response.cues :
                    response.cues[j].id = d.id /\ response.cues[k].id = e.id /\ j < k => d.priority >= e.priority
              /\ Cardinality({d \in shown : d.rule \in WindowRule}) <= 1

\* The wording of somebody else does not count: with every quoted marker
\* turned into a plain word the same marker cues are found.
QuotesDoNotCount ==
    stage = "released" =>
        LET quoted(i) == Quoted(output, i) /\ output[i] \in Marker
            plain == [i \in DOMAIN output |-> IF quoted(i) THEN "word" ELSE output[i]]
        IN  Candidates(plain, request.profile, tags) = Candidates(output, request.profile, tags)
================================================================================
