-------------------------------- MODULE CueOps ---------------------------------
(***************************************************************************)
(* The deterministic cue engine: what DeterministicCueEngine.analyze finds *)
(* in an attested text.  The expressions are the marker cells they match;  *)
(* a placeholder is several words of its own, as it is for _WORD.          *)
(***************************************************************************)
EXTENDS TextOps

CONSTANTS
    Cues,              \* the registry's definitions, as records
    Bound,             \* MIN_SIGNAL_TOKENS and the thresholds of the rules
    MAX_CUES,
    Reach              \* how many cells the 48 characters before a match hold

MarkerOf ==
    [first_person_preference_or_explicit_request |-> "direct",   ambiguity_marker_count |-> "hedge",
     second_person_obligation_or_urgency |-> "push",             reassurance_question |-> "assure",
     repeated_reassurance_question |-> "assure",                 explicit_repair_marker |-> "repair",
     transition_marker |-> "turn",                               processing_time_phrase |-> "process",
     thinking_aloud_marker |-> "think",                          final_position_marker |-> "final",
     short_version_offer |-> "short",                            channel_choice_phrase |-> "channel"]

WindowRule == {"processing_request_with_time_window", "processing_request_without_time_window"}
RuleHandler == DOMAIN MarkerOf \cup WindowRule
               \cup {"question_count_threshold", "lexical_density_threshold", "long_comma_separated_run"}

\* The cells the expressions of the rules, of the time window, of an attribution
\* and of a rejection match; and those the words are told from.
Marker == {MarkerOf[rule] : rule \in DOMAIN MarkerOf} \cup {"window", "said", "reject"}
Mark == {"blank", "newline", "quote", "opening", "closing", "apostrophe", "question", "comma"}

\* QUOTED: what each quotation mark ends with; a contraction is a word with an
\* apostrophe in it, and that one counts as well.
Ending == [quote |-> {"quote"}, opening |-> {"closing"},
           apostrophe |-> {"apostrophe", "contraction"}, contraction |-> {"apostrophe", "contraction"}]

\* What validate_registry sees to, and that the registry has one cue for either
\* answer to "is there a time window".  A placeholder is a cell of its own.
CueAssumption ==
    /\ IsFiniteSet(Cues)
    /\ \A d \in Cues : d.priority \in 0..100 /\ d.rank \in Nat /\ d.id # "none" /\ d.rule \in RuleHandler
    /\ \A d, e \in Cues : d.id = e.id \/ d.rank = e.rank \/ (d.rule = e.rule /\ d.rule \in WindowRule) => d = e
    /\ MAX_CUES \in Nat \ {0}
    /\ Reach \in Nat
    /\ LabelSet \cap (Mark \cup Marker \cup {"word", "contraction"}) = {}
    /\ Bound.label \in Nat \ {0} /\ Bound.offset \in Nat
ASSUME CueAssumption

TwoPartLabel == {"PERSON_CONTEXT", "LOCATION_CONTEXT", "IP_ADDRESS", "PAYMENT_CARD", "DATE_TIME", "SENSITIVE_GROUP"}

\* _WORD takes REDACTED and every part of the label as a word.
WordsIn(cell) == IF cell \in Mark THEN 0
                 ELSE IF cell \notin LabelSet THEN 1
                 ELSE IF cell \in TwoPartLabel THEN 3
                 ELSE 2
Words(out) == SumFunction([i \in DOMAIN out |-> WordsIn(out[i])])

Line(out, i) == {j \in DOMAIN out : \A k \in Min({i, j})..Max({i, j}) : out[k] # "newline"}

\* Where a quotation that opens at place i ends, 0 if none does.
EndOfQuote(out, i) ==
    LET ends == {j \in Line(out, i) : i < j /\ out[i] \in DOMAIN Ending /\ out[j] \in Ending[out[i]]}
    IN  IF ends = {} THEN 0 ELSE Min(ends)

\* QUOTED.sub goes from left to right: behind[i] is the end of the last
\* quotation that opens at place i or before it.
Quotations(n, end) ==
    LET behind[i \in 0..n] == IF i = 0 THEN 0
                              ELSE LET last == behind[i - 1]
                                   IN  IF i <= last \/ end[i] = 0 THEN last ELSE end[i]
    IN  behind

\* Place i is masked.
Quoted(out, i) == i <= Quotations(Len(out), [j \in DOMAIN out |-> EndOfQuote(out, j)])[i]

\* Faulty: neither quotations nor attributions are left out.
FoundQuoted(out, marker, reported, rejected) == {i \in DOMAIN out : out[i] = marker}

\* found: a match outside quotations, with no attribution or rejection just before it.
Found(out, marker, reported, rejected) ==
    LET prefix(i) == {out[j] : j \in {k \in DOMAIN out : i - Reach <= k /\ k < i /\ ~Quoted(out, k)}}
    IN  {i \in DOMAIN out : /\ out[i] = marker
                            /\ ~Quoted(out, i)
                            /\ ~(reported /\ "said" \in prefix(i))
                            /\ ~(rejected /\ "reject" \in prefix(i))}

Plain(out, marker) == Found(out, marker, FALSE, FALSE)
Questions(out) == {i \in DOMAIN out : out[i] = "question"}

Precondition(name, out) ==
    CASE name = "minimum_signal"           -> Words(out) >= Bound.signal
      [] name = "two_reassurance_requests" -> Cardinality(Plain(out, "assure")) >= 2
      [] name = "at_least_40_tokens"       -> Words(out) >= Bound.dense
      [] name = "at_least_45_tokens"       -> Words(out) >= Bound.run
      [] name = "processing_request"       -> Plain(out, "process") # {}
      [] name = "no_time_window"           -> Plain(out, "window") = {}
      [] name = "three_questions"          -> Cardinality(Questions(out)) >= Bound.questions
      [] OTHER                             -> FALSE

FirstOf(places) == IF places = {} THEN {} ELSE {Min(places)}

\* The share of words outside FUNCTION_WORDS is at least 0.62.
Dense(out) == 100 * (Words(out) - Cardinality({i \in DOMAIN out : out[i] = "the"})) >= 62 * Words(out)

\* _evaluate: the places a rule's match rests on, none when it does not match.
Evaluate(rule, out) ==
    CASE rule = "first_person_preference_or_explicit_request" -> Found(out, MarkerOf[rule], TRUE, FALSE)
      [] rule = "second_person_obligation_or_urgency" -> Found(out, MarkerOf[rule], TRUE, TRUE)
      [] rule = "repeated_reassurance_question" ->
            IF Cardinality(Plain(out, MarkerOf[rule])) < 2 THEN {} ELSE Plain(out, MarkerOf[rule])
      [] rule = "processing_request_with_time_window" ->
            IF Plain(out, "process") = {} THEN {} ELSE FirstOf(Plain(out, "window"))
      [] rule = "processing_request_without_time_window" ->
            IF Plain(out, "window") # {} THEN {} ELSE FirstOf(Plain(out, "process"))
      [] rule = "question_count_threshold" ->
            IF Cardinality(Questions(out)) < Bound.questions THEN {} ELSE Questions(out)
      [] rule = "lexical_density_threshold" ->
            IF Words(out) < Bound.dense \/ ~Dense(out) THEN {} ELSE {i \in DOMAIN out : WordsIn(out[i]) > 0}
      [] rule = "long_comma_separated_run" ->
            IF Words(out) < Bound.run \/ Cardinality({i \in DOMAIN out : out[i] = "comma"}) < Bound.commas
            THEN {} ELSE {i \in DOMAIN out : WordsIn(out[i]) > 0}
      [] OTHER -> Plain(out, MarkerOf[rule])

\* The definition is active, of the profile, and covers every language of the text.
Covers(d, profile, tags) ==
    /\ profile \in d.profiles
    /\ d.status = "active"
    /\ \A k \in DOMAIN tags : tags[k] \in d.languages \/ "mixed" \in d.languages

Candidates(out, profile, tags) ==
    {d \in Cues : /\ Covers(d, profile, tags)
                  /\ \A name \in d.preconditions : Precondition(name, out)
                  /\ Evaluate(d.rule, out) # {}}

\* The sort key (-priority, canonical_id); rank is the place of the id in the alphabet.
Outranks(d, e) == d.priority > e.priority \/ (d.priority = e.priority /\ d.rank < e.rank)

\* Faulty: the candidates keep the registry's order.
RegistryOrder(found) ==
    LET place(d) == Cardinality({e \in found : e.rank < d.rank}) + 1
    IN  [k \in 1..Min({MAX_CUES, Cardinality(found)}) |-> CHOOSE d \in found : place(d) = k]

\* candidates.sort(...)[:MAX_CUES]
Selected(found) ==
    LET place(d) == Cardinality({e \in found : Outranks(e, d)}) + 1
    IN  [k \in 1..Min({MAX_CUES, Cardinality(found)}) |-> CHOOSE d \in found : place(d) = k]
================================================================================
