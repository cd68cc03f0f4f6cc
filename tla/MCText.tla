-------------------------------- MODULE MCText ---------------------------------
(***************************************************************************)
(* Small texts for the pipeline.  An address, a name or a word stands by   *)
(* itself; "at", "www." and the word characters "long" (64 of them),       *)
(* "four" (digits) and "code" (five digits) stand against what is next to  *)
(* them, which is where look-arounds and joined sides matter.              *)
(***************************************************************************)
EXTENDS TextPipeline

MCCategory == <<"EMAIL", "HANDLE", "PER", "PERSON_CONTEXT", "PHONE", "POSTCODE", "URL">>
MCLabel == <<"EMAIL", "HANDLE", "PERSON", "PERSON_CONTEXT", "PHONE", "POSTCODE", "URL">>

TextsOver(cells, n) == UNION {[1..k -> cells] : k \in 1..n}
Piece == {"long", "four", "code"}
Digits == {s \in TextsOver({"four", "code", "blank", "newline"}, 3) :
              Len(s) > 1 /\ {s[1], s[Len(s)]} \subseteq {"four", "code"}}

Expression(before, lead, forms, after) == [before |-> before, lead |-> lead, forms |-> forms, after |-> after]
Rule(category, e) == [category |-> category, before |-> e.before, lead |-> e.lead, forms |-> e.forms, after |-> e.after]

MCRules ==
    {Rule(1, Expression({}, <<>>, {<<"mail">>}, {})),
     Rule(2, Expression(Piece \cup {"at"}, <<>>,
                        {<<"at">> \o s : s \in {<<"long">>} \cup TextsOver({"four", "code"}, 2)}, {})),
     Rule(4, Expression({}, <<"met">>, {<<"name">>, <<"name", "name">>}, {})),
     Rule(5, Expression(Piece, <<>>, Digits, Piece \cup {"www"})),
     Rule(6, Expression(Piece, <<>>, {<<"code">>}, Piece \cup {"www"})),
     Rule(7, Expression(Piece, <<>>,
                        {<<"www">> \o s : s \in TextsOver(Piece \cup {"at", "www", "EMAIL"}, 2)}, {}))}

MCResidual ==
    {Expression({}, <<>>, {<<"mail">>}, {}),
     Expression({}, <<>>, {<<"www", c>> : c \in Piece \cup {"at", "www"}}, {}),
     Expression(Piece, <<>>, {<<"at", c>> : c \in Piece}, {}),
     Expression(Piece, <<>>, Digits, Piece \cup {"www"})}

MCFold == [c \in {"fullwidth mail"} |-> "mail"]

\* Among them: a postcode that is one only once the handle before it is gone,
\* digits that join when a name or a tag between them goes, quotations of
\* several kinds inside and across each other, and a text that is too long.
MCText == TextsOver({"word", "mail", "fullwidth mail", "name", "met", "de", "zz", "blank"}, 3)
          \cup TextsOver(Piece \cup {"at", "www"}, 4)
          \cup TextsOver({"long", "four", "name", "de", "EMAIL", "at", "www"}, 3)
          \cup TextsOver({"met", "name"}, 4)
          \cup TextsOver({"word", "quote", "hedge", "push", "said", "process", "window"}, 4)
          \cup TextsOver({"word", "quote", "hedge", "push", "process", "mail"}, 3)
          \cup TextsOver({"quote", "apostrophe", "contraction", "opening", "closing", "hedge"}, 4)
          \cup {<<"quote", "apostrophe", "quote", "hedge", "apostrophe">>,
                <<"contraction", "hedge", "contraction", "hedge", "contraction">>,
                <<"opening", "opening", "hedge", "closing", "process">>,
                <<"word", "word", "word", "word", "word", "word">>}

\* What the detector returns: nothing for the cue texts, and at most one span,
\* misplaced or overlong ones included, for the others.
MCDetected(text) ==
    {{}} \cup (IF \E i \in DOMAIN text : text[i] \in Marker \cup DOMAIN Ending \cup {"closing"}
              THEN {} ELSE {{[start |-> a, end |-> b, category |-> 3]} : a \in {-1, 0, 1}, b \in {1, 2, 5}})

MCFixture == [id \in {"pressure", "unclear"} |->
                 IF id = "pressure"
                 THEN [text |-> <<"word", "push", "mail">>, task |-> "draft", language |-> "en-GB"]
                 ELSE [text |-> <<"hedge", "process", "word">>, task |-> "excerpt", language |-> "mixed"]]

MCBound == [signal |-> 2, questions |-> 2, dense |-> 4, run |-> 4, commas |-> 1,
            label |-> 2, offset |-> 4, preview |-> 7]

Cue(id, rank, rule, priority, needs, profiles, languages) ==
    [id |-> id, rank |-> rank, rule |-> rule, priority |-> priority, preconditions |-> needs,
     profiles |-> profiles, languages |-> languages, status |-> "active"]

All == {"en-GB", "mixed"}
MCCues ==
    {Cue("ambiguity", 1, "ambiguity_marker_count", 80, {"minimum_signal"}, {"wording"}, {"en-GB"}),
     Cue("pressure", 2, "second_person_obligation_or_urgency", 100, {"minimum_signal"}, {"wording"}, All),
     Cue("processing", 3, "processing_time_phrase", 70, {"minimum_signal"}, {"wording"}, All),
     Cue("window", 4, "processing_request_with_time_window", 72, {"processing_request"}, {"wording"}, All),
     Cue("no window", 5, "processing_request_without_time_window", 78,
         {"processing_request", "no_time_window"}, {"wording"}, All)}
================================================================================
