------------------------------ MODULE MatchesPage ------------------------------
(***************************************************************************)
(* The matches page.  What the user saved or dismissed is kept in the      *)
(* browser's storage, which the page reads when it is mounted and writes   *)
(* in an effect on each change.                                            *)
(***************************************************************************)
EXTENDS SafetyPage

VARIABLES
    matches,           \* the page's state, None if it is not mounted
    storage,           \* localStorage: [saved, dismissed]
    marks,             \* what the user saved and dismissed
    cut                \* the page was left before it had restored marks

matchesVars == <<matches, storage, marks, cut>>

MarkSets == [saved : SUBSET Candidate, dismissed : SUBSET Candidate]

MatchesState == [candidates : SUBSET Candidate, shown : MarkSets, restoring : MarkSets \cup {None}]

NoMarks == [saved |-> {}, dismissed |-> {}]

\* Faulty: the effects run twice, as they do under StrictMode in development.
MountEffectsTwice ==
    /\ matches' = [candidates |-> {}, shown |-> NoMarks, restoring |-> NoMarks]
    /\ storage' = NoMarks

\* The effects of mounting run in their order: the marks are read, to be shown
\* by the next render, and then the marks shown so far, none, are written.
MountEffects ==
    /\ matches' = [candidates |-> {}, shown |-> NoMarks, restoring |-> storage]
    /\ storage' = NoMarks

MountMatches == MountEffects /\ UNCHANGED <<marks, cut>>

UnmountMatches == /\ matches' = None
                  /\ cut' = (cut \/ matches.restoring \notin {None, NoMarks})
                  /\ UNCHANGED <<storage, marks>>

--------------------------------------------------------------------------------

\* The next render, with the effects that write what it shows.
Restore ==
    /\ route = "matches" /\ matches.restoring # None
    /\ matches' = [matches EXCEPT !.shown = matches.restoring, !.restoring = None]
    /\ storage' = matches.restoring
    /\ UNCHANGED <<marks, cut>>

\* The profile and the candidates, both or neither.
LoadCandidates ==
    /\ route = "matches" /\ matches.candidates = {}
    /\ matches' = [matches EXCEPT !.candidates = Candidate \ server.blocked]
    /\ UNCHANGED <<storage, marks, cut>>

Visible == matches.candidates \ matches.shown.dismissed

Toggled(S, x) == IF x \in S THEN S \ {x} ELSE S \cup {x}

\* toggleSaved, dismissCandidate, and the button that restores the dismissed.
Marked(m) == {[m EXCEPT !.saved = Toggled(@, p)] : p \in Visible}
               \cup {[m EXCEPT !.dismissed = @ \cup {p}] : p \in Visible}
               \cup {[m EXCEPT !.dismissed = {}]}

\* An event, its render and the effects that write what changed.  A bound:
\* only tours without the chat mark matches, marks and threads share nothing.
Mark ==
    /\ route = "matches" /\ "chat" \notin tour /\ matches.restoring = None
    /\ \E shown \in Marked(matches.shown) :
         /\ shown # matches.shown
         /\ matches' = [matches EXCEPT !.shown = shown]
         /\ storage' = shown
         /\ marks' = shown
    /\ UNCHANGED cut

MatchesNext == Restore \/ LoadCandidates \/ Mark
================================================================================
