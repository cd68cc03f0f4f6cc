------------------------------ MODULE ProfileForms -----------------------------
(***************************************************************************)
(* The two pages that edit the profile: the onboarding in steps, and the   *)
(* profile form.  Both load the profile, save a draft of it and show what  *)
(* the API made of it; neither stops edits or saves while one is under way.*)
(***************************************************************************)
EXTENDS Naturals, Sequences, FiniteSets, WebRoutes

CONSTANTS
    Field, Value,      \* what a profile holds
    StepFields,        \* the fields each step of the onboarding asks for
    MaxSaves           \* saves at a time

VARIABLES
    form,              \* the mounted page's state, None if it is not mounted
    saves,             \* the saves under way
    stored,            \* the profile in the document store
    alone              \* the last save was sent when no other was under way

formVars == <<form, saves, stored, alone>>

Draft == [Field -> Value \cup {None}]
LastStep == Len(StepFields)

FormState == [draft : Draft \cup {None}, step : 1..LastStep, edited : BOOLEAN,
              status : {"loading", "unavailable", "ready", "invalid", "saving", "saved", "failed"}]

NewForm == [draft |-> None, step |-> 1, status |-> "loading", edited |-> FALSE]

\* Nobody waits any more for the saves of a page that is left.
FormRoute(to) ==
    /\ form' = IF to \in {"onboarding", "profile"} THEN NewForm ELSE None
    /\ saves' = {[s EXCEPT !.awaited = FALSE] : s \in saves}
    /\ UNCHANGED <<stored, alone>>

--------------------------------------------------------------------------------
OnForm == route \in {"onboarding", "profile"}

LoadProfile ==
    /\ OnForm /\ form.status = "loading"
    /\ \/ form' = [form EXCEPT !.draft = stored, !.status = "ready"]
       \/ form' = [form EXCEPT !.status = "unavailable"]
    /\ UNCHANGED <<saves, stored, alone>>

ValidStep(draft, step) == \A f \in StepFields[step] : draft[f] # None

Loaded == OnForm /\ form.draft # None

\* A step shows its own fields, the last step the optional ones; the profile
\* form shows them all.
Editable(f) ==
    \/ route = "profile"
    \/ f \in StepFields[form.step]
    \/ form.step = LastStep /\ \A k \in DOMAIN StepFields : f \notin StepFields[k]

Edit ==
    /\ Loaded
    /\ \E f \in Field, v \in Value \cup {None} :
         /\ Editable(f) /\ v # form.draft[f]
         /\ form' = [form EXCEPT !.draft[f] = v, !.edited = TRUE]
    /\ UNCHANGED <<saves, stored, alone>>

HandleNext ==
    /\ Loaded /\ route = "onboarding" /\ form.step < LastStep
    /\ form' = IF ValidStep(form.draft, form.step)
               THEN [form EXCEPT !.step = @ + 1, !.status = "ready"]
               ELSE [form EXCEPT !.status = "invalid"]
    /\ UNCHANGED <<saves, stored, alone>>

Back ==
    /\ Loaded /\ route = "onboarding" /\ form.step > 1
    /\ form' = [form EXCEPT !.step = @ - 1]
    /\ UNCHANGED <<saves, stored, alone>>

Submit ==
    /\ form' = [form EXCEPT !.status = "saving"]
    /\ saves' = saves \cup {[at |-> "sent", draft |-> form.draft, awaited |-> TRUE]}
    /\ alone' = (saves = {})
    /\ UNCHANGED stored

SubmitOnboarding ==
    /\ Loaded /\ route = "onboarding" /\ form.step = LastStep /\ Cardinality(saves) < MaxSaves
    /\ IF \A k \in DOMAIN StepFields : ValidStep(form.draft, k)
       THEN Submit
       ELSE /\ form' = [form EXCEPT !.status = "invalid"]
            /\ UNCHANGED <<saves, stored, alone>>

SubmitProfile == Loaded /\ route = "profile" /\ Cardinality(saves) < MaxSaves /\ Submit

\* buildStoredProfile: a field the draft leaves out keeps its value.
Merged(profile, draft) == [f \in Field |-> IF draft[f] = None THEN profile[f] ELSE draft[f]]

SaveServed ==
    /\ \E s \in {s \in saves : s.at = "sent"} :
         LET profile == Merged(stored, s.draft)
         IN  /\ stored' = profile
             /\ saves' = (saves \ {s}) \cup
                   IF s.awaited THEN {[at |-> "served", draft |-> profile, awaited |-> TRUE]} ELSE {}
    /\ UNCHANGED <<form, alone>>

\* Faulty: the draft the user typed stays, whatever was stored.
ShowSavedKeeping(f, s) == [f EXCEPT !.status = "saved", !.edited = FALSE]

\* What was stored takes the place of the draft, edits made meanwhile included.
ShowSaved(f, s) == [f EXCEPT !.draft = s.draft, !.status = "saved", !.edited = FALSE]

SaveSettles ==
    /\ \E s \in saves :
         /\ saves' = saves \ {s}
         /\ \/ s.at = "served" /\ s.awaited /\ form' = ShowSaved(form, s)
            \/ form' = IF s.awaited THEN [form EXCEPT !.status = "failed"] ELSE form
    /\ UNCHANGED <<stored, alone>>

FormsNext == LoadProfile \/ Edit \/ HandleNext \/ Back \/ SubmitOnboarding \/ SubmitProfile
               \/ SaveServed \/ SaveSettles
================================================================================
