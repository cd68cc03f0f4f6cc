------------------------------- MODULE SafetyPage ------------------------------
(***************************************************************************)
(* The report form.  Its target and conversation come from the link it was *)
(* opened with, from the lists it loads, or from the user.                 *)
(***************************************************************************)
EXTENDS ChatPage

CONSTANT Candidate     \* the peers who are shown as matches unless blocked

VARIABLES
    safety,            \* the page's state, None if it is not mounted
    report             \* the last report it sent, None if there is none

safetyVars == <<safety, report>>

Target == [id : Peer, conversation : Peer \cup {None}]

SafetyState == [target : Peer \cup {None}, conversation : Peer \cup {None}, targets : Seq(Target),
                loaded : BOOLEAN, described : BOOLEAN, block : BOOLEAN, mixed : BOOLEAN,
                status : {"ready", "invalid", "submitting", "submitted", "failed"}]

\* "mixed": the user chose another person while a conversation was filled in,
\* or filled one in.
MountSafety(target, conversation) ==
    safety' = [target |-> target, conversation |-> conversation, targets |-> <<>>, loaded |-> FALSE,
               described |-> FALSE, block |-> TRUE, status |-> "ready", mixed |-> FALSE]

UnmountSafety == safety' = None

--------------------------------------------------------------------------------

\* reportTargets: who takes part in a conversation, then the other matches.
ReportTargets(threads, candidates) ==
    [k \in DOMAIN threads |-> [id |-> threads[k], conversation |-> threads[k]]]
       \o SetToSeq({[id |-> p, conversation |-> None] : p \in candidates \ Range(threads)})

\* Faulty: the first person on the list is chosen even if another one is named.
PickFirstAlways(s, targets) ==
    IF targets = <<>> THEN s
    ELSE [s EXCEPT !.target = targets[1].id,
                   !.conversation = IF s.conversation = None THEN targets[1].conversation ELSE @]

\* The effect that runs while nobody is chosen.
PickFirst(s, targets) ==
    IF s.target # None \/ targets = <<>> THEN s
    ELSE [s EXCEPT !.target = targets[1].id,
                   !.conversation = IF s.conversation = None THEN targets[1].conversation ELSE @]

\* Either list may fail to load, and is empty then.
LoadTargets ==
    /\ route = "safety" /\ ~safety.loaded
    /\ \E threads \in {<<>>, server.threads}, candidates \in {{}, Candidate \ server.blocked} :
         LET targets == ReportTargets(threads, candidates)
         IN  safety' = PickFirst([safety EXCEPT !.loaded = TRUE, !.targets = targets], targets)
    /\ UNCHANGED <<chatVars, report>>

\* The select keeps the conversation that is filled in and suggests one
\* otherwise; without a list the person is typed.
ChooseTarget ==
    /\ route = "safety"
    /\ \E p \in Peer :
         LET listed == {t \in Range(safety.targets) : t.id = p}
             suggested == IF listed = {} THEN None ELSE (CHOOSE t \in listed : TRUE).conversation
         IN  /\ p # safety.target
             /\ listed # {} \/ safety.targets = <<>>
             /\ safety' = [safety EXCEPT !.target = p,
                             !.conversation = IF @ = None THEN suggested ELSE @,
                             !.mixed = @ \/ safety.conversation # None]
    /\ UNCHANGED <<chatVars, report>>

EditReport ==
    /\ route = "safety"
    /\ \/ \E c \in Peer \cup {None} :
            /\ c # safety.conversation
            /\ safety' = [safety EXCEPT !.conversation = c, !.mixed = @ \/ c # None]
       \/ ~safety.described /\ safety' = [safety EXCEPT !.described = TRUE]
       \/ safety' = [safety EXCEPT !.block = ~@]
    /\ UNCHANGED <<chatVars, report>>

\* buildValidationErrors.  The check boxes never leave no category.
Valid(s) == s.target # None /\ s.described

\* One report at a time is a bound: the button is not disabled meanwhile.
HandleReport ==
    /\ route = "safety" /\ safety.status # "submitting"
    /\ IF Valid(safety)
       THEN /\ safety' = [safety EXCEPT !.status = "submitting"]
            /\ report' = [at |-> "sent", target |-> safety.target, conversation |-> safety.conversation,
                          block |-> safety.block, mixed |-> safety.mixed]
       ELSE /\ safety' = [safety EXCEPT !.status = "invalid"]
            /\ UNCHANGED report
    /\ UNCHANGED chatVars

\* A conversation that is blocked changes, and so comes first.
Barred(s, peer) == [s EXCEPT !.blocked = @ \cup {peer},
                             !.threads = IF peer \in Range(@) THEN ToFront(@, peer) ELSE @]

\* POST /reports, whoever waits for it.
ReportServed ==
    /\ report # None /\ report.at = "sent"
    /\ report' = [report EXCEPT !.at = "stored"]
    /\ server' = IF report.block THEN Barred(server, report.target) ELSE server
    /\ chat' = IF chat = None THEN None ELSE [chat EXCEPT !.whole = FALSE]
    /\ UNCHANGED <<safety, calls, writes>>

\* The description is emptied when the report was stored.
ReportSettles ==
    /\ route = "safety" /\ safety.status = "submitting"
    /\ \/ /\ report.at = "stored"
          /\ safety' = [safety EXCEPT !.status = "submitted", !.described = FALSE]
       \/ safety' = [safety EXCEPT !.status = "failed"]
    /\ UNCHANGED <<chatVars, report>>

SafetyNext == LoadTargets \/ ChooseTarget \/ EditReport \/ HandleReport \/ ReportServed \/ ReportSettles
================================================================================
