------------------------------- MODULE WebClient -------------------------------
(***************************************************************************)
(* The web client: its pages, one mounted at a time, with the links between*)
(* them and the API they work on.  A visit keeps to pages that share state:*)
(* pages of different tours have nothing in common but the route.  The     *)
(* user-draft page has a specification of its own, T1ReviewPage.           *)
(***************************************************************************)
EXTENDS SignalReview, MatchesPage, ProfileForms

CONSTANT Threads       \* the conversations in the seeds

\* None is nobody, and no page's state.
ASSUME WebAssumption ==
    /\ None \notin Peer \cup SignalState \cup Reviewing \cup ChatState
    /\ None \notin SafetyState \cup MarkSets \cup MatchesState \cup FormState
    /\ DefaultFixture \in Fixture \ {Excerpt} /\ Excerpt \in Fixture /\ DefaultProfile \in Profile
    /\ Threads \in Seq(Peer) /\ Candidate \subseteq Peer /\ IsFiniteSet(Candidate)
    /\ StepFields \in Seq(SUBSET Field) /\ StepFields # <<>>

vars == <<route, tour, signalVars, chatVars, safetyVars, matchesVars, formVars>>

Tours == {{"overview", "signal", "draft"}, {"overview", "onboarding", "profile"},
          {"overview", "matches"}, {"overview", "matches", "chat"}, {"overview", "chat", "safety"}}

Init ==
    /\ route = "overview"
    /\ \E dev \in BOOLEAN, flag, t1Flag \in {"true", "false", "absent"}, pages \in Tours :
         tour = pages \cap Offered(flag, t1Flag, dev)
    /\ tour # {"overview"}
    /\ signal = None /\ call = None /\ limiter = [IdleLimiter EXCEPT !.age = 0]
    /\ chat = None /\ calls = <<>> /\ writes = {}
    /\ server = [threads |-> Threads, sent |-> [p \in Peer |-> 0], blocked |-> {}]
    /\ safety = None /\ report = None
    /\ matches = None /\ storage = NoMarks /\ marks = NoMarks /\ cut = FALSE
    /\ form = None /\ saves = {} /\ stored = [f \in Field |-> None] /\ alone = TRUE

--------------------------------------------------------------------------------
(***************************************************************************)
(* Navigation: the page that is left is unmounted, the other one mounted.  *)
(***************************************************************************)

\* "Open chat" on a match, "Report user" on a thread, or no link but the menu.
Linked(to, peer) ==
    \/ peer = None
    \/ route = "matches" /\ to = "chat" /\ peer \in Visible
    \/ route = "chat" /\ to = "safety" /\ peer = chat.selected

SignalRoute(to) ==
    IF route = "signal" THEN UnmountSignal /\ UNCHANGED limiter
    ELSE IF to = "signal" THEN MountSignal /\ UNCHANGED <<call, limiter>>
    ELSE UNCHANGED signalVars

ChatRoute(to, candidate) ==
    IF route = "chat" THEN UnmountChat /\ UNCHANGED server
    ELSE IF to = "chat" THEN MountChat(candidate) /\ UNCHANGED <<writes, server>>
    ELSE UNCHANGED chatVars

SafetyRoute(to, target) ==
    /\ IF route = "safety" THEN UnmountSafety
       ELSE IF to = "safety" THEN MountSafety(target, target)
       ELSE UNCHANGED safety
    /\ UNCHANGED report

MatchesRoute(to) ==
    IF route = "matches" THEN UnmountMatches
    ELSE IF to = "matches" THEN MountMatches
    ELSE UNCHANGED matchesVars

Navigate ==
    \E to \in tour \ {route}, peer \in Peer \cup {None} :
        /\ Linked(to, peer)
        /\ route' = to
        /\ SignalRoute(to) /\ ChatRoute(to, peer) /\ SafetyRoute(to, peer)
        /\ MatchesRoute(to) /\ FormRoute(to)
        /\ UNCHANGED tour

Stays == UNCHANGED <<route, tour>>

InSignal  == SignalNext /\ Stays /\ UNCHANGED <<chatVars, safetyVars, matchesVars, formVars>>
InChat    == ChatNext /\ Stays /\ UNCHANGED <<signalVars, safetyVars, matchesVars, formVars>>
InSafety  == SafetyNext /\ Stays /\ UNCHANGED <<signalVars, matchesVars, formVars>>
InMatches == MatchesNext /\ Stays /\ UNCHANGED <<signalVars, chatVars, safetyVars, formVars>>
InForms   == FormsNext /\ Stays /\ UNCHANGED <<signalVars, chatVars, safetyVars, matchesVars>>

Next == Navigate \/ InSignal \/ InChat \/ InSafety \/ InMatches \/ InForms

Spec == Init /\ [][Next]_vars

\* The API resumes its handlers, its timer fires, and the browser settles what
\* was answered.  The private service has no say: it may never answer.
FairSpec ==
    /\ Spec
    /\ WF_vars(Receive /\ Stays /\ UNCHANGED <<chatVars, safetyVars, matchesVars, formVars>>)
    /\ WF_vars(Timeout /\ Stays /\ UNCHANGED <<chatVars, safetyVars, matchesVars, formVars>>)
    /\ WF_vars(Settle /\ Stays /\ UNCHANGED <<chatVars, safetyVars, matchesVars, formVars>>)

--------------------------------------------------------------------------------
(***************************************************************************)
(* Properties.                                                             *)
(***************************************************************************)

\* The shape of the state: one page is mounted, and only its state is there.
WebTypeOK ==
    /\ route \in tour
    /\ IF route = "signal" THEN signal \in SignalState ELSE signal = None
    /\ IF route = "chat" THEN chat \in ChatState ELSE chat = None /\ calls = <<>>
    /\ IF route = "safety" THEN safety \in SafetyState ELSE safety = None
    /\ IF route = "matches" THEN matches \in MatchesState ELSE matches = None
    /\ IF OnForm THEN form \in FormState ELSE form = None
    /\ call \in Reviewing \cup {None} /\ (call # None => route = "signal")
    /\ storage \in MarkSets /\ marks \in MarkSets /\ stored \in Draft

\* The fixture page shows a result for the fixture, the task and the support
\* view that are selected next to it, and no other; while it loads, its one
\* request is for these; and it sends none that the API's schema refuses,
\* whatever was selected in which order (SignalReviewPage.tsx 25-58,
\* signalReviewModel.ts 96-185).
ShownAsSelected ==
    /\ WebTypeOK
    /\ route = "signal" =>
         /\ Allowlisted(Ask(signal))
         /\ signal.analysis # None => signal.phase = "result" /\ signal.analysis = Ask(signal)
         /\ (signal.phase = "loading") = (call # None)
         /\ call # None => call.ask = Ask(signal)
         /\ signal.repair # "none" => signal.phase \in {"result", "loading"}

\* The fixed window lets twice its maximum pass in the time of one window, and
\* never more (v2-signal-analysis.ts 22-35; the T1 routes have the same one).
RateHolds == limiter.passed[rateLimitWindow - 1] <= 2 * rateLimitMax

\* A review that loads ends, although the private service may never answer, or
\* may begin a body and never end it: the adapter's timer covers both
\* (v2-signal-analysis.ts 113-157).
LoadingEnds == (signal # None /\ signal.phase = "loading") ~> ~(signal # None /\ signal.phase = "loading")

\* When the chat page is at rest and its requests were answered in their order,
\* the thread shown is that of the conversation selected, failures or not; if
\* none failed and nobody else wrote, it is up to date, the message just sent
\* included (ChatPage.tsx 31-130: no answer is checked against the selection).
ThreadShown ==
    route = "chat" =>
        /\ chat.selected = None \/ chat.selected \in Range(chat.list)
        /\ chat.order /\ calls = <<>> =>
             /\ chat.messages # None => chat.messages.of = chat.selected
             /\ chat.whole /\ chat.selected # None =>
                  chat.messages = [of |-> chat.selected, count |-> server.sent[chat.selected]]

\* A link opens what it names.  In whatever order the answers come, the thread a
\* match's link opens is selected, once its call succeeds, and stays so, over
\* every list that a send reloads, until the user chooses another one or writes
\* in one; only a first list that arrives after the link's own moves the
\* selection away, to its first thread (ChatPage.tsx 31-50, 68-86).  And a
\* report names a conversation with the person it is about, whatever link it
\* came from and whichever lists were loaded, unless the user filled in a
\* conversation or, with one filled in, chose another person (SafetyPage.tsx
\* 58-61, 120-127, 233-246, which keep it then).
LinksKept ==
    /\ route = "chat" /\ chat.opened # None =>
         chat.selected = chat.opened \/ \E k \in DOMAIN calls : calls[k].then = "open"
    /\ report # None /\ ~report.mixed => report.conversation \in {None, report.target}

\* What the user left with the client is kept: the marks on matches across
\* visits, as long as no visit ends before it has restored them; and a profile
\* page that says "saved" shows what the store holds, a saved onboarding every
\* field it asks for, as long as saves wait for one another (MatchesPage.tsx
\* 30-43, 72-84; OnboardingPage.tsx 482-508; ProfilePage.tsx 169-187).
KeptAsShown ==
    /\ ~cut /\ (route = "matches" => matches.restoring = None) => storage = marks
    /\ form # None /\ form.status = "saved" /\ alone =>
         /\ form.edited \/ form.draft = stored
         /\ route = "onboarding" => \A k \in DOMAIN StepFields : \A f \in StepFields[k] : stored[f] # None
================================================================================
