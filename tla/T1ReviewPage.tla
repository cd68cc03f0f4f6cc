---------------------------- MODULE T1ReviewPage ----------------------------
(***************************************************************************)
(* The web page of a T1 draft review: its reducer, the three refs its      *)
(* handlers share, the calls it has in flight and the expiry timer.        *)
(*                                                                         *)
(* An answer or a timer dispatches to the reducer at once, but what the    *)
(* user sees and what the handlers close over is the state of the last     *)
(* render.  So there are two copies: page, with every dispatch applied,    *)
(* and view, to which the user's own events are applied at once and the    *)
(* others when React renders them, after any number of events: React 18    *)
(* renders a click or a keystroke before what a timer or a promise has     *)
(* dispatched.                                                             *)
(*                                                                         *)
(* The profile and the language select are one choice; the draft is blank  *)
(* or not.                                                                 *)
(***************************************************************************)
EXTENDS Naturals, Sequences, FiniteSets, Functions

CONSTANTS
  Token,         \* review tokens the API may issue
  Choice,        \* support views and languages to choose from
  DefaultChoice, \* the choice of a fresh page
  None,          \* no token, no request, no preparation, no analysis
  MaxRevision    \* bound: the user does this many things

ASSUME PageAssumption == /\ DefaultChoice \in Choice
                         /\ None \notin Token \cup [token : Token, choice : Choice]
                         /\ MaxRevision \in Nat

VARIABLES
  page,      \* the reducer's state after every dispatch so far
  view,      \* the state of the last render
  ref,       \* activeRequestRef, activeTokenRef, operationRevisionRef
  mounted,   \* whether the page is on screen
  behind,    \* history: the last preview was asked for on a view behind the page
  calls,     \* prepare and continue calls in flight, by the revision that made them
  arrived,   \* the calls whose promise is about to settle, in order
  asked,     \* tokens the page has sent a clear for
  learned,   \* tokens the page was told
  released,  \* tokens whose analysis the page was told
  reviews,   \* the API's open reviews
  issued     \* the tokens the API has issued

vars == <<page, view, ref, mounted, behind, calls, arrived, asked, learned, released,
          reviews, issued>>

history == <<learned, released>>
server == <<reviews, issued>>

(***************************************************************************)
(* t1UserDraftReviewModel.ts: the reducer.                                 *)
(***************************************************************************)

InitialState == [draft |-> "text", choice |-> DefaultChoice, selfConfirmed |-> FALSE,
                 reviewConfirmed |-> FALSE, phase |-> "draft", preparation |-> None,
                 analysis |-> None, revision |-> 0]

Invalidated(p, r) == [p EXCEPT !.reviewConfirmed = FALSE, !.phase = "draft",
                               !.preparation = None, !.analysis = None, !.revision = r]

\* Faulty: what was made for the former choice stays on the page.
SelectKeeping(p, c, r) == [p EXCEPT !.choice = c, !.revision = r]

EditDraft(p, text, r) == [Invalidated(p, r) EXCEPT !.draft = text]
Select(p, c, r) == [Invalidated(p, r) EXCEPT !.choice = c]
ConfirmSelf(p, checked, r) == [Invalidated(p, r) EXCEPT !.selfConfirmed = checked]
ConfirmReview(p, checked) == [p EXCEPT !.reviewConfirmed = checked]

\* Faulty: the request's revision is not remembered.
PrepareStartUnnumbered(p, r) ==
  IF p.selfConfirmed /\ p.draft # "blank"
  THEN [p EXCEPT !.phase = "preparing", !.preparation = None, !.analysis = None] ELSE p

PrepareStart(p, r) ==
  IF p.selfConfirmed /\ p.draft # "blank"
  THEN [p EXCEPT !.phase = "preparing", !.preparation = None, !.analysis = None, !.revision = r]
  ELSE p

\* The draft is forgotten as soon as its minimized preview is there.
PrepareSucceed(p, preparation, r) ==
  IF r # p.revision THEN p
  ELSE [p EXCEPT !.draft = "blank", !.phase = "review", !.preparation = preparation,
                 !.reviewConfirmed = FALSE]

PrepareFail(p, r) ==
  IF r # p.revision THEN p
  ELSE [p EXCEPT !.phase = "error", !.preparation = None, !.analysis = None]

ContinueStart(p, r) ==
  IF p.preparation # None /\ p.reviewConfirmed
  THEN [p EXCEPT !.phase = "continuing", !.analysis = None, !.revision = r] ELSE p

\* Faulty: any answer is taken for the current request's.
ContinueSucceedLate(p, analysis, r) ==
  [p EXCEPT !.phase = "result", !.preparation = None, !.reviewConfirmed = FALSE,
            !.analysis = analysis]

ContinueSucceed(p, analysis, r) ==
  IF r # p.revision THEN p
  ELSE [p EXCEPT !.phase = "result", !.preparation = None, !.reviewConfirmed = FALSE,
                 !.analysis = analysis]

ContinueFail(p, r) ==
  IF r # p.revision THEN p
  ELSE [p EXCEPT !.phase = "error", !.preparation = None, !.analysis = None,
                 !.reviewConfirmed = FALSE]

\* clear and expire
Emptied(phase, r) == [InitialState EXCEPT !.draft = "blank", !.phase = phase, !.revision = r]

(***************************************************************************)
(* T1UserDraftReviewPage.tsx: the handlers.                                *)
(***************************************************************************)

Busy(p) == p.phase \in {"preparing", "continuing"}
Idle == [request |-> None, token |-> None, revision |-> 0]

Init == /\ page = InitialState /\ view = InitialState
        /\ ref = Idle /\ mounted = TRUE /\ behind = FALSE
        /\ calls = [r \in {} |-> 0] /\ arrived = <<>>
        /\ asked = {} /\ learned = {} /\ released = {}
        /\ reviews = {} /\ issued = {}

\* The calls after activeRequestRef.current?.abort(): a call that has not
\* arrived rejects, which its handler ignores.
Aborting == [r \in DOMAIN calls |->
               IF r = ref.request THEN [calls[r] EXCEPT !.aborted = TRUE] ELSE calls[r]]

\* releaseCurrentReview: the clears that are sent with it.
Released == asked \cup ({ref.token} \ {None})

NextRevision == ref.revision + 1

\* An event of the user, who acts on what was last rendered.
Event == mounted /\ ref.revision < MaxRevision

\* The user edits the draft, changes a select or the first checkbox.
InvalidateForEdit(p, v) ==
  /\ calls' = Aborting
  /\ asked' = Released
  /\ ref' = [request |-> None, token |-> None, revision |-> NextRevision]
  /\ page' = p /\ view' = v /\ behind' = FALSE
  /\ UNCHANGED <<arrived, mounted, server, history>>

Edit ==
  /\ Event
  /\ ~Busy(view)
  /\ \/ \E text \in {"blank", "text"} :
          InvalidateForEdit(EditDraft(page, text, NextRevision),
                            EditDraft(view, text, NextRevision))
     \/ \E c \in Choice \ {view.choice} :
          InvalidateForEdit(Select(page, c, NextRevision), Select(view, c, NextRevision))
     \/ InvalidateForEdit(ConfirmSelf(page, ~view.selfConfirmed, NextRevision),
                          ConfirmSelf(view, ~view.selfConfirmed, NextRevision))

\* A call, with what its answer will be made for.
Sent(kind, choice, token) == [kind |-> kind, choice |-> choice, token |-> token,
                              aborted |-> FALSE, at |-> "sent", ok |-> FALSE]

HandlePrepare ==
  /\ Event
  /\ ~Busy(view) /\ view.selfConfirmed /\ view.draft # "blank"
  /\ asked' = Released
  /\ ref' = [request |-> NextRevision, token |-> None, revision |-> NextRevision]
  /\ calls' = [r \in DOMAIN calls \cup {NextRevision} |->
                 IF r = NextRevision THEN Sent("prepare", view.choice, None) ELSE Aborting[r]]
  /\ page' = PrepareStart(page, NextRevision)
  /\ view' = PrepareStart(view, NextRevision)
  /\ behind' = (view # page)
  /\ UNCHANGED <<mounted, arrived, server, history>>

\* The second checkbox, below the preview.
ConfirmPreview ==
  /\ Event
  /\ view.phase = "review"
  /\ page' = ConfirmReview(page, ~view.reviewConfirmed)
  /\ view' = ConfirmReview(view, ~view.reviewConfirmed)
  /\ UNCHANGED <<ref, mounted, behind, calls, arrived, asked, server, history>>

HandleContinue ==
  /\ Event
  /\ view.phase = "review" /\ view.reviewConfirmed
  /\ ref' = [ref EXCEPT !.request = NextRevision, !.revision = NextRevision]
  /\ calls' = [r \in DOMAIN calls \cup {NextRevision} |->
                 IF r = NextRevision
                 THEN Sent("continue", view.preparation.choice, view.preparation.token)
                 ELSE Aborting[r]]
  /\ page' = ContinueStart(page, NextRevision)
  /\ view' = ContinueStart(view, NextRevision)
  /\ UNCHANGED <<mounted, behind, arrived, asked, server, history>>

HandleClear ==
  /\ Event
  /\ calls' = Aborting
  /\ asked' = Released
  /\ ref' = [request |-> None, token |-> None, revision |-> NextRevision]
  /\ page' = Emptied("cleared", NextRevision)
  /\ view' = Emptied("cleared", NextRevision)
  /\ behind' = FALSE
  /\ UNCHANGED <<mounted, arrived, server, history>>

\* The page is left: the effect's cleanup runs, the rest of it is gone.
Unmount ==
  /\ mounted
  /\ mounted' = FALSE
  /\ calls' = Aborting
  /\ asked' = Released
  /\ ref' = [ref EXCEPT !.token = None, !.revision = NextRevision]
  /\ UNCHANGED <<page, view, behind, arrived, server, history>>

\* Faulty: a review that is being continued does not expire.
ExpireTimerWhenIdle ==
  /\ mounted
  /\ view.preparation # None /\ ref.token = view.preparation.token /\ ~Busy(page)
  /\ calls' = Aborting
  /\ asked' = Released
  /\ ref' = [request |-> None, token |-> None, revision |-> NextRevision]
  /\ page' = Emptied("expired", NextRevision)
  /\ behind' = FALSE
  /\ UNCHANGED <<view, mounted, arrived, server, history>>

\* The timer of the preparation last rendered fires while its review is held.
ExpireTimer ==
  /\ mounted
  /\ view.preparation # None /\ ref.token = view.preparation.token
  /\ calls' = Aborting
  /\ asked' = Released
  /\ ref' = [request |-> None, token |-> None, revision |-> NextRevision]
  /\ page' = Emptied("expired", NextRevision)
  /\ behind' = FALSE
  /\ UNCHANGED <<view, mounted, arrived, server, history>>

Render == /\ mounted /\ view # page
          /\ view' = page
          /\ UNCHANGED <<page, ref, mounted, behind, calls, arrived, asked, server, history>>

(***************************************************************************)
(* The answers: the promise of the call that arrived first settles.        *)
(***************************************************************************)

Settles(r, kind) ==
  /\ arrived # <<>> /\ r = Head(arrived) /\ calls[r].kind = kind
  /\ arrived' = Tail(arrived)
  /\ calls' = Restrict(calls, DOMAIN calls \ {r})

\* The answer is for what the page did last.
Current(r) == ~calls[r].aborted /\ ref.revision = r
Done(r) == IF ref.request = r THEN None ELSE ref.request

\* Faulty: the token of an answer that comes too late is dropped.
PrepareSettlesDropping(r) ==
  LET c == calls[r]
      preparation == [token |-> c.token, choice |-> c.choice]
  IN  /\ Settles(r, "prepare")
      /\ ref' = [ref EXCEPT !.request = Done(r),
                            !.token = IF c.ok /\ Current(r) THEN c.token ELSE @]
      /\ page' = IF ~Current(r) THEN page
                 ELSE IF c.ok THEN PrepareSucceed(page, preparation, r) ELSE PrepareFail(page, r)
      /\ learned' = learned \cup (IF c.ok THEN {c.token} ELSE {})
      /\ UNCHANGED <<asked, view, mounted, behind, released, server>>

\* A token that comes too late is cleared at once.
PrepareSettles(r) ==
  LET c == calls[r]
      preparation == [token |-> c.token, choice |-> c.choice]
  IN  /\ Settles(r, "prepare")
      /\ ref' = [ref EXCEPT !.request = Done(r),
                            !.token = IF c.ok /\ Current(r) THEN c.token ELSE @]
      /\ asked' = IF c.ok /\ ~Current(r) THEN asked \cup {c.token} ELSE asked
      /\ page' = IF ~Current(r) THEN page
                 ELSE IF c.ok THEN PrepareSucceed(page, preparation, r) ELSE PrepareFail(page, r)
      /\ learned' = learned \cup (IF c.ok THEN {c.token} ELSE {})
      /\ UNCHANGED <<view, mounted, behind, released, server>>

\* Faulty: the token is kept when the continuation fails.
ContinueSettlesKeeping(r) ==
  LET c == calls[r]
      analysis == [token |-> c.token, choice |-> c.choice]
  IN  /\ Settles(r, "continue")
      /\ ref' = [ref EXCEPT !.request = Done(r), !.token = IF c.ok THEN None ELSE @]
      /\ page' = IF ~Current(r) THEN page
                 ELSE IF c.ok THEN ContinueSucceed(page, analysis, r) ELSE ContinueFail(page, r)
      /\ released' = released \cup (IF c.ok THEN {c.token} ELSE {})
      /\ UNCHANGED <<asked, view, mounted, behind, learned, server>>

\* An answer empties activeTokenRef whatever has happened since; a failure may
\* or may not have consumed the review, so that it is cleared.
ContinueSettles(r) ==
  LET c == calls[r]
      analysis == [token |-> c.token, choice |-> c.choice]
  IN  /\ Settles(r, "continue")
      /\ ref' = [ref EXCEPT !.request = Done(r),
                            !.token = IF c.ok \/ Current(r) THEN None ELSE @]
      /\ asked' = IF ~c.ok /\ Current(r) THEN Released ELSE asked
      /\ page' = IF ~Current(r) THEN page
                 ELSE IF c.ok THEN ContinueSucceed(page, analysis, r) ELSE ContinueFail(page, r)
      /\ released' = released \cup (IF c.ok THEN {c.token} ELSE {})
      /\ UNCHANGED <<view, mounted, behind, learned, server>>

(***************************************************************************)
(* The API and the network, as far as the page can tell.                   *)
(***************************************************************************)

local == <<page, view, ref, mounted, behind, arrived, asked, history>>

\* A prepare replaces the reviews of the page's user by a fresh one.
ServePrepare(r) ==
  /\ calls[r].kind = "prepare" /\ calls[r].at = "sent"
  /\ \E t \in Token \ issued :
       /\ reviews' = {t} /\ issued' = issued \cup {t}
       /\ calls' = [calls EXCEPT ![r] = [@ EXCEPT !.at = "served", !.token = t, !.ok = TRUE]]
  /\ UNCHANGED local

\* A continue consumes its review.
ServeContinue(r) ==
  /\ calls[r].kind = "continue" /\ calls[r].at = "sent" /\ calls[r].token \in reviews
  /\ reviews' = reviews \ {calls[r].token}
  /\ calls' = [calls EXCEPT ![r] = [@ EXCEPT !.at = "served", !.ok = TRUE]]
  /\ UNCHANGED <<local, issued>>

\* The API refuses a call, or the call or its answer is lost.
Fail(r) ==
  /\ calls[r].at \in {"sent", "served"}
  /\ calls' = [calls EXCEPT ![r] = [@ EXCEPT !.at = "failed", !.ok = FALSE]]
  /\ UNCHANGED <<local, server>>

\* The body is read; an aborted call's never is.
Arrive(r) ==
  /\ calls[r].at \in {"served", "failed"} /\ ~calls[r].aborted
  /\ calls' = [calls EXCEPT ![r].at = "arrived"]
  /\ arrived' = Append(arrived, r)
  /\ UNCHANGED <<page, view, ref, mounted, behind, asked, server, history>>

\* A clear reaches the API, or a review expires there.
ReviewEnds == /\ \E t \in reviews : reviews' = reviews \ {t}
              /\ UNCHANGED <<local, calls, issued>>

Answers(r) == ServePrepare(r) \/ ServeContinue(r) \/ Fail(r) \/ Arrive(r)
Settle(r) == PrepareSettles(r) \/ ContinueSettles(r)

Next == \/ Edit \/ HandlePrepare \/ ConfirmPreview \/ HandleContinue \/ HandleClear
        \/ Unmount \/ ExpireTimer \/ Render \/ ReviewEnds
        \/ \E r \in DOMAIN calls : Settle(r) \/ Answers(r)

Spec == Init /\ [][Next]_vars

\* The browser renders, runs its timers and settles what has arrived.
FairSpec == Spec /\ WF_vars(Render) /\ WF_vars(ExpireTimer)
                 /\ WF_vars(\E r \in DOMAIN calls : Settle(r))

\* Every call is answered or fails; the page has no say in that.
CallsEnd == WF_vars(\E r \in DOMAIN calls : Answers(r))

(***************************************************************************)
(* Properties.                                                             *)
(***************************************************************************)

Phase == {"draft", "preparing", "review", "continuing", "result", "error", "cleared", "expired"}
Shown == [token : Token, choice : Choice]
State == [draft : {"blank", "text"}, choice : Choice, selfConfirmed : BOOLEAN,
          reviewConfirmed : BOOLEAN, phase : Phase, preparation : Shown \cup {None},
          analysis : Shown \cup {None}, revision : Nat]

\* The reducer's state has its type, with a preparation or an analysis exactly
\* in the phases that show one, and the draft gone by then.
Proper(p) ==
  /\ p \in State
  /\ p.phase \in {"review", "continuing"} <=> p.preparation # None
  /\ p.phase = "result" <=> p.analysis # None
  /\ p.preparation # None \/ p.analysis # None => p.draft = "blank"

\* Both states are proper, and the refs and the API's reviews have their types.
TypeOK ==
  /\ Proper(page) /\ Proper(view)
  /\ ref.token \in Token \cup {None} /\ ref.revision \in Nat
  /\ reviews \subseteq issued

\* The reducer has refused the page's last request, made on a view that was
\* behind: its review had expired, and with it went the first checkbox.
Refused == page.phase = "draft" /\ ~page.selfConfirmed /\ page.revision < ref.revision

\* The token the page would clear is the token of the preview it shows: no
\* token is held that no timer expires, and no preview is shown that nothing
\* would clear (T1UserDraftReviewPage.tsx 20-22, 123, 149, 157).  The one way to
\* another token is a request that the reducer has refused (lines 105-106):
\* it is sent, and its answer's token is held beside an unconfirmed draft.
HoldsWhatItShows ==
  /\ TypeOK
  /\ mounted => \/ ref.token = IF page.preparation = None THEN None ELSE page.preparation.token
                \/ Refused

\* A token the page was told is held, or its analysis came back, or the API was
\* asked to clear it: after an edit, a clear, the expiry, a failure, a late
\* answer and when the page is left (lines 45-50, 61-67, 81, 120, 157).
NoTokenForgotten == learned \subseteq {ref.token} \cup asked \cup released

\* The preview and the result on the page were made for the support view and the
\* language that are selected next to them (lines 204-240, the reducer's 99-118),
\* if the preview was asked for on the page as it was.
ShownForChoice ==
  ~behind => \A shown \in {page.preparation, page.analysis} \ {None} : shown.choice = page.choice

\* Once the page rests (a draft, a result, an error, a cleared or expired
\* review) no answer and no timer changes it: nothing cleared comes back, and
\* no result is taken away by its review's expiry (lines 42, 119, 150, 154 and
\* the reducer's revision checks).
RestsUntilTheUserActs ==
  [][~Busy(page) /\ page.phase # "review"
       /\ (ExpireTimer \/ \E r \in DOMAIN calls : Settle(r)) => page' = page]_vars

\* No review whose preview came is held for ever, whether or not a call on it is
\* ever answered.
TokenLetGo == mounted /\ page.preparation # None ~> ref.token = None

\* If calls are answered or fail, the page does not stay busy.
BusyEnds == CallsEnd => (Busy(page) /\ mounted ~> ~Busy(page) \/ ~mounted)

\* The cleared page says that the API was asked to invalidate its review
\* (t1UserDraftReviewModel.ts 13-14).
ClearAsksServer == page.phase = "cleared" => reviews \subseteq asked
=============================================================================
