-------------------------- MODULE T1ReviewPage_proofs --------------------------
(***************************************************************************)
(* Proofs about the draft page, for any tokens and choices and any number  *)
(* of events, in every order of answers, timers and renders.               *)
(***************************************************************************)
EXTENDS T1ReviewPage, TLAPS

(***************************************************************************)
(* The inductive invariant.  At most one call in flight is not aborted,    *)
(* the one the page waits for; what its answer will do depends on what the *)
(* page was when it was sent (Awaited), and on how far what the user saw   *)
(* then was behind (Lagging).                                              *)
(***************************************************************************)

Call == [kind : {"prepare", "continue"}, choice : Choice, token : Token \cup {None},
         aborted : BOOLEAN, at : {"sent", "served", "failed", "arrived"}, ok : BOOLEAN]

\* Whoever has a review's token has it from the API.
CallOK(c) == c \in Call /\ (c.ok \/ c.kind = "continue" => c.token \in Token)

Types ==
  /\ TypeOK
  /\ ref = [request |-> ref.request, token |-> ref.token, revision |-> ref.revision]
  /\ page.revision <= ref.revision
  /\ mounted \in BOOLEAN /\ behind \in BOOLEAN
  /\ learned \subseteq Token

CallsOK ==
  /\ calls = [r \in DOMAIN calls |-> calls[r]]
  /\ \A r \in DOMAIN calls : r \in Nat /\ r <= ref.revision /\ CallOK(calls[r])

\* Only the page's last request may still be answered.
OneCurrent ==
  \A r \in DOMAIN calls : ~calls[r].aborted => mounted /\ r = ref.request /\ r = ref.revision

\* What has arrived waits in its order; only the last of it is not aborted.
InOrder ==
  /\ arrived \in Seq(Nat)
  /\ \A i \in DOMAIN arrived : /\ arrived[i] \in DOMAIN calls
                               /\ calls[arrived[i]].at = "arrived"
  /\ \A r \in DOMAIN calls : calls[r].at = "arrived" =>
       \E i \in DOMAIN arrived : arrived[i] = r
  /\ \A i, j \in DOMAIN arrived : i < j =>
       arrived[i] # arrived[j] /\ calls[arrived[i]].aborted

\* The page that waits for a preparation shows it, unless the reducer refused the
\* request, and holds no token.
AwaitsPreparation(r) ==
  /\ ref.token = None /\ view.phase # "review"
  /\ IF page.revision = r
     THEN /\ view.phase = "preparing" /\ page.phase = "preparing"
          /\ behind \/ page.choice = calls[r].choice
     ELSE Refused

\* The page that waits for an analysis shows it and holds the review's token,
\* unless the review had expired when the user asked for it.
AwaitsAnalysis(r) ==
  /\ view.phase # "review"
  /\ IF page.revision = r
     THEN /\ view = page /\ page.phase = "continuing"
          /\ page.preparation.choice = calls[r].choice
          /\ page.preparation.token = calls[r].token
     ELSE page.phase = "expired"

Awaited ==
  \A r \in DOMAIN calls : ~calls[r].aborted =>
    IF calls[r].kind = "prepare" THEN AwaitsPreparation(r) ELSE AwaitsAnalysis(r)

\* An aborted analysis that has arrived will empty activeTokenRef, which is empty.
NothingToLose ==
  \A r \in DOMAIN calls :
    /\ calls[r].aborted /\ calls[r].at = "arrived"
    /\ calls[r].kind = "continue" /\ calls[r].ok
    => ref.token = None

\* How what the user sees may differ from what the page is.
Lagging ==
  view # page =>
    \/ view.phase = "preparing"
    \/ view.phase = "continuing" /\ page.phase \in {"result", "error", "expired"}
    \/ view.phase = "review" /\ page.phase = "expired" /\ page.draft = "blank"
    \/ view.phase = "draft" /\ page.phase = "draft" /\ page.draft = view.draft

IInv == /\ Types /\ CallsOK /\ OneCurrent /\ InOrder /\ Awaited /\ NothingToLose /\ Lagging
        /\ HoldsWhatItShows /\ NoTokenForgotten /\ ShownForChoice

(***************************************************************************)
(* What the reducer makes of a proper state.                               *)
(***************************************************************************)

\* q shows neither a preparation nor an analysis.
Bare(q, phase, r) == /\ Proper(q) /\ q.phase = phase /\ q.revision = r
                     /\ q.preparation = None /\ q.analysis = None

\* q is a draft with this text.
Drafted(q, text, r) == Bare(q, "draft", r) /\ q.draft = text

\* An edit, a select or the first checkbox leaves a draft.
LEMMA EditLeavesDraft ==
  ASSUME NEW p, Proper(p), NEW r \in Nat
  PROVE  /\ \A text \in {"blank", "text"} : Drafted(EditDraft(p, text, r), text, r)
         /\ \A c \in Choice : Drafted(Select(p, c, r), p.draft, r)
         /\ \A checked \in BOOLEAN : Drafted(ConfirmSelf(p, checked, r), p.draft, r)
<1>1. PICK q : q = Invalidated(p, r)
  OBVIOUS
<1>2. q = [draft |-> p.draft, choice |-> p.choice, selfConfirmed |-> p.selfConfirmed,
           reviewConfirmed |-> FALSE, phase |-> "draft", preparation |-> None,
           analysis |-> None, revision |-> r]
  BY <1>1 DEF Invalidated, Proper, State
<1>3. Drafted(q, p.draft, r)
  BY <1>2 DEF Drafted, Bare, Proper, State, Phase
<1>4. ASSUME NEW text \in {"blank", "text"} PROVE Drafted([q EXCEPT !.draft = text], text, r)
  BY <1>3 DEF Drafted, Bare, Proper, State
<1>5. ASSUME NEW c \in Choice PROVE Drafted([q EXCEPT !.choice = c], p.draft, r)
  BY <1>3 DEF Drafted, Bare, Proper, State
<1>6. ASSUME NEW checked \in BOOLEAN
      PROVE  Drafted([q EXCEPT !.selfConfirmed = checked], p.draft, r)
  BY <1>3 DEF Drafted, Bare, Proper, State
<1> QED BY <1>4, <1>5, <1>6, <1>1 DEF EditDraft, Select, ConfirmSelf

\* A cleared or expired page shows nothing.
LEMMA EmptiedIsBare ==
  ASSUME NEW phase \in {"cleared", "expired"}, NEW r \in Nat
  PROVE  Bare(Emptied(phase, r), phase, r) /\ Emptied(phase, r).draft = "blank"
<1>1. PICK q : q = Emptied(phase, r)
  OBVIOUS
<1>2. q = [draft |-> "blank", choice |-> DefaultChoice, selfConfirmed |-> FALSE,
           reviewConfirmed |-> FALSE, phase |-> phase, preparation |-> None,
           analysis |-> None, revision |-> r]
  BY <1>1 DEF Emptied, InitialState
<1>3. Bare(q, phase, r)
  BY <1>2, PageAssumption DEF Bare, Proper, State, Phase
<1> QED BY <1>1, <1>2, <1>3

\* A request for a preview shows nothing until it is answered.
LEMMA PrepareStartIsBare ==
  ASSUME NEW p, Proper(p), p.selfConfirmed, p.draft # "blank", NEW r \in Nat
  PROVE  Bare(PrepareStart(p, r), "preparing", r) /\ PrepareStart(p, r).choice = p.choice
<1> DEFINE q == PrepareStart(p, r)
<1>1. q = [draft |-> p.draft, choice |-> p.choice, selfConfirmed |-> p.selfConfirmed,
           reviewConfirmed |-> p.reviewConfirmed, phase |-> "preparing", preparation |-> None,
           analysis |-> None, revision |-> r]
  BY DEF PrepareStart, Proper, State
<1> HIDE DEF q
<1>2. Bare(q, "preparing", r) /\ q.choice = p.choice
  BY <1>1 DEF Bare, Proper, State, Phase
<1> QED BY <1>2 DEF q

\* The preview is shown as it came.
LEMMA PrepareSucceedShows ==
  ASSUME NEW p, Proper(p), p.phase = "preparing", NEW shown \in Shown
  PROVE  LET q == PrepareSucceed(p, shown, p.revision)
         IN  /\ Proper(q) /\ q.phase = "review" /\ q.preparation = shown /\ q.analysis = None
             /\ q.choice = p.choice /\ q.revision = p.revision
<1> DEFINE q == PrepareSucceed(p, shown, p.revision)
<1>1. q = [draft |-> "blank", choice |-> p.choice, selfConfirmed |-> p.selfConfirmed,
           reviewConfirmed |-> FALSE, phase |-> "review", preparation |-> shown,
           analysis |-> p.analysis, revision |-> p.revision]
  BY DEF PrepareSucceed, Proper, State
<1> HIDE DEF q
<1>2. p.analysis = None /\ shown # None
  BY PageAssumption DEF Proper, Shown
<1>3. Proper(q) /\ q.phase = "review" /\ q.preparation = shown /\ q.analysis = None
        /\ q.choice = p.choice /\ q.revision = p.revision
  BY <1>1, <1>2 DEF Proper, State, Phase
<1> QED BY <1>3 DEF q

\* A request for an analysis keeps the preview, and is refused without one.
LEMMA ContinueStartKeeps ==
  ASSUME NEW p, Proper(p), NEW r \in Nat
  PROVE  LET q == ContinueStart(p, r)
         IN  IF p.preparation # None /\ p.reviewConfirmed
             THEN /\ Proper(q) /\ q.phase = "continuing" /\ q.preparation = p.preparation
                  /\ q.analysis = None /\ q.choice = p.choice /\ q.revision = r
             ELSE q = p
<1>1. CASE p.preparation # None /\ p.reviewConfirmed
  <2> DEFINE q == ContinueStart(p, r)
  <2>1. q = [draft |-> p.draft, choice |-> p.choice, selfConfirmed |-> p.selfConfirmed,
             reviewConfirmed |-> p.reviewConfirmed, phase |-> "continuing",
             preparation |-> p.preparation, analysis |-> None, revision |-> r]
    BY <1>1 DEF ContinueStart, Proper, State
  <2> HIDE DEF q
  <2>2. /\ Proper(q) /\ q.phase = "continuing" /\ q.preparation = p.preparation
        /\ q.analysis = None /\ q.choice = p.choice /\ q.revision = r
    BY <1>1, <2>1 DEF Proper, State, Phase
  <2> QED BY <1>1, <2>2 DEF q
<1>2. CASE ~(p.preparation # None /\ p.reviewConfirmed)
  BY <1>2 DEF ContinueStart
<1> QED BY <1>1, <1>2

\* The analysis takes the preview's place.
LEMMA ContinueSucceedShows ==
  ASSUME NEW p, Proper(p), p.phase = "continuing", NEW shown \in Shown
  PROVE  LET q == ContinueSucceed(p, shown, p.revision)
         IN  /\ Proper(q) /\ q.phase = "result" /\ q.preparation = None /\ q.analysis = shown
             /\ q.choice = p.choice /\ q.revision = p.revision
<1> DEFINE q == ContinueSucceed(p, shown, p.revision)
<1>1. q = [draft |-> p.draft, choice |-> p.choice, selfConfirmed |-> p.selfConfirmed,
           reviewConfirmed |-> FALSE, phase |-> "result", preparation |-> None,
           analysis |-> shown, revision |-> p.revision]
  BY DEF ContinueSucceed, Proper, State
<1> HIDE DEF q
<1>2. p.draft = "blank" /\ shown # None
  BY PageAssumption DEF Proper, Shown
<1>3. /\ Proper(q) /\ q.phase = "result" /\ q.preparation = None /\ q.analysis = shown
      /\ q.choice = p.choice /\ q.revision = p.revision
  BY <1>1, <1>2 DEF Proper, State, Phase
<1> QED BY <1>3 DEF q

\* A request that fails leaves an error and nothing else.
LEMMA FailureIsBare ==
  ASSUME NEW p, Proper(p)
  PROVE  /\ Bare(PrepareFail(p, p.revision), "error", p.revision)
         /\ Bare(ContinueFail(p, p.revision), "error", p.revision)
<1> DEFINE q(confirmed) == [draft |-> p.draft, choice |-> p.choice,
                            selfConfirmed |-> p.selfConfirmed, reviewConfirmed |-> confirmed,
                            phase |-> "error", preparation |-> None, analysis |-> None,
                            revision |-> p.revision]
<1>1. PrepareFail(p, p.revision) = q(p.reviewConfirmed)
  BY DEF PrepareFail, Proper, State
<1>2. ContinueFail(p, p.revision) = q(FALSE)
  BY DEF ContinueFail, Proper, State
<1>3. ASSUME NEW confirmed \in BOOLEAN PROVE Bare(q(confirmed), "error", p.revision)
  BY DEF Bare, Proper, State, Phase
<1>4. p.reviewConfirmed \in BOOLEAN
  BY DEF Proper, State
<1> QED BY <1>1, <1>2, <1>3, <1>4

\* The second checkbox changes nothing else.
LEMMA ConfirmReviewKeeps ==
  ASSUME NEW p, Proper(p), NEW checked \in BOOLEAN
  PROVE  LET q == ConfirmReview(p, checked)
         IN  /\ Proper(q) /\ q.phase = p.phase /\ q.preparation = p.preparation
             /\ q.analysis = p.analysis /\ q.choice = p.choice /\ q.revision = p.revision
             /\ q.draft = p.draft /\ q.selfConfirmed = p.selfConfirmed
<1> DEFINE q == ConfirmReview(p, checked)
<1>1. q = [draft |-> p.draft, choice |-> p.choice, selfConfirmed |-> p.selfConfirmed,
           reviewConfirmed |-> checked, phase |-> p.phase, preparation |-> p.preparation,
           analysis |-> p.analysis, revision |-> p.revision]
  BY DEF ConfirmReview, Proper, State
<1> HIDE DEF q
<1>2. /\ Proper(q) /\ q.phase = p.phase /\ q.preparation = p.preparation
      /\ q.analysis = p.analysis /\ q.choice = p.choice /\ q.revision = p.revision
      /\ q.draft = p.draft /\ q.selfConfirmed = p.selfConfirmed
  BY <1>1 DEF Proper, State
<1> QED BY <1>2 DEF q

(***************************************************************************)
(* The calls in flight when the page turns to something else.              *)
(***************************************************************************)

\* new is the call c after an abort.
Silenced(new, c) == /\ CallOK(new) /\ new.aborted
                    /\ new.kind = c.kind /\ new.at = c.at /\ new.ok = c.ok

\* To abort the current request is to abort them all.
LEMMA AbortingSilences ==
  ASSUME CallsOK, OneCurrent
  PROVE  /\ DOMAIN Aborting = DOMAIN calls
         /\ \A r \in DOMAIN calls : Silenced(Aborting[r], calls[r])
<1>1. DOMAIN Aborting = DOMAIN calls
  BY DEF Aborting
<1>2. ASSUME NEW r \in DOMAIN calls PROVE Silenced(Aborting[r], calls[r])
  <2>1. PICK c : c = calls[r]
    OBVIOUS
  <2>2. CallOK(c)
    BY <2>1 DEF CallsOK
  <2>3. CASE r = ref.request
    <3>1. PICK new : new = [c EXCEPT !.aborted = TRUE]
      OBVIOUS
    <3>2. new = [kind |-> c.kind, choice |-> c.choice, token |-> c.token, aborted |-> TRUE,
                 at |-> c.at, ok |-> c.ok]
      BY <2>2, <3>1 DEF CallOK, Call
    <3>3. Silenced(new, c)
      BY <2>2, <3>2 DEF Silenced, CallOK, Call
    <3>4. Aborting[r] = new
      BY <2>1, <2>3, <3>1 DEF Aborting
    <3> QED BY <2>1, <3>3, <3>4
  <2>4. CASE r # ref.request
    <3>1. Aborting[r] = c
      BY <2>1, <2>4 DEF Aborting
    <3>2. c.aborted
      BY <2>1, <2>2, <2>4 DEF OneCurrent, CallOK, Call
    <3> QED BY <2>1, <2>2, <3>1, <3>2 DEF Silenced
  <2> QED BY <2>3, <2>4
<1> QED BY <1>1, <1>2

\* The facts of the invariant that are about calls and what they bring.
CallFacts == CallsOK /\ OneCurrent /\ InOrder /\ Awaited /\ NothingToLose /\ NoTokenForgotten

\* A page that aborts its request, empties activeTokenRef and sends the clear
\* waits for nothing and forgets nothing.
LEMMA LettingGo ==
  ASSUME IInv, calls' = Aborting, asked' = Released, UNCHANGED <<arrived, history>>,
         ref'.token = None, ref'.revision = ref.revision + 1
  PROVE  CallFacts'
<1>1. /\ DOMAIN calls' = DOMAIN calls
      /\ \A r \in DOMAIN calls : Silenced(calls'[r], calls[r])
  BY AbortingSilences DEF IInv
<1>2. CallsOK'
  <2>1. calls' = [r \in DOMAIN calls' |-> calls'[r]]
    BY DEF Aborting
  <2>2. ASSUME NEW r \in DOMAIN calls'
        PROVE  r \in Nat /\ r <= ref'.revision /\ CallOK(calls'[r])
    BY <1>1 DEF IInv, CallsOK, Types, TypeOK, Silenced
  <2> QED BY <2>1, <2>2 DEF CallsOK
<1>3. OneCurrent' /\ Awaited'
  BY <1>1 DEF OneCurrent, Awaited, Silenced
<1>4. InOrder'
  BY <1>1 DEF IInv, InOrder, Silenced
<1>5. NothingToLose'
  BY DEF NothingToLose
<1>6. NoTokenForgotten'
  <2>1. learned \subseteq {ref.token} \cup asked \cup released /\ learned \subseteq Token
    BY DEF IInv, NoTokenForgotten, Types
  <2>2. None \notin Token
    BY PageAssumption
  <2> QED BY <2>1, <2>2 DEF NoTokenForgotten, Released, history
<1> QED BY <1>2, <1>3, <1>4, <1>5, <1>6 DEF CallFacts

\* It remains to say what the page shows.
PageFacts == Types /\ Lagging /\ HoldsWhatItShows /\ ShownForChoice

(***************************************************************************)
(* The user's events.                                                      *)
(***************************************************************************)

\* A page that shows nothing.
LEMMA BarePage ==
  ASSUME IInv, NEW phase, Bare(page', phase, ref'.revision), Proper(view'), Lagging',
         ref'.token = None, ref'.revision \in Nat,
         ref' = [request |-> ref'.request, token |-> ref'.token, revision |-> ref'.revision],
         mounted' \in BOOLEAN, behind' \in BOOLEAN, UNCHANGED <<server, history>>
  PROVE  PageFacts'
<1>1. Types'
  BY DEF IInv, Types, TypeOK, Bare, server, history
<1>2. HoldsWhatItShows' /\ ShownForChoice'
  BY <1>1 DEF Types, HoldsWhatItShows, ShownForChoice, Bare
<1> QED BY <1>1, <1>2 DEF PageFacts

\* Draft, selects and first checkbox.
LEMMA EditKeeps == ASSUME IInv, Edit PROVE IInv'
<1> DEFINE n == ref.revision + 1
<1> DEFINE Edited(p, v) == /\ InvalidateForEdit(p, v) /\ p.draft = v.draft
                           /\ Bare(p, "draft", n) /\ Bare(v, "draft", n)
<1>1. \E p, v : Edited(p, v)
  <2>1. Proper(page) /\ Proper(view) /\ n \in Nat
    BY DEF IInv, Types, TypeOK
  <2>1a. page.draft = view.draft
    BY <2>1 DEF Edit, Busy, IInv, Lagging, Proper
  <2>2. ASSUME NEW text \in {"blank", "text"},
               InvalidateForEdit(EditDraft(page, text, n), EditDraft(view, text, n))
        PROVE  Edited(EditDraft(page, text, n), EditDraft(view, text, n))
    BY <2>1, <2>1a, <2>2, EditLeavesDraft DEF Drafted
  <2>3. ASSUME NEW c \in Choice,
               InvalidateForEdit(Select(page, c, n), Select(view, c, n))
        PROVE  Edited(Select(page, c, n), Select(view, c, n))
    BY <2>1, <2>1a, <2>3, EditLeavesDraft DEF Drafted
  <2>4. ASSUME NEW checked \in BOOLEAN,
               InvalidateForEdit(ConfirmSelf(page, checked, n), ConfirmSelf(view, checked, n))
        PROVE  Edited(ConfirmSelf(page, checked, n), ConfirmSelf(view, checked, n))
    BY <2>1, <2>1a, <2>4, EditLeavesDraft DEF Drafted
  <2>5. \/ \E text \in {"blank", "text"} :
             InvalidateForEdit(EditDraft(page, text, n), EditDraft(view, text, n))
        \/ \E c \in Choice : InvalidateForEdit(Select(page, c, n), Select(view, c, n))
        \/ \E checked \in BOOLEAN :
             InvalidateForEdit(ConfirmSelf(page, checked, n), ConfirmSelf(view, checked, n))
    <3>1. CASE \E text \in {"blank", "text"} :
                 InvalidateForEdit(EditDraft(page, text, n), EditDraft(view, text, n))
      BY <3>1
    <3>2. CASE \E c \in Choice \ {view.choice} :
                 InvalidateForEdit(Select(page, c, n), Select(view, c, n))
      BY <3>2
    <3>3. CASE InvalidateForEdit(ConfirmSelf(page, ~view.selfConfirmed, n),
                                 ConfirmSelf(view, ~view.selfConfirmed, n))
      <4>1. PICK checked : checked = ~view.selfConfirmed
        OBVIOUS
      <4>2. checked \in BOOLEAN
        BY <4>1
      <4> QED BY <3>3, <4>1, <4>2
    <3> QED BY <3>1, <3>2, <3>3 DEF Edit, NextRevision
  <2> HIDE DEF Edited
  <2> QED BY Zenon, <2>2, <2>3, <2>4, <2>5
<1>1a. PICK p, v : Edited(p, v)
  BY <1>1
<1>2. /\ ref' = [request |-> None, token |-> None, revision |-> n]
      /\ page' = p /\ view' = v /\ calls' = Aborting /\ asked' = Released
      /\ UNCHANGED <<arrived, mounted, server, history>>
  BY <1>1a DEF InvalidateForEdit, NextRevision
<1>3. ref'.token = None /\ ref'.revision = n /\ n \in Nat
  BY <1>2 DEF IInv, Types, TypeOK
<1>4. Lagging' /\ Proper(view') /\ behind' = FALSE
  BY <1>1a, <1>2 DEF Lagging, Bare, InvalidateForEdit
<1>5. PageFacts'
  BY <1>1a, <1>2, <1>3, <1>4, BarePage DEF IInv, Types
<1>6. CallFacts'
  BY <1>2, <1>3, LettingGo
<1> QED BY <1>5, <1>6 DEF PageFacts, CallFacts, IInv

\* Clear.
LEMMA ClearKeeps == ASSUME IInv, HandleClear PROVE IInv'
<1> DEFINE n == ref.revision + 1
<1>1. n \in Nat
  BY DEF IInv, Types, TypeOK
<1>2. Bare(Emptied("cleared", n), "cleared", n)
  BY <1>1, EmptiedIsBare
<1>3. /\ ref' = [request |-> None, token |-> None, revision |-> n]
      /\ page' = Emptied("cleared", n) /\ view' = page'
      /\ calls' = Aborting /\ asked' = Released
      /\ UNCHANGED <<arrived, mounted, server, history>>
  BY DEF HandleClear, NextRevision
<1>4. ref'.token = None /\ ref'.revision = n /\ behind' = FALSE /\ Lagging' /\ Proper(view')
  BY <1>2, <1>3 DEF HandleClear, Lagging, Bare
<1>5. PageFacts'
  BY <1>1, <1>2, <1>3, <1>4, BarePage DEF IInv, Types
<1>6. CallFacts'
  BY <1>3, <1>4, LettingGo
<1> QED BY <1>5, <1>6 DEF PageFacts, CallFacts, IInv

\* What is in flight once a request has been sent in place of the former.
LEMMA Sending ==
  ASSUME IInv, NEW c, CallOK(c), c.at = "sent", NEW n, n = ref.revision + 1,
         ref'.revision = n, ref'.request = n, mounted', arrived' = arrived,
         calls' = [r \in DOMAIN calls \cup {n} |-> IF r = n THEN c ELSE Aborting[r]]
  PROVE  /\ CallsOK' /\ OneCurrent' /\ InOrder'
         /\ n \in DOMAIN calls' /\ calls'[n] = c
         /\ \A r \in DOMAIN calls' \ {n} : r \in DOMAIN calls /\ Silenced(calls'[r], calls[r])
<1>1. /\ n \in Nat /\ n \notin DOMAIN calls
      /\ \A r \in DOMAIN calls : r \in Nat /\ r <= n
  BY DEF IInv, Types, TypeOK, CallsOK
<1>2. DOMAIN calls' = DOMAIN calls \cup {n} /\ calls'[n] = c
  OBVIOUS
<1>3. \A r \in DOMAIN calls : Silenced(calls'[r], calls[r])
  BY <1>1, AbortingSilences DEF IInv
<1>4. CallsOK'
  <2>1. calls' = [r \in DOMAIN calls' |-> calls'[r]]
    OBVIOUS
  <2>2. ASSUME NEW r \in DOMAIN calls'
        PROVE  r \in Nat /\ r <= ref'.revision /\ CallOK(calls'[r])
    BY <1>1, <1>2, <1>3 DEF Silenced
  <2> QED BY <2>1, <2>2 DEF CallsOK
<1>5. OneCurrent'
  BY <1>1, <1>2, <1>3 DEF OneCurrent, Silenced
<1>6. InOrder'
  BY <1>1, <1>2, <1>3 DEF IInv, InOrder, Silenced
<1> QED BY <1>1, <1>2, <1>3, <1>4, <1>5, <1>6

\* The request for a preview.  If the review has expired since the last render,
\* the page's reducer may refuse it: its first checkbox is not ticked any more.
LEMMA PrepareKeeps == ASSUME IInv, HandlePrepare PROVE IInv'
<1> DEFINE n == ref.revision + 1
           c == Sent("prepare", view.choice, None)
<1>1. n \in Nat /\ Proper(page) /\ Proper(view) /\ page.revision \in Nat /\ page.revision < n
  BY DEF IInv, Types, TypeOK, Proper, State
<1>2. page.draft # "blank" /\ (page = view \/ (page.phase = "draft" /\ page.preparation = None))
  BY <1>1 DEF HandlePrepare, Busy, IInv, Lagging, Proper
<1>3. /\ ref' = [request |-> n, token |-> None, revision |-> n] /\ asked' = Released
      /\ page' = PrepareStart(page, n) /\ view' = PrepareStart(view, n)
      /\ UNCHANGED <<mounted, arrived, server, history>> /\ behind' = (view # page)
      /\ calls' = [r \in DOMAIN calls \cup {n} |-> IF r = n THEN c ELSE Aborting[r]]
      /\ mounted /\ view.selfConfirmed /\ view.draft # "blank"
  BY DEF HandlePrepare, NextRevision, Event
<1>4. ref'.token = None /\ ref'.revision = n /\ ref'.request = n
  BY <1>3
<1>5. Bare(view', "preparing", n)
  BY <1>1, <1>3, PrepareStartIsBare
<1>5a. \/ Bare(page', "preparing", n) /\ page'.choice = page.choice
       \/ /\ page' = page /\ page.phase = "draft" /\ ~page.selfConfirmed
          /\ page.preparation = None /\ view # page
  <2>1. CASE page.selfConfirmed
    BY <1>1, <1>2, <1>3, <2>1, PrepareStartIsBare
  <2>2. CASE ~page.selfConfirmed
    BY <1>2, <1>3, <2>2 DEF PrepareStart
  <2> QED BY <2>1, <2>2
<1>6. /\ c = [kind |-> "prepare", choice |-> view.choice, token |-> None,
              aborted |-> FALSE, at |-> "sent", ok |-> FALSE]
      /\ view.choice \in Choice
  BY <1>1 DEF Sent, Proper, State
<1>7. CallOK(c) /\ c.at = "sent" /\ c.kind = "prepare" /\ c.choice = view.choice /\ ~c.aborted
  <2> HIDE DEF c
  <2> QED BY <1>6 DEF CallOK, Call
<1> HIDE DEF c, n
<1>8. /\ CallsOK' /\ OneCurrent' /\ InOrder' /\ n \in DOMAIN calls' /\ calls'[n] = c
      /\ \A r \in DOMAIN calls' \ {n} : r \in DOMAIN calls /\ Silenced(calls'[r], calls[r])
  <2>1. /\ mounted' /\ arrived' = arrived /\ n = ref.revision + 1
        /\ ref'.revision = n /\ ref'.request = n
        /\ calls' = [r \in DOMAIN calls \cup {n} |-> IF r = n THEN c ELSE Aborting[r]]
    BY <1>3, <1>4 DEF n
  <2>2. CallOK(c) /\ c.at = "sent"
    BY <1>7
  <2> QED BY ONLY IInv, <2>1, <2>2, Sending
<1>9. PageFacts'
  <2>1. Lagging' /\ Proper(view') /\ behind' \in BOOLEAN
    BY <1>3, <1>5 DEF Lagging, Bare
  <2>2. CASE Bare(page', "preparing", n)
    BY <1>1, <1>3, <1>4, <2>1, <2>2, BarePage DEF IInv, Types
  <2>3. CASE page' = page /\ page.phase = "draft" /\ page.preparation = None /\ view # page
    <3>1. Types'
      BY <1>1, <1>3, <1>4, <2>1, <2>3 DEF IInv, Types, TypeOK, server, history
    <3>2. HoldsWhatItShows' /\ ShownForChoice'
      BY <1>3, <1>4, <2>3, <3>1 DEF Types, HoldsWhatItShows, ShownForChoice
    <3> QED BY <2>1, <3>1, <3>2 DEF PageFacts
  <2> QED BY <1>5a, <2>2, <2>3
<1>10. Awaited'
  <2>1. ASSUME NEW r \in DOMAIN calls', ~calls'[r].aborted PROVE r = n
    BY <1>8, <2>1 DEF Silenced
  <2>2. ASSUME NEW r, r = n PROVE AwaitsPreparation(r)'
    <3>1. ref'.token = None /\ ref'.revision = n /\ view'.phase = "preparing"
      BY <1>4, <1>5 DEF Bare
    <3>2. CASE Bare(page', "preparing", n) /\ page'.choice = page.choice
      <4>1. page'.phase = "preparing" /\ page'.revision = n
        BY <3>2 DEF Bare
      <4>2. behind' \/ page'.choice = calls'[n].choice
        BY <1>3, <1>7, <1>8, <3>2
      <4> QED BY <2>2, <3>1, <4>1, <4>2 DEF AwaitsPreparation
    <3>3. CASE page' = page /\ page.phase = "draft" /\ ~page.selfConfirmed
      BY <1>1, <2>2, <3>1, <3>3 DEF AwaitsPreparation, Refused
    <3> QED BY <1>5a, <3>2, <3>3
  <2> QED BY <1>7, <1>8, <2>1, <2>2 DEF Awaited
<1>11. NothingToLose'
  BY <1>4 DEF NothingToLose
<1>12. NoTokenForgotten'
  <2>1. learned \subseteq {ref.token} \cup asked \cup released /\ learned \subseteq Token
    BY DEF IInv, NoTokenForgotten, Types
  <2>2. None \notin Token
    BY PageAssumption
  <2> QED BY <1>3, <2>1, <2>2 DEF NoTokenForgotten, Released, history
<1> QED BY <1>8, <1>9, <1>10, <1>11, <1>12 DEF PageFacts, IInv

\* The second checkbox.
LEMMA ConfirmKeeps == ASSUME IInv, ConfirmPreview PROVE IInv'
<1>1. PICK checked : checked = ~view.reviewConfirmed
  OBVIOUS
<1>2. /\ checked \in BOOLEAN /\ Proper(page) /\ Proper(view)
  BY <1>1 DEF IInv, Types, TypeOK
<1>3. /\ page' = ConfirmReview(page, checked) /\ view' = ConfirmReview(view, checked)
      /\ UNCHANGED <<ref, mounted, behind, calls, arrived, asked, server, history>>
      /\ view.phase = "review"
  BY <1>1 DEF ConfirmPreview
<1>4. /\ Proper(page') /\ page'.phase = page.phase /\ page'.preparation = page.preparation
      /\ page'.analysis = page.analysis /\ page'.choice = page.choice
      /\ page'.revision = page.revision /\ page'.draft = page.draft
      /\ page'.selfConfirmed = page.selfConfirmed
  BY <1>2, <1>3, ConfirmReviewKeeps
<1>5. Proper(view') /\ view'.phase = view.phase
  BY <1>2, <1>3, ConfirmReviewKeeps
<1>6. view' # page' => page.phase = "expired" /\ page.draft = "blank"
  BY <1>3 DEF IInv, Lagging
<1>7. Types'
  BY <1>3, <1>4, <1>5, <1>6 DEF IInv, Types, TypeOK, server, history
<1>8. Lagging'
  BY <1>3, <1>4, <1>5, <1>6 DEF Lagging
<1>9. HoldsWhatItShows' /\ ShownForChoice' /\ NoTokenForgotten'
  <2>1. HoldsWhatItShows'
    BY <1>3, <1>4, <1>7 DEF IInv, Types, HoldsWhatItShows, Refused
  <2>2. ShownForChoice'
    BY <1>3, <1>4 DEF IInv, ShownForChoice
  <2>3. NoTokenForgotten'
    BY <1>3 DEF IInv, NoTokenForgotten, history
  <2> QED BY <2>1, <2>2, <2>3
<1>10. CallsOK' /\ OneCurrent' /\ InOrder' /\ NothingToLose'
  BY <1>3 DEF IInv, CallsOK, OneCurrent, InOrder, NothingToLose
<1>11. Awaited'
  BY <1>3 DEF IInv, Awaited, AwaitsPreparation, AwaitsAnalysis
<1> QED BY <1>7, <1>8, <1>9, <1>10, <1>11 DEF IInv

\* The request for an analysis.  If the review has expired since the last render,
\* the page's reducer refuses it and the call goes out all the same.
LEMMA ContinueKeeps == ASSUME IInv, HandleContinue PROVE IInv'
<1> DEFINE n == ref.revision + 1
           token == view.preparation.token
           c == Sent("continue", view.preparation.choice, token)
<1>1. /\ n \in Nat /\ Proper(page) /\ Proper(view) /\ page.revision \in Nat /\ page.revision < n
      /\ ref.revision \in Nat
  BY DEF IInv, Types, TypeOK, Proper, State
<1>2. /\ view.phase = "review" /\ view.reviewConfirmed /\ mounted
      /\ page' = ContinueStart(page, n) /\ view' = ContinueStart(view, n)
      /\ UNCHANGED <<mounted, behind, arrived, asked, server, history>>
      /\ calls' = [r \in DOMAIN calls \cup {n} |-> IF r = n THEN c ELSE Aborting[r]]
  BY DEF HandleContinue, NextRevision, Event
<1>3. /\ ref' = [request |-> n, token |-> ref.token, revision |-> n]
      /\ ref'.request = n /\ ref'.token = ref.token /\ ref'.revision = n
  <2>1. PICK new : new = [ref EXCEPT !.request = n, !.revision = n]
    OBVIOUS
  <2>2. new = [request |-> n, token |-> ref.token, revision |-> n]
    BY <2>1 DEF IInv, Types
  <2>3. ref' = new
    BY <2>1 DEF HandleContinue, NextRevision
  <2> QED BY <2>2, <2>3
<1>4. view.preparation \in Shown /\ token \in Token /\ view.preparation.choice \in Choice
  BY <1>1, <1>2 DEF Proper, State, Shown
<1>5. CallOK(c) /\ c.at = "sent" /\ c.kind = "continue"
        /\ c.choice = view.preparation.choice /\ ~c.aborted /\ c.token = token
  BY <1>4 DEF Sent, CallOK, Call
<1>6. /\ Proper(view') /\ view'.phase = "continuing" /\ view'.revision = n
      /\ view'.preparation = view.preparation /\ view'.choice = view.choice
  BY <1>1, <1>2, <1>4, PageAssumption, ContinueStartKeeps DEF Shown
<1>7. \/ /\ view = page /\ page' = view'
         /\ page'.preparation = page.preparation /\ page'.analysis = None
         /\ ref.token = token
      \/ /\ view # page /\ page' = page /\ page.preparation = None /\ page.phase = "expired"
  <2>1. CASE view = page
    <3>1. page.preparation # None /\ page' = view'
      BY <1>2, <1>4, <2>1, PageAssumption DEF Shown
    <3>2. page'.analysis = None
      BY <1>1, <1>2, <2>1, <3>1, ContinueStartKeeps
    <3> QED BY <1>2, <1>6, <2>1, <3>1, <3>2 DEF IInv, HoldsWhatItShows, Refused
  <2>2. CASE view # page
    <3>1. page.preparation = None /\ page.phase = "expired"
      BY <1>1, <1>2, <2>2 DEF IInv, Lagging, Proper
    <3> QED BY <1>1, <1>2, <2>2, <3>1, ContinueStartKeeps
  <2> QED BY <2>1, <2>2
<1> HIDE DEF c, n, token
<1>9. /\ CallsOK' /\ OneCurrent' /\ InOrder' /\ n \in DOMAIN calls' /\ calls'[n] = c
      /\ \A r \in DOMAIN calls' \ {n} : r \in DOMAIN calls /\ Silenced(calls'[r], calls[r])
  <2>1. /\ mounted' /\ arrived' = arrived /\ n = ref.revision + 1
        /\ ref'.revision = n /\ ref'.request = n
        /\ calls' = [r \in DOMAIN calls \cup {n} |-> IF r = n THEN c ELSE Aborting[r]]
    BY <1>2, <1>3 DEF n
  <2>2. CallOK(c) /\ c.at = "sent"
    BY <1>5
  <2> QED BY ONLY IInv, <2>1, <2>2, Sending
<1>10. Types'
  <2>1. Proper(page') /\ page'.revision <= n
    BY <1>1, <1>6, <1>7
  <2> QED BY <1>1, <1>2, <1>3, <1>6, <2>1 DEF IInv, Types, TypeOK, server, history
<1>11. Lagging'
  BY <1>6, <1>7 DEF Lagging
<1>12. HoldsWhatItShows'
  <2>1. TypeOK'
    BY <1>10 DEF Types
  <2>2. ref.token = IF page.preparation = None THEN None ELSE page.preparation.token
    BY <1>2, <1>7 DEF IInv, HoldsWhatItShows, Refused
  <2> QED BY <1>3, <1>7, <2>1, <2>2 DEF HoldsWhatItShows
<1>13. ShownForChoice' /\ NoTokenForgotten'
  BY <1>2, <1>3, <1>6, <1>7 DEF IInv, ShownForChoice, NoTokenForgotten, history
<1>14. Awaited'
  <2>1. ASSUME NEW r \in DOMAIN calls', ~calls'[r].aborted PROVE r = n
    BY <1>9, <2>1 DEF Silenced
  <2>2. ASSUME NEW r, r = n PROVE AwaitsAnalysis(r)'
    BY <1>1, <1>5, <1>6, <1>7, <1>9, <2>2 DEF AwaitsAnalysis, token
  <2> QED BY <1>5, <1>9, <2>1, <2>2 DEF Awaited
<1>15. NothingToLose'
  <2>1. \A r \in DOMAIN calls : calls[r].aborted
    BY <1>2 DEF IInv, Awaited, AwaitsPreparation, AwaitsAnalysis
  <2>2. ASSUME NEW r \in DOMAIN calls', calls'[r].aborted, calls'[r].at = "arrived",
               calls'[r].kind = "continue", calls'[r].ok
        PROVE  ref'.token = None
    <3>1. r # n
      BY <1>5, <1>9, <2>2
    <3> QED BY <1>3, <1>9, <2>1, <2>2, <3>1 DEF IInv, NothingToLose, Silenced
  <2> QED BY <2>2 DEF NothingToLose
<1> QED BY <1>9, <1>10, <1>11, <1>12, <1>13, <1>14, <1>15 DEF IInv

\* The page is left.
LEMMA UnmountKeeps == ASSUME IInv, Unmount PROVE IInv'
<1>1. /\ calls' = Aborting /\ asked' = Released /\ ~mounted' /\ mounted' \in BOOLEAN
      /\ UNCHANGED <<page, view, behind, arrived, server, history>>
  BY DEF Unmount
<1>2. /\ ref' = [request |-> ref.request, token |-> None, revision |-> ref.revision + 1]
      /\ ref'.request = ref.request /\ ref'.token = None /\ ref'.revision = ref.revision + 1
  <2>1. PICK new : new = [ref EXCEPT !.token = None, !.revision = ref.revision + 1]
    OBVIOUS
  <2>2. new = [request |-> ref.request, token |-> None, revision |-> ref.revision + 1]
    BY <2>1 DEF IInv, Types
  <2>3. ref' = new
    BY <2>1 DEF Unmount, NextRevision
  <2> QED BY <2>2, <2>3
<1>3. CallFacts'
  BY <1>1, <1>2, LettingGo
<1>4. Types'
  BY <1>1, <1>2 DEF IInv, Types, TypeOK, server, history, Proper, State
<1>5. Lagging' /\ ShownForChoice'
  BY <1>1 DEF IInv, Lagging, ShownForChoice
<1>6. HoldsWhatItShows'
  BY <1>1, <1>4 DEF Types, HoldsWhatItShows
<1> QED BY <1>3, <1>4, <1>5, <1>6 DEF CallFacts, IInv

\* The timer belongs to a preparation the page still has, and the user sees it.
LEMMA ExpiresWhatIsShown ==
  ASSUME IInv, ExpireTimer
  PROVE  view = page /\ page.phase \in {"review", "continuing"}
<1>1. view.preparation.token \in Token
  BY DEF ExpireTimer, IInv, Types, TypeOK, Proper, State, Shown
<1>2. Proper(view) /\ Proper(page) /\ view.phase \in {"review", "continuing"}
  BY DEF ExpireTimer, IInv, Types, TypeOK, Proper
<1>3. view # page => page.phase \in {"result", "error", "expired"} /\ page.preparation = None
  BY <1>2 DEF IInv, Lagging, Proper
<1>4. view = page
  BY <1>1, <1>3, PageAssumption DEF ExpireTimer, IInv, HoldsWhatItShows, Refused
<1> QED BY <1>2, <1>4

\* The timer fires.
LEMMA ExpiryKeeps == ASSUME IInv, ExpireTimer PROVE IInv'
<1> DEFINE n == ref.revision + 1
<1>1. n \in Nat /\ Bare(Emptied("expired", n), "expired", n) /\ Emptied("expired", n).draft = "blank"
  BY EmptiedIsBare DEF IInv, Types, TypeOK
<1>2. /\ ref' = [request |-> None, token |-> None, revision |-> n]
      /\ calls' = Aborting /\ asked' = Released /\ page' = Emptied("expired", n)
      /\ behind' = FALSE /\ UNCHANGED <<view, mounted, arrived, server, history>>
  BY DEF ExpireTimer, NextRevision
<1>3. ref'.token = None /\ ref'.revision = n /\ behind' \in BOOLEAN
  BY <1>2
<1>4. CallFacts'
  BY <1>2, <1>3, LettingGo
<1>5. Types'
  BY <1>1, <1>2, <1>3 DEF IInv, Types, TypeOK, server, history, Bare
<1>6. Lagging'
  <2>1. view' = view /\ view.phase \in {"review", "continuing"}
    BY <1>2, ExpiresWhatIsShown
  <2> QED BY <1>1, <1>2, <2>1 DEF Lagging, Bare
<1>7. HoldsWhatItShows' /\ ShownForChoice'
  BY <1>1, <1>2, <1>3, <1>5 DEF Types, HoldsWhatItShows, ShownForChoice, Bare
<1> QED BY <1>4, <1>5, <1>6, <1>7 DEF CallFacts, IInv

\* React renders what has been dispatched.
LEMMA RenderKeeps == ASSUME IInv, Render PROVE IInv'
<1>1. /\ view # page /\ view' = page
      /\ UNCHANGED <<page, ref, mounted, behind, calls, arrived, asked, server, history>>
  BY DEF Render
<1>2. Types'
  BY <1>1, PageAssumption DEF IInv, Types, TypeOK, server, history
<1>3. Lagging' /\ HoldsWhatItShows' /\ ShownForChoice' /\ NoTokenForgotten'
  BY <1>1, <1>2
     DEF IInv, Types, Lagging, Refused, HoldsWhatItShows, ShownForChoice, NoTokenForgotten, history
<1>4. CallsOK' /\ OneCurrent' /\ InOrder' /\ NothingToLose'
  BY <1>1 DEF IInv, CallsOK, OneCurrent, InOrder, NothingToLose
<1>5. Awaited'
  BY <1>1 DEF IInv, Awaited, AwaitsPreparation, AwaitsAnalysis, Refused
<1> QED BY <1>2, <1>3, <1>4, <1>5 DEF IInv

(***************************************************************************)
(* The answers.                                                            *)
(***************************************************************************)

\* A call that settles was the first to arrive; when it is not aborted it was
\* the only one.
LEMMA Settling ==
  ASSUME IInv, NEW kind, NEW r \in DOMAIN calls, Settles(r, kind),
         ref'.request = Done(r), ref'.revision = ref.revision, mounted' = mounted
  PROVE  /\ calls[r].at = "arrived" /\ calls[r].kind = kind
         /\ calls[r].aborted \in BOOLEAN /\ calls[r].ok \in BOOLEAN
         /\ DOMAIN calls' = DOMAIN calls \ {r}
         /\ \A s \in DOMAIN calls' : calls'[s] = calls[s]
         /\ ~calls[r].aborted => \A s \in DOMAIN calls' : calls[s].at # "arrived" /\ calls[s].aborted
         /\ CallsOK' /\ OneCurrent' /\ InOrder'
<1>1. /\ arrived # <<>> /\ r = arrived[1] /\ calls[r].kind = kind /\ arrived' = Tail(arrived)
      /\ calls' = [s \in DOMAIN calls \ {r} |-> calls[s]] /\ arrived \in Seq(Nat)
  BY DEF Settles, Restrict, IInv, InOrder
<1>2. /\ Len(arrived) \in Nat \ {0} /\ DOMAIN arrived = 1..Len(arrived)
      /\ arrived' \in Seq(Nat) /\ DOMAIN arrived' = 1..(Len(arrived) - 1)
      /\ \A i \in DOMAIN arrived' : arrived'[i] = arrived[i + 1]
  BY <1>1
<1>3. /\ calls[r].at = "arrived" /\ CallOK(calls[r])
  <2>1. 1 \in DOMAIN arrived
    BY <1>2
  <2> QED BY <1>1, <2>1 DEF IInv, InOrder, CallsOK
<1>4. DOMAIN calls' = DOMAIN calls \ {r} /\ \A s \in DOMAIN calls' : calls'[s] = calls[s]
  BY <1>1
<1>5. CallsOK'
  <2>1. calls' = [s \in DOMAIN calls' |-> calls'[s]]
    BY <1>1
  <2>2. ASSUME NEW s \in DOMAIN calls'
        PROVE  s \in Nat /\ s <= ref'.revision /\ CallOK(calls'[s])
    BY <1>4 DEF IInv, CallsOK
  <2> QED BY <2>1, <2>2 DEF CallsOK
<1>6. OneCurrent'
  BY <1>4 DEF IInv, OneCurrent, Done
<1>7. InOrder'
  <2>1. ASSUME NEW i \in DOMAIN arrived'
        PROVE  arrived'[i] \in DOMAIN calls' /\ calls'[arrived'[i]].at = "arrived"
    <3>1. i + 1 \in DOMAIN arrived /\ 1 \in DOMAIN arrived /\ 1 < i + 1
      BY <1>2
    <3>2. /\ arrived[i + 1] \in DOMAIN calls /\ arrived[i + 1] # r
          /\ calls[arrived[i + 1]].at = "arrived"
      BY <1>1, <3>1 DEF IInv, InOrder
    <3> QED BY <1>2, <1>4, <3>2
  <2>2. ASSUME NEW s \in DOMAIN calls', calls'[s].at = "arrived"
        PROVE  \E i \in DOMAIN arrived' : arrived'[i] = s
    <3>1. PICK j \in DOMAIN arrived : arrived[j] = s
      BY <1>4, <2>2 DEF IInv, InOrder
    <3>2. j # 1
      BY <1>1, <1>4, <3>1
    <3>3. j - 1 \in DOMAIN arrived' /\ arrived'[j - 1] = s
      BY <1>2, <3>1, <3>2
    <3> QED BY <3>3
  <2>3. ASSUME NEW i \in DOMAIN arrived', NEW j \in DOMAIN arrived', i < j
        PROVE  arrived'[i] # arrived'[j] /\ calls'[arrived'[i]].aborted
    <3>1. i + 1 \in DOMAIN arrived /\ j + 1 \in DOMAIN arrived /\ i + 1 < j + 1
      BY <1>2, <2>3
    <3>2. arrived[i + 1] # arrived[j + 1] /\ calls[arrived[i + 1]].aborted
      BY <3>1 DEF IInv, InOrder
    <3> QED BY <1>2, <1>4, <2>1, <3>2
  <2> QED BY <1>2, <2>1, <2>2, <2>3 DEF InOrder
<1>8. ASSUME ~calls[r].aborted, NEW s \in DOMAIN calls'
      PROVE  calls[s].at # "arrived" /\ calls[s].aborted
  <2>1. s \in DOMAIN calls /\ s # r
    BY <1>4
  <2>2. calls[s].aborted
    BY <1>8, <2>1 DEF IInv, OneCurrent
  <2>3. ASSUME calls[s].at = "arrived" PROVE FALSE
    <3>1. PICK j \in DOMAIN arrived : arrived[j] = s
      BY <2>1, <2>3 DEF IInv, InOrder
    <3>2. 1 \in DOMAIN arrived /\ 1 < j
      BY <1>1, <1>2, <2>1, <3>1
    <3> QED BY <1>1, <1>8, <3>1, <3>2 DEF IInv, InOrder
  <2> QED BY <2>2, <2>3
<1>9. calls[r].aborted \in BOOLEAN /\ calls[r].ok \in BOOLEAN
  BY <1>3 DEF CallOK, Call
<1> QED BY <1>1, <1>3, <1>4, <1>5, <1>6, <1>7, <1>8, <1>9

\* An answer that is not for what the page did last leaves the page alone; what
\* is still awaited stays so.
LEMMA LateAnswer ==
  ASSUME IInv, NEW r \in DOMAIN calls, ~Current(r), DOMAIN calls' = DOMAIN calls \ {r},
         \A s \in DOMAIN calls' : calls'[s] = calls[s],
         UNCHANGED <<page, view, behind, mounted, server>>, learned' \subseteq Token,
         ref'.token = ref.token, ref'.revision = ref.revision,
         ref' = [request |-> ref'.request, token |-> ref'.token, revision |-> ref'.revision]
  PROVE  PageFacts' /\ Awaited' /\ NothingToLose'
<1>1. Types'
  BY DEF IInv, Types, TypeOK, server
<1>2. Lagging' /\ ShownForChoice'
  BY DEF IInv, Lagging, ShownForChoice
<1>3. HoldsWhatItShows'
  BY <1>1 DEF IInv, Types, HoldsWhatItShows, Refused
<1>4. Awaited'
  BY DEF IInv, Awaited, AwaitsPreparation, AwaitsAnalysis, Refused
<1>5. NothingToLose'
  BY DEF IInv, NothingToLose
<1> QED BY <1>1, <1>2, <1>3, <1>4, <1>5 DEF PageFacts

\* The refs after an answer.
LEMMA SettledRef ==
  ASSUME IInv, NEW r, NEW token,
         ref' = [ref EXCEPT !.request = Done(r), !.token = token]
  PROVE  /\ ref' = [request |-> ref'.request, token |-> ref'.token, revision |-> ref'.revision]
         /\ ref'.request = Done(r) /\ ref'.token = token /\ ref'.revision = ref.revision
<1>1. ref' = [request |-> Done(r), token |-> token, revision |-> ref.revision]
  BY DEF IInv, Types
<1> QED BY <1>1

\* A preparation comes, or fails.
LEMMA PrepareSettlesKeeps ==
  ASSUME IInv, NEW r \in DOMAIN calls, PrepareSettles(r) PROVE IInv'
<1> DEFINE token == IF calls[r].ok /\ Current(r) THEN calls[r].token ELSE ref.token
           shown == [token |-> calls[r].token, choice |-> calls[r].choice]
<1>1. /\ Settles(r, "prepare") /\ ref' = [ref EXCEPT !.request = Done(r), !.token = token]
      /\ asked' = IF calls[r].ok /\ ~Current(r) THEN asked \cup {calls[r].token} ELSE asked
      /\ page' = IF ~Current(r) THEN page
                 ELSE IF calls[r].ok THEN PrepareSucceed(page, shown, r) ELSE PrepareFail(page, r)
      /\ learned' = learned \cup (IF calls[r].ok THEN {calls[r].token} ELSE {})
      /\ UNCHANGED <<view, mounted, behind, released, server>>
  BY DEF PrepareSettles
<1>2. CallOK(calls[r])
  BY DEF IInv, CallsOK
<1>3. shown.token = calls[r].token /\ shown.choice = calls[r].choice
        /\ (calls[r].ok => calls[r].token \in Token /\ shown \in Shown)
  BY <1>2 DEF CallOK, Call, Shown
<1> HIDE DEF token, shown
<1>4. /\ ref' = [request |-> ref'.request, token |-> ref'.token, revision |-> ref'.revision]
      /\ ref'.request = Done(r) /\ ref'.token = token /\ ref'.revision = ref.revision
  BY <1>1, SettledRef
<1>5. /\ calls[r].kind = "prepare"
      /\ calls[r].aborted \in BOOLEAN /\ calls[r].ok \in BOOLEAN
      /\ DOMAIN calls' = DOMAIN calls \ {r}
      /\ \A s \in DOMAIN calls' : calls'[s] = calls[s]
      /\ ~calls[r].aborted => \A s \in DOMAIN calls' : calls[s].at # "arrived" /\ calls[s].aborted
      /\ CallsOK' /\ OneCurrent' /\ InOrder'
  BY <1>1, <1>4, Settling
<1>6. learned \subseteq Token /\ learned \subseteq {ref.token} \cup asked \cup released
        /\ learned' \subseteq Token
  BY <1>1, <1>3 DEF IInv, Types, NoTokenForgotten
<1>7. CASE ~Current(r)
  <2>1. ref'.token = ref.token /\ page' = page
    BY <1>1, <1>4, <1>7 DEF token
  <2>2. PageFacts' /\ Awaited' /\ NothingToLose'
    BY <1>1, <1>4, <1>5, <1>6, <1>7, <2>1, LateAnswer
  <2>3. NoTokenForgotten'
    BY <1>1, <1>6, <1>7, <2>1 DEF NoTokenForgotten
  <2> QED BY <1>5, <2>2, <2>3 DEF PageFacts, IInv
<1>8. CASE Current(r)
  <2>1. ~calls[r].aborted /\ AwaitsPreparation(r) /\ ref.token = None /\ r = ref.revision
    BY <1>5, <1>8 DEF Current, IInv, Awaited, AwaitsPreparation
  <2>2. Proper(page) /\ page.revision \in Nat /\ r \in Nat
    BY DEF IInv, Types, TypeOK, CallsOK, Proper, State
  <2>3. Awaited' /\ NothingToLose'
    BY <1>5, <2>1 DEF Awaited, NothingToLose
  <2>4. NoTokenForgotten'
    BY <1>1, <1>4, <1>6, <1>8, <2>1, PageAssumption DEF NoTokenForgotten, token
  <2>5. CASE page.revision # r
    <3>1. page' = page /\ Refused /\ page.preparation = None
      BY <1>1, <1>8, <2>1, <2>2, <2>5
         DEF AwaitsPreparation, PrepareSucceed, PrepareFail, Refused, Proper
    <3>2. Refused'
      BY <1>4, <3>1 DEF Refused
    <3>3. Types'
      BY <1>1, <1>3, <1>4, <1>5, <1>6, <1>8, <2>1, <3>1 DEF IInv, Types, TypeOK, server, token
    <3>4. Lagging' /\ HoldsWhatItShows' /\ ShownForChoice'
      BY <1>1, <3>1, <3>2, <3>3 DEF IInv, Types, Lagging, HoldsWhatItShows, ShownForChoice
    <3> QED BY <1>5, <2>3, <2>4, <3>3, <3>4 DEF IInv
  <2>6. CASE page.revision = r
    <3>1. /\ view.phase = "preparing" /\ page.phase = "preparing"
          /\ behind \/ page.choice = calls[r].choice
      BY <2>1, <2>6 DEF AwaitsPreparation
    <3>2. Lagging'
      BY <1>1, <3>1 DEF Lagging
    <3>3. CASE calls[r].ok
      <4>1. page' = PrepareSucceed(page, shown, page.revision) /\ ref'.token = calls[r].token
        BY <1>1, <1>4, <1>8, <2>6, <3>3 DEF token
      <4>2. /\ Proper(page') /\ page'.preparation = shown /\ page'.analysis = None
            /\ page'.choice = page.choice /\ page'.revision = page.revision
        BY <1>3, <2>2, <3>1, <3>3, <4>1, PrepareSucceedShows
      <4>3. Types'
        BY <1>1, <1>3, <1>4, <1>6, <3>3, <4>1, <4>2 DEF IInv, Types, TypeOK, server
      <4>4. shown # None
        BY <1>3, <3>3, PageAssumption DEF Shown
      <4>5. HoldsWhatItShows'
        BY <1>3, <4>1, <4>2, <4>3, <4>4 DEF Types, HoldsWhatItShows
      <4>6. ShownForChoice'
        BY <1>1, <1>3, <3>1, <4>2 DEF ShownForChoice
      <4> QED BY <1>5, <2>3, <2>4, <3>2, <4>3, <4>5, <4>6 DEF IInv
    <3>4. CASE ~calls[r].ok
      <4>1. page' = PrepareFail(page, page.revision) /\ ref'.token = None
        BY <1>1, <1>4, <1>8, <2>1, <2>6, <3>4 DEF token
      <4>2. Bare(page', "error", page.revision)
        BY <2>2, <4>1, FailureIsBare
      <4>3. Types'
        BY <1>1, <1>4, <1>6, <4>1, <4>2 DEF IInv, Types, TypeOK, server, Bare
      <4>4. HoldsWhatItShows' /\ ShownForChoice'
        BY <4>1, <4>2, <4>3 DEF Types, HoldsWhatItShows, ShownForChoice, Bare
      <4> QED BY <1>5, <2>3, <2>4, <3>2, <4>3, <4>4 DEF IInv
    <3> QED BY <1>5, <3>3, <3>4
  <2> QED BY <2>5, <2>6
<1> QED BY <1>7, <1>8

\* An analysis comes, or fails.  activeTokenRef is emptied whatever has happened
\* since the request; but it can only hold the token of this analysis' review.
LEMMA ContinueSettlesKeeps ==
  ASSUME IInv, NEW r \in DOMAIN calls, ContinueSettles(r) PROVE IInv'
<1> DEFINE token == IF calls[r].ok \/ Current(r) THEN None ELSE ref.token
           shown == [token |-> calls[r].token, choice |-> calls[r].choice]
<1>1. /\ Settles(r, "continue") /\ ref' = [ref EXCEPT !.request = Done(r), !.token = token]
      /\ asked' = IF ~calls[r].ok /\ Current(r) THEN Released ELSE asked
      /\ page' = IF ~Current(r) THEN page
                 ELSE IF calls[r].ok THEN ContinueSucceed(page, shown, r)
                                     ELSE ContinueFail(page, r)
      /\ released' = released \cup (IF calls[r].ok THEN {calls[r].token} ELSE {})
      /\ UNCHANGED <<view, mounted, behind, learned, server>>
  BY DEF ContinueSettles
<1>2. CallOK(calls[r])
  BY DEF IInv, CallsOK
<1> HIDE DEF token
<1>3. /\ ref' = [request |-> ref'.request, token |-> ref'.token, revision |-> ref'.revision]
      /\ ref'.request = Done(r) /\ ref'.token = token /\ ref'.revision = ref.revision
  BY <1>1, SettledRef
<1>4. /\ calls[r].kind = "continue" /\ calls[r].at = "arrived"
      /\ calls[r].aborted \in BOOLEAN /\ calls[r].ok \in BOOLEAN
      /\ DOMAIN calls' = DOMAIN calls \ {r}
      /\ \A s \in DOMAIN calls' : calls'[s] = calls[s]
      /\ ~calls[r].aborted => \A s \in DOMAIN calls' : calls[s].at # "arrived" /\ calls[s].aborted
      /\ CallsOK' /\ OneCurrent' /\ InOrder'
  BY <1>1, <1>3, Settling
<1>5. shown \in Shown /\ shown.choice = calls[r].choice /\ shown # None
  BY <1>2, <1>4, PageAssumption DEF CallOK, Call, Shown
<1> HIDE DEF shown
<1>6. learned \subseteq Token /\ learned \subseteq {ref.token} \cup asked \cup released
  BY DEF IInv, Types, NoTokenForgotten
<1>7. CASE ~Current(r)
  <2>1. calls[r].aborted
    BY <1>4, <1>7 DEF IInv, OneCurrent, Current
  <2>2. ref'.token = ref.token /\ page' = page
    BY <1>1, <1>3, <1>4, <1>7, <2>1 DEF token, IInv, NothingToLose
  <2>3. PageFacts' /\ Awaited' /\ NothingToLose'
    BY <1>1, <1>3, <1>4, <1>6, <1>7, <2>2, LateAnswer
  <2>4. NoTokenForgotten'
    BY <1>1, <1>6, <1>7, <2>2 DEF NoTokenForgotten
  <2> QED BY <1>4, <2>3, <2>4 DEF PageFacts, IInv
<1>8. CASE Current(r)
  <2>1. ~calls[r].aborted /\ r = ref.revision /\ mounted /\ AwaitsAnalysis(r)
    BY <1>4, <1>8 DEF Current, IInv, Awaited, OneCurrent
  <2>2. Proper(page) /\ Proper(view) /\ ref'.token = None
    BY <1>3, <1>8 DEF IInv, Types, TypeOK, token
  <2>3. Awaited' /\ NothingToLose'
    BY <1>4, <2>1, <2>2 DEF Awaited, NothingToLose
  <2>4. ref.token \in {None, calls[r].token}
    BY <2>1, <2>2, PageAssumption DEF IInv, HoldsWhatItShows, AwaitsAnalysis, Refused, Proper
  <2>5. NoTokenForgotten'
    BY <1>1, <1>4, <1>6, <1>8, <2>2, <2>4, PageAssumption DEF NoTokenForgotten, Released
  <2>6. CASE page.revision # r
    <3>1. page' = page /\ page.preparation = None
      BY <1>1, <1>8, <2>1, <2>2, <2>6 DEF ContinueSucceed, ContinueFail, AwaitsAnalysis, Proper
    <3>2. Types'
      BY <1>1, <1>3, <2>2, <3>1 DEF IInv, Types, TypeOK, server
    <3>3. Lagging' /\ ShownForChoice' /\ HoldsWhatItShows'
      BY <1>1, <2>2, <3>1, <3>2 DEF IInv, Types, Lagging, ShownForChoice, HoldsWhatItShows
    <3> QED BY <1>4, <2>3, <2>5, <3>2, <3>3 DEF IInv
  <2>7. CASE page.revision = r
    <3>1. /\ view = page /\ page.phase = "continuing" /\ page.preparation # None
          /\ page.preparation.choice = calls[r].choice
      BY <2>1, <2>2, <2>7 DEF AwaitsAnalysis, Proper
    <3>2. /\ Proper(page') /\ page'.preparation = None /\ page'.revision = page.revision
          /\ page'.phase \in {"result", "error"}
          /\ page'.analysis # None => page'.analysis = shown /\ page'.choice = page.choice
      <4>1. CASE calls[r].ok
        <5>1. page' = ContinueSucceed(page, shown, page.revision)
          BY <1>1, <1>8, <2>7, <4>1
        <5> QED BY <1>5, <2>2, <3>1, <5>1, ContinueSucceedShows
      <4>2. CASE ~calls[r].ok
        <5>1. page' = ContinueFail(page, page.revision)
          BY <1>1, <1>8, <2>7, <4>2
        <5> QED BY <2>2, <5>1, FailureIsBare DEF Bare
      <4> QED BY <1>4, <4>1, <4>2
    <3>3. Types'
      BY <1>1, <1>3, <2>2, <3>2 DEF IInv, Types, TypeOK, server
    <3>4. Lagging'
      BY <1>1, <3>1, <3>2 DEF Lagging
    <3>5. HoldsWhatItShows' /\ ShownForChoice'
      <4>1. ~behind => page.preparation.choice = page.choice
        BY <3>1 DEF IInv, ShownForChoice
      <4> QED BY <1>1, <1>5, <2>2, <3>1, <3>2, <3>3, <4>1
              DEF Types, HoldsWhatItShows, ShownForChoice
    <3> QED BY <1>4, <2>3, <2>5, <3>3, <3>4, <3>5 DEF IInv
  <2> QED BY <2>6, <2>7
<1> QED BY <1>7, <1>8

(***************************************************************************)
(* The API and the network.                                                *)
(***************************************************************************)

\* A call on its way becomes new: that changes nothing the page has, and a call
\* that arrives does so after those that did before.
LEMMA Answering ==
  ASSUME IInv, NEW r \in DOMAIN calls, NEW new, CallOK(new), new.kind = calls[r].kind,
         new.choice = calls[r].choice, new.aborted = calls[r].aborted,
         new.kind = "continue" => new.token = calls[r].token,
         calls[r].at # "arrived", calls' = [calls EXCEPT ![r] = new],
         UNCHANGED <<page, view, ref, mounted, behind, asked, history>>, reviews' \subseteq issued',
         IF new.at = "arrived" THEN ~new.aborted /\ arrived' = Append(arrived, r)
                               ELSE arrived' = arrived
  PROVE  IInv'
<1>1. /\ DOMAIN calls' = DOMAIN calls /\ calls'[r] = new
      /\ \A s \in DOMAIN calls \ {r} : calls'[s] = calls[s]
      /\ calls' = [s \in DOMAIN calls' |-> calls'[s]]
  BY DEF IInv, CallsOK
<1>2. r \in Nat
  BY DEF IInv, CallsOK
<1>3. Types'
  BY DEF IInv, Types, TypeOK, history
<1>4. CallsOK'
  BY <1>1 DEF IInv, CallsOK
<1>5. OneCurrent' /\ Lagging' /\ HoldsWhatItShows' /\ NoTokenForgotten' /\ ShownForChoice'
  <2>1. OneCurrent'
    BY <1>1 DEF IInv, OneCurrent
  <2>2. Lagging' /\ ShownForChoice'
    BY DEF IInv, Lagging, ShownForChoice
  <2>3. HoldsWhatItShows' /\ NoTokenForgotten'
    BY <1>3 DEF IInv, Types, HoldsWhatItShows, Refused, NoTokenForgotten, history
  <2> QED BY <2>1, <2>2, <2>3
<1>6. Awaited'
  <2>1. ASSUME NEW s \in DOMAIN calls PROVE AwaitsPreparation(s) => AwaitsPreparation(s)'
    BY <1>1 DEF AwaitsPreparation, Refused
  <2>2. ASSUME NEW s \in DOMAIN calls, calls[s].kind # "prepare"
        PROVE  AwaitsAnalysis(s) => AwaitsAnalysis(s)'
    BY <1>1, <2>2 DEF AwaitsAnalysis, CallOK, Call
  <2> QED BY <1>1, <2>1, <2>2 DEF IInv, Awaited
<1>7. NothingToLose'
  BY <1>1 DEF IInv, NothingToLose
<1>8. InOrder'
  <2>1. CASE new.at # "arrived"
    BY <1>1, <2>1 DEF IInv, InOrder
  <2>2. CASE new.at = "arrived"
    <3> DEFINE last == Len(arrived) + 1
    <3>1. /\ arrived \in Seq(Nat) /\ arrived' = Append(arrived, r) /\ ~new.aborted
      BY <2>2 DEF IInv, InOrder
    <3>2. /\ arrived' \in Seq(Nat) /\ last \in Nat \ {0} /\ DOMAIN arrived' = 1..last
          /\ DOMAIN arrived = 1..(last - 1) /\ arrived'[last] = r
          /\ \A i \in DOMAIN arrived : i \in DOMAIN arrived' /\ arrived'[i] = arrived[i]
      BY <1>2, <3>1
    <3> HIDE DEF last
    <3>3. \A i \in DOMAIN arrived : /\ arrived[i] \in DOMAIN calls /\ arrived[i] # r
                                    /\ calls[arrived[i]].at = "arrived"
      BY DEF IInv, InOrder
    <3>4. \A s \in DOMAIN calls \ {r} : calls[s].aborted
      BY <1>1, <3>1 DEF IInv, OneCurrent
    <3>5. ASSUME NEW i \in DOMAIN arrived'
          PROVE  arrived'[i] \in DOMAIN calls' /\ calls'[arrived'[i]].at = "arrived"
      <4>1. CASE i = last
        BY <1>1, <2>2, <3>2, <4>1
      <4>2. CASE i # last
        <5>1. i \in DOMAIN arrived
          BY <3>2, <4>2
        <5> QED BY <1>1, <3>2, <3>3, <5>1
      <4> QED BY <4>1, <4>2
    <3>6. ASSUME NEW s \in DOMAIN calls', calls'[s].at = "arrived"
          PROVE  \E i \in DOMAIN arrived' : arrived'[i] = s
      <4>1. CASE s = r
        BY <3>2, <4>1
      <4>2. CASE s # r
        <5>1. PICK i \in DOMAIN arrived : arrived[i] = s
          BY <1>1, <3>6, <4>2 DEF IInv, InOrder
        <5> QED BY <3>2, <5>1
      <4> QED BY <4>1, <4>2
    <3>7. ASSUME NEW i \in DOMAIN arrived', NEW j \in DOMAIN arrived', i < j
          PROVE  arrived'[i] # arrived'[j] /\ calls'[arrived'[i]].aborted
      <4>1. i \in DOMAIN arrived /\ arrived'[i] = arrived[i] /\ arrived[i] # r
        BY <3>2, <3>3, <3>7
      <4>2. calls'[arrived'[i]].aborted
        BY <1>1, <3>3, <3>4, <4>1
      <4>3. CASE j = last
        BY <3>2, <4>1, <4>2, <4>3
      <4>4. CASE j # last
        <5>1. j \in DOMAIN arrived /\ arrived'[j] = arrived[j]
          BY <3>2, <4>4
        <5>2. arrived[i] # arrived[j]
          BY <3>7, <4>1, <5>1 DEF IInv, InOrder
        <5> QED BY <4>1, <4>2, <5>1, <5>2
      <4> QED BY <4>3, <4>4
    <3> QED BY <3>2, <3>5, <3>6, <3>7 DEF InOrder
  <2> QED BY <2>1, <2>2
<1> QED BY <1>3, <1>4, <1>5, <1>6, <1>7, <1>8 DEF IInv

\* A call is served, fails or arrives.
LEMMA AnswersKeep ==
  ASSUME IInv, NEW r \in DOMAIN calls, Answers(r) PROVE IInv'
<1>1. PICK c : c = calls[r]
  OBVIOUS
<1>2. CallOK(c) /\ reviews \subseteq issued
  BY <1>1 DEF IInv, CallsOK, Types, TypeOK
<1>3. c = [kind |-> c.kind, choice |-> c.choice, token |-> c.token, aborted |-> c.aborted,
           at |-> c.at, ok |-> c.ok]
  BY <1>2 DEF CallOK, Call
<1>4. CASE ServePrepare(r)
  <2>1. PICK t \in Token \ issued :
          /\ reviews' = {t} /\ issued' = issued \cup {t}
          /\ calls' = [calls EXCEPT ![r] = [@ EXCEPT !.at = "served", !.token = t, !.ok = TRUE]]
    BY <1>4 DEF ServePrepare
  <2>2. c.kind = "prepare" /\ c.at = "sent" /\ UNCHANGED local
    BY <1>1, <1>4 DEF ServePrepare
  <2>3. PICK new : new = [c EXCEPT !.at = "served", !.token = t, !.ok = TRUE]
    OBVIOUS
  <2>3a. new = [kind |-> c.kind, choice |-> c.choice, token |-> t,
                 aborted |-> c.aborted, at |-> "served", ok |-> TRUE]
    BY <1>3, <2>3
  <2>4. calls' = [calls EXCEPT ![r] = new]
    BY <1>1, <2>1, <2>3
  <2>5. CallOK(new)
    BY <1>2, <2>1, <2>3a DEF CallOK, Call
  <2>6. reviews' \subseteq issued'
    BY <2>1
  <2> QED BY <1>1, <2>2, <2>3a, <2>4, <2>5, <2>6, Answering DEF local, history
<1>5. CASE ServeContinue(r)
  <2>1. /\ c.kind = "continue" /\ c.at = "sent" /\ UNCHANGED local
        /\ calls' = [calls EXCEPT ![r] = [@ EXCEPT !.at = "served", !.ok = TRUE]]
        /\ reviews' \subseteq issued'
    BY <1>1, <1>2, <1>5 DEF ServeContinue
  <2>2. PICK new : new = [c EXCEPT !.at = "served", !.ok = TRUE]
    OBVIOUS
  <2>2a. new = [kind |-> c.kind, choice |-> c.choice, token |-> c.token,
                 aborted |-> c.aborted, at |-> "served", ok |-> TRUE]
    BY <1>3, <2>2
  <2>3. calls' = [calls EXCEPT ![r] = new]
    BY <1>1, <2>1, <2>2
  <2>4. CallOK(new)
    BY <1>2, <2>1, <2>2a DEF CallOK, Call
  <2> QED BY <1>1, <2>1, <2>2a, <2>3, <2>4, Answering DEF local, history
<1>6. CASE Fail(r)
  <2>1. /\ c.at \in {"sent", "served"} /\ UNCHANGED <<local, server>>
        /\ calls' = [calls EXCEPT ![r] = [@ EXCEPT !.at = "failed", !.ok = FALSE]]
    BY <1>1, <1>6 DEF Fail
  <2>2. PICK new : new = [c EXCEPT !.at = "failed", !.ok = FALSE]
    OBVIOUS
  <2>2a. new = [kind |-> c.kind, choice |-> c.choice, token |-> c.token,
                 aborted |-> c.aborted, at |-> "failed", ok |-> FALSE]
    BY <1>3, <2>2
  <2>3. calls' = [calls EXCEPT ![r] = new]
    BY <1>1, <2>1, <2>2
  <2>4. CallOK(new)
    BY <1>2, <2>2a DEF CallOK, Call
  <2> QED BY <1>1, <1>2, <2>1, <2>2a, <2>3, <2>4, Answering DEF local, history, server
<1>7. CASE Arrive(r)
  <2>1. /\ c.at \in {"served", "failed"} /\ ~c.aborted
        /\ UNCHANGED <<page, view, ref, mounted, behind, asked, server, history>>
        /\ calls' = [calls EXCEPT ![r].at = "arrived"] /\ arrived' = Append(arrived, r)
    BY <1>1, <1>7 DEF Arrive
  <2>2. PICK new : new = [c EXCEPT !.at = "arrived"]
    OBVIOUS
  <2>2a. new = [kind |-> c.kind, choice |-> c.choice, token |-> c.token,
                 aborted |-> c.aborted, at |-> "arrived", ok |-> c.ok]
    BY <1>3, <2>2
  <2>3. calls' = [calls EXCEPT ![r] = new]
    BY <1>1, <2>1, <2>2
  <2>4. CallOK(new)
    BY <1>2, <2>2a DEF CallOK, Call
  <2> QED BY <1>1, <1>2, <2>1, <2>2a, <2>3, <2>4, Answering DEF server
<1> QED BY <1>4, <1>5, <1>6, <1>7 DEF Answers

\* The API's own steps are not the page's.
LEMMA ReviewEndsKeeps == ASSUME IInv, ReviewEnds PROVE IInv'
<1>1. UNCHANGED <<local, calls, issued>> /\ reviews' \subseteq issued'
  BY DEF ReviewEnds, IInv, Types, TypeOK
<1>2. Types' /\ CallsOK' /\ OneCurrent' /\ InOrder'
  BY <1>1 DEF IInv, Types, TypeOK, CallsOK, OneCurrent, InOrder, local, history
<1>3. Awaited' /\ NothingToLose' /\ Lagging'
  BY <1>1 DEF IInv, Awaited, AwaitsPreparation, AwaitsAnalysis, NothingToLose, Lagging, Refused, local
<1>4. HoldsWhatItShows' /\ NoTokenForgotten' /\ ShownForChoice'
  BY <1>1, <1>2
     DEF IInv, Types, HoldsWhatItShows, Refused, NoTokenForgotten, ShownForChoice, local, history
<1> QED BY <1>2, <1>3, <1>4 DEF IInv

(***************************************************************************)
(* The theorems.                                                           *)
(***************************************************************************)

\* A fresh page.
LEMMA InitIInv == Init => IInv
<1> SUFFICES ASSUME Init PROVE IInv
  OBVIOUS
<1>1. PICK p : p = InitialState
  OBVIOUS
<1>2. p = [draft |-> "text", choice |-> DefaultChoice, selfConfirmed |-> FALSE,
           reviewConfirmed |-> FALSE, phase |-> "draft", preparation |-> None,
           analysis |-> None, revision |-> 0]
  BY <1>1 DEF InitialState
<1>3. Bare(p, "draft", 0)
  BY <1>2, PageAssumption DEF Bare, Proper, State, Phase
<1>4. page = p /\ view = p /\ ref = [request |-> None, token |-> None, revision |-> 0]
  BY <1>1 DEF Init, Idle
<1>5. Types
  <2>1. mounted \in BOOLEAN /\ behind \in BOOLEAN
    BY DEF Init
  <2>2. learned \subseteq Token /\ reviews \subseteq issued
    BY DEF Init
  <2> QED BY <1>3, <1>4, <2>1, <2>2, PageAssumption DEF Types, TypeOK, Bare
<1>6. calls = [r \in {} |-> 0] /\ arrived = <<>>
  BY DEF Init
<1>7. CallsOK /\ OneCurrent /\ InOrder /\ Awaited /\ NothingToLose
  BY <1>6 DEF CallsOK, OneCurrent, InOrder, Awaited, NothingToLose
<1>8. Lagging /\ HoldsWhatItShows /\ NoTokenForgotten /\ ShownForChoice
  BY <1>3, <1>4, <1>5
     DEF Init, Types, Lagging, HoldsWhatItShows, NoTokenForgotten, ShownForChoice, Bare
<1> QED BY <1>5, <1>7, <1>8 DEF IInv

\* Every step keeps the invariant.
LEMMA StepIInv == IInv /\ [Next]_vars => IInv'
<1> SUFFICES ASSUME IInv, [Next]_vars PROVE IInv'
  OBVIOUS
<1>1. CASE Edit
  BY <1>1, EditKeeps
<1>2. CASE HandlePrepare
  BY <1>2, PrepareKeeps
<1>3. CASE ConfirmPreview
  BY <1>3, ConfirmKeeps
<1>4. CASE HandleContinue
  BY <1>4, ContinueKeeps
<1>5. CASE HandleClear
  BY <1>5, ClearKeeps
<1>6. CASE Unmount
  BY <1>6, UnmountKeeps
<1>7. CASE ExpireTimer
  BY <1>7, ExpiryKeeps
<1>8. CASE Render
  BY <1>8, RenderKeeps
<1>9. CASE ReviewEnds
  BY <1>9, ReviewEndsKeeps
<1>10. ASSUME NEW r \in DOMAIN calls, Settle(r) PROVE IInv'
  BY <1>10, PrepareSettlesKeeps, ContinueSettlesKeeps DEF Settle
<1>11. ASSUME NEW r \in DOMAIN calls, Answers(r) PROVE IInv'
  BY <1>11, AnswersKeep
<1>12. CASE UNCHANGED vars
  <2>1. UNCHANGED <<local, calls, server>>
    BY <1>12 DEF vars, local, history, server
  <2>2. Types' /\ CallsOK' /\ OneCurrent' /\ InOrder'
    BY <2>1 DEF IInv, Types, TypeOK, CallsOK, OneCurrent, InOrder, local, history, server
  <2>3. Awaited' /\ NothingToLose' /\ Lagging'
    BY <2>1 DEF IInv, Awaited, AwaitsPreparation, AwaitsAnalysis, NothingToLose, Lagging, Refused, local
  <2>4. HoldsWhatItShows' /\ NoTokenForgotten' /\ ShownForChoice'
    BY <2>1, <2>2
       DEF IInv, Types, HoldsWhatItShows, Refused, NoTokenForgotten, ShownForChoice, local, history
  <2> QED BY <2>2, <2>3, <2>4 DEF IInv
<1> QED BY <1>1, <1>2, <1>3, <1>4, <1>5, <1>6, <1>7, <1>8, <1>9, <1>10, <1>11, <1>12 DEF Next

\* The invariant holds.
THEOREM PageInvariant == Spec => []IInv
<1> QED BY InitIInv, StepIInv, PTL DEF Spec

\* The token the page would clear is that of the preview on it, however many
\* events come before a render, or of a request that the reducer refused
\* (T1UserDraftReviewPage.tsx 20-22, 105-106, 123, 149, 157).
THEOREM TokenIsShown == Spec => []HoldsWhatItShows
<1>1. IInv => HoldsWhatItShows
  BY DEF IInv
<1> QED BY <1>1, PageInvariant, PTL

\* Whatever is edited, cleared, late or left, no token the page was told is lost
\* (lines 45-50, 61-67, 81, 120, 157).
THEOREM EveryTokenAccountedFor == Spec => []NoTokenForgotten
<1>1. IInv => NoTokenForgotten
  BY DEF IInv
<1> QED BY <1>1, PageInvariant, PTL

\* What is shown was made for what is selected next to it, if the preview was
\* asked for on the page as it was (lines 204-240).
THEOREM NothingStaleShown == Spec => []ShownForChoice
<1>1. IInv => ShownForChoice
  BY DEF IInv
<1> QED BY <1>1, PageInvariant, PTL

\* No late answer and no timer changes a page at rest (lines 42, 119, 150, 154).
THEOREM RestIsUndisturbed == Spec => RestsUntilTheUserActs
<1>1. ASSUME IInv, ~Busy(page), page.phase # "review",
             ExpireTimer \/ \E r \in DOMAIN calls : Settle(r)
      PROVE  page' = page
  <2>1. ~ExpireTimer
    BY <1>1, ExpiresWhatIsShown DEF Busy
  <2>2. PICK r \in DOMAIN calls : Settle(r)
    BY <1>1, <2>1
  <2>3. calls[r].kind = "prepare" => ~Current(r) \/ page.revision # r
    BY <1>1 DEF IInv, Awaited, AwaitsPreparation, Current, Busy
  <2>4. calls[r].kind # "prepare" => ~Current(r) \/ page.revision # r
    BY <1>1 DEF IInv, Awaited, AwaitsAnalysis, Current, Busy
  <2>5. CASE PrepareSettles(r)
    <3>1. calls[r].kind = "prepare"
      BY <2>5 DEF PrepareSettles, Settles
    <3> QED BY <2>3, <2>5, <3>1 DEF PrepareSettles, PrepareSucceed, PrepareFail
  <2>6. CASE ContinueSettles(r)
    <3>1. calls[r].kind = "continue"
      BY <2>6 DEF ContinueSettles, Settles
    <3> QED BY <2>4, <2>6, <3>1 DEF ContinueSettles, ContinueSucceed, ContinueFail
  <2> QED BY <2>2, <2>5, <2>6 DEF Settle
<1>2. IInv /\ [Next]_vars =>
        [~Busy(page) /\ page.phase # "review"
           /\ (ExpireTimer \/ \E r \in DOMAIN calls : Settle(r)) => page' = page]_vars
  BY <1>1
<1> QED BY <1>2, PageInvariant, PTL DEF Spec, RestsUntilTheUserActs

================================================================================
