----------------------------- MODULE T1Protocol -----------------------------
(***************************************************************************)
(* The private review protocol end to end: the prepare, continue and clear *)
(* handlers of the Fastify API, cut at every await that another actor can  *)
(* use; its session store; the consent provider and its withdrawal         *)
(* listener; admission; and the Python service behind a network that may   *)
(* delay, lose or never answer a call.                                     *)
(*                                                                         *)
(* Time is abstracted: a session of either store may expire at any moment, *)
(* a call may time out at any moment.  What T1SessionStore and             *)
(* T1PythonStore say of clocks and timers is not repeated here.  A handler *)
(* that awaits a clear goes on as soon as it likes, and an await of the    *)
(* admission state is merged with the check that follows it: both allow    *)
(* every order of the steps that the code allows.                          *)
(***************************************************************************)
EXTENDS T1SessionOps, T1PythonOps

CONSTANTS
  Request,      \* slots for requests that may be in flight together
  MaxVersion,   \* bound on consent versions
  MaxRevision,  \* bound on withdrawals
  Lossy         \* whether calls are lost, time out, and sessions expire

ASSUME ProtocolAssumption == /\ MaxVersion \in Nat /\ Binding = 0..MaxVersion
                             /\ MaxRevision \in Nat
                             /\ Lossy \in BOOLEAN

VARIABLES
  store,       \* the Fastify session store
  py,          \* the Python session store
  work,        \* analyses running in Python
  net,         \* calls and answers under way between the two
  consent,     \* per subject: the record's status and version (effectiveAt)
  admitted,    \* whether privacy admission is as it was
  revision,    \* consentWithdrawalRevision
  req,         \* the requests in flight
  issued,      \* review tokens drawn
  drawn,       \* private nonces drawn
  known,       \* tokens a prepare has answered 200 with
  released,    \* per token, the analyses a continue has answered 200 with
  epoch,       \* per subject, its withdrawals so far
  origin,      \* per token, its subject and the epoch its prepare began in
  unaccepted   \* history: the nonces whose answer a prepare did not accept

vars == <<store, py, work, net, consent, admitted, revision, req, issued, drawn,
          known, released, epoch, origin, unaccepted>>
reviews == <<store, consent, admitted, revision, issued, known, released, epoch, origin>>
fastify == <<reviews, unaccepted>>

NoToken == "no token"
Idle == [at |-> "idle"]

Init == /\ store = EmptyStore
        /\ py = EmptyPyStore
        /\ work = {}
        /\ net = {}
        /\ consent = [s \in Subject |-> [active |-> TRUE, version |-> 0]]
        /\ admitted = TRUE
        /\ revision = 0
        /\ req = [r \in Request |-> Idle]
        /\ issued = {}
        /\ drawn = {}
        /\ known = {}
        /\ released = [t \in Token |-> 0]
        /\ epoch = [s \in Subject |-> 0]
        /\ origin = [t \in {} |-> 0]
        /\ unaccepted = {}

(***************************************************************************)
(* Calls to the private service.                                           *)
(***************************************************************************)

\* Whoever waits for the answer; a caller that gave up no longer does.
PrepareCall(r) == [kind |-> "prepare", req |-> r, awaited |-> TRUE]
ContinueCall(r, n) == [kind |-> "continue", req |-> r, nonce |-> n, awaited |-> TRUE]

\* Faulty: the private session is never cleared.
ClearInternalNever(nonces) == {}

\* clearInternal: best effort, and nothing for null.
ClearInternal(nonces) == {[kind |-> "clear", nonce |-> n] : n \in nonces \ {NoNonce}}

Calls == {"prepare", "continue"}
Answers == {"prepared", "refused", "analysed"}

\* The caller's fetch is aborted: its answer, if there is one, is dropped, and
\* the call may still reach the service.
Abandoned(r, messages) ==
  {m \in messages : ~(m.kind \in Answers /\ m.req = r) /\ ~(m.kind \in Calls /\ m.req = r)}
    \cup {[m EXCEPT !.awaited = FALSE] : m \in {c \in messages : c.kind \in Calls /\ c.req = r}}

AbandonedWork(r) == {IF j.req = r THEN [j EXCEPT !.awaited = FALSE] ELSE j : j \in work}

(***************************************************************************)
(* POST prepare.                                                           *)
(***************************************************************************)

Goto(r, at) == req' = [req EXCEPT ![r] = [@ EXCEPT !.at = at]]
Done(r) == req' = [req EXCEPT ![r] = Idle]

\* The route calls getConsent and awaits it.
StartPrepare(r, s) ==
  /\ req[r] = Idle
  /\ req' = [req EXCEPT ![r] = [at |-> "prepare_consent", subject |-> s, seen |-> consent[s],
                                consent |-> consent[s].version, revision |-> 0, epoch |-> 0,
                                nonce |-> NoNonce, token |-> NoToken]]
  /\ UNCHANGED <<fastify, py, work, net, drawn>>

\* Consent was active when read; the withdrawal revision is captured now, and
\* whatever review the subject had is invalidated.
PrepareInvalidate(r) ==
  /\ req[r].at = "prepare_consent"
  /\ IF ~req[r].seen.active
     THEN Done(r) /\ UNCHANGED <<store, net>>
     ELSE LET invalidated == InvalidateSubject(store, req[r].subject, 0)
          IN  /\ store' = invalidated.st
              /\ net' = net \cup ClearInternal({invalidated.nonce})
              /\ req' = [req EXCEPT ![r] = [@ EXCEPT !.at = "prepare_admission", !.revision = revision,
                                                 !.epoch = epoch[req[r].subject]]]
  /\ UNCHANGED <<py, work, consent, admitted, revision, issued, drawn, known, released, epoch, origin, unaccepted>>

PrepareSend(r) ==
  /\ req[r].at = "prepare_admission"
  /\ IF admitted
     THEN Goto(r, "prepare_call") /\ net' = net \cup {PrepareCall(r)}
     ELSE Done(r) /\ UNCHANGED net
  /\ UNCHANGED <<fastify, py, work, drawn>>

\* Headers are in: the timeout is cleared, and the body is read without one.
PrepareHeaders(r, m) ==
  /\ req[r].at = "prepare_call"
  /\ m \in net /\ m.kind \in Answers /\ m.req = r
  /\ net' = net \ {m}
  /\ IF m.kind = "prepared"
     THEN req' = [req EXCEPT ![r] = [@ EXCEPT !.at = "prepare_body", !.nonce = m.nonce]]
     ELSE Done(r)
  /\ UNCHANGED <<fastify, py, work, drawn>>

\* The body is read.  It breaks off, does not fit the schema or names another
\* admission snapshot, and the request ends before it has taken note of the
\* nonce; or consent is read again.  (An answer that is not JSON is such a body.)
PrepareBody(r) ==
  /\ req[r].at = "prepare_body"
  /\ \/ Done(r) /\ unaccepted' = unaccepted \cup {req[r].nonce}
     \/ /\ req' = [req EXCEPT ![r] = [@ EXCEPT !.at = "prepare_recheck", !.seen = consent[req[r].subject]]]
        /\ UNCHANGED unaccepted
  /\ UNCHANGED <<reviews, py, work, net, drawn>>

\* No withdrawal of anyone since the revision was captured, and the record
\* read last is the one the request began with.
StillConsented(r) ==
  revision = req[r].revision /\ req[r].seen.active /\ req[r].seen.version = req[r].consent

PrepareInput(r) == [subject |-> req[r].subject, nonce |-> req[r].nonce,
                    binding |-> req[r].consent, bytes |-> 1, remaining |-> TTL]

\* Consent and admission are rechecked, and the session is created.  A refusal
\* clears the private session on the way out.
PrepareCreate(r, t) ==
  /\ req[r].at = "prepare_recheck"
  /\ t \notin issued
  /\ LET made == Create(store, PrepareInput(r), t, 0)
     IN  IF ~StillConsented(r) \/ ~admitted
         THEN /\ Done(r)
              /\ net' = net \cup ClearInternal({req[r].nonce})
              /\ UNCHANGED <<store, issued, origin>>
         ELSE IF made.status = "capacity"
         THEN /\ Done(r)
              /\ store' = made.st
              /\ net' = net \cup ClearInternal({req[r].nonce})
              /\ UNCHANGED <<issued, origin>>
         ELSE /\ req' = [req EXCEPT ![r] = [@ EXCEPT !.at = "prepare_created", !.token = t]]
              /\ store' = made.st
              /\ net' = net \cup ClearInternal({made.replaced})
              /\ issued' = issued \cup {t}
              /\ origin' = Put(origin, t, [subject |-> req[r].subject, epoch |-> req[r].epoch])
  /\ UNCHANGED <<py, work, consent, admitted, revision, drawn, known, released, epoch, unaccepted>>

PrepareFinalConsent(r) ==
  /\ req[r].at = "prepare_created"
  /\ req' = [req EXCEPT ![r] = [@ EXCEPT !.at = "prepare_final", !.seen = consent[req[r].subject]]]
  /\ UNCHANGED <<fastify, py, work, net, drawn>>

\* The last recheck: 200 with the token, or the session is consumed and every
\* private nonce cleared.
PrepareRelease(r) ==
  /\ req[r].at = "prepare_final"
  /\ IF StillConsented(r) /\ admitted
     THEN known' = known \cup {req[r].token} /\ UNCHANGED <<store, net>>
     ELSE LET consumed == Consume(store, req[r].token, 0)
          IN  /\ store' = consumed.st
              /\ net' = net \cup ClearInternal({consumed.nonce, req[r].nonce})
              /\ UNCHANGED known
  /\ Done(r)
  /\ UNCHANGED <<py, work, consent, admitted, revision, issued, drawn, released, epoch, origin, unaccepted>>

(***************************************************************************)
(* POST continue.                                                          *)
(***************************************************************************)

StartContinue(r, s, t) ==
  /\ req[r] = Idle
  /\ t \in known
  /\ req' = [req EXCEPT ![r] = [at |-> "continue_consent", subject |-> s, seen |-> consent[s],
                                consent |-> 0, revision |-> 0, epoch |-> 0,
                                nonce |-> NoNonce, token |-> t]]
  /\ UNCHANGED <<fastify, py, work, net, drawn>>

\* Faulty: the finally clause clears the private session only.
EndContinueKeeping(r) ==
  /\ Done(r)
  /\ UNCHANGED <<store, consent, admitted, revision, issued, known, epoch, origin, unaccepted>>

\* The finally clause consumes the token, whatever became of it.  (Its clear
\* of the private session is in the actions that end with it.)
EndContinue(r) ==
  /\ store' = Consume(store, req[r].token, 0).st
  /\ Done(r)
  /\ UNCHANGED <<consent, admitted, revision, issued, known, epoch, origin, unaccepted>>

\* Without consent the subject's review is invalidated; with it the token is
\* claimed, and its consent version and admission are compared.
ContinueClaim(r) ==
  LET s == req[r].subject
      t == req[r].token
      claimed == Claim(store, t, s, 0)
      session == claimed.st.sessions[t]
      invalidated == InvalidateSubject(store, s, 0)
  IN  /\ req[r].at = "continue_consent"
      /\ IF ~req[r].seen.active
         THEN /\ Done(r)
              /\ store' = invalidated.st
              /\ net' = net \cup ClearInternal({invalidated.nonce})
         ELSE IF claimed.status # "ok"
         THEN Done(r) /\ store' = claimed.st /\ UNCHANGED net
         ELSE IF session.binding # req[r].seen.version \/ ~admitted
         THEN /\ Done(r)
              /\ store' = Consume(claimed.st, t, 0).st
              /\ net' = net \cup ClearInternal({session.nonce})
         ELSE /\ store' = claimed.st
              /\ net' = net \cup {ContinueCall(r, session.nonce)}
              /\ req' = [req EXCEPT ![r] = [@ EXCEPT !.at = "continue_call", !.nonce = session.nonce,
                                                 !.consent = session.binding]]
      /\ UNCHANGED <<py, work, consent, admitted, revision, issued, drawn, known, released, epoch, origin, unaccepted>>

ContinueHeaders(r, m) ==
  /\ req[r].at = "continue_call"
  /\ m \in net /\ m.kind \in Answers /\ m.req = r
  /\ IF m.kind = "analysed"
     THEN /\ net' = net \ {m}
          /\ Goto(r, "continue_body")
          /\ UNCHANGED <<store, consent, admitted, revision, issued, known, epoch, origin, unaccepted>>
     ELSE /\ net' = (net \ {m}) \cup ClearInternal({req[r].nonce})
          /\ EndContinue(r)
  /\ UNCHANGED <<py, work, drawn, released>>

\* The body is read.  It breaks off or does not fit the schema, the abort signal
\* has fired or admission is another, and the request ends; or consent is read
\* again.
ContinueBody(r) ==
  /\ req[r].at = "continue_body"
  /\ \/ /\ EndContinue(r)
        /\ net' = net \cup ClearInternal({req[r].nonce})
     \/ /\ req[r].token \notin store.aborted /\ admitted
        /\ req' = [req EXCEPT ![r] = [@ EXCEPT !.at = "continue_recheck", !.seen = consent[req[r].subject]]]
        /\ UNCHANGED <<store, net, consent, admitted, revision, issued, known, epoch, origin, unaccepted>>
  /\ UNCHANGED <<py, work, drawn, released>>

\* Faulty: only the record read last decides, not the abort signal.
MayReleaseByRecord(r) == req[r].seen.active /\ req[r].seen.version = req[r].consent

\* The answer may go out: the signal has not fired since the claim, and the
\* record read last is the one the session is bound to.
MayRelease(r) == /\ req[r].token \notin store.aborted
                 /\ req[r].seen.active
                 /\ req[r].seen.version = req[r].consent

ContinueRelease(r) ==
  /\ req[r].at = "continue_recheck"
  /\ released' = IF MayRelease(r) THEN [released EXCEPT ![req[r].token] = @ + 1] ELSE released
  /\ EndContinue(r)
  /\ net' = net \cup ClearInternal({req[r].nonce})
  /\ UNCHANGED <<py, work, drawn>>

(***************************************************************************)
(* POST clear, and what ends a call early.                                 *)
(***************************************************************************)

ClearReview(s, t) ==
  /\ t \in known
  /\ LET cleared == Clear(store, t, s, 0)
     IN  /\ store' = cleared.st
         /\ net' = net \cup ClearInternal({cleared.nonce})
  /\ UNCHANGED <<py, work, consent, admitted, revision, req, issued, drawn, known, released, epoch, origin, unaccepted>>

\* Faulty: the call fails with its connection, and is not timed.
PrepareUntimed(r) ==
  /\ Lossy
  /\ req[r].at = "prepare_call"
  /\ PrepareCall(r) \in net
  /\ Done(r)
  /\ net' = Abandoned(r, net)
  /\ UNCHANGED <<fastify, py, work, drawn>>

\* A call that waits for headers is abandoned: by its timeout, or because the
\* network fails it.  Prepare has nothing to clear: it knows no nonce.
PrepareGivesUp(r) ==
  /\ Lossy
  /\ req[r].at = "prepare_call"
  /\ Done(r)
  /\ net' = Abandoned(r, net)
  /\ UNCHANGED <<fastify, py, work, drawn>>

\* Continue is abandoned by its timeout too, and by the session's signal.
ContinueGivesUp(r) ==
  /\ req[r].at = "continue_call"
  /\ Lossy \/ req[r].token \in store.aborted
  /\ EndContinue(r)
  /\ net' = Abandoned(r, net) \cup ClearInternal({req[r].nonce})
  /\ work' = AbandonedWork(r)
  /\ UNCHANGED <<py, drawn, released>>

SessionExpires(t) ==
  /\ Lossy
  /\ t \in Stored(store)
  /\ store' = ScheduleExpiry(RemoveAll(store, {t}, 0), 0)
  /\ UNCHANGED <<py, work, net, consent, admitted, revision, req, issued, drawn, known, released, epoch, origin, unaccepted>>

(***************************************************************************)
(* Consent and admission.                                                  *)
(***************************************************************************)

\* withdraw, of a grant or of nothing, sets the record and, before anything else runs, the listener: it
\* counts the withdrawal and invalidates the subject's review.
Withdraw(s) ==
  /\ revision < MaxRevision
  /\ consent' = [consent EXCEPT ![s].active = FALSE]
  /\ revision' = revision + 1
  /\ epoch' = [epoch EXCEPT ![s] = @ + 1]
  /\ LET invalidated == InvalidateSubject(store, s, 0)
     IN  /\ store' = invalidated.st
         /\ net' = net \cup ClearInternal({invalidated.nonce})
  /\ UNCHANGED <<py, work, admitted, req, issued, drawn, known, released, origin, unaccepted>>

\* A grant replaces the record.  effectiveAt has millisecond resolution, so a
\* new grant may carry the old one's.
Grant(s, version) ==
  /\ version \in {consent[s].version, consent[s].version + 1}
  /\ consent' = [consent EXCEPT ![s] = [active |-> TRUE, version |-> version]]
  /\ UNCHANGED <<store, py, work, net, admitted, revision, req, issued, drawn, known, released, epoch, origin, unaccepted>>

AdmissionChanges ==
  /\ admitted' = ~admitted
  /\ UNCHANGED <<store, py, work, net, consent, revision, req, issued, drawn, known, released, epoch, origin, unaccepted>>

(***************************************************************************)
(* The Python service.                                                     *)
(***************************************************************************)

Answer(m, answer) == IF m.awaited THEN {answer} ELSE {}
Refused(m) == Answer(m, [kind |-> "refused", req |-> m.req])

\* text/prepare: minimize, then create; the privacy check may refuse.
PyPrepare(m, n) ==
  /\ m \in net /\ m.kind = "prepare"
  /\ n \notin drawn
  /\ LET made == PyCreate(py, n, 1, 0)
     IN  IF made.status = "created"
         THEN /\ py' = made.py
              /\ drawn' = drawn \cup {n}
              /\ net' = (net \ {m}) \cup Answer(m, [kind |-> "prepared", req |-> m.req, nonce |-> n])
         ELSE py' = made.py /\ net' = (net \ {m}) \cup Refused(m) /\ UNCHANGED drawn
  /\ UNCHANGED <<fastify, req, work>>

PyPrepareRefuses(m) ==
  /\ m \in net /\ m.kind = "prepare"
  /\ net' = (net \ {m}) \cup Refused(m)
  /\ UNCHANGED <<fastify, req, py, work, drawn>>

\* text/continue: admission refuses before the store is touched; or the session
\* is leased, is not there, or is ended because the snapshot it was made under is
\* no longer the caller's or the service's.
PyBegin(m) ==
  /\ m \in net /\ m.kind = "continue"
  /\ \/ net' = (net \ {m}) \cup Refused(m) /\ UNCHANGED <<py, work>>
     \/ \E matches \in BOOLEAN :
          LET consumed == PyConsume(py, m.nonce, matches, 0)
          IN  /\ py' = consumed.py
              /\ IF consumed.status = "leased"
                 THEN /\ net' = net \ {m}
                      /\ work' = work \cup {[nonce |-> m.nonce, req |-> m.req, awaited |-> m.awaited,
                                             passed |-> FALSE]}
                 ELSE net' = (net \ {m}) \cup Refused(m) /\ UNCHANGED work
  /\ UNCHANGED <<fastify, req, drawn>>

\* The last revocation check passes.
PyPass(j) ==
  /\ j \in work /\ ~j.passed
  /\ j.nonce \notin py.revoked
  /\ work' = (work \ {j}) \cup {[j EXCEPT !.passed = TRUE]}
  /\ UNCHANGED <<fastify, req, py, net, drawn>>

\* finish, and the answer: the analysis, or a refusal by revocation or failure.
PyEnd(j) ==
  /\ j \in work
  /\ work' = work \ {j}
  /\ py' = PyFinish(py, j.nonce)
  /\ net' = net \cup (IF j.passed THEN Answer(j, [kind |-> "analysed", req |-> j.req]) ELSE Refused(j))
  /\ UNCHANGED <<fastify, req, drawn>>

PyClearCall(m) ==
  /\ m \in net /\ m.kind = "clear"
  /\ py' = PyClear(py, m.nonce, 0)
  /\ net' = net \ {m}
  /\ UNCHANGED <<fastify, req, work, drawn>>

PyExpires(n) ==
  /\ Lossy
  /\ n \in Held(py)
  /\ py' = Schedule(Revoke(py, {n}), 0)
  /\ UNCHANGED <<fastify, req, work, net, drawn>>

\* The service restarts: its sessions and its analyses are gone, unanswered.
PyRestarts ==
  /\ Lossy
  /\ py' = EmptyPyStore
  /\ work' = {}
  /\ UNCHANGED <<fastify, req, net, drawn>>

Lose(m) ==
  /\ Lossy
  /\ m \in net
  /\ net' = net \ {m}
  /\ UNCHANGED <<fastify, req, py, work, drawn>>

(***************************************************************************)
(* The whole system.                                                       *)
(***************************************************************************)

\* What a handler does on its own once it has been resumed.
HandlerStep(r) ==
  \/ PrepareInvalidate(r) \/ PrepareSend(r)
  \/ \E t \in Token : PrepareCreate(r, t)
  \/ PrepareFinalConsent(r) \/ PrepareRelease(r)
  \/ ContinueClaim(r) \/ ContinueRelease(r)
  \/ \E m \in net : PrepareHeaders(r, m) \/ ContinueHeaders(r, m)

\* readBoundedJson has the whole body, or fails: too long, absent, broken off.
BodyStep(r) == PrepareBody(r) \/ ContinueBody(r)

GiveUp(r) == PrepareGivesUp(r) \/ ContinueGivesUp(r)

PyStep == \/ \E m \in net, n \in Nonce : PyPrepare(m, n)
          \/ \E m \in net : PyPrepareRefuses(m) \/ PyBegin(m) \/ PyClearCall(m)
          \/ \E j \in work : PyPass(j) \/ PyEnd(j)

Environment ==
  \/ \E s \in Subject : Withdraw(s)
  \/ \E s \in Subject, version \in Binding : Grant(s, version)
  \/ AdmissionChanges
  \/ \E t \in Token : SessionExpires(t)
  \/ \E n \in Nonce : PyExpires(n)
  \/ \E m \in net : Lose(m)
  \/ PyRestarts

Arrival == \/ \E r \in Request, s \in Subject : StartPrepare(r, s)
           \/ \E r \in Request, s \in Subject, t \in Token : StartContinue(r, s, t)
           \/ \E s \in Subject, t \in Token : ClearReview(s, t)

Next == \/ Arrival
        \/ \E r \in Request : HandlerStep(r) \/ BodyStep(r) \/ GiveUp(r)
        \/ PyStep
        \/ Environment

Spec == Init /\ [][Next]_vars

\* Fastify resumes a handler whose promise is settled, a timeout or an abort
\* ends a call, and the Python service serves what reaches it: each is weakly
\* fair.  The guards are written out where ENABLED would make TLC carry out an
\* operation of a store to learn that it can.
Resumable(r) ==
  \/ req[r].at \in {"prepare_consent", "prepare_final", "continue_consent", "continue_recheck"}
  \/ req[r].at = "prepare_recheck" /\ issued # Token
  \/ req[r].at = "continue_call" /\ \E m \in net : m.kind \in Answers /\ m.req = r
Abandonable(r) == req[r].at = "continue_call" /\ (Lossy \/ req[r].token \in store.aborted)
Reading(r) == req[r].at \in {"prepare_body", "continue_body"}
Serving == work # {} \/ \E m \in net : m.kind \in Calls \cup {"clear"}

Progress ==
  /\ \A r \in Request :
       /\ WF_vars(PrepareSend(r))
       /\ WF_vars(\E m \in net : PrepareHeaders(r, m))
       /\ WF_vars(PrepareFinalConsent(r))
       /\ WF_vars(PrepareGivesUp(r))
       /\ []<>~Resumable(r) \/ []<><<HandlerStep(r)>>_vars
       /\ []<>~Abandonable(r) \/ []<><<ContinueGivesUp(r)>>_vars
  /\ []<>~Serving \/ []<><<PyStep>>_vars

\* A network that ends every body it began; the code has no say in that.
BodiesEnd == \A r \in Request : []<>~Reading(r) \/ []<><<BodyStep(r)>>_vars

FairSpec == Spec /\ Progress
FairNetworkSpec == Spec /\ Progress /\ BodiesEnd

(***************************************************************************)
(* Properties.                                                             *)
(***************************************************************************)

InFlight(r) == req[r].at # "idle"
Preparing(r) == req[r].at \in {"prepare_created", "prepare_final"}
Continuing(r) == req[r].at \in {"continue_call", "continue_body", "continue_recheck"}

\* The private session the request must still clear or hand over.  Between
\* the headers and the body the handler does not know it yet.
Carries(r, n) == req[r].at \in {"prepare_body", "prepare_recheck", "continue_call",
                                "continue_body", "continue_recheck"}
                 /\ req[r].nonce = n

\* The stores and the counters have the shape the operations expect, and no
\* review is held under a token the API did not draw.
TypeOK == /\ StoreShape(store) /\ BytesAccounted(store) /\ WithinLimits(store)
          /\ PyShape(py) /\ PyBytesAccounted(py) /\ PyWithinLimits(py)
          /\ revision \in 0..MaxRevision
          /\ drawn \subseteq Nonce /\ Held(py) \subseteq drawn
          /\ Stored(store) \subseteq issued /\ DOMAIN origin = issued
          /\ \A r \in Request : Preparing(r) => req[r].token \in issued \ known

\* No token and no analysis goes out to a subject who withdrew consent after
\* the review's prepare began, even if consent was granted again since with a
\* record that compares equal (v2-user-draft-analysis.ts 205, 232-241,
\* 268-281, 381-395).
NoReleaseAfterWithdrawal ==
  [][\A t \in issued :
       (t \in known' \ known \/ released'[t] > released[t])
         => LET s == origin[t].subject
            IN  consent[s].active /\ epoch[s] = origin[t].epoch]_vars

\* A review is worked on by one continue request at a time, one of its owner's,
\* and by none after an analysis of it was released: although the claim is
\* followed by five awaits before the token is consumed.
ExclusiveContinue ==
  /\ TypeOK
  /\ \A r \in Request : Continuing(r) =>
       /\ origin[req[r].token].subject = req[r].subject
       /\ released[req[r].token] = 0
       /\ \A q \in Request \ {r} : ~(Continuing(q) /\ req[q].token = req[r].token)

\* No review outlives the request that answers for it: a claimed one has a
\* continue request in flight that will consume it, an unclaimed one is known
\* to its owner or a prepare request in flight will release or consume it.
NoOrphanReview ==
  \A t \in Stored(store) :
    IF store.sessions[t].claimed
    THEN \E r \in Request : Continuing(r) /\ req[r].token = t
    ELSE t \in known \/ \E r \in Request : Preparing(r) /\ req[r].token = t

\* With a network that loses nothing and no expiry, every minimized text the
\* Python service holds belongs to a review in the Fastify store, or someone
\* is about to clear it or to be told of it: all but the text of an answer that
\* prepare refused before it took note of the nonce (v2-user-draft-analysis.ts
\* 227-231), which nobody clears and only the service's own deadline ends.
NoOrphanText ==
  \A n \in Held(py) \ unaccepted :
    \/ \E t \in Stored(store) : store.sessions[t].nonce = n
    \/ \E m \in net : m.kind \in {"clear", "prepared"} /\ m.nonce = n
    \/ \E r \in Request : Carries(r, n)

\* Every request is answered in the end, provided that response bodies end.
EveryRequestAnswered == \A r \in Request : InFlight(r) ~> ~InFlight(r)

\* What docs/architecture/SIGNAL_ENGINE_MODULARIZATION.md line 9 says of clear,
\* that it "aborts Fastify transport": the continue request that works on a
\* review ends after the review has.  The code forwards the session's signal to
\* the fetch, and times it, only until its headers are in (lines 144-147).
AbortEndsContinue ==
  \A r \in Request : (Continuing(r) /\ req[r].token \in store.aborted) ~> ~InFlight(r)
=============================================================================
