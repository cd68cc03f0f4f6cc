--------------------------- MODULE T1SessionStore ---------------------------
(***************************************************************************)
(* T1EphemeralSessionStore as a state machine: every public operation, the *)
(* expiry timer, the passing of monotonic time, and the corruption of a    *)
(* stored record that the integrity seal is there to detect.               *)
(***************************************************************************)
EXTENDS T1SessionOps

CONSTANTS
  InputBytes,      \* minimizedTextBytes a caller may pass
  InputRemaining,  \* expiresAtMs minus wall clock: rolled back, skewed or exact
  EarlyBy,         \* how early a Node timer may run, in units of the clock
  MaxTime          \* bound on the monotonic clock

ASSUME InputsAssumption == /\ InputBytes \subseteq Int
                           /\ InputRemaining \subseteq Int
                           /\ EarlyBy \in Nat
                           /\ MaxTime \in Nat

VARIABLES
  store,   \* the object's fields
  now,     \* monotonicNow()
  issued,  \* tokens drawn so far: 32 random bytes do not repeat
  grants,  \* per token, the claims answered "ok"
  reply    \* what the last step answered, and to whom

vars == <<store, now, issued, grants, reply>>

Nobody == "nobody"
NoInput == [op |-> "none", by |-> Nobody, status |-> "none", nonce |-> NoNonce]

Answer(op, by, status, nonce) ==
  reply' = [op |-> op, by |-> by, status |-> status, nonce |-> nonce]

Init == /\ store = EmptyStore
        /\ now = 0
        /\ issued = {}
        /\ grants = [t \in Token |-> 0]
        /\ reply = NoInput

(***************************************************************************)
(* The operations.                                                         *)
(***************************************************************************)

\* MaxTime leaves room for every session that is created to expire.
CreateSession(t, in) ==
  /\ t \notin issued
  /\ now + TTL <= MaxTime
  /\ LET made == Create(store, in, t, now)
     IN  /\ store' = made.st
         /\ issued' = IF made.status = "created" THEN issued \cup {t} ELSE issued
         /\ Answer("create", in.subject, made.status, made.replaced)
  /\ UNCHANGED <<now, grants>>

ClaimSession(t, s) ==
  /\ LET claimed == Claim(store, t, s, now)
     IN  /\ store' = claimed.st
         /\ grants' = IF claimed.status = "ok" THEN [grants EXCEPT ![t] = @ + 1] ELSE grants
         /\ Answer("claim", s, claimed.status,
                   IF claimed.status = "ok" THEN NonceOf(claimed.st, t) ELSE NoNonce)
  /\ UNCHANGED <<now, issued>>

ConsumeSession(t) ==
  /\ LET consumed == Consume(store, t, now)
     IN  /\ store' = consumed.st
         /\ Answer("consume", Nobody, "ok", consumed.nonce)
  /\ UNCHANGED <<now, issued, grants>>

ClearSession(t, s) ==
  /\ LET cleared == Clear(store, t, s, now)
     IN  /\ store' = cleared.st
         /\ Answer("clear", s, cleared.status, cleared.nonce)
  /\ UNCHANGED <<now, issued, grants>>

InvalidateSessions(s) ==
  /\ LET invalidated == InvalidateSubject(store, s, now)
     IN  /\ store' = invalidated.st
         /\ Answer("invalidate", s, "ok", invalidated.nonce)
  /\ UNCHANGED <<now, issued, grants>>

Stats ==
  /\ store' = Sweep(store, now)
  /\ Answer("stats", Nobody, "ok", NoNonce)
  /\ UNCHANGED <<now, issued, grants>>

DisposeStore ==
  /\ store' = Dispose(store, now)
  /\ Answer("dispose", Nobody, "ok", NoNonce)
  /\ UNCHANGED <<now, issued, grants>>

(***************************************************************************)
(* The timer and the world around the store.                               *)
(***************************************************************************)

\* The timer callback forgets its handle, then sweeps.  Node may run it up to
\* EarlyBy before its deadline (it counts whole milliseconds), or late.
TimerFire ==
  /\ store.timer # NoTimer
  /\ store.timer <= now + EarlyBy
  /\ store' = Sweep([store EXCEPT !.timer = NoTimer], now)
  /\ Answer("timer", Nobody, "ok", NoNonce)
  /\ UNCHANGED <<now, issued, grants>>

Tick == /\ now < MaxTime
        /\ now' = now + 1
        /\ reply' = NoInput
        /\ UNCHANGED <<store, issued, grants>>

\* A stored record changes behind the store's back.
Corrupt(t) ==
  /\ t \in Stored(store)
  /\ store' = [store EXCEPT !.sessions =
                 Put(store.sessions, t, [store.sessions[t] EXCEPT !.intact = FALSE])]
  /\ reply' = NoInput
  /\ UNCHANGED <<now, issued, grants>>

Input == [subject : Subject, nonce : Nonce, binding : Binding,
          bytes : InputBytes, remaining : InputRemaining]

Next == \/ \E t \in Token, in \in Input : CreateSession(t, in)
        \/ \E t \in Token, s \in Subject : ClaimSession(t, s)
        \/ \E t \in Token, s \in Subject : ClearSession(t, s)
        \/ \E t \in Token : ConsumeSession(t)
        \/ \E s \in Subject : InvalidateSessions(s)
        \/ \E t \in Token : Corrupt(t)
        \/ Stats
        \/ DisposeStore
        \/ TimerFire
        \/ Tick

Spec == Init /\ [][Next]_vars

\* Time passes, and the event loop gets round to a timer that is due.
FairSpec == Spec /\ WF_vars(Tick) /\ WF_vars(TimerFire)

(***************************************************************************)
(* Invariants.                                                             *)
(***************************************************************************)

\* The shape of the store's fields, of the clock and of the history.
TypeOK == /\ StoreShape(store)
          /\ now \in Nat
          /\ issued \subseteq Token
          /\ grants \in [Token -> Nat]

\* A subject has at most one session, and activeBySubject names exactly it:
\* the two Maps are kept in step by hand through replacement and removal.
OneReviewPerSubject == OneReview(store)

\* The running byte counter is what the stored sessions really hold, so the
\* clamp at zero in removeByHash never hides a double subtraction; and neither
\* limit is ever exceeded, replacement included.
WithinCapacity == BytesAccounted(store) /\ WithinLimits(store)

\* A token that was drawn has left the store exactly when its abort signal
\* has fired: a continuation in flight can rely on signal.aborted alone.
AbortMeansRemoved ==
  /\ Stored(store) \cup store.aborted = issued
  /\ Stored(store) \cap store.aborted = {}

\* While anything is left to expire a timer is armed, no later than the
\* nearest deadline, also after a removal that does not re-arm it.
TimerCovers == TimerArmed(store)

(***************************************************************************)
(* Action properties.                                                      *)
(***************************************************************************)

Unexpired(t) == t \in Stored(store) /\ store.sessions[t].expiresAt > now

\* A session's deadline is at most one TTL of monotonic time away when it is
\* stored, whatever the wall clock claims, and is never moved afterwards.
NeverExtended ==
  [][\A t \in Stored(store') :
       IF t \in Stored(store)
       THEN store'.sessions[t].expiresAt = store.sessions[t].expiresAt
       ELSE store'.sessions[t].expiresAt \in (now + 1)..(now + TTL)]_vars

\* Before its deadline a session is ended or claimed only by a call made for
\* its own subject, or by the holder of its token (consume), or by shutdown:
\* no pressure from other subjects evicts it, and a create that is refused for
\* capacity does not cost its caller the former session.
OnlyOwnerEndsReview ==
  [][\A t \in Token :
       Unexpired(t) /\ (t \in Stored(store') => store'.sessions[t].claimed # store.sessions[t].claimed)
         => \/ reply'.by = store.sessions[t].subject /\ reply'.status # "capacity"
            \/ reply'.op \in {"consume", "dispose"}]_vars

\* The call that ends an unexpired session hands its private nonce back, so
\* that the route can clear the Python side.  Shutdown does not, and neither
\* does a claim that finds the seal broken.
EndedNonceHandedBack ==
  [][\A t \in Token :
       Unexpired(t) /\ t \notin Stored(store')
         => \/ reply'.nonce = store.sessions[t].nonce
            \/ reply'.op = "dispose"
            \/ reply'.status = "integrity_failure" /\ ~store.sessions[t].intact]_vars

(***************************************************************************)
(* The store implements ReviewTokens.                                      *)
(***************************************************************************)

Tokens == INSTANCE ReviewTokens
            WITH holder <- [t \in Stored(store) |-> store.sessions[t].subject]

\* Single use, one open token per subject, and no token opens twice.
ImplementsReviewTokens == Tokens!TokenSpec

(***************************************************************************)
(* Liveness.                                                               *)
(***************************************************************************)

\* With no call from anyone, time and the timer alone end every session.
EverySessionEnds == \A t \in Token : t \in Stored(store) ~> t \notin Stored(store)
=============================================================================
