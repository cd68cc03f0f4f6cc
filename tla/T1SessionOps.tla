---------------------------- MODULE T1SessionOps ----------------------------
(***************************************************************************)
(* The operations of T1EphemeralSessionStore, the in-memory store of short *)
(* lived review sessions in the Fastify API, as operators from a store and *)
(* a monotonic reading to a store and an answer.  Every operation of the   *)
(* class is synchronous, so an operator is one atomic step of the event    *)
(* loop; the time that passes inside one is abstracted to one reading.     *)
(* T1SessionStore makes a state machine of them, T1Protocol uses them from *)
(* the request handlers.                                                   *)
(*                                                                         *)
(* A token stands for the random review token and for its keyed hash.  The *)
(* two HMACs are abstracted to what they decide: a session's seal verifies *)
(* exactly while its record is intact.                                     *)
(***************************************************************************)
EXTENDS T1Nonces, Integers, FiniteSets, FiniteSetsExt, Functions

CONSTANTS
  Subject,      \* authenticated subjects
  Token,        \* the review tokens randomBytes can issue
  Binding,      \* consent and admission versions a session is bound to
  NoNonce,      \* the null a removal of nothing returns
  TTL,          \* options.ttlMs
  MaxSessions,  \* options.maxSessions
  MaxBytes      \* options.maxMinimizedTextBytes

\* The constructor's RangeErrors; null is no nonce.
ASSUME LimitsAssumption == /\ TTL \in Nat \ {0}
                           /\ MaxSessions \in Nat
                           /\ MaxBytes \in Nat
                           /\ NoNonce \notin Nonce

NoTimer == -1

Session == [subject : Subject, nonce : Nonce, binding : Binding,
            bytes : 0..MaxBytes, expiresAt : Nat,
            claimed : BOOLEAN, intact : BOOLEAN]

\* The two Maps, the tombstone Map, the byte counter, the one expiry timer
\* (the reading it is due at) and the tokens whose AbortController has fired.
EmptyStore == [sessions   |-> [t \in {} |-> 0],
               active     |-> [s \in {} |-> 0],
               tombstones |-> [t \in {} |-> 0],
               total      |-> 0,
               timer      |-> NoTimer,
               aborted    |-> {}]

Stored(st) == DOMAIN st.sessions

\* The minimized-text bytes of a set of stored sessions, counted one by one.
BytesOf(st, T) ==
  Cardinality({slot \in T \X (1..MaxBytes) : slot[2] <= st.sessions[slot[1]].bytes})

\* Map.prototype.set
Put(f, x, v) == [y \in DOMAIN f \cup {x} |-> IF y = x THEN v ELSE f[y]]

NonceOf(st, t) == IF t \in Stored(st) THEN st.sessions[t].nonce ELSE NoNonce

(***************************************************************************)
(* Removal, the timer, and the sweep every operation starts with.          *)
(***************************************************************************)

\* Faulty: a removal forgets to abort the controller.
RemoveAllUnaborted(st, T, now) ==
  LET gone == T \cap Stored(st)
      owns(s) == \E t \in gone : st.sessions[t].subject = s /\ st.active[s] = t
      left == st.total - BytesOf(st, gone)
  IN  [sessions   |-> Restrict(st.sessions, Stored(st) \ gone),
       active     |-> Restrict(st.active, {s \in DOMAIN st.active : ~owns(s)}),
       tombstones |-> [t \in DOMAIN st.tombstones \cup gone |->
                         IF t \in gone THEN now + TTL ELSE st.tombstones[t]],
       total      |-> IF left > 0 THEN left ELSE 0,
       timer      |-> st.timer,
       aborted    |-> st.aborted]

\* removeByHash of every stored session in T.  A removal aborts the
\* session's controller, and leaves the subject's pointer alone when it
\* already names another session.
RemoveAll(st, T, now) ==
  LET gone == T \cap Stored(st)
      owns(s) == \E t \in gone : st.sessions[t].subject = s /\ st.active[s] = t
      left == st.total - BytesOf(st, gone)
  IN  [sessions   |-> Restrict(st.sessions, Stored(st) \ gone),
       active     |-> Restrict(st.active, {s \in DOMAIN st.active : ~owns(s)}),
       tombstones |-> [t \in DOMAIN st.tombstones \cup gone |->
                         IF t \in gone THEN now + TTL ELSE st.tombstones[t]],
       total      |-> IF left > 0 THEN left ELSE 0,
       timer      |-> st.timer,
       aborted    |-> st.aborted \cup gone]

Deadlines(st) == {st.sessions[t].expiresAt : t \in Stored(st)}
                   \cup {st.tombstones[t] : t \in DOMAIN st.tombstones}

\* One timer, for the nearest deadline, replacing whatever was armed.
ScheduleExpiry(st, now) ==
  [st EXCEPT !.timer = CASE Deadlines(st) = {}        -> NoTimer
                         [] Deadlines(st) # {}        ->
                              LET nearest == Min(Deadlines(st))
                              IN  IF nearest > now THEN nearest ELSE now]

\* Faulty: the sweep does not re-arm the timer that ran it.
SweepUnscheduled(st, now) ==
  LET expired == {t \in Stored(st) : st.sessions[t].expiresAt <= now}
      kept    == RemoveAll(st, expired, now)
      recent  == {t \in DOMAIN kept.tombstones : kept.tombstones[t] > now}
  IN  [kept EXCEPT !.tombstones = Restrict(kept.tombstones, recent)]

Sweep(st, now) ==
  LET expired == {t \in Stored(st) : st.sessions[t].expiresAt <= now}
      kept    == RemoveAll(st, expired, now)
      recent  == {t \in DOMAIN kept.tombstones : kept.tombstones[t] > now}
  IN  ScheduleExpiry([kept EXCEPT !.tombstones = Restrict(kept.tombstones, recent)], now)

(***************************************************************************)
(* The public operations: [st |-> the store after, and the answer].        *)
(***************************************************************************)

\* Faulty: the nonce is looked up after the session is gone.
InvalidateSubjectLosingNonce(st, s, now) ==
  LET swept == Sweep(st, now)
  IN  IF s \in DOMAIN swept.active
      THEN [st    |-> ScheduleExpiry(RemoveAll(swept, {swept.active[s]}, now), now),
            nonce |-> NoNonce]
      ELSE [st |-> swept, nonce |-> NoNonce]

InvalidateSubject(st, s, now) ==
  LET swept == Sweep(st, now)
      t     == swept.active[s]
  IN  IF s \in DOMAIN swept.active
      THEN [st    |-> ScheduleExpiry(RemoveAll(swept, {t}, now), now),
            nonce |-> NonceOf(swept, t)]
      ELSE [st |-> swept, nonce |-> NoNonce]

\* create projects the session count and the bytes as if the subject's
\* present session were already gone, and displaces that session only once
\* the new one is known to fit.  in.remaining is input.expiresAtMs minus the
\* wall clock, whatever the two clocks say.
\* Faulty: the previous session of the subject is not displaced.
DisplacedNothing(st, s) == {}

Displaced(st, s) == IF s \in DOMAIN st.active THEN {st.active[s]} \cap Stored(st) ELSE {}

\* Faulty: the lifetime follows the wall clock and is not cut at the TTL.
LifetimeByWallClock(in) == in.remaining

Lifetime(in) == IF in.remaining < TTL THEN in.remaining ELSE TTL

\* Faulty: a negative size is not refused.
FitsAnySize(st, in) ==
  LET old == Displaced(st, in.subject)
  IN  /\ Lifetime(in) > 0
      /\ Cardinality(Stored(st)) - Cardinality(old) + 1 <= MaxSessions
      /\ st.total - BytesOf(st, old) + in.bytes <= MaxBytes

\* Faulty: the count does not include the session about to be added.
FitsOffByOne(st, in) ==
  LET old == Displaced(st, in.subject)
  IN  /\ in.bytes >= 0
      /\ Lifetime(in) > 0
      /\ Cardinality(Stored(st)) - Cardinality(old) <= MaxSessions
      /\ st.total - BytesOf(st, old) + in.bytes <= MaxBytes

Fits(st, in) ==
  LET old == Displaced(st, in.subject)
  IN  /\ in.bytes >= 0
      /\ Lifetime(in) > 0
      /\ Cardinality(Stored(st)) - Cardinality(old) + 1 <= MaxSessions
      /\ st.total - BytesOf(st, old) + in.bytes <= MaxBytes

\* Faulty: the new session's deadline does not reach the timer.
InsertUnscheduled(st, in, t, now) ==
  LET freed == RemoveAll(st, Displaced(st, in.subject), now)
      new   == [subject |-> in.subject, nonce |-> in.nonce, binding |-> in.binding,
                bytes |-> in.bytes, expiresAt |-> now + Lifetime(in),
                claimed |-> FALSE, intact |-> TRUE]
  IN  [freed EXCEPT !.sessions = Put(freed.sessions, t, new),
                    !.active   = Put(freed.active, in.subject, t),
                    !.total    = freed.total + in.bytes]

Insert(st, in, t, now) ==
  LET freed == RemoveAll(st, Displaced(st, in.subject), now)
      new   == [subject |-> in.subject, nonce |-> in.nonce, binding |-> in.binding,
                bytes |-> in.bytes, expiresAt |-> now + Lifetime(in),
                claimed |-> FALSE, intact |-> TRUE]
  IN  ScheduleExpiry([freed EXCEPT !.sessions = Put(freed.sessions, t, new),
                                   !.active   = Put(freed.active, in.subject, t),
                                   !.total    = freed.total + in.bytes], now)

\* Faulty: the present session is displaced before the new one is admitted.
CreateDisplacingFirst(st, in, t, now) ==
  LET swept == Sweep(st, now)
      old   == Displaced(swept, in.subject)
  IN  IF Fits(swept, in)
      THEN [st |-> Insert(swept, in, t, now), status |-> "created",
            replaced |-> IF old = {} THEN NoNonce ELSE NonceOf(swept, swept.active[in.subject])]
      ELSE [st |-> ScheduleExpiry(RemoveAll(swept, old, now), now), status |-> "capacity",
            replaced |-> NoNonce]

Create(st, in, t, now) ==
  LET swept == Sweep(st, now)
      old   == Displaced(swept, in.subject)
  IN  IF Fits(swept, in)
      THEN [st |-> Insert(swept, in, t, now), status |-> "created",
            replaced |-> IF old = {} THEN NoNonce ELSE NonceOf(swept, swept.active[in.subject])]
      ELSE [st |-> swept, status |-> "capacity", replaced |-> NoNonce]

\* Faulty: a session that was claimed already can be claimed again.
ClaimStatusReusable(st, t, s) ==
  IF t \notin Stored(st) THEN "gone"
  ELSE IF st.sessions[t].subject # s THEN "forbidden"
  ELSE IF st.sessions[t].intact THEN "ok" ELSE "integrity_failure"

\* A claim leaves the session in place, marked, so that a second claim finds
\* it gone; a broken seal removes it without re-arming the timer.
ClaimStatus(st, t, s) ==
  IF t \notin Stored(st) \/ st.sessions[t].claimed THEN "gone"
  ELSE IF st.sessions[t].subject # s THEN "forbidden"
  ELSE IF st.sessions[t].intact THEN "ok" ELSE "integrity_failure"

Claim(st, t, s, now) ==
  LET swept  == Sweep(st, now)
      status == ClaimStatus(swept, t, s)
  IN  [st |-> CASE status = "ok" ->
                     [swept EXCEPT !.sessions =
                        Put(swept.sessions, t, [swept.sessions[t] EXCEPT !.claimed = TRUE])]
                [] status = "integrity_failure" -> RemoveAll(swept, {t}, now)
                [] OTHER -> swept,
       status |-> status]

Consume(st, t, now) ==
  LET swept == Sweep(st, now)
  IN  [st    |-> ScheduleExpiry(RemoveAll(swept, {t}, now), now),
       nonce |-> NonceOf(swept, t)]

Clear(st, t, s, now) ==
  LET swept == Sweep(st, now)
  IN  IF t \notin Stored(swept)
      THEN [st |-> swept, status |-> "cleared", nonce |-> NoNonce]
      ELSE IF swept.sessions[t].subject # s
      THEN [st |-> swept, status |-> "forbidden", nonce |-> NoNonce]
      ELSE [st     |-> ScheduleExpiry(RemoveAll(swept, {t}, now), now),
            status |-> "cleared", nonce |-> NonceOf(swept, t)]

\* dispose cancels the timer and drops every session without a tombstone.
Dispose(st, now) ==
  [RemoveAll(st, Stored(st), now) EXCEPT !.tombstones = EmptyStore.tombstones,
                                         !.timer = NoTimer]

(***************************************************************************)
(* What a store between two operations looks like.  The modules that use   *)
(* the store check these of theirs.                                        *)
(***************************************************************************)

\* The byte counter has no conjunct here: BytesAccounted pins it.
StoreShape(st) ==
  /\ st = [sessions |-> st.sessions, active |-> st.active,
           tombstones |-> st.tombstones, total |-> st.total,
           timer |-> st.timer, aborted |-> st.aborted]
  /\ Stored(st) \subseteq Token
  /\ st.sessions \in [Stored(st) -> Session]
  /\ DOMAIN st.active \subseteq Subject
  /\ st.active \in [DOMAIN st.active -> Token]
  /\ DOMAIN st.tombstones \subseteq Token
  /\ st.tombstones \in [DOMAIN st.tombstones -> Nat]
  /\ st.timer \in Nat \cup {NoTimer}
  /\ st.aborted \subseteq Token

\* A subject has at most one session, and its pointer names exactly it.
OneReview(st) ==
  /\ \A s \in DOMAIN st.active :
       /\ st.active[s] \in Stored(st)
       /\ st.sessions[st.active[s]].subject = s
  /\ \A t \in Stored(st) :
       /\ st.sessions[t].subject \in DOMAIN st.active
       /\ st.active[st.sessions[t].subject] = t

BytesAccounted(st) == st.total = BytesOf(st, Stored(st))

WithinLimits(st) == /\ Cardinality(Stored(st)) <= MaxSessions
                    /\ st.total <= MaxBytes

\* A timer is armed for whatever expires next, or earlier.
TimerArmed(st) == \A d \in Deadlines(st) : st.timer # NoTimer /\ st.timer <= d
=============================================================================
