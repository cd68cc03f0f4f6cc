---------------------------- MODULE T1PythonOps ----------------------------
(***************************************************************************)
(* The operations of T1SessionStore in the private Python service, as      *)
(* operators from a store and a monotonic reading to a store.  Each runs   *)
(* under the store's lock, so each is atomic; the threads that take turns  *)
(* on the lock are in T1PythonStore.                                       *)
(*                                                                         *)
(* A nonce stands for the session created under it.  The minimized text is *)
(* its byte count; the admission snapshots are what comparing them says.   *)
(***************************************************************************)
EXTENDS T1Nonces, Integers, FiniteSets, FiniteSetsExt, Functions

CONSTANTS
  PyTTL,       \* ttl_seconds
  PySessions,  \* max_sessions
  PyBytes      \* max_text_bytes

\* The constructor's ValueErrors.
ASSUME PyLimitsAssumption == /\ PyTTL \in Nat \ {0}
                             /\ PySessions \in Nat \ {0}
                             /\ PyBytes \in Nat \ {0}

NoHandle == -1

\* The text bytes and the deadline of a session, stored or leased.
Lease == [bytes : 0..PyBytes, expiresAt : Nat]

\* _sessions and _inflight; the byte counter; the nonces whose revocation
\* event is set.  Of the threading.Timers: the deadline of the one that
\* _expiry_timer refers to and whether it has fired, the deadlines of live
\* timers nothing refers to any more, and how many fired timer threads wait
\* for the lock.
EmptyPyStore == [stored  |-> [n \in {} |-> 0],
                 leased  |-> [n \in {} |-> 0],
                 total   |-> 0,
                 revoked |-> {},
                 handle  |-> NoHandle,
                 fired   |-> FALSE,
                 strays  |-> {},
                 waiting |-> 0]

Held(py) == DOMAIN py.stored \cup DOMAIN py.leased

LeaseOf(py, n) == IF n \in DOMAIN py.stored THEN py.stored[n] ELSE py.leased[n]

PyBytesOf(py, N) ==
  Cardinality({slot \in N \X (1..PyBytes) : slot[2] <= LeaseOf(py, slot[1]).bytes})

PyDeadlines(py) == {LeaseOf(py, n).expiresAt : n \in Held(py)}

\* dict item assignment and dict.pop
With(f, x, v) == [y \in DOMAIN f \cup {x} |-> IF y = x THEN v ELSE f[y]]
Without(f, X) == Restrict(f, DOMAIN f \ X)

\* Faulty: only sessions that are not leased to a worker are revoked.
RevokeStoredOnly(py, N) ==
  LET gone == N \cap DOMAIN py.stored
  IN  [py EXCEPT !.stored  = Without(py.stored, gone),
                 !.total   = py.total - PyBytesOf(py, gone),
                 !.revoked = py.revoked \cup gone]

\* Faulty: the session is forgotten, but a worker that leased it is not told.
RevokeSilently(py, N) ==
  LET gone == N \cap Held(py)
  IN  [py EXCEPT !.stored  = Without(py.stored, gone),
                 !.leased  = Without(py.leased, gone),
                 !.total   = py.total - PyBytesOf(py, gone)]

\* Pop the sessions of N wherever they are, take their bytes off the counter
\* and set their revocation events.
Revoke(py, N) ==
  LET gone == N \cap Held(py)
  IN  [py EXCEPT !.stored  = Without(py.stored, gone),
                 !.leased  = Without(py.leased, gone),
                 !.total   = py.total - PyBytesOf(py, gone),
                 !.revoked = py.revoked \cup gone]

Purge(py, now) == Revoke(py, {n \in Held(py) : LeaseOf(py, n).expiresAt <= now})

\* Cancelling a Timer that has fired does nothing: its thread is already on
\* its way to the lock.
Schedule(py, now) ==
  [py EXCEPT !.fired  = FALSE,
             !.handle = CASE PyDeadlines(py) = {} -> NoHandle
                          [] PyDeadlines(py) # {} ->
                               LET nearest == Min(PyDeadlines(py))
                               IN  IF nearest > now THEN nearest ELSE now]

PurgeAndSchedule(py, now) == Schedule(Purge(py, now), now)

\* Faulty: sessions leased to a worker do not count towards the limit.
PyFitsStoredOnly(py, bytes) == /\ Cardinality(DOMAIN py.stored) < PySessions
                               /\ py.total + bytes <= PyBytes

PyFits(py, bytes) ==
  /\ Cardinality(DOMAIN py.stored) + Cardinality(DOMAIN py.leased) < PySessions
  /\ py.total + bytes <= PyBytes

PyCreate(py, n, bytes, now) ==
  LET purged  == PurgeAndSchedule(py, now)
      session == [bytes |-> bytes, expiresAt |-> now + PyTTL]
  IN  IF PyFits(purged, bytes)
      THEN [py |-> Schedule([purged EXCEPT !.stored = With(purged.stored, n, session),
                                           !.total  = purged.total + bytes], now),
            status |-> "created"]
      ELSE [py |-> purged, status |-> "capacity"]

\* Faulty: the session is leased without being taken out of the store.
PyConsumeByCopy(py, n, matches, now) ==
  LET purged == PurgeAndSchedule(py, now)
  IN  IF n \notin DOMAIN purged.stored
      THEN [py |-> purged, status |-> "unavailable"]
      ELSE IF ~matches
      THEN [py |-> Schedule(Revoke(purged, {n}), now), status |-> "admission_changed"]
      ELSE [py |-> [purged EXCEPT !.leased = With(purged.leased, n, purged.stored[n])],
            status |-> "leased"]

\* A lease moves the session from one dict to the other; an admission that
\* no longer matches ends it for good.
PyConsume(py, n, matches, now) ==
  LET purged == PurgeAndSchedule(py, now)
  IN  IF n \notin DOMAIN purged.stored
      THEN [py |-> purged, status |-> "unavailable"]
      ELSE IF ~matches
      THEN [py |-> Schedule(Revoke(purged, {n}), now), status |-> "admission_changed"]
      ELSE [py |-> Schedule([purged EXCEPT !.stored = Without(purged.stored, {n}),
                                           !.leased = With(purged.leased, n, purged.stored[n])],
                            now),
            status |-> "leased"]

\* finish neither purges nor re-arms; a lease revoked meanwhile is gone.
PyFinish(py, n) ==
  LET gone == {n} \cap DOMAIN py.leased
  IN  [py EXCEPT !.leased = Without(py.leased, gone),
                 !.total  = py.total - PyBytesOf(py, gone)]

PyClear(py, n, now) == Schedule(Revoke(Purge(py, now), {n}), now)

\* close cancels the timer and revokes every session.
PyClose(py) == [Revoke(py, Held(py)) EXCEPT !.total = 0, !.handle = NoHandle, !.fired = FALSE]

\* Faulty: the fired timer purges and leaves nothing armed.
ExpireDueOnce(py, now) ==
  Purge([py EXCEPT !.waiting = py.waiting - 1, !.handle = NoHandle, !.fired = FALSE], now)

\* A fired timer thread that has got the lock drops the handle, whichever
\* timer it refers to by now: an unfired one lives on as a stray.
ExpireDue(py, now) ==
  LET stray   == IF py.fired \/ py.handle = NoHandle THEN {} ELSE {py.handle}
      dropped == [py EXCEPT !.waiting = py.waiting - 1, !.handle = NoHandle,
                            !.fired = FALSE, !.strays = py.strays \cup stray]
  IN  PurgeAndSchedule(dropped, now)

(***************************************************************************)
(* What a store looks like whenever the lock is free.                      *)
(***************************************************************************)

\* The byte counter has no conjunct here: PyBytesAccounted pins it.
PyShape(py) ==
  /\ py = [stored |-> py.stored, leased |-> py.leased, total |-> py.total,
           revoked |-> py.revoked, handle |-> py.handle, fired |-> py.fired,
           strays |-> py.strays, waiting |-> py.waiting]
  /\ Held(py) \subseteq Nonce
  /\ py.stored \in [DOMAIN py.stored -> Lease]
  /\ py.leased \in [DOMAIN py.leased -> Lease]
  /\ py.revoked \subseteq Nonce
  /\ py.handle \in Nat \cup {NoHandle}
  /\ py.fired \in BOOLEAN
  /\ py.strays \subseteq Nat
  /\ py.waiting \in Nat

\* A session is in one dict at most, and in none once it is revoked.
LeasesExclusive(py) == /\ DOMAIN py.stored \cap DOMAIN py.leased = {}
                       /\ Held(py) \cap py.revoked = {}

PyBytesAccounted(py) == py.total = PyBytesOf(py, Held(py))

PyWithinLimits(py) == /\ Cardinality(Held(py)) <= PySessions
                      /\ py.total <= PyBytes

\* Whatever is held, a timer thread waits for the lock, or a live timer will
\* start one no later than the nearest deadline.
LiveTimers(py) == py.strays \cup (IF py.fired \/ py.handle = NoHandle THEN {} ELSE {py.handle})
PyTimerArmed(py) ==
  \A d \in PyDeadlines(py) : py.waiting > 0 \/ \E due \in LiveTimers(py) : due <= d
=============================================================================
