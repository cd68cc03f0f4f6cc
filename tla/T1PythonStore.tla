--------------------------- MODULE T1PythonStore ---------------------------
(***************************************************************************)
(* The private Python service's session store under concurrency: request   *)
(* threads of FastAPI's pool that create, lease, analyse, finish and clear *)
(* sessions, and threading.Timer threads that purge what has expired.  An  *)
(* analysis runs outside the lock and asks about revocation as it goes.    *)
(***************************************************************************)
EXTENDS T1PythonOps

CONSTANTS
  Worker,     \* request threads that may be inside continue_review
  TextBytes,  \* sizes of minimized texts
  PyMaxTime   \* bound on the monotonic clock

ASSUME PyInputsAssumption == TextBytes \subseteq Nat /\ PyMaxTime \in Nat

VARIABLES
  py,       \* the T1SessionStore object
  now,      \* time.monotonic()
  job,      \* what each worker is doing
  created,  \* nonces handed out so far
  leases    \* per nonce, how often it was leased for analysis

vars == <<py, now, job, created, leases>>

Idle == [at |-> "idle"]
Job(at, n) == [at |-> at, nonce |-> n]
Jobs == {Idle} \cup [at : {"analysing", "passed", "refused"}, nonce : Nonce]

Init == /\ py = EmptyPyStore
        /\ now = 0
        /\ job = [w \in Worker |-> Idle]
        /\ created = {}
        /\ leases = [n \in Nonce |-> 0]

\* prepare, from the creation of the session on.
Prepare(n, bytes) ==
  /\ n \notin created
  /\ now + PyTTL <= PyMaxTime
  /\ LET made == PyCreate(py, n, bytes, now)
     IN  /\ py' = made.py
         /\ created' = IF made.status = "created" THEN created \cup {n} ELSE created
  /\ UNCHANGED <<now, job, leases>>

\* continue_review, up to and including sessions.consume.
BeginReview(w, n, matches) ==
  /\ job[w] = Idle
  /\ LET consumed == PyConsume(py, n, matches, now)
     IN  /\ py' = consumed.py
         /\ IF consumed.status = "leased"
            THEN /\ job' = [job EXCEPT ![w] = Job("analysing", n)]
                 /\ leases' = [leases EXCEPT ![n] = @ + 1]
            ELSE UNCHANGED <<job, leases>>
  /\ UNCHANGED <<now, created>>

\* A require_not_revoked that raises, or an analysis step that fails.
RefuseReview(w) ==
  /\ job[w].at = "analysing"
  /\ job' = [job EXCEPT ![w].at = "refused"]
  /\ UNCHANGED <<py, now, created, leases>>

\* The last require_not_revoked, after which the response is returned.  The
\* earlier ones change nothing when they pass.  The event is read outside the
\* lock; a read that finds it unset inside another thread's critical section
\* could as well have come before that section.
PassReview(w) ==
  /\ job[w].at = "analysing"
  /\ job[w].nonce \notin py.revoked
  /\ job' = [job EXCEPT ![w].at = "passed"]
  /\ UNCHANGED <<py, now, created, leases>>

\* The finally clause: finish, whatever the outcome was.
FinishReview(w) ==
  /\ job[w].at \in {"passed", "refused"}
  /\ py' = PyFinish(py, job[w].nonce)
  /\ job' = [job EXCEPT ![w] = Idle]
  /\ UNCHANGED <<now, created, leases>>

ClearNonce(n) == /\ py' = PyClear(py, n, now)
                 /\ UNCHANGED <<now, job, created, leases>>

\* active_count and total_text_bytes
ReadCounters == /\ py' = PurgeAndSchedule(py, now)
                /\ UNCHANGED <<now, job, created, leases>>

CloseStore == /\ py' = PyClose(py)
              /\ UNCHANGED <<now, job, created, leases>>

\* A due timer starts its thread, which has yet to get the lock.
HandleFires ==
  /\ py.handle # NoHandle /\ ~py.fired
  /\ py.handle <= now
  /\ py' = [py EXCEPT !.fired = TRUE, !.waiting = py.waiting + 1]
  /\ UNCHANGED <<now, job, created, leases>>

StrayFires(due) ==
  /\ due \in py.strays
  /\ due <= now
  /\ py' = [py EXCEPT !.strays = py.strays \ {due}, !.waiting = py.waiting + 1]
  /\ UNCHANGED <<now, job, created, leases>>

TimerThread == /\ py.waiting > 0
               /\ py' = ExpireDue(py, now)
               /\ UNCHANGED <<now, job, created, leases>>

Tick == /\ now < PyMaxTime
        /\ now' = now + 1
        /\ UNCHANGED <<py, job, created, leases>>

Next == \/ \E n \in Nonce, bytes \in TextBytes : Prepare(n, bytes)
        \/ \E w \in Worker, n \in Nonce, matches \in BOOLEAN : BeginReview(w, n, matches)
        \/ \E w \in Worker : RefuseReview(w) \/ PassReview(w) \/ FinishReview(w)
        \/ \E n \in Nonce : ClearNonce(n)
        \/ \E due \in 0..PyMaxTime : StrayFires(due)
        \/ ReadCounters
        \/ CloseStore
        \/ HandleFires
        \/ TimerThread
        \/ Tick

Spec == Init /\ [][Next]_vars

\* Time passes, due timers start their threads, and these get the lock.  No
\* fairness for workers: an analysis may hang.
FairSpec == /\ Spec
            /\ WF_vars(Tick)
            /\ WF_vars(HandleFires)
            /\ WF_vars(\E due \in 0..PyMaxTime : StrayFires(due))
            /\ WF_vars(TimerThread)

(***************************************************************************)
(* Properties.                                                             *)
(***************************************************************************)

\* The store has the shape its methods expect, and holds texts only under
\* nonces that prepare has handed out (t1_sessions.py 109-137), never both
\* available and leased, although consume, finish, clear and purge each move
\* them by hand.
TypeOK == /\ PyShape(py) /\ LeasesExclusive(py)
          /\ Held(py) \subseteq created
          /\ now \in Nat
          /\ job \in [Worker -> Jobs]
          /\ created \subseteq Nonce
          /\ leases \in [Nonce -> Nat]

\* The byte counter, which has no clamp, is what the two dicts hold, also when
\* a lease is revoked and finished in either order; and neither limit is ever
\* exceeded, sessions under analysis included.
TextWithinLimits == TypeOK /\ PyBytesAccounted(py) /\ PyWithinLimits(py)

\* Threads that lose the race for the lock leave timers behind or drop the
\* handle of a live one; what is held is always covered all the same.
ExpiryCovered == PyTimerArmed(py)

\* A nonce is analysed once at most.
LeasedOnce == \A n \in Nonce : leases[n] <= 1

\* A result passes its last revocation check only while the store still holds
\* the lease: clear, expiry and close all reach a worker outside the lock.
PassedMeansHeld ==
  [][\A w \in Worker : job[w].at = "analysing" /\ job'[w].at = "passed"
                         => job[w].nonce \in DOMAIN py.leased]_vars

\* Every minimized text is forgotten, also when its analysis hangs.
EveryTextForgotten == \A n \in Nonce : n \in Held(py) ~> n \notin Held(py)
=============================================================================
