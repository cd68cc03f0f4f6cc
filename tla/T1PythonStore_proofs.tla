-------------------------- MODULE T1PythonStore_proofs --------------------------
(***************************************************************************)
(* Proofs about the private service's session store, for every number of   *)
(* nonces and workers and every limit.                                     *)
(***************************************************************************)
EXTENDS T1PythonStore, T1Stores_proofs

(***************************************************************************)
(* The invariant.  The lease of a job is in the store until its worker     *)
(* finishes, or else it has been revoked; a nonce that may still be leased *)
(* never was.  Without these LeasedOnce and PassedMeansHeld are not        *)
(* inductive.                                                              *)
(***************************************************************************)

LeasesCounted ==
  \A n \in Nonce : /\ leases[n] <= 1
                   /\ n \in DOMAIN py.stored \/ n \notin created => leases[n] = 0

JobsTracked ==
  \A w \in Worker : job[w] # Idle =>
    /\ job[w].nonce \in DOMAIN py.leased \cup py.revoked
    /\ leases[job[w].nonce] = 1
    /\ \A v \in Worker \ {w} : job[v] # Idle => job[v].nonce # job[w].nonce

IInv == /\ PyReady(py)
        /\ Held(py) \cup py.revoked \subseteq created
        /\ now \in Nat
        /\ job \in [Worker -> Jobs]
        /\ created \subseteq Nonce
        /\ leases \in [Nonce -> Nat]
        /\ LeasesCounted
        /\ JobsTracked

\* A step of the store that leases nothing and finishes nothing.
LEMMA StoreStep ==
  ASSUME IInv, PyReady(py'), Keeps(py, py'), now' \in Nat, UNCHANGED <<job, created, leases>>
  PROVE  IInv'
<1>1. (Held(py) \cup py.revoked \subseteq created)'
  BY DEF IInv, Keeps, Held
<1>2. LeasesCounted'
  BY DEF IInv, LeasesCounted, Keeps
<1>3. JobsTracked'
  BY DEF IInv, JobsTracked, Keeps
<1> QED BY <1>1, <1>2, <1>3 DEF IInv

\* A new store satisfies the invariant.
LEMMA InitHolds == Init => IInv
<1> SUFFICES ASSUME Init PROVE IInv
  OBVIOUS
<1>1. py = EmptyPyStore /\ created = {}
  BY DEF Init
<1>2. PyReady(py) /\ Held(py) = {} /\ py.revoked = {}
  BY <1>1, PyEmptyReady
<1>3. LeasesCounted
  <2>1. leases = [n \in Nonce |-> 0]
    BY DEF Init
  <2> SUFFICES ASSUME NEW n \in Nonce
               PROVE  leases[n] <= 1 /\ (n \in DOMAIN py.stored \/ n \notin created => leases[n] = 0)
    BY DEF LeasesCounted
  <2>2. leases[n] = 0
    BY <2>1
  <2> QED BY <2>2
<1>4. JobsTracked
  BY DEF Init, JobsTracked
<1> QED BY <1>1, <1>2, <1>3, <1>4 DEF IInv, Init, Jobs

\* Every step keeps the invariant, one step of the proof per action.
LEMMA StepHolds == IInv /\ [Next]_vars => IInv'
<1> SUFFICES ASSUME IInv, [Next]_vars PROVE IInv'
  OBVIOUS
<1>0. PySettled(py) /\ PyReady(py) /\ PyShape(py) /\ now \in Nat
  BY DEF IInv, PyReady, PySettled
<1>1. ASSUME NEW n \in Nonce, NEW bytes \in TextBytes, Prepare(n, bytes)
      PROVE  IInv'
  <2> DEFINE made == PyCreate(py, n, bytes, now)
  <2>1. n \notin Held(py) /\ n \notin py.revoked /\ bytes \in Nat
    BY <1>1, PyInputsAssumption DEF Prepare, IInv
  <2>2. /\ PyReady(made.py)
        /\ \/ made.status = "created" /\ Grows(py, n, made.py)
           \/ made.status = "capacity" /\ Keeps(py, made.py)
    BY <1>0, <2>1, PyCreateReady
  <2>3. /\ n \notin created /\ py' = made.py
        /\ created' = IF made.status = "created" THEN created \cup {n} ELSE created
        /\ UNCHANGED <<now, job, leases>>
    BY <1>1 DEF Prepare
  <2> HIDE DEF made
  <2>4. CASE made.status = "capacity"
    BY <1>0, <2>2, <2>3, <2>4, StoreStep
  <2>5. CASE made.status = "created" /\ Grows(py, n, made.py)
    <3>1. created' = created \cup {n}
      BY <2>3, <2>5
    <3>2. (Held(py) \cup py.revoked \subseteq created)'
      BY <2>3, <2>5, <3>1 DEF IInv, Grows, Held
    <3>3. LeasesCounted'
      BY <2>3, <2>5, <3>1 DEF IInv, LeasesCounted, Grows
    <3>4. JobsTracked'
      BY <2>3, <2>5 DEF IInv, JobsTracked, Grows
    <3> QED BY <2>2, <2>3, <3>1, <3>2, <3>3, <3>4 DEF IInv
  <2> QED BY <2>2, <2>4, <2>5
<1>2. ASSUME NEW w \in Worker, NEW n \in Nonce, NEW matches \in BOOLEAN, BeginReview(w, n, matches)
      PROVE  IInv'
  <2> DEFINE consumed == PyConsume(py, n, matches, now)
  <2>1. /\ PyReady(consumed.py)
        /\ \/ consumed.status = "leased" /\ Leases(py, n, consumed.py)
           \/ consumed.status # "leased" /\ Keeps(py, consumed.py)
    BY <1>0, PyConsumeReady
  <2>2. /\ job[w] = Idle /\ py' = consumed.py /\ now' = now /\ created' = created
        /\ IF consumed.status = "leased"
           THEN /\ job' = [job EXCEPT ![w] = Job("analysing", n)]
                /\ leases' = [leases EXCEPT ![n] = @ + 1]
           ELSE UNCHANGED <<job, leases>>
    BY <1>2 DEF BeginReview
  <2> HIDE DEF consumed
  <2>3. CASE consumed.status # "leased"
    BY <1>0, <2>1, <2>2, <2>3, StoreStep
  <2>4. CASE consumed.status = "leased"
    <3>1. /\ Leases(py, n, py') /\ n \in Held(py)
          /\ job' = [job EXCEPT ![w] = Job("analysing", n)]
          /\ leases' = [leases EXCEPT ![n] = @ + 1]
      BY <2>1, <2>2, <2>4 DEF Leases, Held
    <3>2. leases[n] = 0 /\ leases' \in [Nonce -> Nat] /\ leases'[n] = 1
            /\ \A m \in Nonce \ {n} : leases'[m] = leases[m]
      BY <3>1 DEF IInv, LeasesCounted, Leases
    <3>3. /\ job' \in [Worker -> Jobs] /\ job'[w].nonce = n
          /\ \A v \in Worker \ {w} : job'[v] = job[v]
      BY <3>1 DEF IInv, Jobs, Job
    <3>4. (Held(py) \cup py.revoked \subseteq created)'
      BY <2>2, <3>1 DEF IInv, Leases, Held
    <3>5. LeasesCounted'
      BY <2>2, <3>1, <3>2 DEF IInv, LeasesCounted, Leases, Held
    <3>6. JobsTracked'
      <4>1. \A v \in Worker \ {w} : job[v] # Idle =>
              job[v].nonce \in Nonce /\ job[v].nonce # n
        BY <3>2 DEF IInv, JobsTracked, Jobs, Idle
      <4> QED BY <3>1, <3>2, <3>3, <4>1 DEF IInv, JobsTracked, Leases
    <3> QED BY <2>1, <2>2, <3>2, <3>3, <3>4, <3>5, <3>6 DEF IInv
  <2> QED BY <2>3, <2>4
<1>3. ASSUME NEW w \in Worker, RefuseReview(w) \/ PassReview(w)
      PROVE  IInv'
  <2>1. /\ job[w].at = "analysing" /\ UNCHANGED <<py, now, created, leases>>
        /\ \E at \in {"refused", "passed"} : job' = [job EXCEPT ![w].at = at]
    BY <1>3 DEF RefuseReview, PassReview
  <2>2. job[w] # Idle /\ job[w] \in [at : {"analysing", "passed", "refused"}, nonce : Nonce]
    BY <2>1 DEF IInv, Jobs, Idle
  <2>3. /\ job' \in [Worker -> Jobs] /\ job'[w].nonce = job[w].nonce
        /\ \A v \in Worker \ {w} : job'[v] = job[v]
    BY <2>1, <2>2 DEF IInv, Jobs
  <2>4. JobsTracked'
    BY <2>1, <2>2, <2>3 DEF IInv, JobsTracked
  <2>5. LeasesCounted' /\ PyReady(py)' /\ (Held(py) \cup py.revoked \subseteq created)'
    BY <2>1 DEF IInv, LeasesCounted
  <2> QED BY <2>1, <2>3, <2>4, <2>5 DEF IInv
<1>4. ASSUME NEW w \in Worker, FinishReview(w)
      PROVE  IInv'
  <2> DEFINE n == job[w].nonce
  <2>1. /\ job[w].at \in {"passed", "refused"} /\ py' = PyFinish(py, n)
        /\ job' = [job EXCEPT ![w] = Idle] /\ UNCHANGED <<now, created, leases>>
    BY <1>4 DEF FinishReview
  <2>2. job[w] # Idle
    BY <2>1 DEF Idle
  <2>3. /\ PyReady(py') /\ py'.stored = py.stored /\ py'.revoked = py.revoked
        /\ DOMAIN py'.leased = DOMAIN py.leased \ {n}
    BY <1>0, <2>1, FinishReady
  <2>4. /\ job' \in [Worker -> Jobs] /\ job'[w] = Idle
        /\ \A v \in Worker \ {w} : job'[v] = job[v]
    BY <2>1 DEF IInv, Jobs
  <2>5. (Held(py) \cup py.revoked \subseteq created)'
    BY <2>1, <2>3 DEF IInv, Held
  <2>6. LeasesCounted'
    BY <2>1, <2>3 DEF IInv, LeasesCounted
  <2>7. JobsTracked'
    BY <2>1, <2>2, <2>3, <2>4 DEF IInv, JobsTracked
  <2> QED BY <2>1, <2>3, <2>4, <2>5, <2>6, <2>7 DEF IInv
<1>5. ASSUME NEW n \in Nonce, ClearNonce(n)
      PROVE  IInv'
  BY <1>0, <1>5, PyClearReady, StoreStep DEF ClearNonce
<1>6. CASE ReadCounters
  BY <1>0, <1>6, PurgeAndScheduleReady, StoreStep DEF ReadCounters
<1>7. CASE CloseStore
  BY <1>0, <1>7, CloseReady, StoreStep DEF CloseStore
<1>8. ASSUME NEW due \in 0..PyMaxTime, StrayFires(due) \/ HandleFires
      PROVE  IInv'
  <2> DEFINE more == py.waiting + 1
             rest == py.strays \ {due}
  <2>1. more \in Nat /\ more > 0 /\ rest \subseteq Nat
    BY <1>0 DEF PyShape
  <2>2. /\ \/ py' = [py EXCEPT !.strays = rest, !.waiting = more]
           \/ py' = [py EXCEPT !.fired = TRUE, !.waiting = more]
        /\ UNCHANGED <<now, job, created, leases>>
    BY <1>8 DEF StrayFires, HandleFires
  <2> HIDE DEF more, rest
  <2>3. py'.waiting > 0 /\ SameButTimers(py, py')
    <3>1. CASE py' = [py EXCEPT !.strays = rest, !.waiting = more]
      BY <1>0, <2>1, <3>1 DEF PyShape, SameButTimers
    <3>2. CASE py' = [py EXCEPT !.fired = TRUE, !.waiting = more]
      BY <1>0, <2>1, <3>2 DEF PyShape, SameButTimers
    <3> QED BY <2>2, <3>1, <3>2
  <2>4. PyReady(py') /\ Keeps(py, py')
    BY <1>0, <2>3, TimersAreIndependent DEF PyReady, PyTimerArmed
  <2> QED BY <1>0, <2>2, <2>4, StoreStep
<1>9. CASE TimerThread
  BY <1>0, <1>9, ExpireReady, StoreStep DEF TimerThread
<1>10. CASE Tick \/ UNCHANGED vars
  <2>1. py' = py /\ now' \in Nat /\ UNCHANGED <<job, created, leases>>
    BY <1>0, <1>10 DEF Tick, vars
  <2>2. PyReady(py') /\ Keeps(py, py')
    BY <1>0, <2>1 DEF Keeps
  <2> QED BY <2>1, <2>2, StoreStep
<1>11. 0 \in 0..PyMaxTime
  BY PyInputsAssumption
<1> QED BY <1>1, <1>2, <1>3, <1>4, <1>5, <1>6, <1>7, <1>8, <1>9, <1>10, <1>11 DEF Next

\* The invariant holds in every reachable state.
LEMMA InvariantHolds == Spec => []IInv
BY InitHolds, StepHolds, PTL DEF Spec

(***************************************************************************)
(* What follows for every number of nonces and workers and every limit.    *)
(***************************************************************************)

\* The byte counter of t1_sessions.py, which no line clamps, always equals the
\* bytes in the two dicts, and neither limit is ever exceeded.
THEOREM LimitsHold == Spec => []TextWithinLimits
<1>1. IInv => TextWithinLimits
  BY DEF IInv, PyReady, PySettled, TextWithinLimits, TypeOK
<1> QED BY <1>1, InvariantHolds, PTL

\* No interleaving of timer threads, requests and close leaves a text without
\* a live timer, or a timer thread, to purge it.
THEOREM ExpiryAlwaysCovered == Spec => []ExpiryCovered
<1>1. IInv => ExpiryCovered
  BY DEF IInv, PyReady, ExpiryCovered
<1> QED BY <1>1, InvariantHolds, PTL

\* consume leases a nonce to one request of continue_review at most, however
\* many race for it.
THEOREM OneLease == Spec => []LeasedOnce
<1>1. IInv => LeasedOnce
  BY DEF IInv, LeasesCounted, LeasedOnce
<1> QED BY <1>1, InvariantHolds, PTL

\* A response passes its last require_not_revoked only while its text is still
\* leased, although the event is read outside the lock.
THEOREM PassesOnlyWhatIsHeld == Spec => PassedMeansHeld
<1>1. IInv /\ [Next]_vars =>
        [\A w \in Worker : job[w].at = "analysing" /\ job'[w].at = "passed"
                             => job[w].nonce \in DOMAIN py.leased]_vars
  <2> SUFFICES ASSUME IInv, Next, NEW w \in Worker,
                      job[w].at = "analysing", job'[w].at = "passed"
               PROVE  job[w].nonce \in DOMAIN py.leased
    BY DEF vars
  <2>1. job[w] # Idle /\ job'[w] # job[w]
    BY DEF Idle
  <2>2. job[w].nonce \in DOMAIN py.leased \cup py.revoked
    BY <2>1 DEF IInv, JobsTracked
  <2>3. job[w].nonce \notin py.revoked
    <3>1. job' # job /\ job \in [Worker -> Jobs]
      BY <2>1 DEF IInv
    <3>2. PICK v \in Worker : \/ \E n \in Nonce, matches \in BOOLEAN : BeginReview(v, n, matches)
                              \/ RefuseReview(v) \/ PassReview(v) \/ FinishReview(v)
      BY <3>1 DEF Next, Prepare, ClearNonce, StrayFires, ReadCounters, CloseStore,
                  HandleFires, TimerThread, Tick
    <3>3. CASE \E n \in Nonce, matches \in BOOLEAN : BeginReview(v, n, matches)
      BY <2>1, <3>1, <3>3 DEF BeginReview, Job, Idle
    <3>4. CASE RefuseReview(v)
      <4>1. job' = [job EXCEPT ![v].at = "refused"] /\ job[v].at = "analysing"
        BY <3>4 DEF RefuseReview
      <4>2. v = w
        BY <2>1, <3>1, <4>1
      <4>3. job[w] \in [at : {"analysing", "passed", "refused"}, nonce : Nonce]
        BY <2>1, <3>1 DEF Jobs
      <4>4. job'[w].at = "refused"
        BY <3>1, <4>1, <4>2, <4>3
      <4> QED BY <4>4
    <3>5. CASE PassReview(v)
      <4>1. v = w
        BY <2>1, <3>1, <3>5 DEF PassReview
      <4> QED BY <3>5, <4>1 DEF PassReview
    <3>6. CASE FinishReview(v)
      <4>1. v = w
        BY <2>1, <3>1, <3>6 DEF FinishReview
      <4> QED BY <3>6, <4>1 DEF FinishReview
    <3> QED BY <3>2, <3>3, <3>4, <3>5, <3>6
  <2> QED BY <2>2, <2>3
<1> QED BY <1>1, InvariantHolds, PTL DEF Spec, PassedMeansHeld
=============================================================================
