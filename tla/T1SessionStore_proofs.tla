----------------------- MODULE T1SessionStore_proofs -----------------------
(***************************************************************************)
(* Proofs about the session store, for every value of its constants: its   *)
(* invariants; and what each step does to its sessions, namely that none   *)
(* prolongs a session, only its owner ends it in time, whoever ends it     *)
(* gets its nonce, and that the store implements ReviewTokens.             *)
(***************************************************************************)
EXTENDS T1SessionStore, T1Stores_proofs

(***************************************************************************)
(* The inductive invariant and the theorems about the state machine.       *)
(***************************************************************************)

IInv == /\ Ready(store, now, issued)
        /\ now \in Nat
        /\ issued \subseteq Token
        /\ grants \in [Token -> Nat]

\* The invariant holds when the store is made.
LEMMA InitIInv == Init => IInv
<1> SUFFICES ASSUME Init PROVE IInv
  OBVIOUS
<1>1. store = EmptyStore /\ now = 0 /\ issued = {} /\ grants = [t \in Token |-> 0]
  BY DEF Init
<1> QED BY <1>1, EmptyReady DEF IInv

\* Every step keeps the invariant.
LEMMA StepIInv == IInv /\ [Next]_vars => IInv'
<1> SUFFICES ASSUME IInv, [Next]_vars PROVE IInv'
  OBVIOUS
<1>0. Settled(store, now, issued) /\ now \in Nat /\ TTL \in Nat
  BY LimitsAssumption DEF IInv, Ready
<1>1. ASSUME NEW t \in Token, NEW in \in Input, CreateSession(t, in)
      PROVE  IInv'
  <2>1. in \in Inputs
    BY InputsAssumption DEF Input, Inputs
  <2>2. Ready(store', now, issued')
    BY <1>0, <1>1, <2>1, CreateReady DEF CreateSession
  <2> QED BY <1>1, <2>2 DEF CreateSession, IInv
<1>2. ASSUME NEW t \in Token, NEW s \in Subject, ClaimSession(t, s)
      PROVE  IInv'
  <2>1. Ready(store', now, issued)
    BY <1>0, <1>2, ClaimReady DEF ClaimSession
  <2>2. grants' \in [Token -> Nat]
    BY <1>2 DEF ClaimSession, IInv
  <2> QED BY <1>2, <2>1, <2>2 DEF ClaimSession, IInv
<1>3. ASSUME NEW t \in Token, NEW s \in Subject, ClearSession(t, s)
      PROVE  IInv'
  <2>1. Ready(store', now, issued)
    BY <1>0, <1>3, ClearReady DEF ClearSession
  <2> QED BY <1>3, <2>1 DEF ClearSession, IInv
<1>4. ASSUME NEW t \in Token, ConsumeSession(t)
      PROVE  IInv'
  <2>1. Ready(store', now, issued)
    BY <1>0, <1>4, ConsumeReady DEF ConsumeSession
  <2> QED BY <1>4, <2>1 DEF ConsumeSession, IInv
<1>5. ASSUME NEW s \in Subject, InvalidateSessions(s)
      PROVE  IInv'
  <2>1. Ready(store', now, issued)
    BY <1>0, <1>5, InvalidateSubjectReady DEF InvalidateSessions
  <2> QED BY <1>5, <2>1 DEF InvalidateSessions, IInv
<1>6. ASSUME NEW t \in Token, Corrupt(t)
      PROVE  IInv'
  <2> DEFINE record == [store.sessions[t] EXCEPT !.intact = FALSE]
  <2>1. t \in Stored(store) /\ store.sessions[t] \in Session
    BY <1>0, <1>6 DEF Corrupt, Settled, StoreShape
  <2>2. /\ record \in Session
        /\ record.subject = store.sessions[t].subject
        /\ record.bytes = store.sessions[t].bytes
        /\ record.expiresAt = store.sessions[t].expiresAt
    BY <2>1 DEF Session
  <2>3. Ready([store EXCEPT !.sessions = Put(store.sessions, t, record)], now, issued)
    BY <2>1, <2>2, RecordFlagsReady DEF IInv
  <2>4. store' = [store EXCEPT !.sessions = Put(store.sessions, t, record)]
    BY <1>6 DEF Corrupt
  <2> QED BY <1>6, <2>3, <2>4 DEF Corrupt, IInv
<1>7. CASE Stats
  <2>1. Ready(store', now, issued)
    BY <1>0, <1>7, SweepReady DEF Stats
  <2> QED BY <1>7, <2>1 DEF Stats, IInv
<1>8. CASE DisposeStore
  <2>1. Ready(store', now, issued)
    BY <1>0, <1>8, DisposeReady DEF DisposeStore
  <2> QED BY <1>8, <2>1 DEF DisposeStore, IInv
<1>9. CASE TimerFire
  <2> DEFINE fired == [store EXCEPT !.timer = NoTimer]
  <2>1. SameButTimer(store, fired)
    BY <1>0 DEF Settled, StoreShape, SameButTimer
  <2>2. Settled(fired, now, issued)
    BY <1>0, <2>1, TimerIsIndependent
  <2>3. Ready(store', now, issued)
    BY <1>0, <1>9, <2>2, SweepReady DEF TimerFire
  <2> QED BY <1>9, <2>3 DEF TimerFire, IInv
<1>10. CASE Tick
  <2>1. store' = store /\ now' = now + 1 /\ issued' = issued /\ grants' = grants
    BY <1>10 DEF Tick
  <2>2. Deadlines(store) \in SUBSET Nat
    BY <1>0, DeadlinesAreNaturals DEF Settled
  <2>3. DeadlinesNear(store, now + 1)
    BY <1>0, <2>2 DEF Settled, DeadlinesNear
  <2>4. Ready(store, now + 1, issued)
    BY <2>3 DEF IInv, Ready, Settled
  <2> QED BY <1>0, <2>1, <2>4 DEF IInv
<1>11. CASE UNCHANGED vars
  BY <1>11 DEF vars, IInv
<1> QED BY <1>1, <1>2, <1>3, <1>4, <1>5, <1>6, <1>7, <1>8, <1>9, <1>10, <1>11 DEF Next

\* The inductive invariant holds in every run.
THEOREM Invariance == Spec => []IInv
<1>1. Init => IInv
  BY InitIInv
<1>2. IInv /\ [Next]_vars => IInv'
  BY StepIInv
<1> QED BY <1>1, <1>2, PTL DEF Spec

\* The store's fields keep their shape, whatever the calls and the timer do.
THEOREM TypeCorrect == Spec => []TypeOK
<1>1. IInv => TypeOK
  BY DEF IInv, Ready, Settled, TypeOK
<1> QED BY <1>1, Invariance, PTL

\* No subject ever has two sessions, and the two Maps of the store agree.
THEOREM SingleReview == Spec => []OneReviewPerSubject
<1>1. IInv => OneReviewPerSubject
  BY DEF IInv, Ready, Settled, OneReviewPerSubject
<1> QED BY <1>1, Invariance, PTL

\* The byte counter is the sum over the stored sessions, and neither limit is
\* ever exceeded.
THEOREM CapacityHolds == Spec => []WithinCapacity
<1>1. IInv => WithinCapacity
  BY DEF IInv, Ready, Settled, WithinCapacity
<1> QED BY <1>1, Invariance, PTL

\* A token's signal has fired exactly when its session is gone.
THEOREM AbortIsRemoval == Spec => []AbortMeansRemoved
<1>1. IInv => AbortMeansRemoved
  BY DEF IInv, Ready, Settled, Aborted, AbortMeansRemoved
<1> QED BY <1>1, Invariance, PTL

\* Whatever is left to expire, the timer is armed for it in time.
THEOREM TimerSuffices == Spec => []TimerCovers
<1>1. IInv => TimerCovers
  BY DEF IInv, Ready, TimerCovers
<1> QED BY <1>1, Invariance, PTL

(***************************************************************************)
(* What each step does, in terms of the sessions alone.                    *)
(***************************************************************************)

\* Whoever ends t may: its owner, the holder of its token, or shutdown; and
\* the caller gets its nonce, except from shutdown or for a broken seal.
Rightly(t) ==
  LET session == store.sessions[t]
  IN  /\ \/ reply'.by = session.subject /\ reply'.status # "capacity"
         \/ reply'.op \in {"consume", "dispose"}
      /\ \/ reply'.nonce = session.nonce
         \/ reply'.op = "dispose"
         \/ reply'.status = "integrity_failure" /\ ~session.intact

\* What has expired is swept, and of the rest some sessions are ended.
Ends == /\ \E T \in SUBSET Live(store, now) :
             LeavesOnly(store, store', Live(store, now) \ T) /\ \A t \in T : Rightly(t)
        /\ UNCHANGED <<issued, grants>>

\* A session is claimed, for the first time.
Claims ==
  \E t \in Live(store, now) :
    /\ ~store.sessions[t].claimed /\ t \in Token
    /\ Stored(store') = Live(store, now)
    /\ \A u \in Live(store, now) \ {t} : store'.sessions[u] = store.sessions[u]
    /\ store'.sessions[t] = [store.sessions[t] EXCEPT !.claimed = TRUE]
    /\ reply'.by = store.sessions[t].subject /\ reply'.status = "ok"
    /\ grants' = [grants EXCEPT ![t] = @ + 1]
    /\ UNCHANGED issued

\* A session is stored under a fresh token, and its subject has no other.
Issues ==
  \E t \in Token \ issued, T \in SUBSET Live(store, now) :
    /\ Stored(store') = (Live(store, now) \ T) \cup {t}
    /\ \A u \in Live(store, now) \ T : store'.sessions[u] = store.sessions[u]
    /\ \A u \in T : Rightly(u)
    /\ store'.sessions[t].subject \in Subject
    /\ \A u \in Live(store, now) \ T : store.sessions[u].subject # store'.sessions[t].subject
    /\ store'.sessions[t].expiresAt \in (now + 1)..(now + TTL)
    /\ ~store'.sessions[t].claimed
    /\ issued' = issued \cup {t} /\ UNCHANGED grants

\* No session comes, goes or is claimed.
Stays ==
  /\ Stored(store') = Stored(store)
  /\ \A t \in Stored(store) :
       /\ store'.sessions[t].subject = store.sessions[t].subject
       /\ store'.sessions[t].expiresAt = store.sessions[t].expiresAt
       /\ store'.sessions[t].claimed = store.sessions[t].claimed
  /\ UNCHANGED <<issued, grants>>

\* A method that has only swept.
LEMMA EndsNone ==
  ASSUME LeavesOnly(store, store', Live(store, now)), UNCHANGED <<issued, grants>>
  PROVE  Ends
<1>1. Live(store, now) \ {} = Live(store, now)
  OBVIOUS
<1> QED BY <1>1 DEF Ends

\* consume ends the session it names, by the hand of the analysis that leased it.
LEMMA ConsumeEnds ==
  ASSUME Settled(store, now, issued), now \in Nat, NEW t, ConsumeSession(t)
  PROVE  Ends
<1> DEFINE consumed == Consume(store, t, now)
           gone     == {t} \cap Live(store, now)
<1>1. /\ LeavesOnly(store, consumed.st, Live(store, now) \ {t})
      /\ t \in Live(store, now) => consumed.nonce = store.sessions[t].nonce
  BY ConsumeLeaves
<1>2. /\ store' = consumed.st /\ reply'.op = "consume" /\ reply'.nonce = consumed.nonce
      /\ UNCHANGED <<issued, grants>>
  BY DEF ConsumeSession, Answer
<1> HIDE DEF consumed
<1>3. Live(store, now) \ gone = Live(store, now) \ {t} /\ gone \in SUBSET Live(store, now)
  OBVIOUS
<1>4. \A u \in gone : Rightly(u)
  BY <1>1, <1>2 DEF Rightly
<1> HIDE DEF gone
<1> QED BY <1>1, <1>2, <1>3, <1>4 DEF Ends

\* clear ends a session for its owner only.
LEMMA ClearEnds ==
  ASSUME Settled(store, now, issued), now \in Nat, NEW t, NEW s, ClearSession(t, s)
  PROVE  Ends
<1> DEFINE cleared == Clear(store, t, s, now)
           own     == t \in Live(store, now) /\ store.sessions[t].subject = s
<1>1. /\ LeavesOnly(store, cleared.st, IF own THEN Live(store, now) \ {t} ELSE Live(store, now))
      /\ own => cleared.nonce = store.sessions[t].nonce /\ cleared.status = "cleared"
  BY ClearLeaves
<1>2. /\ store' = cleared.st /\ reply'.by = s /\ reply'.status = cleared.status
      /\ reply'.nonce = cleared.nonce /\ UNCHANGED <<issued, grants>>
  BY DEF ClearSession, Answer
<1> HIDE DEF cleared
<1>3. CASE own
  <2>1. Rightly(t) /\ {t} \in SUBSET Live(store, now)
    BY <1>1, <1>2, <1>3 DEF Rightly
  <2>2. LeavesOnly(store, store', Live(store, now) \ {t}) /\ \A u \in {t} : Rightly(u)
    BY <1>1, <1>2, <1>3, <2>1
  <2> QED BY <1>2, <2>1, <2>2 DEF Ends
<1>4. CASE ~own
  BY <1>1, <1>2, <1>4, EndsNone
<1> QED BY <1>3, <1>4

\* Withdrawal ends its own subject's session.
LEMMA InvalidateEnds ==
  ASSUME Settled(store, now, issued), now \in Nat, NEW s, InvalidateSessions(s)
  PROVE  Ends
<1> DEFINE invalidated == InvalidateSubject(store, s, now)
           own         == Owned(store, s, now)
<1>1. /\ LeavesOnly(store, invalidated.st, Live(store, now) \ own)
      /\ \A t \in own : invalidated.nonce = store.sessions[t].nonce
  BY InvalidateLeaves
<1>2. /\ store' = invalidated.st /\ reply'.by = s /\ reply'.status = "ok"
      /\ reply'.nonce = invalidated.nonce /\ UNCHANGED <<issued, grants>>
  BY DEF InvalidateSessions, Answer
<1> HIDE DEF invalidated
<1>3. own \in SUBSET Live(store, now) /\ \A t \in own : Rightly(t)
  BY <1>1, <1>2 DEF Rightly, Owned
<1> HIDE DEF own
<1> QED BY <1>1, <1>2, <1>3 DEF Ends

\* stats sweeps, and ends only what has expired.
LEMMA StatsEnds ==
  ASSUME Settled(store, now, issued), now \in Nat, Stats
  PROVE  Ends
BY SweptRecords, EndsNone DEF Stats

\* The timer ends only what has expired.
LEMMA TimerEnds ==
  ASSUME Settled(store, now, issued), now \in Nat, TimerFire
  PROVE  Ends
<1> DEFINE fired == [store EXCEPT !.timer = NoTimer]
<1>1. SameButTimer(store, fired)
  BY DEF Settled, StoreShape, SameButTimer
<1>2. Settled(fired, now, issued) /\ fired.sessions = store.sessions
  BY <1>1, TimerIsIndependent DEF SameButTimer
<1>3. store' = Sweep(fired, now) /\ UNCHANGED <<issued, grants>>
  BY DEF TimerFire
<1> HIDE DEF fired
<1>4. LeavesOnly(fired, store', Live(fired, now))
  BY <1>2, <1>3, SweepLeaves
<1>5. LeavesOnly(store, store', Live(store, now))
  BY <1>2, <1>4 DEF LeavesOnly, Live, Stored
<1> QED BY <1>3, <1>5, EndsNone

\* dispose ends every session.
LEMMA DisposeEnds ==
  ASSUME Settled(store, now, issued), now \in Nat, DisposeStore
  PROVE  Ends
<1> DEFINE freed == RemoveAll(store, Stored(store), now)
<1>1. LeavesOnly(store, freed, Stored(store) \ Stored(store)) /\ StoreShape(freed)
  BY RemoveAllLeaves, RemoveAllSettled DEF Settled
<1>2. /\ store' = [freed EXCEPT !.tombstones = EmptyStore.tombstones, !.timer = NoTimer]
      /\ reply'.op = "dispose" /\ UNCHANGED <<issued, grants>>
  BY DEF DisposeStore, Dispose, Answer
<1> HIDE DEF freed
<1>3. store'.sessions = freed.sessions
  <2> DEFINE none == EmptyStore.tombstones
  <2>1. store' = [freed EXCEPT !.tombstones = none, !.timer = NoTimer]
    BY <1>2
  <2> HIDE DEF none
  <2> QED BY <1>1, <2>1 DEF StoreShape
<1>4. LeavesOnly(store, store', Live(store, now) \ Live(store, now))
  BY <1>1, <1>3 DEF LeavesOnly, Stored
<1>5. \A t \in Live(store, now) : Rightly(t)
  BY <1>2 DEF Rightly
<1> QED BY <1>2, <1>4, <1>5 DEF Ends

\* claim ends an expired review, or leases the one it names.
LEMMA ClaimClaims ==
  ASSUME Settled(store, now, issued), now \in Nat, NEW t \in Token, NEW s, ClaimSession(t, s)
  PROVE  Ends \/ Claims
<1> DEFINE claimed == Claim(store, t, s, now)
<1>1. /\ claimed.status \in {"gone", "forbidden", "ok", "integrity_failure"}
      /\ claimed.status = "ok" =>
           /\ t \in Live(store, now) /\ Stored(claimed.st) = Live(store, now)
           /\ store.sessions[t].subject = s /\ ~store.sessions[t].claimed
           /\ claimed.st.sessions[t] = [store.sessions[t] EXCEPT !.claimed = TRUE]
           /\ \A u \in Live(store, now) \ {t} : claimed.st.sessions[u] = store.sessions[u]
      /\ claimed.status = "integrity_failure" =>
           /\ t \in Live(store, now) /\ ~store.sessions[t].intact
           /\ store.sessions[t].subject = s
           /\ LeavesOnly(store, claimed.st, Live(store, now) \ {t})
      /\ claimed.status \in {"gone", "forbidden"} =>
           LeavesOnly(store, claimed.st, Live(store, now))
  BY ClaimLeaves
<1>2. /\ store' = claimed.st /\ reply'.by = s /\ reply'.status = claimed.status
      /\ grants' = IF claimed.status = "ok" THEN [grants EXCEPT ![t] = @ + 1] ELSE grants
      /\ UNCHANGED issued
  BY DEF ClaimSession, Answer
<1> HIDE DEF claimed
<1>3. CASE claimed.status = "ok"
  BY <1>1, <1>2, <1>3 DEF Claims
<1>4. CASE claimed.status = "integrity_failure"
  <2>1. {t} \in SUBSET Live(store, now) /\ \A u \in {t} : Rightly(u)
    BY <1>1, <1>2, <1>4 DEF Rightly
  <2>2. LeavesOnly(store, store', Live(store, now) \ {t}) /\ UNCHANGED <<issued, grants>>
    BY <1>1, <1>2, <1>4
  <2> QED BY <2>1, <2>2 DEF Ends
<1>5. CASE claimed.status \in {"gone", "forbidden"}
  BY <1>1, <1>2, <1>5, EndsNone
<1> QED BY <1>1, <1>3, <1>4, <1>5

\* create ends its subject's earlier review and what has expired, and issues one.
LEMMA CreateIssues ==
  ASSUME Settled(store, now, issued), now \in Nat,
         NEW t \in Token, NEW in \in Input, CreateSession(t, in)
  PROVE  Ends \/ Issues
<1> DEFINE made == Create(store, in, t, now)
           own  == Owned(store, in.subject, now)
           new  == [subject |-> in.subject, nonce |-> in.nonce, binding |-> in.binding,
                    bytes |-> in.bytes, expiresAt |-> now + Lifetime(in),
                    claimed |-> FALSE, intact |-> TRUE]
<1>1. /\ store' = made.st /\ t \notin issued /\ UNCHANGED grants
      /\ issued' = IF made.status = "created" THEN issued \cup {t} ELSE issued
      /\ reply'.by = in.subject /\ reply'.status = made.status /\ reply'.nonce = made.replaced
  BY DEF CreateSession, Answer
<1>2. in \in Inputs
  BY InputsAssumption DEF Input, Inputs
<1>3. /\ made.status \in {"created", "capacity"}
      /\ made.status = "created" =>
           /\ Stored(made.st) = (Live(store, now) \ own) \cup {t}
           /\ \A u \in Live(store, now) \ own : made.st.sessions[u] = store.sessions[u]
           /\ made.st.sessions[t] = new
           /\ now + Lifetime(in) \in (now + 1)..(now + TTL)
           /\ \A u \in own : made.replaced = store.sessions[u].nonce
      /\ made.status = "capacity" => LeavesOnly(store, made.st, Live(store, now))
  BY <1>1, <1>2, CreateLeaves
<1> HIDE DEF made
<1>4. CASE made.status = "capacity"
  BY <1>1, <1>3, <1>4, EndsNone
<1>5. CASE made.status = "created"
  <2>1. own \in SUBSET Live(store, now) /\ \A u \in own : Rightly(u)
    BY <1>1, <1>3, <1>5 DEF Rightly, Owned
  <2>2. /\ new.subject = in.subject /\ in.subject \in Subject /\ ~new.claimed
        /\ new.expiresAt \in (now + 1)..(now + TTL)
    BY <1>3, <1>5 DEF Input
  <2>3. \A u \in Live(store, now) \ own : store.sessions[u].subject # in.subject
    BY DEF Owned
  <2>4. issued' = issued \cup {t} /\ t \in Token \ issued
    BY <1>1, <1>5
  <2>5. store'.sessions[t] = new
    BY <1>1, <1>3, <1>5
  <2> HIDE DEF own, new
  <2>6. /\ Stored(store') = (Live(store, now) \ own) \cup {t}
        /\ \A u \in Live(store, now) \ own : store'.sessions[u] = store.sessions[u]
        /\ store'.sessions[t].subject \in Subject
        /\ \A u \in Live(store, now) \ own : store.sessions[u].subject # store'.sessions[t].subject
        /\ store'.sessions[t].expiresAt \in (now + 1)..(now + TTL)
        /\ ~store'.sessions[t].claimed
    BY <1>1, <1>3, <1>5, <2>2, <2>3, <2>5
  <2>7. Issues
    BY <1>1, <2>1, <2>4, <2>6 DEF Issues
  <2> QED BY <2>7
<1> QED BY <1>3, <1>4, <1>5

\* Each action of the store is one of the four.
LEMMA StepKinds ==
  ASSUME IInv, [Next]_vars
  PROVE  Ends \/ Claims \/ Issues \/ Stays
<1>0. Settled(store, now, issued) /\ now \in Nat
  BY DEF IInv, Ready
<1>1. ASSUME NEW t \in Token, NEW in \in Input, CreateSession(t, in)
      PROVE  Ends \/ Issues
  BY <1>0, <1>1, CreateIssues
<1>2. ASSUME NEW t \in Token, NEW s \in Subject, ClaimSession(t, s)
      PROVE  Ends \/ Claims
  BY <1>0, <1>2, ClaimClaims
<1>3. ASSUME NEW t \in Token, NEW s \in Subject, ClearSession(t, s)
      PROVE  Ends
  BY <1>0, <1>3, ClearEnds
<1>4. ASSUME NEW t \in Token, ConsumeSession(t)
      PROVE  Ends
  BY <1>0, <1>4, ConsumeEnds
<1>5. ASSUME NEW s \in Subject, InvalidateSessions(s)
      PROVE  Ends
  BY <1>0, <1>5, InvalidateEnds
<1>6. CASE Stats \/ DisposeStore \/ TimerFire
  BY <1>0, <1>6, StatsEnds, DisposeEnds, TimerEnds
<1>7. ASSUME NEW t \in Token, Corrupt(t)
      PROVE  Stays
  <2> DEFINE record == [store.sessions[t] EXCEPT !.intact = FALSE]
             held   == Put(store.sessions, t, record)
  <2>1. t \in Stored(store) /\ store.sessions[t] \in Session /\ StoreShape(store)
    BY <1>0, <1>7 DEF Corrupt, Settled, StoreShape
  <2>2. /\ record.subject = store.sessions[t].subject
        /\ record.expiresAt = store.sessions[t].expiresAt
        /\ record.claimed = store.sessions[t].claimed
    BY <2>1 DEF Session
  <2>3. store' = [store EXCEPT !.sessions = held] /\ UNCHANGED <<issued, grants>>
    BY <1>7 DEF Corrupt
  <2>4. DOMAIN held = Stored(store) /\ held[t] = record
          /\ \A u \in Stored(store) \ {t} : held[u] = store.sessions[u]
    BY <2>1 DEF Put, Stored
  <2> HIDE DEF held, record
  <2>5. store'.sessions = held
    BY <2>1, <2>3 DEF StoreShape
  <2> QED BY <2>2, <2>3, <2>4, <2>5 DEF Stays, Stored
<1>8. CASE Tick \/ UNCHANGED vars
  BY <1>8 DEF Tick, vars, Stays
<1> QED BY <1>1, <1>2, <1>3, <1>4, <1>5, <1>6, <1>7, <1>8 DEF Next

(***************************************************************************)
(* The theorems.                                                           *)
(***************************************************************************)

\* A session's deadline is never moved, and is at most one TTL away when the
\* session is stored, whatever the wall clock said to create.
THEOREM NothingExtends == Spec => NeverExtended
<1> DEFINE Fixed == \A t \in Stored(store') :
                      IF t \in Stored(store)
                      THEN store'.sessions[t].expiresAt = store.sessions[t].expiresAt
                      ELSE store'.sessions[t].expiresAt \in (now + 1)..(now + TTL)
<1>1. IInv /\ [Next]_vars => [Fixed]_vars
  <2> SUFFICES ASSUME IInv, Next PROVE Fixed
    OBVIOUS
  <2>1. Ends => Fixed
    BY DEF Ends, LeavesOnly
  <2>2. Claims => Fixed
    <3> SUFFICES ASSUME Claims PROVE Fixed
      OBVIOUS
    <3>1. PICK t \in Live(store, now) :
            /\ Stored(store') = Live(store, now)
            /\ \A u \in Live(store, now) \ {t} : store'.sessions[u] = store.sessions[u]
            /\ store'.sessions[t] = [store.sessions[t] EXCEPT !.claimed = TRUE]
      BY DEF Claims
    <3>2. store.sessions[t] \in Session /\ t \in Stored(store)
      BY DEF IInv, Ready, Settled, StoreShape, Live
    <3>3. store'.sessions[t].expiresAt = store.sessions[t].expiresAt
      BY <3>1, <3>2 DEF Session
    <3> QED BY <3>1, <3>3 DEF Live
  <2>3. Issues => Fixed
    <3> SUFFICES ASSUME Issues PROVE Fixed
      OBVIOUS
    <3>1. PICK t \in Token \ issued :
            /\ Stored(store') \ {t} \subseteq Live(store, now)
            /\ \A u \in Stored(store') \ {t} : store'.sessions[u] = store.sessions[u]
            /\ store'.sessions[t].expiresAt \in (now + 1)..(now + TTL)
      BY DEF Issues
    <3>2. t \notin Stored(store)
      BY DEF IInv, Ready, Settled, Aborted
    <3> QED BY <3>1, <3>2 DEF Live
  <2>4. Stays => Fixed
    BY DEF Stays
  <2> QED BY <2>1, <2>2, <2>3, <2>4, StepKinds
<1> QED BY <1>1, Invariance, PTL DEF Spec, NeverExtended

\* What no step does to a session that has not expired, except rightly.
LEMMA KeptOrRightly ==
  ASSUME IInv, [Next]_vars, NEW t \in Live(store, now)
  PROVE  \/ t \in Stored(store') /\ store'.sessions[t].claimed = store.sessions[t].claimed
         \/ t \notin Stored(store') /\ Rightly(t)
         \/ /\ t \in Stored(store')
            /\ reply'.by = store.sessions[t].subject /\ reply'.status = "ok"
<1>1. t \in Stored(store) /\ t \in issued
  BY DEF Live, IInv, Ready, Settled, Aborted
<1>2. CASE Ends
  <2>1. PICK T \in SUBSET Live(store, now) :
          LeavesOnly(store, store', Live(store, now) \ T) /\ \A u \in T : Rightly(u)
    BY <1>2 DEF Ends
  <2>2. CASE t \in T
    BY <2>1, <2>2 DEF LeavesOnly
  <2>3. CASE t \notin T
    BY <2>1, <2>3 DEF LeavesOnly
  <2> QED BY <2>2, <2>3
<1>3. CASE Claims
  BY <1>3 DEF Claims
<1>4. CASE Issues
  <2>1. PICK n \in Token \ issued, T \in SUBSET Live(store, now) :
          /\ Stored(store') = (Live(store, now) \ T) \cup {n}
          /\ \A u \in Live(store, now) \ T : store'.sessions[u] = store.sessions[u]
          /\ \A u \in T : Rightly(u)
    BY <1>4 DEF Issues
  <2>2. CASE t \in T
    BY <1>1, <2>1, <2>2
  <2>3. CASE t \notin T
    BY <2>1, <2>3
  <2> QED BY <2>2, <2>3
<1>5. CASE Stays
  BY <1>1, <1>5 DEF Stays
<1> QED BY <1>2, <1>3, <1>4, <1>5, StepKinds

\* Until its deadline a session is ended or claimed by a call for its own
\* subject, by its token's holder, or by shutdown; never by pressure of others.
THEOREM OnlyOwnerEnds == Spec => OnlyOwnerEndsReview
<1> DEFINE Theirs == \A t \in Token :
       Unexpired(t) /\ (t \in Stored(store') => store'.sessions[t].claimed # store.sessions[t].claimed)
         => \/ reply'.by = store.sessions[t].subject /\ reply'.status # "capacity"
            \/ reply'.op \in {"consume", "dispose"}
<1>1. IInv /\ [Next]_vars => [Theirs]_vars
  <2> SUFFICES ASSUME IInv, [Next]_vars, NEW t \in Token, Unexpired(t),
                      t \in Stored(store') => store'.sessions[t].claimed # store.sessions[t].claimed
               PROVE  \/ reply'.by = store.sessions[t].subject /\ reply'.status # "capacity"
                      \/ reply'.op \in {"consume", "dispose"}
    OBVIOUS
  <2>1. t \in Live(store, now)
    BY DEF Unexpired, Live
  <2> QED BY <2>1, KeptOrRightly DEF Rightly
<1> QED BY <1>1, Invariance, PTL DEF Spec, OnlyOwnerEndsReview

\* Whoever ends a session before its deadline is handed its private nonce;
\* only shutdown and a claim that finds the seal broken keep it.
THEOREM NonceHandedBack == Spec => EndedNonceHandedBack
<1> DEFINE Handed == \A t \in Token :
       Unexpired(t) /\ t \notin Stored(store')
         => \/ reply'.nonce = store.sessions[t].nonce
            \/ reply'.op = "dispose"
            \/ reply'.status = "integrity_failure" /\ ~store.sessions[t].intact
<1>1. IInv /\ [Next]_vars => [Handed]_vars
  <2> SUFFICES ASSUME IInv, [Next]_vars, NEW t \in Token, Unexpired(t), t \notin Stored(store')
               PROVE  \/ reply'.nonce = store.sessions[t].nonce
                      \/ reply'.op = "dispose"
                      \/ reply'.status = "integrity_failure" /\ ~store.sessions[t].intact
    OBVIOUS
  <2>1. t \in Live(store, now)
    BY DEF Unexpired, Live
  <2> QED BY <2>1, KeptOrRightly DEF Rightly
<1> QED BY <1>1, Invariance, PTL DEF Spec, EndedNonceHandedBack

(***************************************************************************)
(* The refinement.  A token that was never issued was never granted, and   *)
(* neither was one whose session is not claimed: that is all Grant needs.  *)
(***************************************************************************)

GrantsTrue == /\ \A t \in Token \ issued : grants[t] = 0
              /\ \A t \in Stored(store) : ~store.sessions[t].claimed => grants[t] = 0

\* The invariant of the refinement is kept.
LEMMA GrantsStayTrue == IInv /\ GrantsTrue /\ [Next]_vars => GrantsTrue'
<1> SUFFICES ASSUME IInv, GrantsTrue, [Next]_vars PROVE GrantsTrue'
  OBVIOUS
<1>1. /\ Stored(store) \subseteq issued /\ Live(store, now) \subseteq Stored(store)
      /\ store.sessions \in [Stored(store) -> Session] /\ grants \in [Token -> Nat]
  BY DEF IInv, Ready, Settled, Aborted, StoreShape, Live
<1>2. Ends => GrantsTrue'
  BY <1>1 DEF Ends, LeavesOnly, GrantsTrue
<1>3. Claims => GrantsTrue'
  <2> SUFFICES ASSUME Claims PROVE GrantsTrue'
    OBVIOUS
  <2>1. PICK t \in Live(store, now) :
          /\ t \in Token /\ Stored(store') = Live(store, now)
          /\ \A u \in Live(store, now) \ {t} : store'.sessions[u] = store.sessions[u]
          /\ store'.sessions[t] = [store.sessions[t] EXCEPT !.claimed = TRUE]
          /\ grants' = [grants EXCEPT ![t] = @ + 1] /\ UNCHANGED issued
    BY DEF Claims
  <2>2. store'.sessions[t].claimed
    BY <1>1, <2>1 DEF Session
  <2>3. \A u \in Token \ {t} : grants'[u] = grants[u]
    BY <1>1, <2>1
  <2>4. Stored(store) \subseteq Token
    BY DEF IInv, Ready, Settled, StoreShape
  <2> QED BY <1>1, <2>1, <2>2, <2>3, <2>4 DEF GrantsTrue
<1>4. Issues => GrantsTrue'
  BY <1>1 DEF Issues, GrantsTrue
<1>5. Stays => GrantsTrue'
  BY DEF Stays, GrantsTrue
<1> QED BY <1>2, <1>3, <1>4, <1>5, StepKinds

\* Who holds the reviews, as ReviewTokens knows them.
holder == [t \in Stored(store) |-> store.sessions[t].subject]

\* Each step of the store is a step of ReviewTokens or changes nothing there.
LEMMA StepRefines == IInv /\ GrantsTrue /\ [Next]_vars => [Tokens!Next]_(Tokens!tokenVars)
<1> SUFFICES ASSUME IInv, GrantsTrue, [Next]_vars PROVE Tokens!Next \/ UNCHANGED <<issued, holder, grants>>
  BY DEF Tokens!tokenVars, holder
<1>1. /\ Live(store, now) \subseteq Stored(store) /\ Tokens!Open = Stored(store)
      /\ store.sessions \in [Stored(store) -> Session] /\ Stored(store) \subseteq Token
      /\ Stored(store) \subseteq issued /\ grants \in [Token -> Nat]
  BY DEF Live, Tokens!Open, IInv, Ready, Settled, StoreShape, Aborted
<1>2. ASSUME Ends PROVE Tokens!End
  <2>1. PICK T \in SUBSET Live(store, now) : LeavesOnly(store, store', Live(store, now) \ T)
    BY <1>2 DEF Ends
  <2> DEFINE G == Stored(store) \ (Live(store, now) \ T)
  <2>2. G \in SUBSET Stored(store) /\ Stored(store) \ G = Live(store, now) \ T
    BY <1>1
  <2>3. holder' = [t \in Live(store, now) \ T |-> store.sessions[t].subject]
    BY <2>1 DEF holder, LeavesOnly
  <2>4. holder' = Tokens!Restrict(holder, Stored(store) \ G)
    BY <1>1, <2>2, <2>3 DEF holder, Tokens!Restrict
  <2>5. UNCHANGED <<issued, grants>>
    BY <1>2 DEF Ends
  <2> HIDE DEF G
  <2> QED BY <1>1, <2>2, <2>4, <2>5 DEF Tokens!End, holder
<1>3. ASSUME Claims PROVE \E t \in Token : Tokens!Grant(t)
  <2>1. PICK t \in Live(store, now) :
          /\ t \in Token /\ ~store.sessions[t].claimed
          /\ Stored(store') = Live(store, now)
          /\ \A u \in Live(store, now) \ {t} : store'.sessions[u] = store.sessions[u]
          /\ store'.sessions[t] = [store.sessions[t] EXCEPT !.claimed = TRUE]
          /\ grants' = [grants EXCEPT ![t] = @ + 1] /\ UNCHANGED issued
    BY <1>3 DEF Claims
  <2> DEFINE G == Stored(store) \ Live(store, now)
  <2>2. grants[t] = 0 /\ grants' = [grants EXCEPT ![t] = 1]
    <3>1. grants[t] = 0
      BY <1>1, <2>1 DEF GrantsTrue
    <3> QED BY <1>1, <2>1, <3>1
  <2>3. store'.sessions[t].subject = store.sessions[t].subject
    BY <1>1, <2>1 DEF Session
  <2>4. holder' = [u \in Live(store, now) |-> store.sessions[u].subject]
    BY <2>1, <2>3 DEF holder
  <2>5. G \in SUBSET (Stored(store) \ {t}) /\ Stored(store) \ G = Live(store, now)
    BY <1>1, <2>1
  <2>6. holder' = Tokens!Restrict(holder, Stored(store) \ G)
    BY <1>1, <2>4, <2>5 DEF holder, Tokens!Restrict
  <2> HIDE DEF G
  <2>7. Tokens!Grant(t)
    BY <1>1, <2>1, <2>2, <2>5, <2>6 DEF Tokens!Grant, holder
  <2> QED BY <2>1, <2>7
<1>4. ASSUME Issues PROVE \E t \in Token, s \in Subject : Tokens!Issue(t, s)
  <2>1. PICK t \in Token \ issued, T \in SUBSET Live(store, now) :
          /\ Stored(store') = (Live(store, now) \ T) \cup {t}
          /\ \A u \in Live(store, now) \ T : store'.sessions[u] = store.sessions[u]
          /\ store'.sessions[t].subject \in Subject
          /\ \A u \in Live(store, now) \ T : store.sessions[u].subject # store'.sessions[t].subject
          /\ issued' = issued \cup {t} /\ UNCHANGED grants
    BY <1>4 DEF Issues
  <2> DEFINE G == Stored(store) \ (Live(store, now) \ T)
  <2>0. PICK s \in Subject : s = store'.sessions[t].subject
    BY <2>1
  <2>2. G \in SUBSET Stored(store) /\ Stored(store) \ G = Live(store, now) \ T
    BY <1>1
  <2>3. t \notin Stored(store)
    BY <1>1
  <2>4. holder' = [u \in (Stored(store) \ G) \cup {t} |-> IF u = t THEN s ELSE holder[u]]
    BY <1>1, <2>0, <2>1, <2>2, <2>3 DEF holder
  <2>5. \A u \in Stored(store) \ G : holder[u] # s
    BY <1>1, <2>0, <2>1, <2>2 DEF holder
  <2>6. s \in Subject /\ t \in Token /\ t \notin issued /\ issued' = issued \cup {t} /\ grants' = grants
    BY <2>1
  <2> HIDE DEF G
  <2>7. Tokens!Issue(t, s)
    BY <1>1, <2>2, <2>4, <2>5, <2>6 DEF Tokens!Issue, holder
  <2> QED BY <2>6, <2>7
<1>5. ASSUME Stays PROVE UNCHANGED <<issued, holder, grants>>
  BY <1>5 DEF Stays, holder
<1> QED BY <1>2, <1>3, <1>4, <1>5, StepKinds DEF Tokens!Next

\* The session store keeps the promise of ReviewTokens: a token is for one
\* subject, opens once at most, and once ended never opens again.
THEOREM TokensRefined == Spec => ImplementsReviewTokens
<1>1. Init => GrantsTrue /\ Tokens!Init
  <2> SUFFICES ASSUME Init PROVE GrantsTrue /\ Tokens!Init
    OBVIOUS
  <2>1. Stored(store) = {}
    BY DEF Init, EmptyStore, Stored
  <2>2. [t \in Stored(store) |-> store.sessions[t].subject] = [t \in {} |-> 0]
    BY <2>1
  <2> QED BY <2>1, <2>2 DEF Init, GrantsTrue, Tokens!Init
<1>2. IInv /\ GrantsTrue /\ [Next]_vars => GrantsTrue'
  BY GrantsStayTrue
<1>3. IInv /\ GrantsTrue /\ [Next]_vars => [Tokens!Next]_(Tokens!tokenVars)
  BY StepRefines
<1> QED BY <1>1, <1>2, <1>3, Invariance, PTL DEF Spec, ImplementsReviewTokens, Tokens!TokenSpec
=============================================================================
