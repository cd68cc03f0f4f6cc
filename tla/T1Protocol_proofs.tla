-------------------------- MODULE T1Protocol_proofs --------------------------
(***************************************************************************)
(* Proofs about the private review protocol, for any number of subjects,   *)
(* requests, tokens and nonces and any limits: what goes out to whom,      *)
(* which review is worked on by whom, and which text is held for what.     *)
(***************************************************************************)
EXTENDS T1Protocol, T1Stores_proofs

(***************************************************************************)
(* Types.                                                                  *)
(***************************************************************************)

PrepareStages == {"prepare_consent", "prepare_admission", "prepare_call", "prepare_body",
                  "prepare_recheck", "prepare_created", "prepare_final"}
ContinueStages == {"continue_consent", "continue_call", "continue_body", "continue_recheck"}

Consents == [active : BOOLEAN, version : Binding]

Requests == [at : PrepareStages \cup ContinueStages, subject : Subject, seen : Consents,
             consent : Binding, revision : Nat, epoch : Nat,
             nonce : Nonce \cup {NoNonce}, token : Token \cup {NoToken}]

Messages ==
  [kind : {"prepare"}, req : Request, awaited : BOOLEAN]
    \cup [kind : {"continue"}, req : Request, nonce : Nonce, awaited : BOOLEAN]
    \cup [kind : {"clear"}, nonce : Nonce]
    \cup [kind : {"prepared"}, req : Request, nonce : Nonce]
    \cup [kind : {"refused", "analysed"}, req : Request]

Analyses == [nonce : Nonce, req : Request, awaited : BOOLEAN, passed : BOOLEAN]

Origins == [subject : Subject, epoch : Nat]

\* Time stands still at 0, so no store has anything to sweep.
FastifyTyped == /\ Settled(store, 0, issued)
                /\ issued \subseteq Token /\ known \subseteq issued
                /\ consent \in [Subject -> Consents] /\ epoch \in [Subject -> Nat]
                /\ admitted \in BOOLEAN /\ revision \in 0..MaxRevision
                /\ released \in [Token -> Nat]
                /\ origin \in [issued -> Origins]
                /\ req \in [Request -> {Idle} \cup Requests]

PyTyped == /\ PySettled(py)
           /\ Held(py) \cup py.revoked \subseteq drawn /\ drawn \subseteq Nonce

Typed == FastifyTyped /\ PyTyped /\ net \subseteq Messages /\ work \subseteq Analyses

(***************************************************************************)
(* The inductive invariant.                                                *)
(***************************************************************************)

\* The stages of a prepare request from the capture of the withdrawal revision
\* on, those in which it has read consent since, those in which a request knows
\* the nonce of its private session, and those in which it answers for a review.
Captured == PrepareStages \ {"prepare_consent"}
Rechecked == {"prepare_recheck", "prepare_created", "prepare_final"}
Told == {"prepare_body", "continue_call", "continue_body", "continue_recheck"} \cup Rechecked
Prepared == {"prepare_created", "prepare_final"}
Claimed == {"continue_call", "continue_body", "continue_recheck"}

\* A prepare request whose revision still stands began in its subject's
\* present epoch, and a consent it has seen since is there still.
Sound(q) ==
  /\ q.at \in Captured =>
       /\ q.revision <= revision
       /\ q.revision = revision =>
            /\ epoch[q.subject] = q.epoch
            /\ q.at \in Rechecked /\ q.seen.active => consent[q.subject].active
  /\ q.at \in Told => q.nonce \in Nonce

RequestsSound == \A r \in Request : Sound(req[r])

\* A token that a prepare request holds is its own, and nobody else knows it.
PreparedAlone ==
  \A r \in Request : Preparing(r) =>
    /\ req[r].token \in issued \ known
    /\ origin[req[r].token] = [subject |-> req[r].subject, epoch |-> req[r].epoch]
    /\ \A q \in Request \ {r} : Preparing(q) => req[q].token # req[r].token

\* A continue request works on a token it was given, alone, and as long as the
\* review is stored it is marked as claimed.
ClaimedAlone ==
  /\ \A r \in Request : req[r].at \in ContinueStages => req[r].token \in known
  /\ \A r \in Request : Continuing(r) =>
       /\ origin[req[r].token].subject = req[r].subject
       /\ released[req[r].token] = 0
       /\ req[r].token \in Stored(store) => store.sessions[req[r].token].claimed
       /\ \A q \in Request \ {r} : Continuing(q) => req[q].token # req[r].token

\* A stored review was created in its subject's present epoch, under a consent
\* that is there still; nothing of it was released, and nothing of a token
\* that has not been drawn.
StoredSound ==
  /\ \A t \in Stored(store) :
       /\ store.sessions[t].subject = origin[t].subject
       /\ store.sessions[t].expiresAt > 0 /\ store.sessions[t].intact
       /\ consent[origin[t].subject].active
       /\ epoch[origin[t].subject] = origin[t].epoch
       /\ released[t] = 0
       /\ store.sessions[t].claimed => t \in known
  /\ \A t \in Token : released[t] > 0 => t \in issued

IInv == /\ Typed /\ RequestsSound /\ PreparedAlone /\ ClaimedAlone
        /\ StoredSound /\ NoOrphanReview

(***************************************************************************)
(* Steps that touch neither the Fastify store nor a request.               *)
(***************************************************************************)

\* The private service and the network may do what they like, as far as the
\* reviews go.
LEMMA QuietStep ==
  ASSUME IInv, UNCHANGED <<fastify, req>>, PyTyped', net' \subseteq Messages, work' \subseteq Analyses
  PROVE  IInv'
<1>1. Typed'
  BY DEF IInv, Typed, FastifyTyped, fastify, reviews
<1>2. (RequestsSound /\ PreparedAlone /\ ClaimedAlone /\ StoredSound /\ NoOrphanReview)'
  BY DEF IInv, RequestsSound, Sound, PreparedAlone, ClaimedAlone, StoredSound, NoOrphanReview,
         Preparing, Continuing, fastify, reviews
<1> QED BY <1>1, <1>2 DEF IInv

(***************************************************************************)
(* Steps of one request.                                                   *)
(***************************************************************************)

\* What the request r may make of itself, q, of the reviews and of what is
\* known or released: it takes up no review, and the one it answered for, if
\* it no longer does, is gone or known to its owner.
Moves(r, q) ==
  /\ req' = [req EXCEPT ![r] = q] /\ q \in {Idle} \cup Requests
  /\ Settled(store', 0, issued) /\ Stored(store') \subseteq Stored(store)
  /\ \A t \in Stored(store') : store'.sessions[t] = store.sessions[t]
  /\ UNCHANGED <<consent, admitted, revision, issued, epoch, origin>>
  /\ PyTyped' /\ net' \subseteq Messages /\ work' \subseteq Analyses
  /\ Sound(q)
  /\ q.at \in Prepared => /\ req[r].at \in Prepared /\ q.token = req[r].token
                          /\ q.subject = req[r].subject /\ q.epoch = req[r].epoch
  /\ q.at \in Claimed => /\ req[r].at \in Claimed /\ q.token = req[r].token
                         /\ q.subject = req[r].subject
  /\ q.at \in ContinueStages => q.token \in known
  /\ req[r].at \in Prepared /\ q.at \notin Prepared =>
       req[r].token \notin Stored(store') \/ req[r].token \in known'
  /\ req[r].at \in Claimed /\ q.at \notin Claimed => req[r].token \notin Stored(store')
  /\ known \subseteq known'
  /\ \A t \in known' \ known : req[r].at \in Prepared /\ q.at \notin Prepared /\ t = req[r].token
  /\ released' \in [Token -> Nat]
  /\ \A t \in Token : released'[t] # released[t] =>
       req[r].at \in Claimed /\ q.at \notin Claimed /\ t = req[r].token

\* Such a step keeps the invariant.
LEMMA MoveStep ==
  ASSUME IInv, NEW r \in Request, NEW q, Moves(r, q)
  PROVE  IInv'
<1>0. /\ req \in [Request -> {Idle} \cup Requests] /\ issued \subseteq Token /\ known \subseteq issued
      /\ released \in [Token -> Nat] /\ Stored(store) \subseteq issued
  BY DEF IInv, Typed, FastifyTyped, Settled, Aborted
<1>1. req'[r] = q /\ \A p \in Request \ {r} : req'[p] = req[p]
  BY <1>0 DEF Moves
<1>2. known' \subseteq issued
  <2>1. req[r].at \in Prepared => req[r].token \in issued
    BY DEF IInv, PreparedAlone, Preparing, Prepared
  <2> QED BY <1>0, <2>1 DEF Moves
<1>3. Typed'
  <2>1. req' \in [Request -> {Idle} \cup Requests]
    BY <1>0 DEF Moves
  <2> QED BY <1>2, <2>1 DEF IInv, Typed, FastifyTyped, Moves
<1>4. RequestsSound'
  <2> SUFFICES ASSUME NEW p \in Request PROVE Sound(req[p])'
    BY DEF RequestsSound
  <2>1. CASE p = r
    BY <1>1, <2>1 DEF Sound, Moves
  <2>2. CASE p # r
    BY <1>1, <2>2 DEF IInv, RequestsSound, Sound, Moves
  <2> QED BY <2>1, <2>2
<1>5. PreparedAlone'
  <2> SUFFICES ASSUME NEW p \in Request, req'[p].at \in Prepared
               PROVE  /\ req'[p].token \in issued \ known'
                      /\ origin[req'[p].token] = [subject |-> req'[p].subject, epoch |-> req'[p].epoch]
                      /\ \A o \in Request \ {p} :
                           req'[o].at \in Prepared => req'[o].token # req'[p].token
    BY DEF PreparedAlone, Preparing, Prepared, Moves
  <2>1. \A o \in Request : req'[o].at \in Prepared =>
          /\ req[o].at \in Prepared /\ req'[o].token = req[o].token
          /\ req'[o].subject = req[o].subject /\ req'[o].epoch = req[o].epoch
    BY <1>1 DEF Moves
  <2>2. \A o \in Request : req[o].at \in Prepared =>
          /\ req[o].token \in issued \ known
          /\ origin[req[o].token] = [subject |-> req[o].subject, epoch |-> req[o].epoch]
          /\ \A o2 \in Request \ {o} : req[o2].at \in Prepared => req[o2].token # req[o].token
    BY DEF IInv, PreparedAlone, Preparing, Prepared
  <2>3. req'[p].token \notin known'
    <3>1. req[p].at \in Prepared /\ req'[p].token = req[p].token /\ req[p].token \notin known
      BY <2>1, <2>2
    <3>2. \A t \in known' \ known : req[r].at \in Prepared /\ q.at \notin Prepared /\ t = req[r].token
      BY DEF Moves
    <3>3. CASE p = r
      BY <1>1, <3>1, <3>2, <3>3
    <3>4. CASE p # r
      <4>1. req[r].at \in Prepared => req[r].token # req[p].token
        BY <2>2, <3>1, <3>4
      <4> QED BY <3>1, <3>2, <4>1
    <3> QED BY <3>3, <3>4
  <2> QED BY <2>1, <2>2, <2>3
<1>6. ClaimedAlone'
  <2>1. \A o \in Request : req'[o].at \in ContinueStages => req'[o].token \in known'
    BY <1>1 DEF IInv, ClaimedAlone, Moves
  <2>2. \A o \in Request : req'[o].at \in Claimed =>
          /\ req[o].at \in Claimed /\ req'[o].token = req[o].token
          /\ req'[o].subject = req[o].subject
    BY <1>1 DEF Moves
  <2>3. \A o \in Request : req[o].at \in Claimed =>
          /\ origin[req[o].token].subject = req[o].subject
          /\ released[req[o].token] = 0
          /\ req[o].token \in Stored(store) => store.sessions[req[o].token].claimed
          /\ \A o2 \in Request \ {o} : req[o2].at \in Claimed => req[o2].token # req[o].token
    BY DEF IInv, ClaimedAlone, Continuing, Claimed
  <2>4. \A o \in Request : req'[o].at \in Claimed => released'[req'[o].token] = 0
    <3> SUFFICES ASSUME NEW o \in Request, req'[o].at \in Claimed
                 PROVE  released'[req'[o].token] = 0
      OBVIOUS
    <3>1. req[o].at \in Claimed /\ req'[o].token = req[o].token /\ req[o].token \in Token
      <4>1. req[o].at \in ContinueStages
        BY <2>2 DEF Claimed, ContinueStages
      <4> QED BY <1>0, <2>2, <4>1 DEF IInv, ClaimedAlone
    <3>2. CASE o = r
      BY <1>1, <2>3, <3>1, <3>2 DEF Moves
    <3>3. CASE o # r
      BY <1>1, <2>3, <3>1, <3>3 DEF Moves
    <3> QED BY <3>2, <3>3
  <2>5. \A o \in Request : req'[o].at \in Claimed /\ req'[o].token \in Stored(store')
          => store'.sessions[req'[o].token].claimed
    BY <2>2, <2>3 DEF Moves
  <2>6. \A o \in Request : req'[o].at \in Claimed =>
          /\ origin'[req'[o].token].subject = req'[o].subject
          /\ \A o2 \in Request \ {o} : req'[o2].at \in Claimed => req'[o2].token # req'[o].token
    BY <2>2, <2>3 DEF Moves
  <2> QED BY <2>1, <2>4, <2>5, <2>6 DEF ClaimedAlone, Continuing, Claimed
<1>7. StoredSound'
  <2>1. ASSUME NEW t \in Stored(store') PROVE released'[t] = 0
    <3>1. t \in Stored(store) /\ t \in Token /\ released[t] = 0
      BY <1>0, <2>1 DEF IInv, StoredSound, Moves
    <3> QED BY <2>1, <3>1 DEF Moves
  <2>2. ASSUME NEW t \in Token, released'[t] > 0 PROVE t \in issued'
    <3>1. CASE released'[t] = released[t]
      BY <2>2, <3>1 DEF IInv, StoredSound, Moves
    <3>2. CASE released'[t] # released[t]
      <4>1. t = req[r].token /\ req[r].at \in ContinueStages
        BY <3>2 DEF Moves, Claimed, ContinueStages
      <4> QED BY <1>0, <4>1 DEF IInv, ClaimedAlone, Moves
    <3> QED BY <3>1, <3>2
  <2>3. \A t \in Stored(store') :
          /\ store'.sessions[t].subject = origin'[t].subject
          /\ store'.sessions[t].expiresAt > 0 /\ store'.sessions[t].intact
          /\ consent'[origin'[t].subject].active
          /\ epoch'[origin'[t].subject] = origin'[t].epoch
          /\ store'.sessions[t].claimed => t \in known'
    BY DEF IInv, StoredSound, Moves
  <2> QED BY <2>1, <2>2, <2>3 DEF StoredSound
<1>8. NoOrphanReview'
  <2> SUFFICES ASSUME NEW t \in Stored(store')
               PROVE  IF store'.sessions[t].claimed
                      THEN \E p \in Request : req'[p].at \in Claimed /\ req'[p].token = t
                      ELSE t \in known' \/ \E p \in Request : req'[p].at \in Prepared /\ req'[p].token = t
    BY DEF NoOrphanReview, Continuing, Preparing, Claimed, Prepared
  <2>1. t \in Stored(store) /\ store'.sessions[t] = store.sessions[t]
    BY DEF Moves
  <2>2. IF store.sessions[t].claimed
        THEN \E p \in Request : req[p].at \in Claimed /\ req[p].token = t
        ELSE t \in known \/ \E p \in Request : req[p].at \in Prepared /\ req[p].token = t
    BY <2>1 DEF IInv, NoOrphanReview, Continuing, Preparing, Claimed, Prepared
  <2>3. CASE store.sessions[t].claimed
    <3>1. PICK p \in Request : req[p].at \in Claimed /\ req[p].token = t
      BY <2>2, <2>3
    <3>2. req'[p].at \in Claimed /\ req'[p].token = t
      BY <1>1, <3>1 DEF Moves
    <3> QED BY <2>1, <2>3, <3>2
  <2>4. CASE ~store.sessions[t].claimed /\ t \in known
    BY <2>1, <2>4 DEF Moves
  <2>5. CASE ~store.sessions[t].claimed /\ t \notin known
    <3>1. PICK p \in Request : req[p].at \in Prepared /\ req[p].token = t
      BY <2>2, <2>5
    <3>2. t \in known' \/ (req'[p].at \in Prepared /\ req'[p].token = t)
      BY <1>1, <3>1 DEF Moves
    <3> QED BY <2>1, <2>5, <3>2
  <2> QED BY <2>3, <2>4, <2>5
<1> QED BY <1>3, <1>4, <1>5, <1>6, <1>7, <1>8 DEF IInv

(***************************************************************************)
(* What the operations make of a store whose sessions are all live.        *)
(***************************************************************************)

\* No session has expired at 0.
LEMMA NothingExpired ==
  ASSUME IInv
  PROVE  Live(store, 0) = Stored(store) /\ Settled(store, 0, issued)
BY DEF IInv, Typed, FastifyTyped, StoredSound, Live

\* after holds some of the reviews, untouched.
Shrunk(after) == /\ Settled(after, 0, issued) /\ Stored(after) \subseteq Stored(store)
                 /\ \A t \in Stored(after) : after.sessions[t] = store.sessions[t]

\* A nonce that is handed back can be cleared.
LEMMA ClearsTyped ==
  ASSUME NEW N, N \subseteq Nonce \cup {NoNonce}
  PROVE  ClearInternal(N) \subseteq Messages
BY DEF ClearInternal, Messages

\* The nonce of a stored session.
LEMMA StoredNonce ==
  ASSUME IInv, NEW t \in Stored(store)
  PROVE  store.sessions[t].nonce \in Nonce /\ store.sessions[t].binding \in Binding
BY DEF IInv, Typed, FastifyTyped, Settled, StoreShape, Session

\* consume.
LEMMA Consumed ==
  ASSUME IInv, NEW t
  PROVE  LET consumed == Consume(store, t, 0)
         IN  /\ Shrunk(consumed.st) /\ Stored(consumed.st) = Stored(store) \ {t}
             /\ consumed.nonce = IF t \in Stored(store) THEN store.sessions[t].nonce ELSE NoNonce
             /\ consumed.nonce \in Nonce \cup {NoNonce}
<1> DEFINE consumed == Consume(store, t, 0)
<1>1. Settled(store, 0, issued) /\ Live(store, 0) = Stored(store) /\ 0 \in Nat
  BY NothingExpired
<1>2. Settled(consumed.st, 0, issued)
  BY <1>1, ConsumeReady DEF Ready
<1>3. /\ LeavesOnly(store, consumed.st, Live(store, 0) \ {t})
      /\ consumed.nonce = IF t \in Live(store, 0) THEN store.sessions[t].nonce ELSE NoNonce
  BY <1>1, ConsumeLeaves
<1> HIDE DEF consumed
<1>4. Shrunk(consumed.st) /\ Stored(consumed.st) = Stored(store) \ {t}
  BY <1>1, <1>2, <1>3 DEF LeavesOnly, Shrunk
<1> QED BY <1>1, <1>3, <1>4, StoredNonce DEF consumed

\* clear.
LEMMA Cleared ==
  ASSUME IInv, NEW t, NEW s
  PROVE  LET cleared == Clear(store, t, s, 0)
         IN  /\ Shrunk(cleared.st) /\ Stored(store) \ {t} \subseteq Stored(cleared.st)
             /\ cleared.nonce \in Nonce \cup {NoNonce}
             /\ ~(t \in Stored(store) /\ store.sessions[t].subject = s) =>
                  Stored(cleared.st) = Stored(store) /\ cleared.nonce = NoNonce
             /\ t \in Stored(store) /\ store.sessions[t].subject = s =>
                  /\ Stored(cleared.st) = Stored(store) \ {t}
                  /\ cleared.nonce = store.sessions[t].nonce
<1> DEFINE cleared == Clear(store, t, s, 0)
           own     == t \in Live(store, 0) /\ store.sessions[t].subject = s
<1>1. Settled(store, 0, issued) /\ Live(store, 0) = Stored(store) /\ 0 \in Nat
  BY NothingExpired
<1>2. Settled(cleared.st, 0, issued)
  BY <1>1, ClearReady DEF Ready
<1>3. /\ LeavesOnly(store, cleared.st, IF own THEN Live(store, 0) \ {t} ELSE Live(store, 0))
      /\ cleared.nonce = IF own THEN store.sessions[t].nonce ELSE NoNonce
      /\ own => cleared.status = "cleared"
  <2> HIDE DEF cleared, own
  <2> QED BY <1>1, ClearLeaves DEF cleared, own
<1> HIDE DEF cleared
<1>4. CASE own
  <2>1. LeavesOnly(store, cleared.st, Stored(store) \ {t}) /\ cleared.nonce = store.sessions[t].nonce
    BY <1>1, <1>3, <1>4
  <2>2. Shrunk(cleared.st) /\ Stored(cleared.st) = Stored(store) \ {t}
    BY <1>2, <2>1 DEF LeavesOnly, Shrunk
  <2>3. t \in Stored(store) /\ store.sessions[t].subject = s
    BY <1>1, <1>4
  <2> QED BY <2>1, <2>2, <2>3, StoredNonce DEF cleared
<1>5. CASE ~own
  <2>1. LeavesOnly(store, cleared.st, Stored(store)) /\ cleared.nonce = NoNonce
    BY <1>1, <1>3, <1>5
  <2>2. Shrunk(cleared.st) /\ Stored(cleared.st) = Stored(store)
    BY <1>2, <2>1 DEF LeavesOnly, Shrunk
  <2>3. ~(t \in Stored(store) /\ store.sessions[t].subject = s)
    BY <1>1, <1>5
  <2> QED BY <2>1, <2>2, <2>3 DEF cleared
<1> QED BY <1>4, <1>5

\* invalidateSubject.
LEMMA Invalidated ==
  ASSUME IInv, NEW s
  PROVE  LET invalidated == InvalidateSubject(store, s, 0)
             own         == {t \in Stored(store) : store.sessions[t].subject = s}
         IN  /\ Shrunk(invalidated.st) /\ Stored(invalidated.st) = Stored(store) \ own
             /\ \A t \in own : invalidated.nonce = store.sessions[t].nonce
             /\ invalidated.nonce \in Nonce \cup {NoNonce}
<1> DEFINE invalidated == InvalidateSubject(store, s, 0)
           own         == Owned(store, s, 0)
<1>1. Settled(store, 0, issued) /\ Live(store, 0) = Stored(store) /\ 0 \in Nat
  BY NothingExpired
<1>2. Settled(invalidated.st, 0, issued)
  BY <1>1, InvalidateSubjectReady DEF Ready
<1>3. /\ LeavesOnly(store, invalidated.st, Live(store, 0) \ own)
      /\ \A t \in own : invalidated.nonce = store.sessions[t].nonce
      /\ own = {} => invalidated.nonce = NoNonce
  BY <1>1, InvalidateLeaves
<1>4. own = {t \in Stored(store) : store.sessions[t].subject = s}
  BY <1>1 DEF Owned
<1> HIDE DEF invalidated, own
<1>5. Shrunk(invalidated.st) /\ Stored(invalidated.st) = Stored(store) \ own
  BY <1>1, <1>2, <1>3 DEF LeavesOnly, Shrunk
<1>6. invalidated.nonce \in Nonce \cup {NoNonce}
  <2>1. CASE own = {}
    BY <1>3, <2>1
  <2>2. CASE own # {}
    <3>1. PICK t \in own : TRUE
      BY <2>2
    <3>2. t \in Stored(store)
      BY <1>4
    <3> QED BY <1>3, <3>2, StoredNonce
  <2> QED BY <2>1, <2>2
<1> QED BY <1>3, <1>4, <1>5, <1>6 DEF invalidated

\* removeByHash of one review by its deadline.
LEMMA Expired ==
  ASSUME IInv, NEW T
  PROVE  LET after == ScheduleExpiry(RemoveAll(store, T, 0), 0)
         IN  Shrunk(after) /\ Stored(after) = Stored(store) \ T
<1> DEFINE freed == RemoveAll(store, T, 0)
           after == ScheduleExpiry(freed, 0)
<1>1. Settled(store, 0, issued) /\ 0 \in Nat
  BY NothingExpired
<1>2. Settled(freed, 0, issued) /\ LeavesOnly(store, freed, Stored(store) \ T)
  BY <1>1, RemoveAllSettled, RemoveAllLeaves
<1> HIDE DEF freed
<1>3. IsStore(freed)
  BY <1>2 DEF Settled, StoreShape, IsStore
<1>4. Settled(after, 0, issued) /\ after.sessions = freed.sessions
  BY <1>1, <1>2, <1>3, ScheduleExpirySettled, ScheduleLeaves
<1> HIDE DEF after
<1>5. Shrunk(after) /\ Stored(after) = Stored(store) \ T
  BY <1>2, <1>4 DEF LeavesOnly, Shrunk, Stored
<1> QED BY <1>5 DEF after, freed

\* claim: no record is broken, so it marks a review of s or leaves all as it was.
LEMMA ClaimedOnce ==
  ASSUME IInv, NEW t, NEW s
  PROVE  LET claimed == Claim(store, t, s, 0)
         IN  /\ Settled(claimed.st, 0, issued)
             /\ claimed.status # "ok" => Shrunk(claimed.st) /\ Stored(claimed.st) = Stored(store)
             /\ claimed.status = "ok" =>
                  /\ t \in Stored(store) /\ Stored(claimed.st) = Stored(store)
                  /\ store.sessions[t].subject = s /\ ~store.sessions[t].claimed
                  /\ claimed.st.sessions[t] = [store.sessions[t] EXCEPT !.claimed = TRUE]
                  /\ \A u \in Stored(store) \ {t} : claimed.st.sessions[u] = store.sessions[u]
<1> DEFINE claimed == Claim(store, t, s, 0)
<1>1. Settled(store, 0, issued) /\ Live(store, 0) = Stored(store) /\ 0 \in Nat
  BY NothingExpired
<1>2. Settled(claimed.st, 0, issued)
  BY <1>1, ClaimReady DEF Ready
<1>3. /\ claimed.status \in {"gone", "forbidden", "ok", "integrity_failure"}
      /\ claimed.status = "ok" =>
           /\ t \in Live(store, 0) /\ Stored(claimed.st) = Live(store, 0)
           /\ store.sessions[t].subject = s /\ ~store.sessions[t].claimed
           /\ claimed.st.sessions[t] = [store.sessions[t] EXCEPT !.claimed = TRUE]
           /\ \A u \in Live(store, 0) \ {t} : claimed.st.sessions[u] = store.sessions[u]
      /\ claimed.status = "integrity_failure" =>
           t \in Live(store, 0) /\ ~store.sessions[t].intact
      /\ claimed.status \in {"gone", "forbidden"} => LeavesOnly(store, claimed.st, Live(store, 0))
  <2> HIDE DEF claimed
  <2> QED BY <1>1, ClaimLeaves DEF claimed
<1> HIDE DEF claimed
<1>4. claimed.status # "integrity_failure"
  BY <1>1, <1>3 DEF IInv, StoredSound
<1>5. claimed.status # "ok" => Shrunk(claimed.st) /\ Stored(claimed.st) = Stored(store)
  BY <1>1, <1>2, <1>3, <1>4 DEF LeavesOnly, Shrunk
<1> QED BY <1>1, <1>2, <1>3, <1>5 DEF claimed

\* create: a new review in place of the subject's present one, or none.
LEMMA CreatedOnce ==
  ASSUME IInv, NEW in \in Inputs, NEW t \in Token, t \notin issued
  PROVE  LET made == Create(store, in, t, 0)
             own  == {u \in Stored(store) : store.sessions[u].subject = in.subject}
         IN  /\ made.status = "capacity" => Shrunk(made.st) /\ Stored(made.st) = Stored(store)
             /\ made.status # "capacity" =>
                  /\ Settled(made.st, 0, issued \cup {t})
                  /\ Stored(made.st) = (Stored(store) \ own) \cup {t}
                  /\ \A u \in Stored(store) \ own : made.st.sessions[u] = store.sessions[u]
                  /\ made.st.sessions[t].subject = in.subject
                  /\ made.st.sessions[t].expiresAt > 0
                  /\ made.st.sessions[t].intact /\ ~made.st.sessions[t].claimed
                  /\ made.st.sessions[t].nonce = in.nonce
                  /\ made.replaced \in Nonce \cup {NoNonce}
                  /\ \A u \in own : made.replaced = store.sessions[u].nonce
<1> DEFINE made == Create(store, in, t, 0)
           own  == Owned(store, in.subject, 0)
           new  == [subject |-> in.subject, nonce |-> in.nonce, binding |-> in.binding,
                    bytes |-> in.bytes, expiresAt |-> 0 + Lifetime(in),
                    claimed |-> FALSE, intact |-> TRUE]
<1>1. Settled(store, 0, issued) /\ Live(store, 0) = Stored(store) /\ 0 \in Nat
  BY NothingExpired
<1>2. Settled(made.st, 0, IF made.status = "created" THEN issued \cup {t} ELSE issued)
  BY <1>1, CreateReady DEF Ready
<1>3. /\ made.status \in {"created", "capacity"}
      /\ made.status = "created" =>
           /\ Stored(made.st) = (Live(store, 0) \ own) \cup {t}
           /\ \A u \in Live(store, 0) \ own : made.st.sessions[u] = store.sessions[u]
           /\ made.st.sessions[t] = new
           /\ 0 + Lifetime(in) \in (0 + 1)..(0 + TTL)
           /\ \A u \in own : made.replaced = store.sessions[u].nonce
           /\ own = {} => made.replaced = NoNonce
      /\ made.status = "capacity" => LeavesOnly(store, made.st, Live(store, 0))
  <2> HIDE DEF made, own
  <2> QED BY <1>1, CreateLeaves DEF made, own
<1>4. own = {u \in Stored(store) : store.sessions[u].subject = in.subject}
  BY <1>1 DEF Owned
<1>5. made.status = "created" =>
        /\ made.st.sessions[t].subject = in.subject /\ made.st.sessions[t].expiresAt > 0
        /\ made.st.sessions[t].intact /\ ~made.st.sessions[t].claimed
        /\ made.st.sessions[t].nonce = in.nonce
  <2> HIDE DEF made
  <2>1. TTL \in Nat
    BY LimitsAssumption
  <2> HIDE DEF own
  <2> QED BY <1>3, <2>1
<1> HIDE DEF made, own, new
<1>6. made.status = "capacity" => Shrunk(made.st) /\ Stored(made.st) = Stored(store)
  BY <1>1, <1>2, <1>3 DEF LeavesOnly, Shrunk
<1>7. made.status = "created" => made.replaced \in Nonce \cup {NoNonce}
  <2>1. CASE own = {}
    BY <1>3, <2>1
  <2>2. CASE own # {}
    <3>1. PICK u \in own : TRUE
      BY <2>2
    <3>2. u \in Stored(store)
      BY <1>4
    <3> QED BY <1>3, <3>1, <3>2, StoredNonce
  <2> QED BY <2>1, <2>2
<1> QED BY <1>1, <1>2, <1>3, <1>4, <1>5, <1>6, <1>7 DEF made

(***************************************************************************)
(* Steps of no request: clear, expiry, consent and admission.              *)
(***************************************************************************)

\* Reviews may go, and consent and withdrawals may change, as long as the
\* reviews that stay and the requests agree with them.
LEMMA AmbientStep ==
  ASSUME IInv, UNCHANGED <<py, work, req, issued, drawn, known, released, origin>>,
         Shrunk(store'), net' \subseteq Messages,
         consent' \in [Subject -> Consents], epoch' \in [Subject -> Nat],
         admitted' \in BOOLEAN, revision' \in 0..MaxRevision, RequestsSound',
         \A t \in Stored(store') : /\ consent'[origin[t].subject].active
                                   /\ epoch'[origin[t].subject] = origin[t].epoch
  PROVE  IInv'
<1>1. Typed'
  BY DEF IInv, Typed, FastifyTyped, PyTyped, Shrunk
<1>2. (PreparedAlone /\ ClaimedAlone)'
  BY DEF IInv, PreparedAlone, ClaimedAlone, Preparing, Continuing, Shrunk
<1>3. StoredSound'
  BY DEF IInv, StoredSound, Shrunk
<1>4. NoOrphanReview'
  BY DEF IInv, NoOrphanReview, Preparing, Continuing, Shrunk
<1> QED BY <1>1, <1>2, <1>3, <1>4 DEF IInv

\* Consent and epochs agree with the reviews as they are.
LEMMA StoredConsent ==
  ASSUME IInv
  PROVE  /\ consent \in [Subject -> Consents] /\ epoch \in [Subject -> Nat]
         /\ admitted \in BOOLEAN /\ revision \in 0..MaxRevision /\ net \subseteq Messages
         /\ \A t \in Stored(store) : /\ consent[origin[t].subject].active
                                     /\ epoch[origin[t].subject] = origin[t].epoch
                                     /\ origin[t] \in Origins
                                     /\ store.sessions[t].subject = origin[t].subject
BY DEF IInv, Typed, FastifyTyped, StoredSound, Settled, Aborted

\* Shrinking the store disturbs no request.
LEMMA RequestsUndisturbed ==
  ASSUME IInv, UNCHANGED <<req, consent, epoch, revision>>
  PROVE  RequestsSound'
BY DEF IInv, RequestsSound, Sound

\* An owner's clear takes one review at most.
LEMMA ClearReviewKeeps ==
  ASSUME IInv, NEW s \in Subject, NEW t \in Token, ClearReview(s, t)
  PROVE  IInv'
<1> DEFINE cleared == Clear(store, t, s, 0)
<1>1. Shrunk(cleared.st) /\ cleared.nonce \in Nonce \cup {NoNonce}
  BY Cleared
<1>2. store' = cleared.st /\ net' = net \cup ClearInternal({cleared.nonce})
      /\ UNCHANGED <<py, work, consent, admitted, revision, req, issued, drawn, known, released, epoch, origin>>
  BY DEF ClearReview
<1> HIDE DEF cleared
<1>3. net' \subseteq Messages
  <2>1. ClearInternal({cleared.nonce}) \subseteq Messages
    BY <1>1, ClearsTyped
  <2> QED BY <1>2, <2>1, StoredConsent
<1>4. Shrunk(store')
  BY <1>1, <1>2
<1>5. RequestsSound'
  BY <1>2, RequestsUndisturbed
<1>6. Stored(store') \subseteq Stored(store)
  BY <1>4 DEF Shrunk
<1> QED BY <1>2, <1>3, <1>4, <1>5, <1>6, StoredConsent, AmbientStep

\* A deadline takes its review.
LEMMA SessionExpiresKeeps ==
  ASSUME IInv, NEW t \in Token, SessionExpires(t)
  PROVE  IInv'
<1>1. Shrunk(store')
  BY Expired DEF SessionExpires
<1>2. UNCHANGED <<py, work, net, consent, admitted, revision, req, issued, drawn, known, released, epoch, origin>>
  BY DEF SessionExpires
<1>3. RequestsSound'
  BY <1>2, RequestsUndisturbed
<1>4. Stored(store') \subseteq Stored(store)
  BY <1>1 DEF Shrunk
<1> QED BY <1>1, <1>2, <1>3, <1>4, StoredConsent, AmbientStep

\* Admission is a matter of the handlers' checks.
LEMMA AdmissionChangesKeeps ==
  ASSUME IInv, AdmissionChanges
  PROVE  IInv'
<1>1. Shrunk(store) /\ store' = store
  BY NothingExpired DEF Shrunk, AdmissionChanges
<1>2. admitted' = ~admitted
      /\ UNCHANGED <<py, work, net, consent, revision, req, issued, drawn, known, released, epoch, origin>>
  BY DEF AdmissionChanges
<1>3. RequestsSound'
  BY <1>2, RequestsUndisturbed
<1> QED BY <1>1, <1>2, <1>3, StoredConsent, AmbientStep

\* A withdrawal outdates every captured revision, and takes the subject's
\* reviews with it.
LEMMA WithdrawKeeps ==
  ASSUME IInv, NEW s \in Subject, Withdraw(s)
  PROVE  IInv'
<1> DEFINE invalidated == InvalidateSubject(store, s, 0)
           own         == {t \in Stored(store) : store.sessions[t].subject = s}
<1>1. Shrunk(invalidated.st) /\ Stored(invalidated.st) = Stored(store) \ own
      /\ invalidated.nonce \in Nonce \cup {NoNonce}
  BY Invalidated
<1>2. /\ revision < MaxRevision /\ consent' = [consent EXCEPT ![s].active = FALSE]
      /\ revision' = revision + 1 /\ epoch' = [epoch EXCEPT ![s] = @ + 1]
      /\ store' = invalidated.st /\ net' = net \cup ClearInternal({invalidated.nonce})
      /\ UNCHANGED <<py, work, admitted, req, issued, drawn, known, released, origin>>
  BY DEF Withdraw
<1> HIDE DEF invalidated
<1>3. net' \subseteq Messages
  <2>1. ClearInternal({invalidated.nonce}) \subseteq Messages
    BY <1>1, ClearsTyped
  <2> QED BY <1>2, <2>1, StoredConsent
<1>4. /\ revision' \in 0..MaxRevision /\ epoch' \in [Subject -> Nat]
      /\ consent' \in [Subject -> Consents]
  <2>1. MaxRevision \in Nat
    BY ProtocolAssumption
  <2>2. consent[s] \in Consents
    BY StoredConsent
  <2>3. [consent[s] EXCEPT !.active = FALSE] \in Consents
    BY <2>2 DEF Consents
  <2>4. consent' = [consent EXCEPT ![s] = [consent[s] EXCEPT !.active = FALSE]]
    BY <1>2
  <2>5. consent' \in [Subject -> Consents]
    BY <2>3, <2>4, StoredConsent
  <2> QED BY <1>2, <2>1, <2>5, StoredConsent
<1>5. RequestsSound'
  <2> SUFFICES ASSUME NEW r \in Request PROVE Sound(req[r])'
    BY DEF RequestsSound
  <2>1. Sound(req[r]) /\ req' = req
    BY <1>2 DEF IInv, RequestsSound
  <2>2. req[r].at \in Captured => req[r].revision \in Nat
    BY DEF IInv, Typed, FastifyTyped, Requests, Captured, PrepareStages, Idle
  <2>3. revision \in Int
    BY StoredConsent
  <2> QED BY <1>2, <2>1, <2>2, <2>3 DEF Sound
<1>6. ASSUME NEW t \in Stored(store')
      PROVE  consent'[origin[t].subject].active /\ epoch'[origin[t].subject] = origin[t].epoch
  <2>1. t \in Stored(store) /\ store.sessions[t].subject # s
    BY <1>1, <1>2, <1>6
  <2>2. origin[t].subject # s /\ origin[t].subject \in Subject
    BY <2>1, StoredConsent DEF Origins
  <2> QED BY <1>2, <2>1, <2>2, StoredConsent
<1>7. Shrunk(store')
  BY <1>1, <1>2
<1>8. admitted' \in BOOLEAN
  BY <1>2, StoredConsent
<1> QED BY <1>2, <1>3, <1>4, <1>5, <1>6, <1>7, <1>8, AmbientStep

\* A grant makes a record active and ends no epoch.
LEMMA GrantKeeps ==
  ASSUME IInv, NEW s \in Subject, NEW version \in Binding, Grant(s, version)
  PROVE  IInv'
<1>1. /\ consent' = [consent EXCEPT ![s] = [active |-> TRUE, version |-> version]]
      /\ UNCHANGED <<store, py, work, net, admitted, revision, req, issued, drawn, known, released, epoch, origin>>
  BY DEF Grant
<1>2. /\ consent' \in [Subject -> Consents]
      /\ \A u \in Subject : consent[u].active => consent'[u].active
  BY <1>1, StoredConsent DEF Consents
<1>3. RequestsSound'
  <2> SUFFICES ASSUME NEW r \in Request PROVE Sound(req[r])'
    BY DEF RequestsSound
  <2>1. Sound(req[r]) /\ req' = req
    BY <1>1 DEF IInv, RequestsSound
  <2>2. req[r].at \in Captured => req[r].subject \in Subject
    BY DEF IInv, Typed, FastifyTyped, Requests, Captured, PrepareStages, Idle
  <2> QED BY <1>1, <1>2, <2>1, <2>2 DEF Sound
<1>4. \A t \in Stored(store') : /\ consent'[origin[t].subject].active
                                /\ epoch'[origin[t].subject] = origin[t].epoch
  BY <1>1, <1>2, StoredConsent DEF Origins
<1>5. Shrunk(store')
  BY <1>1, NothingExpired DEF Shrunk
<1> QED BY <1>1, <1>2, <1>3, <1>4, <1>5, StoredConsent, AmbientStep

(***************************************************************************)
(* The steps of the handlers.                                              *)
(***************************************************************************)

\* A request that is in flight has a record.
LEMMA Busy ==
  ASSUME IInv, NEW r \in Request, req[r].at # "idle"
  PROVE  req[r] \in Requests /\ Sound(req[r]) /\ req[r].subject \in Subject
<1>1. req[r] \in {Idle} \cup Requests
  BY DEF IInv, Typed, FastifyTyped
<1>2. req[r] # Idle
  BY DEF Idle
<1> QED BY <1>1, <1>2 DEF IInv, RequestsSound, Requests

\* Nothing of the private service changes.
LEMMA PyUndisturbed ==
  ASSUME IInv, UNCHANGED <<py, drawn>>
  PROVE  PyTyped'
BY DEF IInv, Typed, PyTyped

\* A request goes on, or starts, or ends, without a review to answer for.
LEMMA OnwardStep ==
  ASSUME IInv, NEW r \in Request, NEW q \in {Idle} \cup Requests, req' = [req EXCEPT ![r] = q],
         UNCHANGED <<reviews, py, work, drawn>>, net' \subseteq Messages, Sound(q),
         q.at \in Prepared <=> req[r].at \in Prepared,
         q.at \in Claimed <=> req[r].at \in Claimed,
         q.at \in Prepared \cup Claimed =>
           q.token = req[r].token /\ q.subject = req[r].subject /\ q.epoch = req[r].epoch,
         q.at \in ContinueStages => q.token \in known
  PROVE  IInv'
<1>1. Settled(store', 0, issued) /\ released' \in [Token -> Nat] /\ work' \subseteq Analyses
  BY DEF IInv, Typed, FastifyTyped, reviews
<1>2. Moves(r, q)
  BY <1>1, PyUndisturbed DEF Moves, reviews
<1> QED BY <1>2, MoveStep

\* A request that answers for no review ends and leaves the store alone.
LEMMA DoneStep ==
  ASSUME IInv, NEW r \in Request, req[r].at \notin Prepared \cup Claimed, Done(r),
         UNCHANGED <<reviews, py, work, drawn>>, net' \subseteq Messages
  PROVE  IInv'
<1>1. /\ Idle \in {Idle} \cup Requests /\ Sound(Idle)
      /\ Idle.at \notin Prepared \cup Claimed \cup ContinueStages
  BY DEF Idle, Sound, Captured, PrepareStages, Told, Rechecked, Prepared, Claimed, ContinueStages
<1> QED BY <1>1, OnwardStep DEF Done

\* The nonces that clears go out for.
LEMMA ClearsSent ==
  ASSUME IInv, NEW N, N \subseteq Nonce \cup {NoNonce}
  PROVE  net \cup ClearInternal(N) \subseteq Messages
BY ClearsTyped DEF IInv, Typed

\* POST prepare begins.
LEMMA StartPrepareKeeps ==
  ASSUME IInv, NEW r \in Request, NEW s \in Subject, StartPrepare(r, s)
  PROVE  IInv'
<1> DEFINE q == [at |-> "prepare_consent", subject |-> s, seen |-> consent[s],
                 consent |-> consent[s].version, revision |-> 0, epoch |-> 0,
                 nonce |-> NoNonce, token |-> NoToken]
<1>1. consent[s] \in Consents /\ consent[s].version \in Binding
  BY StoredConsent DEF Consents
<1>2. q \in Requests
  BY <1>1 DEF Requests, PrepareStages
<1>3. Sound(q) /\ q.at \notin Prepared \cup Claimed \cup ContinueStages
  BY DEF Sound, Captured, PrepareStages, Told, Rechecked, Prepared, Claimed, ContinueStages
<1>4. /\ req' = [req EXCEPT ![r] = q] /\ UNCHANGED <<reviews, py, work, drawn>> /\ net' \subseteq Messages
      /\ req[r].at \notin Prepared \cup Claimed
  BY StoredConsent DEF StartPrepare, fastify, Idle, Prepared, Claimed
<1> HIDE DEF q
<1> QED BY <1>2, <1>3, <1>4, OnwardStep

\* POST continue begins, with a token that a prepare has answered with.
LEMMA StartContinueKeeps ==
  ASSUME IInv, NEW r \in Request, NEW s \in Subject, NEW t \in Token, StartContinue(r, s, t)
  PROVE  IInv'
<1> DEFINE q == [at |-> "continue_consent", subject |-> s, seen |-> consent[s],
                 consent |-> 0, revision |-> 0, epoch |-> 0,
                 nonce |-> NoNonce, token |-> t]
<1>1. consent[s] \in Consents /\ 0 \in Binding
  BY StoredConsent, ProtocolAssumption DEF Consents
<1>2. q \in Requests
  BY <1>1 DEF Requests, ContinueStages
<1>3. Sound(q) /\ q.at \notin Prepared \cup Claimed
  BY DEF Sound, Captured, PrepareStages, Told, Rechecked, Prepared, Claimed
<1>4. /\ req' = [req EXCEPT ![r] = q] /\ UNCHANGED <<reviews, py, work, drawn>> /\ net' \subseteq Messages
      /\ req[r].at \notin Prepared \cup Claimed /\ q.token \in known
  BY StoredConsent DEF StartContinue, fastify, Idle, Prepared, Claimed
<1> HIDE DEF q
<1> QED BY <1>2, <1>3, <1>4, OnwardStep

\* The call goes out, if privacy admits it.
LEMMA PrepareSendKeeps ==
  ASSUME IInv, NEW r \in Request, PrepareSend(r)
  PROVE  IInv'
<1>1. req[r] \in Requests /\ Sound(req[r]) /\ req[r].at = "prepare_admission"
  BY Busy DEF PrepareSend, fastify
<1>2. req[r].at \notin Prepared \cup Claimed /\ UNCHANGED <<reviews, py, work, drawn>>
  BY <1>1 DEF PrepareSend, fastify, Prepared, Claimed
<1>3. CASE admitted
  <2> DEFINE q == [req[r] EXCEPT !.at = "prepare_call"]
  <2>1. q \in Requests /\ q.at = "prepare_call" /\ q.revision = req[r].revision
        /\ q.subject = req[r].subject /\ q.epoch = req[r].epoch
    BY <1>1 DEF Requests, PrepareStages
  <2>2. req' = [req EXCEPT ![r] = q] /\ net' = net \cup {PrepareCall(r)}
    BY <1>3 DEF PrepareSend, fastify, Goto
  <2>4. PrepareCall(r) \in Messages
    BY DEF PrepareCall, Messages
  <2>5. net' \subseteq Messages
    BY <2>2, <2>4, StoredConsent
  <2> HIDE DEF q
  <2>3. Sound(q) /\ q.at \notin Prepared \cup Claimed \cup ContinueStages
    BY <1>1, <2>1 DEF Sound, Captured, PrepareStages, Told, Rechecked, Prepared, Claimed, ContinueStages
  <2> QED BY <1>2, <2>1, <2>2, <2>3, <2>5, OnwardStep
<1>4. CASE ~admitted
  BY <1>2, <1>4, StoredConsent, DoneStep DEF PrepareSend, fastify
<1> QED BY <1>3, <1>4

\* Headers are in: the nonce becomes known, or the request ends.
LEMMA PrepareHeadersKeeps ==
  ASSUME IInv, NEW r \in Request, NEW m \in net, PrepareHeaders(r, m)
  PROVE  IInv'
<1>1. req[r] \in Requests /\ Sound(req[r]) /\ req[r].at = "prepare_call"
  BY Busy DEF PrepareHeaders, fastify
<1>2. /\ req[r].at \notin Prepared \cup Claimed /\ UNCHANGED <<reviews, py, work, drawn>>
      /\ net' \subseteq Messages
  BY <1>1, StoredConsent DEF PrepareHeaders, fastify, Prepared, Claimed
<1>3. CASE m.kind = "prepared"
  <2> DEFINE q == [req[r] EXCEPT !.at = "prepare_body", !.nonce = m.nonce]
  <2>1. m.nonce \in Nonce
    BY <1>3, StoredConsent DEF Messages
  <2>2. q \in Requests /\ q.at = "prepare_body" /\ q.revision = req[r].revision /\ q.nonce \in Nonce
        /\ q.subject = req[r].subject /\ q.epoch = req[r].epoch
    BY <1>1, <2>1 DEF Requests, PrepareStages
  <2>3. req' = [req EXCEPT ![r] = q]
    BY <1>3 DEF PrepareHeaders, fastify
  <2> HIDE DEF q
  <2>4. Sound(q) /\ q.at \notin Prepared \cup Claimed \cup ContinueStages
    BY <1>1, <2>2 DEF Sound, Captured, PrepareStages, Told, Rechecked, Prepared, Claimed, ContinueStages
  <2> QED BY <1>2, <2>2, <2>3, <2>4, OnwardStep
<1>4. CASE m.kind # "prepared"
  BY <1>2, <1>4, DoneStep DEF PrepareHeaders, fastify
<1> QED BY <1>3, <1>4

\* Consent is read again after the body.
LEMMA PrepareBodyKeeps ==
  ASSUME IInv, NEW r \in Request, PrepareBody(r)
  PROVE  IInv'
<1> DEFINE q == [req[r] EXCEPT !.at = "prepare_recheck", !.seen = consent[req[r].subject]]
<1>1. req[r] \in Requests /\ Sound(req[r]) /\ req[r].at = "prepare_body" /\ req[r].subject \in Subject
  BY Busy DEF PrepareBody
<1>2. /\ req[r].at \notin Prepared \cup Claimed /\ UNCHANGED <<reviews, py, work, drawn>>
      /\ net' \subseteq Messages
  BY <1>1, StoredConsent DEF PrepareBody, Prepared, Claimed
<1>3. CASE Done(r)
  BY <1>2, <1>3, DoneStep
<1>4. CASE req' = [req EXCEPT ![r] = q]
  <2>1. consent[req[r].subject] \in Consents
    BY <1>1, StoredConsent
  <2>2. /\ q \in Requests /\ q.at = "prepare_recheck" /\ q.revision = req[r].revision
        /\ q.nonce = req[r].nonce /\ q.subject = req[r].subject /\ q.epoch = req[r].epoch
        /\ q.seen = consent[req[r].subject]
    BY <1>1, <2>1 DEF Requests, PrepareStages
  <2> HIDE DEF q
  <2>3. Sound(q) /\ q.at \notin Prepared \cup Claimed \cup ContinueStages
    BY <1>1, <2>2 DEF Sound, Captured, PrepareStages, Told, Rechecked, Prepared, Claimed, ContinueStages
  <2> QED BY <1>2, <1>4, <2>2, <2>3, OnwardStep
<1> QED BY <1>3, <1>4 DEF PrepareBody

\* Consent is read once more after the review is created.
LEMMA PrepareFinalConsentKeeps ==
  ASSUME IInv, NEW r \in Request, PrepareFinalConsent(r)
  PROVE  IInv'
<1> DEFINE q == [req[r] EXCEPT !.at = "prepare_final", !.seen = consent[req[r].subject]]
<1>1. req[r] \in Requests /\ Sound(req[r]) /\ req[r].at = "prepare_created" /\ req[r].subject \in Subject
  BY Busy DEF PrepareFinalConsent, fastify
<1>2. /\ req[r].at \in Prepared \ Claimed /\ UNCHANGED <<reviews, py, work, drawn>>
      /\ net' \subseteq Messages /\ req' = [req EXCEPT ![r] = q]
  BY <1>1, StoredConsent DEF PrepareFinalConsent, fastify, Prepared, Claimed
<1>3. consent[req[r].subject] \in Consents
  BY <1>1, StoredConsent
<1>4. /\ q \in Requests /\ q.at = "prepare_final" /\ q.revision = req[r].revision
      /\ q.nonce = req[r].nonce /\ q.subject = req[r].subject /\ q.epoch = req[r].epoch
      /\ q.seen = consent[req[r].subject] /\ q.token = req[r].token
  BY <1>1, <1>3 DEF Requests, PrepareStages
<1> HIDE DEF q
<1>5. Sound(q) /\ q.at \in Prepared /\ q.at \notin Claimed \cup ContinueStages
  BY <1>1, <1>4 DEF Sound, Captured, PrepareStages, Told, Rechecked, Prepared, Claimed, ContinueStages
<1> QED BY <1>2, <1>4, <1>5, OnwardStep

\* The review the subject had goes, and the revision is captured.
LEMMA PrepareInvalidateKeeps ==
  ASSUME IInv, NEW r \in Request, PrepareInvalidate(r)
  PROVE  IInv'
<1> DEFINE s == req[r].subject
           invalidated == InvalidateSubject(store, s, 0)
<1>1. req[r] \in Requests /\ Sound(req[r]) /\ req[r].at = "prepare_consent" /\ s \in Subject
  BY Busy DEF PrepareInvalidate
<1>2. UNCHANGED <<py, work, consent, admitted, revision, issued, drawn, known, released, epoch, origin>>
  BY DEF PrepareInvalidate
<1>3. req[r].at \notin Prepared \cup Claimed
  BY <1>1 DEF Prepared, Claimed
<1>4. CASE ~req[r].seen.active
  <2>1. Done(r) /\ UNCHANGED <<reviews, py, work, drawn>> /\ net' \subseteq Messages
    BY <1>2, <1>4, StoredConsent DEF PrepareInvalidate, reviews
  <2> QED BY <1>3, <2>1, DoneStep
<1>5. CASE req[r].seen.active
  <2> DEFINE q == [req[r] EXCEPT !.at = "prepare_admission", !.revision = revision, !.epoch = epoch[s]]
  <2>1. Shrunk(invalidated.st) /\ invalidated.nonce \in Nonce \cup {NoNonce}
    BY Invalidated
  <2>2. /\ store' = invalidated.st /\ net' = net \cup ClearInternal({invalidated.nonce})
        /\ req' = [req EXCEPT ![r] = q]
    BY <1>5 DEF PrepareInvalidate
  <2> HIDE DEF invalidated
  <2>3. net' \subseteq Messages
    BY <2>1, <2>2, ClearsSent
  <2>4. revision \in Nat /\ epoch[s] \in Nat /\ epoch \in [Subject -> Nat]
    BY <1>1, StoredConsent, ProtocolAssumption
  <2>5. /\ q \in Requests /\ q.at = "prepare_admission" /\ q.revision = revision
        /\ q.subject = s /\ q.epoch = epoch[s]
    BY <1>1, <2>4 DEF Requests, PrepareStages
  <2> HIDE DEF q
  <2>6. Sound(q) /\ q.at \notin Prepared \cup Claimed \cup ContinueStages
    BY <2>4, <2>5 DEF Sound, Captured, PrepareStages, Told, Rechecked, Prepared, Claimed, ContinueStages
  <2>7. Moves(r, q)
    <3>1. released' \in [Token -> Nat] /\ work' \subseteq Analyses /\ PyTyped'
      BY <1>2, PyUndisturbed DEF IInv, Typed, FastifyTyped
    <3> QED BY <1>2, <1>3, <2>1, <2>2, <2>3, <2>5, <2>6, <3>1 DEF Moves, Shrunk
  <2> QED BY <2>7, MoveStep
<1> QED BY <1>4, <1>5

\* A request ends with its review consumed, whoever it was for.
LEMMA EndStep ==
  ASSUME IInv, NEW r \in Request, Done(r), Shrunk(store'),
         UNCHANGED <<py, consent, admitted, revision, issued, drawn, epoch, origin>>,
         net' \subseteq Messages, work' \subseteq Analyses,
         req[r].at \in Prepared \cup Claimed =>
           req[r].token \notin Stored(store') \/ (req[r].at \notin Claimed /\ req[r].token \in known'),
         known \subseteq known', \A t \in known' \ known : req[r].at \in Prepared /\ t = req[r].token,
         released' \in [Token -> Nat],
         \A t \in Token : released'[t] # released[t] => req[r].at \in Claimed /\ t = req[r].token
  PROVE  IInv'
<1>1. /\ Sound(Idle) /\ Idle.at \notin Prepared \cup Claimed \cup ContinueStages
  BY DEF Idle, Sound, Captured, PrepareStages, Told, Rechecked, Prepared, Claimed, ContinueStages
<1>2. Moves(r, Idle)
  BY <1>1, PyUndisturbed DEF Moves, Done, Shrunk
<1> QED BY <1>2, MoveStep

\* The token goes out, or the review is consumed.
LEMMA PrepareReleaseKeeps ==
  ASSUME IInv, NEW r \in Request, PrepareRelease(r)
  PROVE  IInv'
<1> DEFINE consumed == Consume(store, req[r].token, 0)
<1>1. req[r] \in Requests /\ Sound(req[r]) /\ req[r].at = "prepare_final"
  BY Busy DEF PrepareRelease
<1>2. /\ Done(r) /\ UNCHANGED <<py, work, consent, admitted, revision, issued, drawn, released, epoch, origin>>
      /\ released' \in [Token -> Nat] /\ work' \subseteq Analyses
  BY DEF PrepareRelease, IInv, Typed, FastifyTyped
<1>3. req[r].at \in Prepared \ Claimed /\ req[r].nonce \in Nonce
  BY <1>1 DEF Prepared, Claimed, Sound, Told, Rechecked
<1>4. CASE StillConsented(r) /\ admitted
  <2>1. known' = known \cup {req[r].token} /\ store' = store /\ net' = net
    BY <1>4 DEF PrepareRelease
  <2>2. Shrunk(store')
    BY <2>1, NothingExpired DEF Shrunk
  <2> QED BY <1>2, <1>3, <2>1, <2>2, StoredConsent, EndStep
<1>5. CASE ~(StillConsented(r) /\ admitted)
  <2>1. Shrunk(consumed.st) /\ Stored(consumed.st) = Stored(store) \ {req[r].token}
        /\ consumed.nonce \in Nonce \cup {NoNonce}
    BY Consumed
  <2>2. store' = consumed.st /\ net' = net \cup ClearInternal({consumed.nonce, req[r].nonce})
        /\ known' = known
    BY <1>5 DEF PrepareRelease
  <2> HIDE DEF consumed
  <2>3. net' \subseteq Messages
    BY <1>3, <2>1, <2>2, ClearsSent
  <2>4. Shrunk(store') /\ req[r].token \notin Stored(store')
    BY <2>1, <2>2
  <2> QED BY <1>2, <1>3, <2>2, <2>3, <2>4, EndStep
<1> QED BY <1>4, <1>5

\* The finally clause of a continue request that has claimed its review.
LEMMA EndContinueKeeps ==
  ASSUME IInv, NEW r \in Request, req[r].at \in Claimed, EndContinue(r), UNCHANGED <<py, drawn>>,
         net' \subseteq Messages, work' \subseteq Analyses, released' \in [Token -> Nat],
         \A t \in Token : released'[t] # released[t] => t = req[r].token
  PROVE  IInv'
<1> DEFINE consumed == Consume(store, req[r].token, 0)
<1>1. Shrunk(consumed.st) /\ Stored(consumed.st) = Stored(store) \ {req[r].token}
  BY Consumed
<1>2. /\ store' = consumed.st /\ Done(r)
      /\ UNCHANGED <<consent, admitted, revision, issued, known, epoch, origin>>
  BY DEF EndContinue
<1> HIDE DEF consumed
<1>3. Shrunk(store') /\ req[r].token \notin Stored(store')
  BY <1>1, <1>2
<1>4. req[r].at \notin Prepared
  BY DEF Claimed, Prepared
<1> QED BY <1>2, <1>3, <1>4, EndStep

\* The call that a caller gave up is no longer awaited.
LEMMA AbandonedTyped ==
  ASSUME IInv, NEW r
  PROVE  Abandoned(r, net) \subseteq Messages /\ AbandonedWork(r) \subseteq Analyses
<1>1. net \subseteq Messages /\ work \subseteq Analyses
  BY DEF IInv, Typed
<1>2. ASSUME NEW m \in net, m.kind \in Calls
      PROVE  [m EXCEPT !.awaited = FALSE] \in Messages
  <2>1. CASE m \in [kind : {"prepare"}, req : Request, awaited : BOOLEAN]
    <3>1. [m EXCEPT !.awaited = FALSE] \in [kind : {"prepare"}, req : Request, awaited : BOOLEAN]
      BY <2>1
    <3> QED BY <3>1 DEF Messages
  <2>2. CASE m \in [kind : {"continue"}, req : Request, nonce : Nonce, awaited : BOOLEAN]
    <3>1. [m EXCEPT !.awaited = FALSE]
            \in [kind : {"continue"}, req : Request, nonce : Nonce, awaited : BOOLEAN]
      BY <2>2
    <3> QED BY <3>1 DEF Messages
  <2> QED BY <1>1, <1>2, <2>1, <2>2 DEF Messages, Calls
<1>3. Abandoned(r, net) \subseteq Messages
  BY <1>1, <1>2 DEF Abandoned
<1>4. ASSUME NEW j \in work
      PROVE  [j EXCEPT !.awaited = FALSE] \in Analyses
  BY <1>1, <1>4 DEF Analyses
<1>5. AbandonedWork(r) \subseteq Analyses
  BY <1>1, <1>4 DEF AbandonedWork
<1> QED BY <1>3, <1>5

\* The analysis is on its way, or the service refused.
LEMMA ContinueHeadersKeeps ==
  ASSUME IInv, NEW r \in Request, NEW m \in net, ContinueHeaders(r, m)
  PROVE  IInv'
<1>1. req[r] \in Requests /\ Sound(req[r]) /\ req[r].at = "continue_call"
  BY Busy DEF ContinueHeaders
<1>2. /\ req[r].at \in Claimed \ Prepared /\ req[r].nonce \in Nonce /\ UNCHANGED <<py, work, drawn, released>>
      /\ work' \subseteq Analyses /\ released' \in [Token -> Nat]
  BY <1>1 DEF ContinueHeaders, Prepared, Claimed, Sound, Told, IInv, Typed, FastifyTyped
<1>3. CASE m.kind = "analysed"
  <2> DEFINE q == [req[r] EXCEPT !.at = "continue_body"]
  <2>1. /\ q \in Requests /\ q.at = "continue_body" /\ q.nonce = req[r].nonce
        /\ q.subject = req[r].subject /\ q.epoch = req[r].epoch /\ q.token = req[r].token
    BY <1>1 DEF Requests, ContinueStages
  <2>2. req' = [req EXCEPT ![r] = q] /\ net' \subseteq Messages /\ UNCHANGED reviews
    BY <1>2, <1>3, StoredConsent DEF ContinueHeaders, Goto, reviews
  <2> HIDE DEF q
  <2>3. Sound(q) /\ q.at \in Claimed \ Prepared
    BY <1>2, <2>1 DEF Sound, Captured, PrepareStages, Prepared, Claimed
  <2>4. q.token \in known
    BY <1>1, <2>1 DEF IInv, ClaimedAlone, ContinueStages
  <2> QED BY <1>2, <2>1, <2>2, <2>3, <2>4, OnwardStep
<1>4. CASE m.kind # "analysed"
  <2>1. net' = (net \ {m}) \cup ClearInternal({req[r].nonce}) /\ EndContinue(r)
    BY <1>4 DEF ContinueHeaders
  <2>2. net' \subseteq Messages
    <3>1. net \cup ClearInternal({req[r].nonce}) \subseteq Messages
      BY <1>2, ClearsSent
    <3> QED BY <2>1, <3>1
  <2> QED BY <1>2, <2>1, <2>2, EndContinueKeeps
<1> QED BY <1>3, <1>4

\* After the body: the signal, admission, and consent read again.
LEMMA ContinueBodyKeeps ==
  ASSUME IInv, NEW r \in Request, ContinueBody(r)
  PROVE  IInv'
<1>1. req[r] \in Requests /\ Sound(req[r]) /\ req[r].at = "continue_body" /\ req[r].subject \in Subject
  BY Busy DEF ContinueBody
<1>2. /\ req[r].at \in Claimed \ Prepared /\ req[r].nonce \in Nonce /\ UNCHANGED <<py, work, drawn, released>>
      /\ work' \subseteq Analyses /\ released' \in [Token -> Nat]
  BY <1>1 DEF ContinueBody, Prepared, Claimed, Sound, Told, IInv, Typed, FastifyTyped
<1>3. CASE /\ req' = [req EXCEPT ![r] = [@ EXCEPT !.at = "continue_recheck", !.seen = consent[req[r].subject]]]
            /\ UNCHANGED <<store, net, consent, admitted, revision, issued, known, epoch, origin, unaccepted>>
  <2> DEFINE q == [req[r] EXCEPT !.at = "continue_recheck", !.seen = consent[req[r].subject]]
  <2>0. consent[req[r].subject] \in Consents
    BY <1>1, StoredConsent
  <2>1. /\ q \in Requests /\ q.at = "continue_recheck" /\ q.nonce = req[r].nonce
        /\ q.subject = req[r].subject /\ q.epoch = req[r].epoch /\ q.token = req[r].token
    BY <1>1, <2>0 DEF Requests, ContinueStages
  <2>2. req' = [req EXCEPT ![r] = q] /\ net' \subseteq Messages /\ UNCHANGED reviews
    BY <1>2, <1>3, StoredConsent DEF reviews
  <2> HIDE DEF q
  <2>3. Sound(q) /\ q.at \in Claimed \ Prepared
    BY <1>2, <2>1 DEF Sound, Captured, PrepareStages, Prepared, Claimed
  <2>4. q.token \in known
    BY <1>1, <2>1 DEF IInv, ClaimedAlone, ContinueStages
  <2> QED BY <1>2, <2>1, <2>2, <2>3, <2>4, OnwardStep
<1>4. CASE net' = net \cup ClearInternal({req[r].nonce}) /\ EndContinue(r)
  <2>1. net' \subseteq Messages
    BY <1>2, <1>4, ClearsSent
  <2> QED BY <1>2, <1>4, <2>1, EndContinueKeeps
<1> QED BY <1>3, <1>4 DEF ContinueBody

\* The analysis goes out, or does not, and the review is consumed.
LEMMA ContinueReleaseKeeps ==
  ASSUME IInv, NEW r \in Request, ContinueRelease(r)
  PROVE  IInv'
<1>1. req[r] \in Requests /\ Sound(req[r]) /\ req[r].at = "continue_recheck"
  BY Busy DEF ContinueRelease
<1>2. /\ req[r].at \in Claimed /\ req[r].nonce \in Nonce /\ UNCHANGED <<py, work, drawn>>
      /\ work' \subseteq Analyses /\ released \in [Token -> Nat] /\ EndContinue(r)
  BY <1>1 DEF ContinueRelease, Claimed, Sound, Told, IInv, Typed, FastifyTyped
<1>3. net' \subseteq Messages
  BY <1>2, ClearsSent DEF ContinueRelease
<1>4. released' = released \/ released' = [released EXCEPT ![req[r].token] = @ + 1]
  BY DEF ContinueRelease
<1>5. released' \in [Token -> Nat] /\ \A t \in Token : released'[t] # released[t] => t = req[r].token
  BY <1>2, <1>4
<1> QED BY <1>2, <1>3, <1>5, EndContinueKeeps

\* A prepare request gives its call up.
LEMMA PrepareGivesUpKeeps ==
  ASSUME IInv, NEW r \in Request, PrepareGivesUp(r)
  PROVE  IInv'
<1>1. req[r].at \notin Prepared \cup Claimed /\ UNCHANGED <<reviews, py, work, drawn>> /\ Done(r)
  BY DEF PrepareGivesUp, fastify, Prepared, Claimed
<1>2. net' \subseteq Messages
  BY AbandonedTyped DEF PrepareGivesUp, fastify
<1> QED BY <1>1, <1>2, DoneStep

\* A continue request gives its call up.
LEMMA ContinueGivesUpKeeps ==
  ASSUME IInv, NEW r \in Request, ContinueGivesUp(r)
  PROVE  IInv'
<1>1. req[r] \in Requests /\ Sound(req[r]) /\ req[r].at = "continue_call"
  BY Busy DEF ContinueGivesUp
<1>2. /\ req[r].at \in Claimed /\ req[r].nonce \in Nonce /\ UNCHANGED <<py, drawn, released>>
      /\ released \in [Token -> Nat] /\ EndContinue(r)
  BY <1>1 DEF ContinueGivesUp, Claimed, Sound, Told, IInv, Typed, FastifyTyped
<1>3. net' \subseteq Messages /\ work' \subseteq Analyses
  <2>1. Abandoned(r, net) \subseteq Messages /\ AbandonedWork(r) \subseteq Analyses
    BY AbandonedTyped
  <2>2. ClearInternal({req[r].nonce}) \subseteq Messages
    BY <1>2, ClearsTyped
  <2> QED BY <2>1, <2>2 DEF ContinueGivesUp
<1> QED BY <1>2, <1>3, EndContinueKeeps

\* A review is claimed for the one request that will work on it.
LEMMA ClaimStep ==
  ASSUME IInv, NEW r \in Request, req[r].at = "continue_consent", NEW t, t = req[r].token,
         NEW q \in Requests, q.at = "continue_call", q.nonce \in Nonce, q.token = t,
         q.subject = req[r].subject, req' = [req EXCEPT ![r] = q],
         Settled(store', 0, issued), t \in Stored(store), Stored(store') = Stored(store),
         store.sessions[t].subject = req[r].subject, ~store.sessions[t].claimed,
         store'.sessions[t] = [store.sessions[t] EXCEPT !.claimed = TRUE],
         \A u \in Stored(store) \ {t} : store'.sessions[u] = store.sessions[u],
         UNCHANGED <<py, work, consent, admitted, revision, issued, drawn, known, released, epoch, origin>>,
         net' \subseteq Messages
  PROVE  IInv'
<1>0. req \in [Request -> {Idle} \cup Requests] /\ store.sessions \in [Stored(store) -> Session]
  BY DEF IInv, Typed, FastifyTyped, Settled, StoreShape
<1>1. req'[r] = q /\ \A p \in Request \ {r} : req'[p] = req[p]
  BY <1>0
<1>2. Typed'
  <2>1. req' \in [Request -> {Idle} \cup Requests]
    BY <1>0
  <2> QED BY <2>1 DEF IInv, Typed, FastifyTyped, PyTyped
<1>3. q.at \notin Captured \cup Prepared /\ q.at \in ContinueStages /\ t \in known
  BY DEF Captured, PrepareStages, Prepared, ContinueStages, IInv, ClaimedAlone
<1>4. RequestsSound'
  <2> SUFFICES ASSUME NEW p \in Request PROVE Sound(req[p])'
    BY DEF RequestsSound
  <2>1. CASE p = r
    BY <1>1, <1>3, <2>1 DEF Sound
  <2>2. CASE p # r
    BY <1>1, <2>2 DEF IInv, RequestsSound, Sound
  <2> QED BY <2>1, <2>2
<1>5. PreparedAlone'
  BY <1>1, <1>3 DEF IInv, PreparedAlone, Preparing, Prepared
<1>6. store'.sessions[t].claimed /\ \A u \in Stored(store') : store.sessions[u].claimed => store'.sessions[u].claimed
  <2>1. store.sessions[t] \in Session
    BY <1>0
  <2>2. store'.sessions[t].claimed
    BY <2>1 DEF Session
  <2> QED BY <2>2
<1>7. ClaimedAlone'
  <2>1. \A p \in Request : req'[p].at \in ContinueStages => req'[p].token \in known'
    BY <1>1, <1>3 DEF IInv, ClaimedAlone
  <2>2. \A p \in Request \ {r} : req[p].at \in Claimed => req[p].token # t
    BY DEF IInv, ClaimedAlone, Continuing, Claimed
  <2>3. origin[t].subject = q.subject /\ released[t] = 0
    BY DEF IInv, StoredSound
  <2>4. \A p \in Request \ {r} : req[p].at \in Claimed =>
          /\ origin[req[p].token].subject = req[p].subject
          /\ released[req[p].token] = 0
          /\ req[p].token \in Stored(store) => store.sessions[req[p].token].claimed
          /\ \A o \in Request \ {p} : req[o].at \in Claimed => req[o].token # req[p].token
    BY DEF IInv, ClaimedAlone, Continuing, Claimed
  <2>5. ASSUME NEW p \in Request, req'[p].at \in Claimed
        PROVE  /\ origin[req'[p].token].subject = req'[p].subject
               /\ released[req'[p].token] = 0
               /\ req'[p].token \in Stored(store') => store'.sessions[req'[p].token].claimed
               /\ \A o \in Request \ {p} : req'[o].at \in Claimed => req'[o].token # req'[p].token
    <3>1. CASE p = r
      <4>1. req'[p] = q /\ q.token = t
        BY <1>1, <3>1
      <4>2. \A o \in Request \ {p} : req'[o].at \in Claimed => req'[o].token # t
        BY <1>1, <2>2, <3>1
      <4> QED BY <1>6, <2>3, <4>1, <4>2
    <3>2. CASE p # r
      <4>1. req'[p] = req[p] /\ req[p].at \in Claimed
        BY <1>1, <2>5, <3>2
      <4>2. \A o \in Request \ {p} : req'[o].at \in Claimed => req'[o].token # req[p].token
        BY <1>1, <2>2, <2>4, <3>2, <4>1
      <4> QED BY <1>6, <2>4, <3>2, <4>1, <4>2
    <3> QED BY <3>1, <3>2
  <2> QED BY <2>1, <2>5 DEF ClaimedAlone, Continuing, Claimed
<1>8. StoredSound'
  <2>1. ASSUME NEW u \in Stored(store')
        PROVE  /\ store'.sessions[u].subject = store.sessions[u].subject
               /\ store'.sessions[u].expiresAt = store.sessions[u].expiresAt
               /\ store'.sessions[u].intact = store.sessions[u].intact
               /\ store'.sessions[u].claimed => store.sessions[u].claimed \/ u = t
    BY <1>0, <2>1 DEF Session
  <2> QED BY <1>3, <2>1 DEF IInv, StoredSound
<1>9. NoOrphanReview'
  <2> SUFFICES ASSUME NEW u \in Stored(store')
               PROVE  IF store'.sessions[u].claimed
                      THEN \E p \in Request : req'[p].at \in Claimed /\ req'[p].token = u
                      ELSE u \in known' \/ \E p \in Request : req'[p].at \in Prepared /\ req'[p].token = u
    BY DEF NoOrphanReview, Continuing, Preparing, Claimed, Prepared
  <2>1. CASE u = t
    BY <1>1, <1>6, <2>1 DEF Claimed
  <2>2. CASE u # t
    <3>1. store'.sessions[u] = store.sessions[u]
      BY <2>2
    <3>2. IF store.sessions[u].claimed
          THEN \E p \in Request : req[p].at \in Claimed /\ req[p].token = u
          ELSE u \in known \/ \E p \in Request : req[p].at \in Prepared /\ req[p].token = u
      BY DEF IInv, NoOrphanReview, Continuing, Preparing, Claimed, Prepared
    <3>3. \A p \in Request : req[p].at \in Claimed \cup Prepared => req'[p] = req[p]
      BY <1>1 DEF Claimed, Prepared
    <3> QED BY <3>1, <3>2, <3>3
  <2> QED BY <2>1, <2>2
<1> QED BY <1>2, <1>4, <1>5, <1>7, <1>8, <1>9 DEF IInv

\* A review is claimed, or its subject's is invalidated, or it is consumed.
LEMMA ContinueClaimKeeps ==
  ASSUME IInv, NEW r \in Request, ContinueClaim(r)
  PROVE  IInv'
<1> DEFINE s == req[r].subject
           t == req[r].token
           claimed == Claim(store, t, s, 0)
           session == claimed.st.sessions[t]
           invalidated == InvalidateSubject(store, s, 0)
           rest == Consume(claimed.st, t, 0)
<1>1. req[r] \in Requests /\ Sound(req[r]) /\ req[r].at = "continue_consent"
  BY Busy DEF ContinueClaim
<1>2. /\ UNCHANGED <<py, work, consent, admitted, revision, issued, drawn, known, released, epoch, origin>>
      /\ released' \in [Token -> Nat] /\ work' \subseteq Analyses
      /\ req[r].at \notin Prepared \cup Claimed
  BY <1>1 DEF ContinueClaim, IInv, Typed, FastifyTyped, Prepared, Claimed
<1>3. /\ Settled(claimed.st, 0, issued)
      /\ claimed.status # "ok" => Shrunk(claimed.st) /\ Stored(claimed.st) = Stored(store)
      /\ claimed.status = "ok" =>
           /\ t \in Stored(store) /\ Stored(claimed.st) = Stored(store)
           /\ store.sessions[t].subject = s /\ ~store.sessions[t].claimed
           /\ claimed.st.sessions[t] = [store.sessions[t] EXCEPT !.claimed = TRUE]
           /\ \A u \in Stored(store) \ {t} : claimed.st.sessions[u] = store.sessions[u]
  <2> HIDE DEF t, s, session, invalidated, rest, claimed
  <2> QED BY ClaimedOnce, Z3 DEF claimed
<1>4. CASE ~req[r].seen.active
  <2>1. Shrunk(invalidated.st) /\ invalidated.nonce \in Nonce \cup {NoNonce}
    BY Invalidated
  <2>2. Done(r) /\ store' = invalidated.st /\ net' = net \cup ClearInternal({invalidated.nonce})
    BY <1>4 DEF ContinueClaim
  <2> HIDE DEF invalidated
  <2>3. net' \subseteq Messages
    BY <2>1, <2>2, ClearsSent
  <2> QED BY <1>2, <2>1, <2>2, <2>3, EndStep
<1>5. CASE req[r].seen.active /\ claimed.status # "ok"
  <2>1. Done(r) /\ store' = claimed.st /\ net' = net
    BY <1>5 DEF ContinueClaim
  <2>2. Shrunk(store')
    BY <1>3, <1>5, <2>1
  <2> QED BY <1>2, <2>1, <2>2, StoredConsent, EndStep
<1>6. CASE req[r].seen.active /\ claimed.status = "ok"
  <2>1. store.sessions[t] \in Session
    BY <1>3, <1>6 DEF IInv, Typed, FastifyTyped, Settled, StoreShape
  <2>2. session.nonce \in Nonce /\ session.binding \in Binding
    <3> HIDE DEF claimed
    <3> QED BY <1>3, <1>6, <2>1 DEF Session
  <2>3. CASE session.binding # req[r].seen.version \/ ~admitted
    <3>1. Done(r) /\ store' = rest.st /\ net' = net \cup ClearInternal({session.nonce})
      BY <1>6, <2>3 DEF ContinueClaim
    <3>2. /\ Settled(rest.st, 0, issued)
          /\ LeavesOnly(claimed.st, rest.st, Live(claimed.st, 0) \ {t})
      <4> HIDE DEF claimed
      <4> QED BY <1>3, ConsumeReady, ConsumeLeaves DEF Ready
    <3>3. \A u \in Live(claimed.st, 0) \ {t} : claimed.st.sessions[u] = store.sessions[u] /\ u \in Stored(store)
      <4> HIDE DEF claimed
      <4> QED BY <1>3, <1>6 DEF Live
    <3>4. net' \subseteq Messages
      BY <2>2, <3>1, ClearsSent
    <3> HIDE DEF rest, claimed, session, t, s
    <3>5. Shrunk(store')
      BY <3>1, <3>2, <3>3 DEF Shrunk, LeavesOnly
    <3> QED BY <1>2, <3>1, <3>4, <3>5, EndStep
  <2>4. CASE ~(session.binding # req[r].seen.version \/ ~admitted)
    <3> DEFINE q == [req[r] EXCEPT !.at = "continue_call", !.nonce = session.nonce,
                                   !.consent = session.binding]
    <3>1. /\ store' = claimed.st /\ net' = net \cup {ContinueCall(r, session.nonce)}
          /\ req' = [req EXCEPT ![r] = q]
      BY <1>6, <2>4 DEF ContinueClaim
    <3> HIDE DEF claimed
    <3>2. ContinueCall(r, session.nonce) \in Messages
      BY <2>2 DEF ContinueCall, Messages
    <3>3. net' \subseteq Messages
      BY <3>1, <3>2, StoredConsent
    <3>4. /\ q \in Requests /\ q.at = "continue_call" /\ q.nonce \in Nonce /\ q.token = t
          /\ q.subject = req[r].subject
      <4> HIDE DEF session
      <4> QED BY <1>1, <2>2 DEF Requests, ContinueStages
    <3> HIDE DEF q, session, t
    <3> QED BY <1>1, <1>2, <1>3, <1>6, <3>1, <3>3, <3>4, ClaimStep DEF t
  <2> HIDE DEF t, s, claimed, session, invalidated, rest
  <2> QED BY <2>3, <2>4
<1> HIDE DEF t, s, claimed, session, invalidated, rest
<1> QED BY <1>4, <1>5, <1>6

\* A review is created under a new token, for a request that has just seen
\* that nothing was withdrawn.
LEMMA IssueStep ==
  ASSUME IInv, NEW r \in Request, req[r].at = "prepare_recheck", NEW t \in Token, t \notin issued,
         NEW q \in Requests, q.at = "prepare_created", q.token = t, Sound(q),
         q.subject = req[r].subject, q.epoch = req[r].epoch, req' = [req EXCEPT ![r] = q],
         consent[q.subject].active, epoch[q.subject] = q.epoch,
         Settled(store', 0, issued \cup {t}),
         Stored(store') \subseteq Stored(store) \cup {t},
         \A u \in Stored(store') \ {t} : store'.sessions[u] = store.sessions[u],
         store'.sessions[t].subject = q.subject, store'.sessions[t].expiresAt > 0,
         store'.sessions[t].intact, ~store'.sessions[t].claimed,
         issued' = issued \cup {t},
         origin' = Put(origin, t, [subject |-> q.subject, epoch |-> q.epoch]),
         UNCHANGED <<py, work, consent, admitted, revision, drawn, known, released, epoch>>,
         net' \subseteq Messages
  PROVE  IInv'
<1>0. /\ req \in [Request -> {Idle} \cup Requests] /\ issued \subseteq Token /\ known \subseteq issued
      /\ origin \in [issued -> Origins] /\ Stored(store) \subseteq issued
      /\ released \in [Token -> Nat]
  BY DEF IInv, Typed, FastifyTyped, Settled, Aborted
<1>1. req'[r] = q /\ \A p \in Request \ {r} : req'[p] = req[p]
  BY <1>0
<1>2. /\ origin' \in [issued' -> Origins] /\ origin'[t] = [subject |-> q.subject, epoch |-> q.epoch]
      /\ \A u \in issued : origin'[u] = origin[u]
  <2>1. [subject |-> q.subject, epoch |-> q.epoch] \in Origins
    BY DEF Requests, Origins
  <2>2. origin' = [u \in issued \cup {t} |->
                     IF u = t THEN [subject |-> q.subject, epoch |-> q.epoch] ELSE origin[u]]
    BY <1>0 DEF Put
  <2> QED BY <1>0, <2>1, <2>2
<1>3. Typed'
  <2>1. req' \in [Request -> {Idle} \cup Requests]
    BY <1>0
  <2> QED BY <1>0, <1>2, <2>1 DEF IInv, Typed, FastifyTyped, PyTyped
<1>4. RequestsSound'
  <2> SUFFICES ASSUME NEW p \in Request PROVE Sound(req[p])'
    BY DEF RequestsSound
  <2>1. CASE p = r
    BY <1>1, <2>1 DEF Sound
  <2>2. CASE p # r
    BY <1>1, <2>2 DEF IInv, RequestsSound, Sound
  <2> QED BY <2>1, <2>2
<1>5. PreparedAlone'
  <2>1. \A p \in Request : req[p].at \in Prepared =>
          /\ req[p].token \in issued \ known
          /\ origin[req[p].token] = [subject |-> req[p].subject, epoch |-> req[p].epoch]
          /\ \A o \in Request \ {p} : req[o].at \in Prepared => req[o].token # req[p].token
    BY DEF IInv, PreparedAlone, Preparing, Prepared
  <2>2. \A p \in Request : req'[p].at \in Prepared =>
          \/ p = r /\ req'[p] = q
          \/ p # r /\ req'[p] = req[p] /\ req[p].at \in Prepared /\ req[p].token # t
    BY <1>0, <1>1, <2>1
  <2>3. ASSUME NEW p \in Request, req'[p].at \in Prepared
        PROVE  /\ req'[p].token \in issued' \ known
               /\ origin'[req'[p].token] = [subject |-> req'[p].subject, epoch |-> req'[p].epoch]
    BY <1>0, <1>2, <2>1, <2>2, <2>3
  <2>4. ASSUME NEW p \in Request, NEW o \in Request \ {p},
               req'[p].at \in Prepared, req'[o].at \in Prepared
        PROVE  req'[o].token # req'[p].token
    <3>1. /\ \/ p = r /\ req'[p] = q
             \/ p # r /\ req'[p] = req[p] /\ req[p].at \in Prepared /\ req[p].token # t
          /\ \/ o = r /\ req'[o] = q
             \/ o # r /\ req'[o] = req[o] /\ req[o].at \in Prepared /\ req[o].token # t
      BY <2>2, <2>4
    <3>2. o # p /\ o \in Request
      OBVIOUS
    <3>3. CASE p = r
      <4>1. req'[p].token = t /\ req'[o] = req[o] /\ req[o].token # t
        BY <3>1, <3>2, <3>3
      <4> QED BY <4>1
    <3>4. CASE o = r
      <4>1. req'[o].token = t /\ req'[p] = req[p] /\ req[p].token # t
        BY <3>1, <3>2, <3>4
      <4> QED BY <4>1
    <3>5. CASE p # r /\ o # r
      <4>1. req'[p] = req[p] /\ req'[o] = req[o] /\ req[p].at \in Prepared /\ req[o].at \in Prepared
        BY <3>1, <3>5
      <4>2. req[o].token # req[p].token
        BY <2>1, <3>2, <4>1
      <4> QED BY <4>1, <4>2
    <3> QED BY <3>3, <3>4, <3>5
  <2> QED BY <2>3, <2>4 DEF PreparedAlone, Preparing, Prepared
<1>6. ClaimedAlone'
  <2>1. \A p \in Request : req'[p].at \in ContinueStages =>
          req'[p] = req[p] /\ req[p].token \in known
    BY <1>1 DEF IInv, ClaimedAlone, ContinueStages
  <2>2. \A p \in Request : req'[p].at \in Claimed =>
          req'[p] = req[p] /\ req[p].token \in issued /\ req[p].token # t
    BY <1>0, <2>1 DEF Claimed, ContinueStages
  <2>3. \A p \in Request : req[p].at \in Claimed =>
          /\ origin[req[p].token].subject = req[p].subject
          /\ released[req[p].token] = 0
          /\ req[p].token \in Stored(store) => store.sessions[req[p].token].claimed
          /\ \A o \in Request \ {p} : req[o].at \in Claimed => req[o].token # req[p].token
    BY DEF IInv, ClaimedAlone, Continuing, Claimed
  <2>4. ASSUME NEW p \in Request, req'[p].at \in Claimed
        PROVE  /\ origin'[req'[p].token].subject = req'[p].subject
               /\ released[req'[p].token] = 0
               /\ req'[p].token \in Stored(store') => store'.sessions[req'[p].token].claimed
               /\ \A o \in Request \ {p} : req'[o].at \in Claimed => req'[o].token # req'[p].token
    BY <1>2, <2>2, <2>3, <2>4
  <2> QED BY <2>1, <2>4 DEF ClaimedAlone, Continuing, Claimed
<1>7. StoredSound'
  <2>1. released[t] = 0
    BY <1>0 DEF IInv, StoredSound
  <2>2. ASSUME NEW u \in Stored(store')
        PROVE  /\ store'.sessions[u].subject = origin'[u].subject
               /\ store'.sessions[u].expiresAt > 0 /\ store'.sessions[u].intact
               /\ consent[origin'[u].subject].active
               /\ epoch[origin'[u].subject] = origin'[u].epoch
               /\ released[u] = 0
               /\ store'.sessions[u].claimed => u \in known
    <3>1. CASE u = t
      BY <1>2, <2>1, <3>1
    <3>2. CASE u # t
      <4>1. u \in Stored(store) /\ u \in issued /\ store'.sessions[u] = store.sessions[u]
        BY <1>0, <2>2, <3>2
      <4> QED BY <1>2, <4>1 DEF IInv, StoredSound
    <3> QED BY <3>1, <3>2
  <2>3. \A u \in Token : released[u] > 0 => u \in issued'
    BY DEF IInv, StoredSound
  <2> QED BY <2>2, <2>3 DEF StoredSound
<1>8. NoOrphanReview'
  <2> SUFFICES ASSUME NEW u \in Stored(store')
               PROVE  IF store'.sessions[u].claimed
                      THEN \E p \in Request : req'[p].at \in Claimed /\ req'[p].token = u
                      ELSE u \in known' \/ \E p \in Request : req'[p].at \in Prepared /\ req'[p].token = u
    BY DEF NoOrphanReview, Continuing, Preparing, Claimed, Prepared
  <2>1. CASE u = t
    BY <1>1, <2>1 DEF Prepared
  <2>2. CASE u # t
    <3>1. store'.sessions[u] = store.sessions[u] /\ u \in Stored(store)
      BY <2>2
    <3>2. IF store.sessions[u].claimed
          THEN \E p \in Request : req[p].at \in Claimed /\ req[p].token = u
          ELSE u \in known \/ \E p \in Request : req[p].at \in Prepared /\ req[p].token = u
      BY <3>1 DEF IInv, NoOrphanReview, Continuing, Preparing, Claimed, Prepared
    <3>3. \A p \in Request : req[p].at \in Claimed \cup Prepared => req'[p] = req[p]
      BY <1>1 DEF Claimed, Prepared
    <3> QED BY <3>1, <3>2, <3>3
  <2> QED BY <2>1, <2>2
<1> QED BY <1>3, <1>4, <1>5, <1>6, <1>7, <1>8 DEF IInv

\* The review is created, or the request ends with its text cleared.
LEMMA PrepareCreateKeeps ==
  ASSUME IInv, NEW r \in Request, NEW t \in Token, PrepareCreate(r, t)
  PROVE  IInv'
<1> DEFINE in == PrepareInput(r)
           made == Create(store, in, t, 0)
           own == {u \in Stored(store) : store.sessions[u].subject = in.subject}
<1>1. /\ req[r] \in Requests /\ Sound(req[r]) /\ req[r].at = "prepare_recheck" /\ req[r].nonce \in Nonce
      /\ req[r].subject \in Subject
  BY Busy DEF PrepareCreate, Sound, Told, Rechecked
<1>2. /\ UNCHANGED <<py, work, consent, admitted, revision, drawn, known, released, epoch>>
      /\ released' \in [Token -> Nat] /\ work' \subseteq Analyses
      /\ req[r].at \notin Prepared \cup Claimed /\ t \notin issued
  BY <1>1 DEF PrepareCreate, IInv, Typed, FastifyTyped, Prepared, Claimed
<1>3. in \in Inputs /\ in.subject = req[r].subject
  BY <1>1, LimitsAssumption, ProtocolAssumption DEF PrepareInput, Inputs, Requests
<1>4. /\ made.status = "capacity" => Shrunk(made.st) /\ Stored(made.st) = Stored(store)
      /\ made.status # "capacity" =>
           /\ Settled(made.st, 0, issued \cup {t})
           /\ Stored(made.st) = (Stored(store) \ own) \cup {t}
           /\ \A u \in Stored(store) \ own : made.st.sessions[u] = store.sessions[u]
           /\ made.st.sessions[t].subject = in.subject
           /\ made.st.sessions[t].expiresAt > 0
           /\ made.st.sessions[t].intact /\ ~made.st.sessions[t].claimed
           /\ made.st.sessions[t].nonce = in.nonce
           /\ made.replaced \in Nonce \cup {NoNonce}
  <2> HIDE DEF in
  <2>1. in \in Inputs /\ t \in Token /\ t \notin issued
    BY <1>2, <1>3
  <2> QED BY <2>1, CreatedOnce
<1>5. CASE ~StillConsented(r) \/ ~admitted
  <2>1. /\ Done(r) /\ net' = net \cup ClearInternal({req[r].nonce})
        /\ UNCHANGED <<store, issued, origin>>
    BY <1>5 DEF PrepareCreate
  <2>2. net' \subseteq Messages
    BY <1>1, <2>1, ClearsSent
  <2> QED BY <1>2, <2>1, <2>2, DoneStep DEF reviews, reviews
<1>6. CASE StillConsented(r) /\ admitted /\ made.status = "capacity"
  <2>1. /\ Done(r) /\ store' = made.st /\ net' = net \cup ClearInternal({req[r].nonce})
        /\ UNCHANGED <<issued, origin>>
    BY <1>6 DEF PrepareCreate
  <2>2. net' \subseteq Messages
    BY <1>1, <2>1, ClearsSent
  <2>3. Shrunk(store')
    BY <1>4, <1>6, <2>1
  <2> QED BY <1>2, <2>1, <2>2, <2>3, EndStep
<1>7. CASE StillConsented(r) /\ admitted /\ made.status # "capacity"
  <2> DEFINE q == [req[r] EXCEPT !.at = "prepare_created", !.token = t]
  <2>1. /\ req' = [req EXCEPT ![r] = q] /\ store' = made.st
        /\ net' = net \cup ClearInternal({made.replaced})
        /\ issued' = issued \cup {t}
        /\ origin' = Put(origin, t, [subject |-> req[r].subject, epoch |-> req[r].epoch])
    BY <1>7 DEF PrepareCreate
  <2> HIDE DEF made, own, in
  <2>2. net' \subseteq Messages
    BY <1>4, <1>7, <2>1, ClearsSent
  <2>3. /\ q \in Requests /\ q.at = "prepare_created" /\ q.token = t /\ q.subject = req[r].subject
        /\ q.epoch = req[r].epoch /\ q.revision = req[r].revision /\ q.seen = req[r].seen
        /\ q.nonce = req[r].nonce
    BY <1>1 DEF Requests, PrepareStages
  <2> HIDE DEF q
  <2>4. consent[q.subject].active /\ epoch[q.subject] = q.epoch
    BY <1>1, <1>7, <2>3 DEF StillConsented, Sound, Captured, PrepareStages, Rechecked
  <2>5. Sound(q)
    BY <1>1, <2>3 DEF Sound, Captured, PrepareStages, Told, Rechecked
  <2>6. /\ Settled(store', 0, issued \cup {t}) /\ Stored(store') \subseteq Stored(store) \cup {t}
        /\ \A u \in Stored(store') \ {t} : store'.sessions[u] = store.sessions[u]
        /\ store'.sessions[t].subject = q.subject /\ store'.sessions[t].expiresAt > 0
        /\ store'.sessions[t].intact /\ ~store'.sessions[t].claimed
    BY <1>3, <1>4, <1>7, <2>1, <2>3
  <2> QED BY <1>1, <1>2, <2>1, <2>2, <2>3, <2>4, <2>5, <2>6, IssueStep
<1> QED BY <1>5, <1>6, <1>7

(***************************************************************************)
(* The steps of the private service and of the network.                    *)
(***************************************************************************)

\* What goes in and out of the private service.
LEMMA ServiceTyped ==
  ASSUME IInv
  PROVE  /\ net \subseteq Messages /\ work \subseteq Analyses
         /\ PySettled(py) /\ Held(py) \cup py.revoked \subseteq drawn /\ drawn \subseteq Nonce
BY DEF IInv, Typed, PyTyped

\* Answers are messages.
LEMMA AnswersTyped ==
  ASSUME NEW m, m.req \in Request, NEW n \in Nonce
  PROVE  /\ Answer(m, [kind |-> "prepared", req |-> m.req, nonce |-> n]) \subseteq Messages
         /\ Answer(m, [kind |-> "analysed", req |-> m.req]) \subseteq Messages
         /\ Refused(m) \subseteq Messages
BY DEF Answer, Refused, Messages

\* Whoever drops texts of the private store keeps it typed.
LEMMA KeepsTyped ==
  ASSUME IInv, PySettled(py'), Keeps(py, py'), UNCHANGED drawn
  PROVE  PyTyped'
BY ServiceTyped DEF PyTyped, Keeps, Held

\* text/prepare.
LEMMA PyPrepareKeeps ==
  ASSUME IInv, NEW m \in net, NEW n \in Nonce, PyPrepare(m, n)
  PROVE  IInv'
<1> DEFINE made == PyCreate(py, n, 1, 0)
<1>1. n \notin Held(py) /\ n \notin py.revoked /\ m.req \in Request
  BY ServiceTyped DEF PyPrepare, Messages
<1>2. /\ PyReady(made.py)
      /\ \/ made.status = "created" /\ Grows(py, n, made.py)
         \/ made.status = "capacity" /\ Keeps(py, made.py)
  <2> HIDE DEF made
  <2> QED BY <1>1, ServiceTyped, PyCreateReady DEF made
<1>3. UNCHANGED <<fastify, req, work>>
  BY DEF PyPrepare
<1>4. CASE made.status = "created"
  <2>1. /\ py' = made.py /\ drawn' = drawn \cup {n}
        /\ net' = (net \ {m}) \cup Answer(m, [kind |-> "prepared", req |-> m.req, nonce |-> n])
    BY <1>4 DEF PyPrepare
  <2> HIDE DEF made
  <2>2. PyTyped'
    BY <1>2, <1>4, <2>1, ServiceTyped DEF PyTyped, PyReady, Grows, Held
  <2>3. net' \subseteq Messages
    BY <1>1, <2>1, ServiceTyped, AnswersTyped
  <2> QED BY <1>3, <2>2, <2>3, ServiceTyped, QuietStep
<1>5. CASE made.status # "created"
  <2>1. py' = made.py /\ drawn' = drawn /\ net' = (net \ {m}) \cup Refused(m)
    BY <1>5 DEF PyPrepare
  <2> HIDE DEF made
  <2>2. PyTyped'
    BY <1>2, <1>5, <2>1, KeepsTyped DEF PyReady
  <2>3. net' \subseteq Messages
    BY <1>1, <2>1, ServiceTyped, AnswersTyped
  <2> QED BY <1>3, <2>2, <2>3, ServiceTyped, QuietStep
<1> QED BY <1>4, <1>5

\* The privacy check refuses.
LEMMA PyPrepareRefusesKeeps ==
  ASSUME IInv, NEW m \in net, PyPrepareRefuses(m)
  PROVE  IInv'
<1>1. m.req \in Request
  BY ServiceTyped DEF PyPrepareRefuses, Messages
<1>2. NoNonce \notin Nonce
  BY LimitsAssumption
<1>3. Refused(m) \subseteq Messages
  BY <1>1 DEF Refused, Answer, Messages
<1>4. /\ net' \subseteq Messages /\ UNCHANGED <<fastify, req, py, work, drawn>>
  BY <1>3, ServiceTyped DEF PyPrepareRefuses
<1> QED BY <1>4, ServiceTyped, PyUndisturbed, QuietStep

\* What text/continue makes of the call m once the store has answered.
Leased(m, consumed) ==
  /\ py' = consumed.py
  /\ IF consumed.status = "leased"
     THEN /\ net' = net \ {m}
          /\ work' = work \cup {[nonce |-> m.nonce, req |-> m.req, awaited |-> m.awaited,
                                 passed |-> FALSE]}
     ELSE net' = (net \ {m}) \cup Refused(m) /\ UNCHANGED work

\* Admission refuses the call, or the store answers it.
LEMMA BeginOutcomes ==
  ASSUME NEW m \in net, PyBegin(m)
  PROVE  \/ net' = (net \ {m}) \cup Refused(m) /\ UNCHANGED <<py, work>>
         \/ \E matches \in BOOLEAN : Leased(m, PyConsume(py, m.nonce, matches, 0))
BY DEF PyBegin, Leased

\* Either way the sessions stay typed.
LEMMA PyBeginKeeps ==
  ASSUME IInv, NEW m \in net, PyBegin(m)
  PROVE  IInv'
<1>1. /\ m.nonce \in Nonce /\ m.req \in Request /\ m.awaited \in BOOLEAN
      /\ UNCHANGED <<fastify, req, drawn>>
  BY ServiceTyped DEF PyBegin, Messages
<1>2. Refused(m) \subseteq Messages
  BY <1>1 DEF Refused, Answer, Messages
<1>3. CASE net' = (net \ {m}) \cup Refused(m) /\ UNCHANGED <<py, work>>
  <2>1. net' \subseteq Messages /\ work' \subseteq Analyses /\ PyTyped'
    BY <1>1, <1>2, <1>3, ServiceTyped, PyUndisturbed
  <2> QED BY <1>1, <2>1, QuietStep
<1>4. ASSUME NEW matches \in BOOLEAN, Leased(m, PyConsume(py, m.nonce, matches, 0))
      PROVE  IInv'
  <2> DEFINE consumed == PyConsume(py, m.nonce, matches, 0)
  <2>1. /\ PyReady(consumed.py)
        /\ \/ consumed.status = "leased" /\ Leases(py, m.nonce, consumed.py)
           \/ consumed.status # "leased" /\ Keeps(py, consumed.py)
    <3>1. 0 \in Nat
      OBVIOUS
    <3> HIDE DEF consumed
    <3> QED BY <1>1, <3>1, ServiceTyped, PyConsumeReady DEF consumed
  <2>2. py' = consumed.py
    BY <1>4 DEF Leased
  <2>3. PyTyped'
    <3> HIDE DEF consumed
    <3>1. CASE consumed.status = "leased"
      BY <1>1, <2>1, <2>2, <3>1, ServiceTyped DEF PyTyped, PyReady, Leases, Held
    <3>2. CASE consumed.status # "leased"
      BY <1>1, <2>1, <2>2, <3>2, KeepsTyped DEF PyReady
    <3> QED BY <3>1, <3>2
  <2>4. net' \subseteq Messages
    BY <1>2, <1>4, ServiceTyped DEF Leased
  <2>5. work' \subseteq Analyses
    <3>1. [nonce |-> m.nonce, req |-> m.req, awaited |-> m.awaited, passed |-> FALSE] \in Analyses
      BY <1>1 DEF Analyses
    <3> QED BY <1>4, <3>1, ServiceTyped DEF Leased
  <2> QED BY <1>1, <2>3, <2>4, <2>5, QuietStep
<1> QED BY <1>3, <1>4, BeginOutcomes

\* The last revocation check passes.
LEMMA PyPassKeeps ==
  ASSUME IInv, NEW j \in work, PyPass(j)
  PROVE  IInv'
<1>1. [j EXCEPT !.passed = TRUE] \in Analyses
  BY ServiceTyped DEF Analyses
<1>2. work' \subseteq Analyses /\ UNCHANGED <<fastify, req, py, net, drawn>>
  BY <1>1, ServiceTyped DEF PyPass
<1> QED BY <1>2, ServiceTyped, PyUndisturbed, QuietStep

\* An analysis ends.
LEMMA PyEndKeeps ==
  ASSUME IInv, NEW j \in work, PyEnd(j)
  PROVE  IInv'
<1>1. j.nonce \in Nonce /\ j.req \in Request
  BY ServiceTyped DEF Analyses
<1>2. /\ work' = work \ {j} /\ py' = PyFinish(py, j.nonce) /\ UNCHANGED <<fastify, req, drawn>>
      /\ net' = net \cup (IF j.passed THEN Answer(j, [kind |-> "analysed", req |-> j.req]) ELSE Refused(j))
  BY DEF PyEnd
<1>3. /\ PySettled(py') /\ py'.stored = py.stored /\ py'.revoked = py.revoked
      /\ DOMAIN py'.leased = DOMAIN py.leased \ {j.nonce}
  BY <1>2, ServiceTyped, FinishSettled
<1>4. PyTyped'
  BY <1>2, <1>3, ServiceTyped DEF PyTyped, Held
<1>5. net' \subseteq Messages
  BY <1>1, <1>2, ServiceTyped, AnswersTyped
<1> QED BY <1>2, <1>4, <1>5, ServiceTyped, QuietStep

\* clear.
LEMMA PyClearCallKeeps ==
  ASSUME IInv, NEW m \in net, PyClearCall(m)
  PROVE  IInv'
<1>1. /\ py' = PyClear(py, m.nonce, 0) /\ UNCHANGED <<fastify, req, work, drawn>>
      /\ net' \subseteq Messages
  BY ServiceTyped DEF PyClearCall
<1>2. PySettled(py') /\ Keeps(py, py')
  BY <1>1, ServiceTyped, PyClearReady DEF PyReady
<1>3. PyTyped'
  BY <1>1, <1>2, KeepsTyped
<1> QED BY <1>1, <1>3, ServiceTyped, QuietStep

\* Arming the timer again, whatever is due, keeps the store in step.
LEMMA ScheduleSettled ==
  ASSUME NEW st, PySettled(st)
  PROVE  PySettled(Schedule(st, 0)) /\ Keeps(st, Schedule(st, 0))
<1> DEFINE after == Schedule(st, 0)
           due == CASE PyDeadlines(st) = {} -> NoHandle
                    [] PyDeadlines(st) # {} -> LET nearest == Min(PyDeadlines(st))
                                               IN  IF nearest > 0 THEN nearest ELSE 0
<1>1. after = [st EXCEPT !.fired = FALSE, !.handle = due]
  BY DEF Schedule
<1>2. due \in Nat \cup {NoHandle}
  <2>1. CASE PyDeadlines(st) = {}
    BY <2>1
  <2>2. CASE PyDeadlines(st) # {}
    <3>1. Min(PyDeadlines(st)) \in PyDeadlines(st) /\ PyDeadlines(st) \subseteq Nat
      BY <2>2, PyDeadlinesAreNaturals, MinOfNaturals DEF PySettled
    <3> QED BY <2>2, <3>1
  <2> QED BY <2>1, <2>2
<1> HIDE DEF after, due
<1>3. SameButTimers(st, after)
  BY <1>1, <1>2 DEF PySettled, PyShape, SameButTimers
<1> QED BY <1>3, TimersAreIndependent DEF after

\* A text's deadline.
LEMMA PyExpiresKeeps ==
  ASSUME IInv, NEW n \in Nonce, PyExpires(n)
  PROVE  IInv'
<1> DEFINE freed == Revoke(py, {n})
<1>1. py' = Schedule(freed, 0) /\ UNCHANGED <<fastify, req, work, net, drawn>>
  BY DEF PyExpires
<1>2. PySettled(freed) /\ Keeps(py, freed)
  BY ServiceTyped, RevokeSettled
<1> HIDE DEF freed
<1>3. PySettled(py') /\ Keeps(freed, py')
  BY <1>1, <1>2, ScheduleSettled
<1>4. Keeps(py, py')
  BY <1>2, <1>3, KeepsTransitive
<1>5. PyTyped'
  BY <1>1, <1>3, <1>4, KeepsTyped
<1> QED BY <1>1, <1>5, ServiceTyped, QuietStep

\* A restart.
LEMMA PyRestartsKeeps ==
  ASSUME IInv, PyRestarts
  PROVE  IInv'
<1>1. /\ py' = EmptyPyStore /\ work' = {} /\ UNCHANGED <<fastify, req, net, drawn>>
  BY DEF PyRestarts
<1>2. PyTyped'
  BY <1>1, PyEmptyReady, ServiceTyped DEF PyTyped, PyReady
<1> QED BY <1>1, <1>2, ServiceTyped, QuietStep

\* A message is lost.
LEMMA LoseKeeps ==
  ASSUME IInv, NEW m \in net, Lose(m)
  PROVE  IInv'
<1>1. net' \subseteq Messages /\ UNCHANGED <<fastify, req, py, work, drawn>>
  BY ServiceTyped DEF Lose
<1> QED BY <1>1, ServiceTyped, PyUndisturbed, QuietStep

(***************************************************************************)
(* The invariant.                                                          *)
(***************************************************************************)

\* Nothing is stored, in flight or known at the start.
LEMMA InitHolds == Init => IInv
<1> SUFFICES ASSUME Init PROVE IInv
  OBVIOUS
<1>1. Settled(store, 0, issued) /\ Stored(store) = {}
  BY EmptyReady DEF Init, Ready, EmptyStore, Stored
<1>2. \A r \in Request : req[r] = Idle
  BY DEF Init
<1>3. Typed
  <2>1. /\ consent \in [Subject -> Consents] /\ epoch \in [Subject -> Nat]
        /\ released \in [Token -> Nat] /\ revision \in 0..MaxRevision
    BY ProtocolAssumption DEF Init, Consents
  <2>2. PyTyped
    BY PyEmptyReady DEF Init, PyTyped, PyReady
  <2> QED BY <1>1, <2>1, <2>2 DEF Init, Typed, FastifyTyped
<1>4. \A r \in Request : req[r].at \notin PrepareStages \cup ContinueStages
  BY <1>2 DEF Idle, PrepareStages, ContinueStages
<1>5. RequestsSound /\ PreparedAlone /\ ClaimedAlone
  BY <1>4 DEF RequestsSound, Sound, PreparedAlone, ClaimedAlone, Preparing, Continuing,
              Captured, Told, Rechecked, PrepareStages, ContinueStages
<1>6. StoredSound /\ NoOrphanReview
  BY <1>1 DEF StoredSound, NoOrphanReview, Init
<1> QED BY <1>3, <1>5, <1>6 DEF IInv

\* Every step keeps the invariant.
LEMMA StepHolds == IInv /\ [Next]_vars => IInv'
<1> SUFFICES ASSUME IInv, [Next]_vars PROVE IInv'
  OBVIOUS
<1>1. CASE Arrival
  BY <1>1, StartPrepareKeeps, StartContinueKeeps, ClearReviewKeeps DEF Arrival
<1>2. ASSUME NEW r \in Request, HandlerStep(r) PROVE IInv'
  BY <1>2, PrepareInvalidateKeeps, PrepareSendKeeps, PrepareCreateKeeps, PrepareFinalConsentKeeps,
     PrepareReleaseKeeps, ContinueClaimKeeps, ContinueReleaseKeeps, PrepareHeadersKeeps,
     ContinueHeadersKeeps DEF HandlerStep
<1>3. ASSUME NEW r \in Request, BodyStep(r) PROVE IInv'
  BY <1>3, PrepareBodyKeeps, ContinueBodyKeeps DEF BodyStep
<1>4. ASSUME NEW r \in Request, GiveUp(r) PROVE IInv'
  BY <1>4, PrepareGivesUpKeeps, ContinueGivesUpKeeps DEF GiveUp
<1>5. CASE PyStep
  BY <1>5, PyPrepareKeeps, PyPrepareRefusesKeeps, PyBeginKeeps, PyClearCallKeeps, PyPassKeeps,
     PyEndKeeps DEF PyStep
<1>6. CASE Environment
  BY <1>6, WithdrawKeeps, GrantKeeps, AdmissionChangesKeeps, SessionExpiresKeeps, PyExpiresKeeps,
     LoseKeeps, PyRestartsKeeps DEF Environment
<1>7. CASE UNCHANGED vars
  <2>1. UNCHANGED <<fastify, req, py, drawn, net, work>>
    BY <1>7 DEF vars, fastify, reviews
  <2> QED BY <2>1, ServiceTyped, PyUndisturbed, QuietStep
<1> QED BY <1>1, <1>2, <1>3, <1>4, <1>5, <1>6, <1>7 DEF Next

\* The inductive invariant holds in every run.
THEOREM Invariance == Spec => []IInv
BY InitHolds, StepHolds, PTL DEF Spec

(***************************************************************************)
(* The properties.                                                         *)
(***************************************************************************)

\* Shapes, counters and limits, and that no review is held under a token the
\* API did not draw.
THEOREM TypeCorrect == Spec => []TypeOK
<1>1. IInv => TypeOK
  <2> SUFFICES ASSUME IInv PROVE TypeOK
    OBVIOUS
  <2>1. Settled(store, 0, issued) /\ PyTyped /\ revision \in 0..MaxRevision /\ DOMAIN origin = issued
    BY DEF IInv, Typed, FastifyTyped
  <2>2. \A r \in Request : Preparing(r) => req[r].token \in issued \ known
    BY DEF IInv, PreparedAlone
  <2> QED BY <2>1, <2>2 DEF TypeOK, Settled, Aborted, PyTyped, PySettled
<1> QED BY <1>1, Invariance, PTL

\* A review is worked on by one request, its owner's, until an analysis of it
\* is released.
THEOREM ContinueIsExclusive == Spec => []ExclusiveContinue
<1>1. IInv /\ TypeOK => ExclusiveContinue
  BY DEF IInv, ClaimedAlone, ExclusiveContinue
<1> QED BY <1>1, Invariance, TypeCorrect, PTL

\* Somebody answers for every review.
THEOREM NoReviewOrphaned == Spec => []NoOrphanReview
<1>1. IInv => NoOrphanReview
  BY DEF IInv
<1> QED BY <1>1, Invariance, PTL

\* Only the last steps of the two requests let anything out.
LEMMA WhoReleases ==
  ASSUME Next
  PROVE  \/ \E r \in Request : PrepareRelease(r) \/ ContinueRelease(r)
         \/ UNCHANGED <<known, released>>
<1>1. CASE Arrival
  BY <1>1 DEF Arrival, StartPrepare, StartContinue, ClearReview, fastify, reviews
<1>2. ASSUME NEW r \in Request, HandlerStep(r), ~PrepareRelease(r), ~ContinueRelease(r)
      PROVE  UNCHANGED <<known, released>>
  <2>1. CASE PrepareInvalidate(r) \/ PrepareSend(r) \/ PrepareFinalConsent(r) \/ ContinueClaim(r)
    BY <2>1 DEF PrepareInvalidate, PrepareSend, PrepareFinalConsent, ContinueClaim, fastify, reviews
  <2>2. ASSUME NEW t \in Token, PrepareCreate(r, t) PROVE UNCHANGED <<known, released>>
    BY <2>2 DEF PrepareCreate
  <2>3. ASSUME NEW m \in net, PrepareHeaders(r, m) \/ ContinueHeaders(r, m)
        PROVE  UNCHANGED <<known, released>>
    BY <2>3 DEF PrepareHeaders, fastify, ContinueHeaders, EndContinue, fastify, reviews
  <2> QED BY <1>2, <2>1, <2>2, <2>3 DEF HandlerStep
<1>3. ASSUME NEW r \in Request, BodyStep(r) \/ GiveUp(r) PROVE UNCHANGED <<known, released>>
  BY <1>3 DEF BodyStep, GiveUp, PrepareBody, ContinueBody, PrepareGivesUp,
              ContinueGivesUp, EndContinue, fastify, reviews
<1>4. CASE PyStep
  BY <1>4 DEF PyStep, PyPrepare, PyPrepareRefuses, PyBegin, PyClearCall, PyPass, PyEnd, fastify, reviews
<1>5. CASE Environment
  BY <1>5 DEF Environment, Withdraw, Grant, AdmissionChanges, SessionExpires, PyExpires, Lose,
              PyRestarts, fastify, reviews
<1> QED BY <1>1, <1>2, <1>3, <1>4, <1>5 DEF Next

\* Nothing goes out to a subject who withdrew consent since the review's
\* prepare began, even to one who has granted it again.
THEOREM WithdrawalStopsRelease == Spec => NoReleaseAfterWithdrawal
<1> DEFINE Lawful == \A t \in issued :
             (t \in known' \ known \/ released'[t] > released[t])
               => LET s == origin[t].subject
                  IN  consent[s].active /\ epoch[s] = origin[t].epoch
<1>1. IInv /\ [Next]_vars => [Lawful]_vars
  <2> SUFFICES ASSUME IInv, Next, NEW t \in issued, t \in known' \ known \/ released'[t] > released[t]
               PROVE  consent[origin[t].subject].active /\ epoch[origin[t].subject] = origin[t].epoch
    OBVIOUS
  <2>0. issued \subseteq Token /\ released \in [Token -> Nat]
    BY DEF IInv, Typed, FastifyTyped
  <2>1. CASE \E r \in Request : PrepareRelease(r)
    <3>1. PICK r \in Request : PrepareRelease(r)
      BY <2>1
    <3>2. req[r].at = "prepare_final" /\ Sound(req[r])
      BY <3>1, Busy DEF PrepareRelease
    <3>3. t \in known' \ known
      BY <2>0, <3>1 DEF PrepareRelease
    <3>4. StillConsented(r) /\ t = req[r].token
      BY <3>1, <3>3 DEF PrepareRelease
    <3>5. origin[t] = [subject |-> req[r].subject, epoch |-> req[r].epoch]
      BY <3>2, <3>4 DEF IInv, PreparedAlone, Preparing
    <3>6. epoch[req[r].subject] = req[r].epoch /\ consent[req[r].subject].active
      BY <3>2, <3>4 DEF StillConsented, Sound, Captured, PrepareStages, Rechecked
    <3> QED BY <3>5, <3>6
  <2>2. CASE \E r \in Request : ContinueRelease(r)
    <3>1. PICK r \in Request : ContinueRelease(r)
      BY <2>2
    <3>2. req[r].at = "continue_recheck" /\ known' = known
      BY <3>1 DEF ContinueRelease, EndContinue
    <3>3. MayRelease(r) /\ t = req[r].token
      BY <2>0, <3>1, <3>2 DEF ContinueRelease
    <3>4. t \in Stored(store)
      BY <3>3 DEF MayRelease, IInv, Typed, FastifyTyped, Settled, Aborted
    <3> QED BY <3>4 DEF IInv, StoredSound
  <2>3. CASE UNCHANGED <<known, released>>
    BY <2>0, <2>3
  <2> QED BY <2>1, <2>2, <2>3, WhoReleases
<1> QED BY <1>1, Invariance, PTL DEF Spec, NoReleaseAfterWithdrawal

(***************************************************************************)
(* What the private service holds, while the network loses nothing.        *)
(***************************************************************************)

\* What somebody waits for: the call and the answer on the wire, or the
\* analysis that will be answered.
Pending(r) ==
  {m \in net : m.kind \in Calls \cup Answers /\ m.req = r /\ (m.kind \in Calls => m.awaited)}
    \cup {j \in work : j.req = r /\ j.awaited}

Calling == {"prepare_call", "continue_call"}

\* A request waits for one thing at a time, and only while it calls; a
\* preparation on the wire belongs to a request that waits for it.
Accounted ==
  /\ \A r \in Request : \A x, y \in Pending(r) : x = y
  /\ \A r \in Request : req[r].at \notin Calling => Pending(r) = {}
  /\ \A m \in net : m.kind \in {"prepare", "prepared"} =>
       req[m.req].at = "prepare_call" /\ (m.kind = "prepare" => m.awaited)

\* A continue request clears the text of the review it works on.
NoncesAgree ==
  \A r \in Request : req[r].at \in Claimed /\ req[r].token \in Stored(store) =>
    store.sessions[req[r].token].nonce = req[r].nonce

TextInv == Accounted /\ NoncesAgree /\ NoOrphanText

\* A step keeps every text accounted for, as none takes back that an answer
\* was not accepted.
TextKept == unaccepted \subseteq unaccepted' => TextInv'

\* The request q must still clear the text n or hand it over.
Bears(q, n) == q.at \in {"prepare_body", "prepare_recheck"} \cup Claimed /\ q.nonce = n

\* The clear that is sent for a nonce.
LEMMA ClearOut ==
  ASSUME NEW N, NEW n \in N, n \in Nonce
  PROVE  [kind |-> "clear", nonce |-> n] \in ClearInternal(N)
BY LimitsAssumption DEF ClearInternal

\* Clears are awaited by nobody.
LEMMA ClearsAwaitNobody ==
  ASSUME NEW N, UNCHANGED work, net' = net \cup ClearInternal(N)
  PROVE  \A p \in Request : Pending(p)' = Pending(p)
<1>1. \A m \in ClearInternal(N) : m.kind = "clear"
  BY DEF ClearInternal
<1>2. Calls \cup Answers = {"prepare", "continue", "prepared", "refused", "analysed"}
  BY DEF Calls, Answers
<1> QED BY <1>1, <1>2 DEF Pending

\* A new text is on its way to a request.
TextsTold ==
  \A n \in Held(py') \ Held(py) :
    n \in Nonce /\ \E m \in net' : m.kind = "prepared" /\ m.nonce = n

\* There is none when nothing happens in the private service.
LEMMA SameTexts ==
  ASSUME UNCHANGED py
  PROVE  TextsTold
BY DEF TextsTold

\* The request r becomes q.  What was pending for anybody else is or is gone;
\* a review, a message or a request that covered a text still does, or
\* something else does.
TextMoves(r, q) ==
  /\ req' = [req EXCEPT ![r] = q]
  /\ TextsTold
  /\ \A p \in Request \ {r} : Pending(p)' \subseteq Pending(p)
  /\ \A x, y \in Pending(r)' : x = y
  /\ q.at \notin Calling => Pending(r)' = {}
  /\ \A m \in net' : m.kind \in {"prepare", "prepared"} =>
       \/ m.req = r /\ q.at = "prepare_call" /\ (m.kind = "prepare" => m.awaited)
       \/ m.req # r /\ m \in net
  /\ \A t \in Stored(store) :
       \/ t \in Stored(store') /\ store'.sessions[t].nonce = store.sessions[t].nonce
       \/ t \notin Stored(store')
          /\ [kind |-> "clear", nonce |-> store.sessions[t].nonce] \in net'
  /\ \A m \in net : m.kind \in {"clear", "prepared"} => m \in net' \/ Bears(q, m.nonce)
  /\ \A n \in Nonce : Bears(req[r], n) =>
       \/ Bears(q, n) \/ n \in unaccepted' \/ [kind |-> "clear", nonce |-> n] \in net'
       \/ \E t \in Stored(store') : store'.sessions[t].nonce = n
  /\ q.at \in Claimed /\ q.token \in Stored(store') => store'.sessions[q.token].nonce = q.nonce
  /\ Stored(store') \cap known \subseteq Stored(store)

\* Such a step keeps every text accounted for.
LEMMA TextStep ==
  ASSUME IInv, TextInv, NEW r \in Request, NEW q, TextMoves(r, q)
  PROVE  TextKept
<1> SUFFICES ASSUME unaccepted \subseteq unaccepted' PROVE TextInv'
  BY DEF TextKept
<1>0. /\ req \in [Request -> {Idle} \cup Requests] /\ net \subseteq Messages
      /\ Held(py) \subseteq Nonce
  BY ServiceTyped DEF IInv, Typed, FastifyTyped
<1>1. req'[r] = q /\ \A p \in Request \ {r} : req'[p] = req[p]
  BY <1>0 DEF TextMoves
<1>2. Accounted'
  <2>1. \A p \in Request : \A x, y \in Pending(p)' : x = y
    BY DEF TextInv, Accounted, TextMoves
  <2>2. \A p \in Request : req'[p].at \notin Calling => Pending(p)' = {}
    BY <1>1 DEF TextInv, Accounted, TextMoves
  <2>3. \A m \in net' : m.kind \in {"prepare", "prepared"} =>
          req'[m.req].at = "prepare_call" /\ (m.kind = "prepare" => m.awaited)
    <3> SUFFICES ASSUME NEW m \in net', m.kind \in {"prepare", "prepared"}
                 PROVE  req'[m.req].at = "prepare_call" /\ (m.kind = "prepare" => m.awaited)
      OBVIOUS
    <3>1. CASE m.req = r
      BY <1>1, <3>1 DEF TextMoves
    <3>2. CASE m.req # r
      <4>1. m \in net /\ m.req \in Request
        BY <1>0, <3>2 DEF Messages, TextMoves
      <4> QED BY <1>1, <3>2, <4>1 DEF TextInv, Accounted
    <3> QED BY <3>1, <3>2
  <2> QED BY <2>1, <2>2, <2>3 DEF Accounted
<1>3. NoncesAgree'
  <2> SUFFICES ASSUME NEW p \in Request, req'[p].at \in Claimed, req'[p].token \in Stored(store')
               PROVE  store'.sessions[req'[p].token].nonce = req'[p].nonce
    BY DEF NoncesAgree
  <2>1. CASE p = r
    BY <1>1, <2>1 DEF TextMoves
  <2>2. CASE p # r
    <3>1. req'[p] = req[p] /\ req[p].token \in known
      BY <1>1, <2>2 DEF IInv, ClaimedAlone, Claimed, ContinueStages
    <3>2. req[p].token \in Stored(store) /\ req[p].token \in Stored(store')
      BY <3>1 DEF TextMoves
    <3>3. store'.sessions[req[p].token].nonce = store.sessions[req[p].token].nonce
      BY <3>2 DEF TextMoves
    <3>4. store.sessions[req[p].token].nonce = req[p].nonce
      BY <3>1, <3>2 DEF TextInv, NoncesAgree
    <3> QED BY <3>1, <3>3, <3>4
  <2> QED BY <2>1, <2>2
<1>4. NoOrphanText'
  <2> SUFFICES ASSUME NEW n \in Held(py') \ unaccepted'
               PROVE  \/ \E t \in Stored(store') : store'.sessions[t].nonce = n
                      \/ \E m \in net' : m.kind \in {"clear", "prepared"} /\ m.nonce = n
                      \/ \E p \in Request : Bears(req'[p], n)
    BY DEF NoOrphanText, Carries, Bears, Claimed
  <2>1. /\ n \in Nonce
        /\ \/ \E m \in net' : m.kind = "prepared" /\ m.nonce = n
           \/ \E t \in Stored(store) : store.sessions[t].nonce = n
           \/ \E m \in net : m.kind \in {"clear", "prepared"} /\ m.nonce = n
           \/ \E p \in Request : Bears(req[p], n)
    BY <1>0 DEF TextInv, NoOrphanText, TextMoves, TextsTold, Carries, Bears, Claimed
  <2>2. ASSUME [kind |-> "clear", nonce |-> n] \in net'
        PROVE  \E m \in net' : m.kind \in {"clear", "prepared"} /\ m.nonce = n
    BY <2>2
  <2>3. CASE \E t \in Stored(store) : store.sessions[t].nonce = n
    BY <2>2, <2>3 DEF TextMoves
  <2>4. CASE \E m \in net : m.kind \in {"clear", "prepared"} /\ m.nonce = n
    BY <1>1, <2>4 DEF TextMoves
  <2>5. CASE \E p \in Request : Bears(req[p], n)
    <3>1. PICK p \in Request : Bears(req[p], n)
      BY <2>5
    <3>2. CASE p = r
      BY <1>1, <2>1, <2>2, <3>1, <3>2 DEF TextMoves
    <3>3. CASE p # r
      BY <1>1, <3>1, <3>3
    <3> QED BY <3>2, <3>3
  <2> QED BY <2>1, <2>3, <2>4, <2>5
<1> QED BY <1>2, <1>3, <1>4 DEF TextInv

\* The request r becomes q and sends clears for N; it neither was nor is
\* waiting for the private service.
QuietMoves(r, q, N) ==
  /\ req' = [req EXCEPT ![r] = q] /\ UNCHANGED <<py, work>>
  /\ net' = net \cup ClearInternal(N)
  /\ req[r].at \notin Calling /\ q.at \notin Calling
  /\ \A t \in Stored(store) :
       \/ t \in Stored(store') /\ store'.sessions[t].nonce = store.sessions[t].nonce
       \/ t \notin Stored(store') /\ store.sessions[t].nonce \in N
  /\ \A n \in Nonce : Bears(req[r], n) =>
       \/ Bears(q, n) \/ n \in unaccepted' \/ n \in N
       \/ \E t \in Stored(store') : store'.sessions[t].nonce = n
  /\ q.at \in Claimed /\ q.token \in Stored(store') => store'.sessions[q.token].nonce = q.nonce
  /\ Stored(store') \cap known \subseteq Stored(store)

\* Such a step keeps every text accounted for.
LEMMA QuietText ==
  ASSUME IInv, TextInv, NEW r \in Request, NEW q, NEW N, QuietMoves(r, q, N)
  PROVE  TextKept
<1>0. /\ UNCHANGED <<py, work>> /\ net' = net \cup ClearInternal(N)
      /\ req[r].at \notin Calling /\ q.at \notin Calling
  BY DEF QuietMoves
<1>1. \A p \in Request : Pending(p)' = Pending(p)
  BY <1>0, ClearsAwaitNobody
<1>2. Pending(r) = {}
  BY <1>0 DEF TextInv, Accounted
<1>3. \A m \in net' : m.kind \in {"prepare", "prepared"} => m.req # r /\ m \in net
  <2>1. \A m \in ClearInternal(N) : m.kind = "clear"
    BY DEF ClearInternal
  <2>2. \A m \in net : m.kind \in {"prepare", "prepared"} => m.req # r
    BY <1>0 DEF TextInv, Accounted, Calling
  <2> QED BY <1>0, <2>1, <2>2
<1>4. \A n \in Nonce : n \in N => [kind |-> "clear", nonce |-> n] \in net'
  BY <1>0, ClearOut
<1>5. \A t \in Stored(store) : store.sessions[t].nonce \in Nonce
  BY StoredNonce
<1>6. TextsTold
  BY <1>0, SameTexts
<1>7. /\ \A t \in Stored(store) :
           \/ t \in Stored(store') /\ store'.sessions[t].nonce = store.sessions[t].nonce
           \/ t \notin Stored(store')
              /\ [kind |-> "clear", nonce |-> store.sessions[t].nonce] \in net'
      /\ \A n \in Nonce : Bears(req[r], n) =>
           \/ Bears(q, n) \/ n \in unaccepted' \/ [kind |-> "clear", nonce |-> n] \in net'
           \/ \E t \in Stored(store') : store'.sessions[t].nonce = n
  BY <1>4, <1>5 DEF QuietMoves
<1>8. \A m \in net : m.kind \in {"clear", "prepared"} => m \in net' \/ Bears(q, m.nonce)
  BY <1>0
<1>9. TextMoves(r, q)
  BY <1>0, <1>1, <1>2, <1>3, <1>6, <1>7, <1>8, SameTexts DEF QuietMoves, TextMoves
<1> QED BY <1>9, TextStep

\* Such a step that touches no review.
LEMMA QuietStoreText ==
  ASSUME IInv, TextInv, NEW r \in Request, NEW q, req' = [req EXCEPT ![r] = q],
         UNCHANGED <<py, work, store>>, NEW N, net' = net \cup ClearInternal(N),
         req[r].at \notin Calling, q.at \notin Calling,
         \A n \in Nonce : Bears(req[r], n) => Bears(q, n) \/ n \in N,
         q.at \in Claimed => req[r].at \in Claimed /\ q.token = req[r].token /\ q.nonce = req[r].nonce
  PROVE  TextKept
<1>1. q.at \in Claimed /\ q.token \in Stored(store') => store'.sessions[q.token].nonce = q.nonce
  BY DEF TextInv, NoncesAgree
<1>2. QuietMoves(r, q, N)
  BY <1>1 DEF QuietMoves
<1> QED BY <1>2, QuietText

\* No clear is sent.
LEMMA NoClears == ClearInternal({}) = {}
BY DEF ClearInternal

\* The first steps of a prepare request know no text.
LEMMA StartPrepareText ==
  ASSUME IInv, TextInv, NEW r \in Request, NEW s \in Subject, StartPrepare(r, s)
  PROVE  TextKept
<1> DEFINE q == [at |-> "prepare_consent", subject |-> s, seen |-> consent[s],
                 consent |-> consent[s].version, revision |-> 0, epoch |-> 0,
                 nonce |-> NoNonce, token |-> NoToken]
<1>1. req' = [req EXCEPT ![r] = q] /\ UNCHANGED <<py, work, store>> /\ net' = net \cup ClearInternal({})
  BY NoClears DEF StartPrepare, fastify, reviews
<1>2. req[r].at \notin Calling /\ q.at \notin Calling \cup Claimed /\ \A n : ~Bears(req[r], n)
  BY DEF StartPrepare, Idle, Calling, Claimed, Bears
<1> HIDE DEF q
<1> QED BY <1>1, <1>2, QuietStoreText

\* Nor do those of a continue request.
LEMMA StartContinueText ==
  ASSUME IInv, TextInv, NEW r \in Request, NEW s \in Subject, NEW t \in Token, StartContinue(r, s, t)
  PROVE  TextKept
<1> DEFINE q == [at |-> "continue_consent", subject |-> s, seen |-> consent[s],
                 consent |-> 0, revision |-> 0, epoch |-> 0,
                 nonce |-> NoNonce, token |-> t]
<1>1. req' = [req EXCEPT ![r] = q] /\ UNCHANGED <<py, work, store>> /\ net' = net \cup ClearInternal({})
  BY NoClears DEF StartContinue, fastify, reviews
<1>2. req[r].at \notin Calling /\ q.at \notin Calling \cup Claimed /\ \A n : ~Bears(req[r], n)
  BY DEF StartContinue, Idle, Calling, Claimed, Bears
<1> HIDE DEF q
<1> QED BY <1>1, <1>2, QuietStoreText

\* The text of the review that goes is cleared.
LEMMA PrepareInvalidateText ==
  ASSUME IInv, TextInv, NEW r \in Request, PrepareInvalidate(r)
  PROVE  TextKept
<1> DEFINE s == req[r].subject
           invalidated == InvalidateSubject(store, s, 0)
           q == [req[r] EXCEPT !.at = "prepare_admission", !.revision = revision, !.epoch = epoch[s]]
<1>1. /\ req[r] \in Requests /\ req[r].at = "prepare_consent" /\ req[r].at \notin Calling
      /\ UNCHANGED <<py, work>> /\ \A n : ~Bears(req[r], n)
  BY Busy DEF PrepareInvalidate, Calling, Bears, Claimed
<1>2. CASE ~req[r].seen.active
  <2>1. req' = [req EXCEPT ![r] = Idle] /\ UNCHANGED store /\ net' = net \cup ClearInternal({})
    BY <1>2, NoClears DEF PrepareInvalidate, Done
  <2>2. Idle.at \notin Calling \cup Claimed
    BY DEF Idle, Calling, Claimed
  <2> QED BY <1>1, <2>1, <2>2, QuietStoreText
<1>3. CASE req[r].seen.active
  <2>1. /\ Shrunk(invalidated.st)
        /\ Stored(invalidated.st) = Stored(store) \ {t \in Stored(store) : store.sessions[t].subject = s}
        /\ \A t \in {u \in Stored(store) : store.sessions[u].subject = s} :
             invalidated.nonce = store.sessions[t].nonce
    BY Invalidated
  <2>2. /\ store' = invalidated.st /\ net' = net \cup ClearInternal({invalidated.nonce})
        /\ req' = [req EXCEPT ![r] = q]
    BY <1>3 DEF PrepareInvalidate
  <2>3. q.at \notin Calling \cup Claimed
    BY <1>1 DEF Requests, Calling, Claimed
  <2> HIDE DEF invalidated, q
  <2>4. /\ Stored(store') \cap known \subseteq Stored(store)
        /\ \A t \in Stored(store) :
             \/ t \in Stored(store') /\ store'.sessions[t].nonce = store.sessions[t].nonce
             \/ t \notin Stored(store') /\ store.sessions[t].nonce \in {invalidated.nonce}
    BY <2>1, <2>2 DEF Shrunk
  <2>5. QuietMoves(r, q, {invalidated.nonce})
    BY <1>1, <2>2, <2>3, <2>4 DEF QuietMoves
  <2> QED BY <2>5, QuietText
<1> QED BY <1>2, <1>3

\* The call that goes out is all the request waits for.
LEMMA PrepareSendText ==
  ASSUME IInv, TextInv, NEW r \in Request, PrepareSend(r)
  PROVE  TextKept
<1>1. /\ req[r] \in Requests /\ req[r].at = "prepare_admission" /\ req[r].at \notin Calling
      /\ UNCHANGED <<py, work, store>> /\ \A n : ~Bears(req[r], n)
  BY Busy DEF PrepareSend, Calling, Bears, Claimed, fastify, reviews
<1>2. CASE admitted
  <2> DEFINE q == [req[r] EXCEPT !.at = "prepare_call"]
             c == PrepareCall(r)
  <2>1. q.at = "prepare_call" /\ q.at \notin Claimed /\ q.at \in Calling
    BY <1>1 DEF Requests, Claimed, Calling
  <2>2. req' = [req EXCEPT ![r] = q] /\ net' = net \cup {c}
    BY <1>2 DEF PrepareSend, Goto
  <2>3. c.kind = "prepare" /\ c.req = r /\ c.awaited
    BY DEF PrepareCall
  <2> HIDE DEF q, c
  <2>4. Pending(r) = {}
    BY <1>1 DEF TextInv, Accounted
  <2>5. Pending(r)' \subseteq {c} /\ \A p \in Request \ {r} : Pending(p)' \subseteq Pending(p)
    BY <1>1, <2>2, <2>3, <2>4 DEF Pending
  <2>6. \A m \in net' : m.kind \in {"prepare", "prepared"} =>
          \/ m.req = r /\ q.at = "prepare_call" /\ (m.kind = "prepare" => m.awaited)
          \/ m.req # r /\ m \in net
    BY <1>1, <2>1, <2>2, <2>3 DEF TextInv, Accounted
  <2>7. TextMoves(r, q)
    BY <1>1, <2>1, <2>2, <2>5, <2>6, SameTexts DEF TextMoves
  <2> QED BY <2>7, TextStep
<1>3. CASE ~admitted
  <2>1. req' = [req EXCEPT ![r] = Idle] /\ net' = net \cup ClearInternal({})
    BY <1>3, NoClears DEF PrepareSend, Done
  <2>2. Idle.at \notin Calling \cup Claimed
    BY DEF Idle, Calling, Claimed
  <2> QED BY <1>1, <2>1, <2>2, QuietStoreText
<1> QED BY <1>2, <1>3

\* A message is not an analysis.
LEMMA MessagesAreNotAnalyses ==
  ASSUME NEW m \in Messages, NEW j \in Analyses
  PROVE  m # j
<1>1. "kind" \in DOMAIN m
  BY DEF Messages
<1>2. DOMAIN j = {"nonce", "req", "awaited", "passed"}
  BY DEF Analyses
<1> QED BY <1>1, <1>2

\* Once the answer is taken, nothing is pending.
LEMMA AnswerTaken ==
  ASSUME IInv, TextInv, NEW r \in Request, NEW m \in net, m.kind \in Answers, m.req = r,
         NEW N, net' = (net \ {m}) \cup ClearInternal(N), UNCHANGED work
  PROVE  /\ Pending(r)' = {}
         /\ \A p \in Request \ {r} : Pending(p)' \subseteq Pending(p)
         /\ \A x \in net' : x.kind \in {"prepare", "prepared"} => x.req # r /\ x \in net
<1>1. \A x \in ClearInternal(N) : x.kind = "clear"
  BY DEF ClearInternal
<1>2. Calls \cup Answers = {"prepare", "continue", "prepared", "refused", "analysed"}
      /\ Answers = {"prepared", "refused", "analysed"} /\ Calls = {"prepare", "continue"}
  BY DEF Calls, Answers
<1>3. \A p \in Request : Pending(p)' \subseteq Pending(p)
  BY <1>1, <1>2 DEF Pending
<1>4. m \in Pending(r)
  BY <1>2 DEF Pending
<1>5. m \notin Pending(r)'
  <2>1. m \notin net'
    BY <1>1, <1>2
  <2>2. m \notin work
    BY MessagesAreNotAnalyses, ServiceTyped
  <2> QED BY <2>1, <2>2 DEF Pending
<1>6. Pending(r)' = {}
  BY <1>3, <1>4, <1>5 DEF TextInv, Accounted
<1>7. ASSUME NEW x \in net', x.kind \in {"prepare", "prepared"} PROVE x.req # r /\ x \in net
  <2>1. x \in net /\ (x.kind = "prepare" => x.awaited)
    BY <1>1, <1>7 DEF TextInv, Accounted
  <2>2. x.req = r => x \in Pending(r)'
    BY <1>2, <1>7, <2>1 DEF Pending
  <2> QED BY <1>6, <2>1, <2>2
<1> QED BY <1>3, <1>6, <1>7

\* From the wire to the request.
LEMMA PrepareHeadersText ==
  ASSUME IInv, TextInv, NEW r \in Request, NEW m \in net, PrepareHeaders(r, m)
  PROVE  TextKept
<1>1. /\ req[r] \in Requests /\ req[r].at = "prepare_call" /\ m.kind \in Answers /\ m.req = r
      /\ UNCHANGED <<py, work, store>> /\ \A n : ~Bears(req[r], n)
  BY Busy DEF PrepareHeaders, Bears, Claimed, fastify, reviews
<1>2. net' = (net \ {m}) \cup ClearInternal({})
  BY NoClears DEF PrepareHeaders
<1>3. /\ Pending(r)' = {}
      /\ \A p \in Request \ {r} : Pending(p)' \subseteq Pending(p)
      /\ \A x \in net' : x.kind \in {"prepare", "prepared"} => x.req # r /\ x \in net
  BY <1>1, <1>2, AnswerTaken
<1>4. CASE m.kind = "prepared"
  <2> DEFINE q == [req[r] EXCEPT !.at = "prepare_body", !.nonce = m.nonce]
  <2>1. q.at = "prepare_body" /\ q.nonce = m.nonce /\ q.at \notin Claimed /\ Bears(q, m.nonce)
    BY <1>1 DEF Requests, Claimed, Bears
  <2>2. req' = [req EXCEPT ![r] = q]
    BY <1>4 DEF PrepareHeaders
  <2> HIDE DEF q
  <2>3. TextMoves(r, q)
    BY <1>1, <1>2, <1>3, <2>1, <2>2, SameTexts DEF TextMoves
  <2> QED BY <2>3, TextStep
<1>5. CASE m.kind # "prepared"
  <2>1. req' = [req EXCEPT ![r] = Idle] /\ Idle.at \notin Claimed
    BY <1>5 DEF PrepareHeaders, Done, Idle, Claimed
  <2>2. m.kind \notin {"clear", "prepared"}
    BY <1>1, <1>5 DEF Answers
  <2>3. TextMoves(r, Idle)
    BY <1>1, <1>2, <1>3, <2>1, <2>2, SameTexts DEF TextMoves
  <2> QED BY <2>3, TextStep
<1> QED BY <1>4, <1>5

\* The nonce is read and kept.
LEMMA PrepareBodyText ==
  ASSUME IInv, TextInv, NEW r \in Request, PrepareBody(r)
  PROVE  TextKept
<1> DEFINE q == [req[r] EXCEPT !.at = "prepare_recheck", !.seen = consent[req[r].subject]]
<1>1. /\ req[r] \in Requests /\ req[r].at = "prepare_body" /\ req[r].at \notin Calling
      /\ UNCHANGED <<py, work, store>> /\ net' = net \cup ClearInternal({})
  BY Busy, NoClears DEF PrepareBody, Calling, reviews
<1>2. CASE Done(r) /\ unaccepted' = unaccepted \cup {req[r].nonce}
  <2>1. req' = [req EXCEPT ![r] = Idle] /\ Idle.at \notin Calling \cup Claimed
    BY <1>2 DEF Done, Idle, Calling, Claimed
  <2>2. \A n \in Nonce : Bears(req[r], n) => n \in unaccepted'
    BY <1>2 DEF Bears
  <2>3. QuietMoves(r, Idle, {})
    BY <1>1, <2>1, <2>2 DEF QuietMoves
  <2> QED BY <2>3, QuietText
<1>3. CASE req' = [req EXCEPT ![r] = q]
  <2>1. q.at = "prepare_recheck" /\ q.at \notin Calling \cup Claimed /\ q.nonce = req[r].nonce
    BY <1>1 DEF Requests, Calling, Claimed
  <2> HIDE DEF q
  <2>2. \A n \in Nonce : Bears(req[r], n) => Bears(q, n)
    BY <2>1 DEF Bears
  <2> QED BY <1>1, <1>3, <2>1, <2>2, QuietStoreText
<1> QED BY <1>2, <1>3 DEF PrepareBody

\* The text is handed over to the review already.
LEMMA PrepareFinalConsentText ==
  ASSUME IInv, TextInv, NEW r \in Request, PrepareFinalConsent(r)
  PROVE  TextKept
<1> DEFINE q == [req[r] EXCEPT !.at = "prepare_final", !.seen = consent[req[r].subject]]
<1>1. /\ req[r] \in Requests /\ req[r].at = "prepare_created" /\ req[r].at \notin Calling
      /\ UNCHANGED <<py, work, store>> /\ req' = [req EXCEPT ![r] = q]
      /\ net' = net \cup ClearInternal({}) /\ \A n : ~Bears(req[r], n)
  BY Busy, NoClears DEF PrepareFinalConsent, Calling, Bears, Claimed, fastify, reviews
<1>2. q.at = "prepare_final" /\ q.at \notin Calling \cup Claimed
  BY <1>1 DEF Requests, Calling, Claimed
<1> HIDE DEF q
<1> QED BY <1>1, <1>2, QuietStoreText

\* The review stays, or its text and the request's are cleared.
LEMMA PrepareReleaseText ==
  ASSUME IInv, TextInv, NEW r \in Request, PrepareRelease(r)
  PROVE  TextKept
<1> DEFINE consumed == Consume(store, req[r].token, 0)
<1>1. /\ req[r].at = "prepare_final" /\ req[r].at \notin Calling
      /\ UNCHANGED <<py, work>> /\ req' = [req EXCEPT ![r] = Idle]
      /\ Idle.at \notin Calling \cup Claimed /\ \A n : ~Bears(req[r], n)
  BY DEF PrepareRelease, Done, Idle, Calling, Claimed, Bears
<1>2. CASE StillConsented(r) /\ admitted
  <2>1. UNCHANGED store /\ net' = net \cup ClearInternal({})
    BY <1>2, NoClears DEF PrepareRelease
  <2> QED BY <1>1, <2>1, QuietStoreText
<1>3. CASE ~(StillConsented(r) /\ admitted)
  <2>1. /\ Shrunk(consumed.st) /\ Stored(consumed.st) = Stored(store) \ {req[r].token}
        /\ req[r].token \in Stored(store) => consumed.nonce = store.sessions[req[r].token].nonce
    BY Consumed
  <2>2. store' = consumed.st /\ net' = net \cup ClearInternal({consumed.nonce, req[r].nonce})
    BY <1>3 DEF PrepareRelease
  <2> HIDE DEF consumed
  <2>3. /\ Stored(store') \cap known \subseteq Stored(store)
        /\ \A t \in Stored(store) :
             \/ t \in Stored(store') /\ store'.sessions[t].nonce = store.sessions[t].nonce
             \/ t \notin Stored(store') /\ store.sessions[t].nonce \in {consumed.nonce, req[r].nonce}
    BY <2>1, <2>2 DEF Shrunk
  <2>4. QuietMoves(r, Idle, {consumed.nonce, req[r].nonce})
    BY <1>1, <2>2, <2>3 DEF QuietMoves
  <2> QED BY <2>4, QuietText
<1> QED BY <1>2, <1>3

\* The text is handed over to the review, or cleared.
LEMMA PrepareCreateText ==
  ASSUME IInv, TextInv, NEW r \in Request, NEW t \in Token, PrepareCreate(r, t)
  PROVE  TextKept
<1> DEFINE in == PrepareInput(r)
           made == Create(store, in, t, 0)
           own == {u \in Stored(store) : store.sessions[u].subject = in.subject}
<1>1. /\ req[r] \in Requests /\ req[r].at = "prepare_recheck" /\ req[r].at \notin Calling
      /\ req[r].nonce \in Nonce /\ t \notin issued /\ UNCHANGED <<py, work, known>>
      /\ Idle.at \notin Calling \cup Claimed /\ \A n : Bears(req[r], n) => n = req[r].nonce
  BY Busy DEF PrepareCreate, Sound, Told, Rechecked, Calling, Idle, Claimed, Bears
<1>2. in \in Inputs /\ in.nonce = req[r].nonce
  BY <1>1, LimitsAssumption, ProtocolAssumption DEF PrepareInput, Inputs, Requests
<1>3. /\ made.status = "capacity" => Shrunk(made.st) /\ Stored(made.st) = Stored(store)
      /\ made.status # "capacity" =>
           /\ Settled(made.st, 0, issued \cup {t})
           /\ Stored(made.st) = (Stored(store) \ own) \cup {t}
           /\ \A u \in Stored(store) \ own : made.st.sessions[u] = store.sessions[u]
           /\ made.st.sessions[t].subject = in.subject
           /\ made.st.sessions[t].expiresAt > 0
           /\ made.st.sessions[t].intact /\ ~made.st.sessions[t].claimed
           /\ made.st.sessions[t].nonce = in.nonce
           /\ made.replaced \in Nonce \cup {NoNonce}
           /\ \A u \in own : made.replaced = store.sessions[u].nonce
  <2> HIDE DEF made, own, in
  <2> QED BY <1>1, <1>2, CreatedOnce DEF made, own
<1>4. CASE ~StillConsented(r) \/ ~admitted
  <2>1. /\ req' = [req EXCEPT ![r] = Idle] /\ net' = net \cup ClearInternal({req[r].nonce})
        /\ UNCHANGED store
    BY <1>4 DEF PrepareCreate, Done
  <2> QED BY <1>1, <2>1, QuietStoreText
<1>5. CASE StillConsented(r) /\ admitted /\ made.status = "capacity"
  <2>1. /\ req' = [req EXCEPT ![r] = Idle] /\ net' = net \cup ClearInternal({req[r].nonce})
        /\ store' = made.st
    BY <1>5 DEF PrepareCreate, Done
  <2> HIDE DEF made, own, in
  <2>2. /\ Stored(store') \cap known \subseteq Stored(store)
        /\ \A u \in Stored(store) :
             u \in Stored(store') /\ store'.sessions[u].nonce = store.sessions[u].nonce
    BY <1>3, <1>5, <2>1 DEF Shrunk
  <2>3. QuietMoves(r, Idle, {req[r].nonce})
    BY <1>1, <2>1, <2>2 DEF QuietMoves
  <2> QED BY <2>3, QuietText
<1>6. CASE StillConsented(r) /\ admitted /\ made.status # "capacity"
  <2> DEFINE q == [req[r] EXCEPT !.at = "prepare_created", !.token = t]
  <2>1. /\ req' = [req EXCEPT ![r] = q] /\ store' = made.st
        /\ net' = net \cup ClearInternal({made.replaced})
    BY <1>6 DEF PrepareCreate
  <2>2. q.at \notin Calling \cup Claimed
    BY <1>1 DEF Requests, Calling, Claimed
  <2>3. t \notin known /\ t \notin Stored(store)
    BY <1>1 DEF IInv, Typed, FastifyTyped, Settled, Aborted
  <2> HIDE DEF made, in, q
  <2>4. /\ Stored(store') \cap known \subseteq Stored(store)
        /\ \A u \in Stored(store) :
             \/ u \in Stored(store') /\ store'.sessions[u].nonce = store.sessions[u].nonce
             \/ u \notin Stored(store') /\ store.sessions[u].nonce \in {made.replaced}
    <3> HIDE DEF own
    <3>1. own \subseteq Stored(store)
      BY DEF own
    <3> QED BY <1>3, <1>6, <2>1, <2>3, <3>1
  <2>5. \A n \in Nonce : Bears(req[r], n) => \E u \in Stored(store') : store'.sessions[u].nonce = n
    <3> HIDE DEF own
    <3> QED BY <1>1, <1>2, <1>3, <1>6, <2>1
  <2>6. QuietMoves(r, q, {made.replaced})
    BY <1>1, <2>1, <2>2, <2>4, <2>5 DEF QuietMoves
  <2> QED BY <2>6, QuietText
<1> QED BY <1>4, <1>5, <1>6

\* The request that ends consumes its review and clears that review's text.
LEMMA EndContinueText ==
  ASSUME IInv, TextInv, NEW r \in Request, req[r].at \in Claimed, EndContinue(r), UNCHANGED py,
         Pending(r)' = {}, \A p \in Request \ {r} : Pending(p)' \subseteq Pending(p),
         \A m \in net' : m.kind \in {"prepare", "prepared"} => m.req # r /\ m \in net,
         \A m \in net : m.kind \in {"clear", "prepared"} => m \in net',
         [kind |-> "clear", nonce |-> req[r].nonce] \in net'
  PROVE  TextKept
<1> DEFINE consumed == Consume(store, req[r].token, 0)
<1>1. Shrunk(consumed.st) /\ Stored(consumed.st) = Stored(store) \ {req[r].token}
  BY Consumed
<1>2. store' = consumed.st /\ req' = [req EXCEPT ![r] = Idle]
  BY DEF EndContinue, Done
<1> HIDE DEF consumed
<1>3. Idle.at \notin Claimed /\ \A n : Bears(req[r], n) => n = req[r].nonce
  BY DEF Idle, Claimed, Bears
<1>4. \A t \in Stored(store) :
        \/ t \in Stored(store') /\ store'.sessions[t].nonce = store.sessions[t].nonce
        \/ t \notin Stored(store') /\ store.sessions[t].nonce = req[r].nonce
  <2>1. req[r].token \in Stored(store) => store.sessions[req[r].token].nonce = req[r].nonce
    BY DEF TextInv, NoncesAgree
  <2> QED BY <1>1, <1>2, <2>1 DEF Shrunk
<1>5. Stored(store') \cap known \subseteq Stored(store)
  BY <1>1, <1>2
<1>6. TextMoves(r, Idle)
  BY <1>2, <1>3, <1>4, <1>5, SameTexts DEF TextMoves
<1> QED BY <1>6, TextStep

\* So it does when nothing was pending.
LEMMA EndQuietlyText ==
  ASSUME IInv, TextInv, NEW r \in Request, req[r].at \in Claimed \ Calling, EndContinue(r),
         UNCHANGED <<py, work>>, net' = net \cup ClearInternal({req[r].nonce})
  PROVE  TextKept
<1>1. req[r].at # "idle" /\ req[r].at \in Told
  BY DEF Claimed, Told
<1>2. [kind |-> "clear", nonce |-> req[r].nonce] \in net'
  <2>1. req[r].nonce \in Nonce
    BY <1>1, Busy DEF Sound
  <2> QED BY <2>1, ClearOut
<1>3. \A p \in Request : Pending(p)' = Pending(p)
  BY ClearsAwaitNobody
<1>4. Pending(r) = {}
  BY DEF TextInv, Accounted
<1>5. \A m \in net' : m.kind \in {"prepare", "prepared"} => m.req # r /\ m \in net
  <2>1. \A m \in ClearInternal({req[r].nonce}) : m.kind = "clear"
    BY DEF ClearInternal
  <2>2. \A m \in net : m.kind \in {"prepare", "prepared"} => m.req # r
    BY DEF TextInv, Accounted, Claimed
  <2> QED BY <2>1, <2>2
<1> QED BY <1>2, <1>3, <1>4, <1>5, EndContinueText

\* The answer is an analysis, or the review goes.
LEMMA ContinueHeadersText ==
  ASSUME IInv, TextInv, NEW r \in Request, NEW m \in net, ContinueHeaders(r, m)
  PROVE  TextKept
<1>1. /\ req[r] \in Requests /\ req[r].at = "continue_call" /\ req[r].at \in Claimed
      /\ m.kind \in Answers /\ m.req = r /\ req[r].nonce \in Nonce /\ UNCHANGED <<py, work>>
  BY Busy DEF ContinueHeaders, Claimed, Sound, Told
<1>2. m.kind \notin {"clear", "prepared"}
  BY <1>1 DEF TextInv, Accounted, Answers
<1>3. CASE m.kind = "analysed"
  <2> DEFINE q == [req[r] EXCEPT !.at = "continue_body"]
  <2>1. req' = [req EXCEPT ![r] = q] /\ UNCHANGED store /\ net' = (net \ {m}) \cup ClearInternal({})
    BY <1>3, NoClears DEF ContinueHeaders, Goto
  <2>2. /\ q.at = "continue_body" /\ q.at \in Claimed /\ q.at \notin Calling
        /\ q.nonce = req[r].nonce /\ q.token = req[r].token
    BY <1>1 DEF Requests, Claimed, Calling
  <2> HIDE DEF q
  <2>3. /\ Pending(r)' = {}
        /\ \A p \in Request \ {r} : Pending(p)' \subseteq Pending(p)
        /\ \A x \in net' : x.kind \in {"prepare", "prepared"} => x.req # r /\ x \in net
    BY <1>1, <2>1, AnswerTaken
  <2>4. q.token \in Stored(store') => store'.sessions[q.token].nonce = q.nonce
    BY <1>1, <2>1, <2>2 DEF TextInv, NoncesAgree
  <2>5. \A n \in Nonce : Bears(req[r], n) => Bears(q, n)
    BY <2>2 DEF Bears
  <2>6. TextMoves(r, q)
    BY <1>1, <1>2, <2>1, <2>2, <2>3, <2>4, <2>5, SameTexts DEF TextMoves
  <2> QED BY <2>6, TextStep
<1>4. CASE m.kind # "analysed"
  <2>1. EndContinue(r) /\ net' = (net \ {m}) \cup ClearInternal({req[r].nonce})
    BY <1>4 DEF ContinueHeaders
  <2>2. /\ Pending(r)' = {}
        /\ \A p \in Request \ {r} : Pending(p)' \subseteq Pending(p)
        /\ \A x \in net' : x.kind \in {"prepare", "prepared"} => x.req # r /\ x \in net
    BY <1>1, <2>1, AnswerTaken
  <2>3. [kind |-> "clear", nonce |-> req[r].nonce] \in net'
    BY <1>1, <2>1, ClearOut
  <2>4. \A x \in net : x.kind \in {"clear", "prepared"} => x \in net'
    BY <1>2, <2>1
  <2> QED BY <1>1, <2>1, <2>2, <2>3, <2>4, EndContinueText
<1> QED BY <1>3, <1>4

\* The body is read, or the review goes.
LEMMA ContinueBodyText ==
  ASSUME IInv, TextInv, NEW r \in Request, ContinueBody(r)
  PROVE  TextKept
<1>1. /\ req[r] \in Requests /\ req[r].at = "continue_body" /\ req[r].at \in Claimed \ Calling
      /\ UNCHANGED <<py, work>>
  BY Busy DEF ContinueBody, Claimed, Calling
<1>2. CASE EndContinue(r) /\ net' = net \cup ClearInternal({req[r].nonce})
  BY <1>1, <1>2, EndQuietlyText
<1>3. CASE /\ req' = [req EXCEPT ![r] = [@ EXCEPT !.at = "continue_recheck", !.seen = consent[req[r].subject]]]
            /\ UNCHANGED <<store, net, consent, admitted, revision, issued, known, epoch, origin, unaccepted>>
  <2> DEFINE q == [req[r] EXCEPT !.at = "continue_recheck", !.seen = consent[req[r].subject]]
  <2>1. req' = [req EXCEPT ![r] = q] /\ UNCHANGED store /\ net' = net \cup ClearInternal({})
    BY <1>3, NoClears
  <2>2. /\ q.at = "continue_recheck" /\ q.at \in Claimed /\ q.at \notin Calling
        /\ q.nonce = req[r].nonce /\ q.token = req[r].token
    BY <1>1 DEF Requests, Claimed, Calling
  <2> HIDE DEF q
  <2>3. \A n \in Nonce : Bears(req[r], n) => Bears(q, n)
    BY <2>2 DEF Bears
  <2> QED BY <1>1, <2>1, <2>2, <2>3, QuietStoreText
<1> QED BY <1>2, <1>3 DEF ContinueBody

\* Whatever goes out, the review goes.
LEMMA ContinueReleaseText ==
  ASSUME IInv, TextInv, NEW r \in Request, ContinueRelease(r)
  PROVE  TextKept
<1>1. req[r].at \in Claimed \ Calling
  BY DEF ContinueRelease, Claimed, Calling
<1> QED BY <1>1, EndQuietlyText DEF ContinueRelease

\* A call is given up: nobody waits for it or for its analysis any more.
LEMMA AbandonedText ==
  ASSUME IInv, TextInv, NEW r \in Request, req[r].at = "continue_call", NEW N,
         net' = Abandoned(r, net) \cup ClearInternal(N), work' = AbandonedWork(r)
  PROVE  /\ Pending(r)' = {}
         /\ \A p \in Request \ {r} : Pending(p)' \subseteq Pending(p)
         /\ \A m \in net' : m.kind \in {"prepare", "prepared"} => m.req # r /\ m \in net
         /\ \A m \in net : m.kind \in {"clear", "prepared"} => m \in net'
<1>1. \A x \in ClearInternal(N) : x.kind = "clear"
  BY DEF ClearInternal
<1>2. Calls = {"prepare", "continue"} /\ Answers = {"prepared", "refused", "analysed"}
  BY DEF Calls, Answers
<1>3. \A m \in net : m.kind \in {"prepare", "prepared"} => m.req # r
  BY DEF TextInv, Accounted
<1> DEFINE Given == {[m EXCEPT !.awaited = FALSE] : m \in {c \in net : c.kind \in Calls /\ c.req = r}}
<1>4. \A m \in Given : m.kind = "continue" /\ m.req = r /\ ~m.awaited
  <2> SUFFICES ASSUME NEW c \in net, c.kind \in Calls, c.req = r
               PROVE  LET m == [c EXCEPT !.awaited = FALSE]
                      IN  m.kind = "continue" /\ m.req = r /\ ~m.awaited
    OBVIOUS
  <2>1. c.kind = "continue"
    BY <1>2, <1>3
  <2>2. c \in [kind : {"continue"}, req : Request, nonce : Nonce, awaited : BOOLEAN]
    BY <2>1, ServiceTyped DEF Messages
  <2> QED BY <2>1, <2>2
<1>5. \A m \in net' :
        \/ m \in ClearInternal(N) \/ m \in Given
        \/ m \in net /\ ~(m.kind \in Calls \cup Answers /\ m.req = r)
  BY DEF Abandoned
<1>6. \A j \in work' : \/ j \in work /\ j.req # r
                       \/ ~j.awaited /\ j.req = r
  <2> SUFFICES ASSUME NEW j \in work, j.req = r
               PROVE  LET k == [j EXCEPT !.awaited = FALSE] IN ~k.awaited /\ k.req = r
    BY DEF AbandonedWork
  <2> QED BY ServiceTyped DEF Analyses
<1>7. Pending(r)' = {}
  BY <1>1, <1>2, <1>4, <1>5, <1>6 DEF Pending
<1>8. \A p \in Request \ {r} : Pending(p)' \subseteq Pending(p)
  BY <1>1, <1>2, <1>4, <1>5, <1>6 DEF Pending
<1>9. \A m \in net' : m.kind \in {"prepare", "prepared"} => m.req # r /\ m \in net
  BY <1>1, <1>3, <1>4, <1>5
<1>10. \A m \in net : m.kind \in {"clear", "prepared"} => m \in net'
  BY <1>2, <1>3 DEF Abandoned
<1> QED BY <1>7, <1>8, <1>9, <1>10

\* The review goes.
LEMMA ContinueGivesUpText ==
  ASSUME IInv, TextInv, NEW r \in Request, ContinueGivesUp(r)
  PROVE  TextKept
<1>1. /\ req[r].at = "continue_call" /\ req[r].at \in Claimed /\ EndContinue(r) /\ UNCHANGED py
      /\ net' = Abandoned(r, net) \cup ClearInternal({req[r].nonce}) /\ work' = AbandonedWork(r)
      /\ req[r].nonce \in Nonce
  BY Busy DEF ContinueGivesUp, Claimed, Sound, Told
<1>2. /\ Pending(r)' = {}
      /\ \A p \in Request \ {r} : Pending(p)' \subseteq Pending(p)
      /\ \A m \in net' : m.kind \in {"prepare", "prepared"} => m.req # r /\ m \in net
      /\ \A m \in net : m.kind \in {"clear", "prepared"} => m \in net'
  BY <1>1, AbandonedText
<1>3. [kind |-> "clear", nonce |-> req[r].nonce] \in net'
  BY <1>1, ClearOut
<1> QED BY <1>1, <1>2, <1>3, EndContinueText

\* The review that is claimed hands its text to the request; one that goes has
\* its text cleared.
LEMMA ContinueClaimText ==
  ASSUME IInv, TextInv, NEW r \in Request, ContinueClaim(r)
  PROVE  TextKept
<1> DEFINE s == req[r].subject
           t == req[r].token
           claimed == Claim(store, t, s, 0)
           session == claimed.st.sessions[t]
           invalidated == InvalidateSubject(store, s, 0)
           rest == Consume(claimed.st, t, 0)
<1>1. /\ req[r] \in Requests /\ req[r].at = "continue_consent" /\ req[r].at \notin Calling
      /\ UNCHANGED <<py, work, known>> /\ \A n : ~Bears(req[r], n)
      /\ Idle.at \notin Calling \cup Claimed
  BY Busy DEF ContinueClaim, Calling, Bears, Claimed, Idle
<1>2. /\ Settled(claimed.st, 0, issued)
      /\ claimed.status # "ok" => Shrunk(claimed.st) /\ Stored(claimed.st) = Stored(store)
      /\ claimed.status = "ok" =>
           /\ t \in Stored(store) /\ Stored(claimed.st) = Stored(store)
           /\ store.sessions[t].subject = s /\ ~store.sessions[t].claimed
           /\ claimed.st.sessions[t] = [store.sessions[t] EXCEPT !.claimed = TRUE]
           /\ \A u \in Stored(store) \ {t} : claimed.st.sessions[u] = store.sessions[u]
  <2> HIDE DEF t, s, session, invalidated, rest, claimed
  <2> QED BY ClaimedOnce DEF claimed
<1>3. CASE ~req[r].seen.active
  <2>1. /\ Shrunk(invalidated.st)
        /\ Stored(invalidated.st) = Stored(store) \ {u \in Stored(store) : store.sessions[u].subject = s}
        /\ \A u \in {v \in Stored(store) : store.sessions[v].subject = s} :
             invalidated.nonce = store.sessions[u].nonce
    BY Invalidated
  <2>2. /\ store' = invalidated.st /\ net' = net \cup ClearInternal({invalidated.nonce})
        /\ req' = [req EXCEPT ![r] = Idle]
    BY <1>3 DEF ContinueClaim, Done
  <2> HIDE DEF invalidated
  <2>3. /\ Stored(store') \cap known \subseteq Stored(store)
        /\ \A u \in Stored(store) :
             \/ u \in Stored(store') /\ store'.sessions[u].nonce = store.sessions[u].nonce
             \/ u \notin Stored(store') /\ store.sessions[u].nonce \in {invalidated.nonce}
    BY <2>1, <2>2 DEF Shrunk
  <2>4. QuietMoves(r, Idle, {invalidated.nonce})
    BY <1>1, <2>2, <2>3 DEF QuietMoves
  <2> QED BY <2>4, QuietText
<1>4. CASE req[r].seen.active /\ claimed.status # "ok"
  <2>1. /\ req' = [req EXCEPT ![r] = Idle] /\ store' = claimed.st /\ net' = net \cup ClearInternal({})
    BY <1>4, NoClears DEF ContinueClaim, Done
  <2> HIDE DEF claimed
  <2>2. QuietMoves(r, Idle, {})
    BY <1>1, <1>2, <1>4, <2>1 DEF QuietMoves, Shrunk
  <2> QED BY <2>2, QuietText
<1>5. CASE req[r].seen.active /\ claimed.status = "ok"
  <2>1. session.nonce = store.sessions[t].nonce /\ store.sessions[t].nonce \in Nonce
    <3> HIDE DEF claimed
    <3>1. store.sessions[t] \in Session
      BY <1>2, <1>5 DEF IInv, Typed, FastifyTyped, Settled, StoreShape
    <3> QED BY <1>2, <1>5, <3>1 DEF Session
  <2>2. CASE session.binding # req[r].seen.version \/ ~admitted
    <3>1. /\ req' = [req EXCEPT ![r] = Idle] /\ store' = rest.st
          /\ net' = net \cup ClearInternal({session.nonce})
      BY <1>5, <2>2 DEF ContinueClaim, Done
    <3>2. LeavesOnly(claimed.st, rest.st, Live(claimed.st, 0) \ {t})
      <4> HIDE DEF claimed
      <4> QED BY <1>2, ConsumeLeaves
    <3>3. Live(claimed.st, 0) = Stored(store)
      <4> HIDE DEF claimed
      <4>1. \A u \in Stored(store) : store.sessions[u] \in Session /\ store.sessions[u].expiresAt > 0
        BY DEF IInv, StoredSound, Typed, FastifyTyped, Settled, StoreShape
      <4>2. \A u \in Stored(store) : claimed.st.sessions[u].expiresAt > 0
        BY <1>2, <1>5, <4>1 DEF Session
      <4> QED BY <1>2, <1>5, <4>2 DEF Live
    <3> HIDE DEF rest, claimed, session, t, s
    <3>4. /\ Stored(store') \cap known \subseteq Stored(store)
          /\ \A u \in Stored(store) :
               \/ u \in Stored(store') /\ store'.sessions[u].nonce = store.sessions[u].nonce
               \/ u \notin Stored(store') /\ store.sessions[u].nonce \in {session.nonce}
      BY <1>2, <1>5, <2>1, <3>1, <3>2, <3>3 DEF LeavesOnly
    <3>5. QuietMoves(r, Idle, {session.nonce})
      BY <1>1, <3>1, <3>4 DEF QuietMoves
    <3> QED BY <3>5, QuietText
  <2>3. CASE ~(session.binding # req[r].seen.version \/ ~admitted)
    <3> DEFINE q == [req[r] EXCEPT !.at = "continue_call", !.nonce = session.nonce,
                                   !.consent = session.binding]
               c == ContinueCall(r, session.nonce)
    <3>1. /\ store' = claimed.st /\ net' = net \cup {c} /\ req' = [req EXCEPT ![r] = q]
      BY <1>5, <2>3 DEF ContinueClaim
    <3>2. c.kind = "continue" /\ c.req = r /\ c.awaited
      BY DEF ContinueCall
    <3>3. q.at = "continue_call" /\ q.nonce = session.nonce /\ q.token = t /\ q.at \in Calling \cap Claimed
      <4> HIDE DEF session
      <4> QED BY <1>1 DEF Requests, Claimed, Calling
    <3> HIDE DEF q, c, claimed
    <3>4. Pending(r) = {}
      BY <1>1 DEF TextInv, Accounted
    <3>5. Pending(r)' \subseteq {c} /\ \A p \in Request \ {r} : Pending(p)' \subseteq Pending(p)
      BY <1>1, <3>1, <3>2, <3>4 DEF Pending
    <3>6. \A m \in net' : m.kind \in {"prepare", "prepared"} => m.req # r /\ m \in net
      BY <1>1, <3>1, <3>2 DEF TextInv, Accounted
    <3>7. \A u \in Stored(store) :
            u \in Stored(store') /\ store'.sessions[u].nonce = store.sessions[u].nonce
      BY <1>2, <1>5, <2>1, <3>1
    <3>8. Stored(store') \subseteq Stored(store) /\ store'.sessions[t].nonce = q.nonce
      BY <1>2, <1>5, <2>1, <3>1, <3>3
    <3>9. TextMoves(r, q)
      BY <1>1, <3>1, <3>3, <3>5, <3>6, <3>7, <3>8, SameTexts DEF TextMoves
    <3> QED BY <3>9, TextStep
  <2> HIDE DEF t, s, claimed, session, invalidated, rest
  <2> QED BY <2>2, <2>3
<1> HIDE DEF t, s, claimed, session, invalidated, rest
<1> QED BY <1>3, <1>4, <1>5

(***************************************************************************)
(* Steps of nobody's request.                                              *)
(***************************************************************************)

\* No request moves and nothing new is pending; reviews may go, and their
\* texts are cleared; a clear is carried out.
AmbientMoves ==
  /\ UNCHANGED req /\ Held(py') \subseteq Held(py)
  /\ \A p \in Request : Pending(p)' \subseteq Pending(p)
  /\ \A m \in net' : m.kind \in {"prepare", "prepared"} => m \in net
  /\ Stored(store') \subseteq Stored(store)
  /\ \A t \in Stored(store) :
       \/ t \in Stored(store') /\ store'.sessions[t].nonce = store.sessions[t].nonce
       \/ t \notin Stored(store')
          /\ [kind |-> "clear", nonce |-> store.sessions[t].nonce] \in net'
  /\ \A m \in net : m.kind \in {"clear", "prepared"} => m \in net' \/ m.nonce \notin Held(py')

\* Such a step keeps every text accounted for.
LEMMA AmbientText ==
  ASSUME IInv, TextInv, AmbientMoves
  PROVE  TextKept
<1> SUFFICES ASSUME unaccepted \subseteq unaccepted' PROVE TextInv'
  BY DEF TextKept
<1>1. Accounted'
  BY DEF TextInv, Accounted, AmbientMoves
<1>2. NoncesAgree'
  BY DEF TextInv, NoncesAgree, AmbientMoves
<1>3. NoOrphanText'
  <2> SUFFICES ASSUME NEW n \in Held(py') \ unaccepted'
               PROVE  \/ \E t \in Stored(store') : store'.sessions[t].nonce = n
                      \/ \E m \in net' : m.kind \in {"clear", "prepared"} /\ m.nonce = n
                      \/ \E p \in Request : Bears(req'[p], n)
    BY DEF NoOrphanText, Carries, Bears, Claimed
  <2>1. \/ \E t \in Stored(store) : store.sessions[t].nonce = n
        \/ \E m \in net : m.kind \in {"clear", "prepared"} /\ m.nonce = n
        \/ \E p \in Request : Bears(req[p], n)
    BY DEF TextInv, NoOrphanText, AmbientMoves, Carries, Bears, Claimed
  <2>2. ASSUME [kind |-> "clear", nonce |-> n] \in net'
        PROVE  \E m \in net' : m.kind \in {"clear", "prepared"} /\ m.nonce = n
    BY <2>2
  <2>3. CASE \E t \in Stored(store) : store.sessions[t].nonce = n
    BY <2>2, <2>3 DEF AmbientMoves
  <2>4. CASE \E m \in net : m.kind \in {"clear", "prepared"} /\ m.nonce = n
    BY <2>4 DEF AmbientMoves
  <2>5. CASE \E p \in Request : Bears(req[p], n)
    BY <2>5 DEF AmbientMoves
  <2> QED BY <2>1, <2>3, <2>4, <2>5
<1> QED BY <1>1, <1>2, <1>3 DEF TextInv

\* Reviews go, and clears for their texts are sent.
LEMMA ShrinkText ==
  ASSUME IInv, TextInv, UNCHANGED <<req, py, work>>, NEW N, net' = net \cup ClearInternal(N),
         Stored(store') \subseteq Stored(store),
         \A t \in Stored(store) :
           \/ t \in Stored(store') /\ store'.sessions[t].nonce = store.sessions[t].nonce
           \/ t \notin Stored(store') /\ store.sessions[t].nonce \in N
  PROVE  TextKept
<1>1. \A p \in Request : Pending(p)' = Pending(p)
  BY ClearsAwaitNobody
<1>2. \A m \in net' : m.kind \in {"prepare", "prepared"} => m \in net
  BY DEF ClearInternal
<1>3. ASSUME NEW t \in Stored(store), t \notin Stored(store')
      PROVE  [kind |-> "clear", nonce |-> store.sessions[t].nonce] \in net'
  <2>1. store.sessions[t].nonce \in Nonce /\ store.sessions[t].nonce \in N
    BY <1>3, StoredNonce
  <2> QED BY <2>1, ClearOut
<1>4. AmbientMoves
  BY <1>1, <1>2, <1>3 DEF AmbientMoves
<1> QED BY <1>4, AmbientText

\* The text of a review that its owner clears is cleared.
LEMMA ClearReviewText ==
  ASSUME IInv, TextInv, NEW s \in Subject, NEW t \in Token, ClearReview(s, t)
  PROVE  TextKept
<1> DEFINE cleared == Clear(store, t, s, 0)
<1>1. /\ Shrunk(cleared.st) /\ Stored(store) \ {t} \subseteq Stored(cleared.st)
      /\ ~(t \in Stored(store) /\ store.sessions[t].subject = s) =>
           Stored(cleared.st) = Stored(store) /\ cleared.nonce = NoNonce
      /\ t \in Stored(store) /\ store.sessions[t].subject = s =>
           /\ Stored(cleared.st) = Stored(store) \ {t}
           /\ cleared.nonce = store.sessions[t].nonce
      /\ cleared.nonce \in Nonce \cup {NoNonce}
  <2> HIDE DEF cleared
  <2> QED BY Cleared DEF cleared
<1>2. /\ store' = cleared.st /\ net' = net \cup ClearInternal({cleared.nonce})
      /\ UNCHANGED <<req, py, work>>
  BY DEF ClearReview
<1> HIDE DEF cleared
<1>3. Stored(store') \subseteq Stored(store)
  BY <1>1, <1>2 DEF Shrunk
<1>4. \A u \in Stored(store) :
        \/ u \in Stored(store') /\ store'.sessions[u].nonce = store.sessions[u].nonce
        \/ u \notin Stored(store') /\ store.sessions[u].nonce \in {cleared.nonce}
  BY <1>1, <1>2 DEF Shrunk
<1> QED BY <1>2, <1>3, <1>4, ShrinkText

\* The texts of the reviews that a withdrawal invalidates are cleared.
LEMMA WithdrawText ==
  ASSUME IInv, TextInv, NEW s \in Subject, Withdraw(s)
  PROVE  TextKept
<1> DEFINE invalidated == InvalidateSubject(store, s, 0)
<1>1. /\ Shrunk(invalidated.st)
      /\ Stored(invalidated.st) = Stored(store) \ {u \in Stored(store) : store.sessions[u].subject = s}
      /\ \A u \in {v \in Stored(store) : store.sessions[v].subject = s} :
           invalidated.nonce = store.sessions[u].nonce
  BY Invalidated
<1>2. /\ store' = invalidated.st /\ net' = net \cup ClearInternal({invalidated.nonce})
      /\ UNCHANGED <<req, py, work>>
  BY DEF Withdraw
<1> HIDE DEF invalidated
<1>3. Stored(store') \subseteq Stored(store)
  BY <1>1, <1>2
<1>4. \A u \in Stored(store) :
        \/ u \in Stored(store') /\ store'.sessions[u].nonce = store.sessions[u].nonce
        \/ u \notin Stored(store') /\ store.sessions[u].nonce \in {invalidated.nonce}
  BY <1>1, <1>2 DEF Shrunk
<1> QED BY <1>2, <1>3, <1>4, ShrinkText

\* What touches neither a store, a request nor a message touches no text.
LEMMA IdleText ==
  ASSUME IInv, TextInv, UNCHANGED <<store, req, py, work, net>>
  PROVE  TextKept
<1>1. net' = net \cup ClearInternal({})
  BY NoClears
<1> QED BY <1>1, ShrinkText

\* A clear that is carried out leaves no text behind.
LEMMA PyClearForgets ==
  ASSUME NEW st, PySettled(st), NEW n
  PROVE  n \notin Held(PyClear(st, n, 0)) /\ Held(PyClear(st, n, 0)) \subseteq Held(st)
<1> DEFINE purged == Purge(st, 0)
           freed == Revoke(purged, {n})
           after == Schedule(freed, 0)
<1>1. PySettled(purged) /\ Keeps(st, purged)
  BY PurgeSettled
<1> HIDE DEF purged
<1>2. PySettled(freed) /\ Held(freed) = Held(purged) \ {n}
  BY <1>1, RevokeSettled
<1> HIDE DEF freed
<1>3. Keeps(freed, after)
  BY <1>2, ScheduleSettled
<1> HIDE DEF after
<1>4. Held(after) \subseteq Held(freed) /\ Held(purged) \subseteq Held(st)
  BY <1>1, <1>3 DEF Keeps, Held
<1>5. PyClear(st, n, 0) = after
  BY DEF PyClear, after, freed, purged
<1> QED BY <1>2, <1>4, <1>5

\* clear.
LEMMA PyClearCallText ==
  ASSUME IInv, TextInv, NEW m \in net, PyClearCall(m)
  PROVE  TextKept
<1>1. /\ m.kind = "clear" /\ py' = PyClear(py, m.nonce, 0) /\ net' = net \ {m}
      /\ UNCHANGED <<store, req, work>>
  BY DEF PyClearCall, fastify, reviews
<1>2. m.nonce \notin Held(py') /\ Held(py') \subseteq Held(py)
  BY <1>1, ServiceTyped, PyClearForgets
<1>3. \A p \in Request : Pending(p)' \subseteq Pending(p)
  BY <1>1 DEF Pending
<1>4. AmbientMoves
  BY <1>1, <1>2, <1>3 DEF AmbientMoves
<1> QED BY <1>4, AmbientText

(***************************************************************************)
(* Steps of the private service.                                           *)
(***************************************************************************)

\* What the service does for the request r: it answers, or gives up to be
\* answered, what r waits for, and no message that covers a text goes.
Serves(r) ==
  /\ UNCHANGED <<store, req>> /\ TextsTold
  /\ \A p \in Request \ {r} : Pending(p)' \subseteq Pending(p)
  /\ \A x, y \in Pending(r)' : x = y
  /\ Pending(r) = {} => Pending(r)' = {}
  /\ \A m \in net' : m.kind \in {"prepare", "prepared"} =>
       m \in net \/ (m.req = r /\ req[r].at = "prepare_call" /\ m.kind = "prepared")
  /\ \A m \in net : m.kind \in {"clear", "prepared"} => m \in net'

\* Such a step keeps every text accounted for.
LEMMA ServesText ==
  ASSUME IInv, TextInv, NEW r \in Request, Serves(r)
  PROVE  TextKept
<1> DEFINE q == req[r]
<1>1. req' = [req EXCEPT ![r] = q]
  BY DEF Serves, IInv, Typed, FastifyTyped
<1> HIDE DEF q
<1>2. q = req[r]
  BY DEF q
<1>3. q.at \notin Calling => Pending(r)' = {}
  BY <1>2 DEF Serves, TextInv, Accounted
<1>4. \A m \in net' : m.kind \in {"prepare", "prepared"} =>
        \/ m.req = r /\ q.at = "prepare_call" /\ (m.kind = "prepare" => m.awaited)
        \/ m.req # r /\ m \in net
  BY <1>2 DEF Serves, TextInv, Accounted
<1>5. q.at \in Claimed /\ q.token \in Stored(store') => store'.sessions[q.token].nonce = q.nonce
  BY <1>2 DEF Serves, TextInv, NoncesAgree
<1>6. TextMoves(r, q)
  BY <1>1, <1>2, <1>3, <1>4, <1>5 DEF Serves, TextMoves
<1> QED BY <1>6, TextStep

\* A call is answered if its caller still waits.
LEMMA CallAnswered ==
  ASSUME IInv, TextInv, NEW m \in net, m.kind \in Calls, NEW answer, answer.req = m.req,
         answer.kind \in Answers, net' = (net \ {m}) \cup Answer(m, answer), UNCHANGED work
  PROVE  /\ \A p \in Request \ {m.req} : Pending(p)' \subseteq Pending(p)
         /\ \A x, y \in Pending(m.req)' : x = y
         /\ Pending(m.req) = {} => Pending(m.req)' = {}
         /\ \A x \in net' : x.kind \in {"prepare", "prepared"} =>
              x \in net \/ (x.req = m.req /\ x.kind = answer.kind)
         /\ \A x \in net : x.kind \in {"clear", "prepared"} => x \in net'
<1>0. Calls = {"prepare", "continue"} /\ Answers = {"prepared", "refused", "analysed"}
  BY DEF Calls, Answers
<1>1. m.req \in Request /\ m.awaited \in BOOLEAN /\ m \notin work
  BY <1>0, ServiceTyped, MessagesAreNotAnalyses DEF Messages
<1>2. CASE m.awaited
  <2>1. net' = (net \ {m}) \cup {answer}
    BY <1>2 DEF Answer
  <2>2. m \in Pending(m.req)
    BY <1>2 DEF Pending
  <2>3. Pending(m.req) = {m}
    BY <1>1, <2>2 DEF TextInv, Accounted
  <2>4. Pending(m.req)' \subseteq (Pending(m.req) \ {m}) \cup {answer}
    BY <1>1, <2>1 DEF Pending
  <2>5. \A p \in Request \ {m.req} : Pending(p)' \subseteq Pending(p)
    BY <2>1 DEF Pending
  <2> QED BY <1>0, <2>1, <2>2, <2>3, <2>4, <2>5
<1>3. CASE ~m.awaited
  <2>1. net' = net \ {m}
    BY <1>3 DEF Answer
  <2>2. \A p \in Request : Pending(p)' \subseteq Pending(p)
    BY <2>1 DEF Pending
  <2>3. \A x, y \in Pending(m.req) : x = y
    BY <1>1 DEF TextInv, Accounted
  <2> QED BY <1>0, <1>1, <2>1, <2>2, <2>3
<1> QED BY <1>1, <1>2, <1>3

\* A refusal creates no text.
LEMMA RefusedText ==
  ASSUME IInv, TextInv, NEW m \in net, m.kind \in Calls, net' = (net \ {m}) \cup Refused(m),
         UNCHANGED <<store, req, work>>, Held(py') \subseteq Held(py)
  PROVE  TextKept
<1> DEFINE answer == [kind |-> "refused", req |-> m.req]
<1>1. answer.kind = "refused" /\ answer.kind \in Answers /\ answer.req = m.req
  BY DEF Answers
<1>2. net' = (net \ {m}) \cup Answer(m, answer)
  BY DEF Refused
<1> HIDE DEF answer
<1>3. /\ \A p \in Request \ {m.req} : Pending(p)' \subseteq Pending(p)
      /\ \A x, y \in Pending(m.req)' : x = y
      /\ Pending(m.req) = {} => Pending(m.req)' = {}
      /\ \A x \in net' : x.kind \in {"prepare", "prepared"} =>
           x \in net \/ (x.req = m.req /\ x.kind = answer.kind)
      /\ \A x \in net : x.kind \in {"clear", "prepared"} => x \in net'
  BY <1>1, <1>2, CallAnswered
<1>4. TextsTold
  BY DEF TextsTold
<1>5. Serves(m.req)
  BY <1>1, <1>3, <1>4 DEF Serves
<1>6. m.req \in Request
  BY ServiceTyped DEF Messages, Calls
<1> QED BY <1>5, <1>6, ServesText

\* text/prepare: the new text is on its way to the request, which waits.
LEMMA PyPrepareText ==
  ASSUME IInv, TextInv, NEW m \in net, NEW n \in Nonce, PyPrepare(m, n)
  PROVE  TextKept
<1> DEFINE made == PyCreate(py, n, 1, 0)
<1>1. n \notin Held(py) /\ n \notin py.revoked /\ m.req \in Request
  BY ServiceTyped DEF PyPrepare, Messages
<1>2. /\ PyReady(made.py)
      /\ \/ made.status = "created" /\ Grows(py, n, made.py)
         \/ made.status = "capacity" /\ Keeps(py, made.py)
  <2> HIDE DEF made
  <2> QED BY <1>1, ServiceTyped, PyCreateReady DEF made
<1>3. /\ m.kind = "prepare" /\ m.kind \in Calls /\ m.awaited /\ req[m.req].at = "prepare_call"
      /\ UNCHANGED <<store, req, work>>
  BY DEF PyPrepare, TextInv, Accounted, Calls, fastify, reviews
<1>4. CASE made.status = "created"
  <2> DEFINE answer == [kind |-> "prepared", req |-> m.req, nonce |-> n]
  <2>1. py' = made.py /\ net' = (net \ {m}) \cup Answer(m, answer)
    BY <1>4 DEF PyPrepare
  <2>2. answer.kind = "prepared" /\ answer.kind \in Answers /\ answer.req = m.req /\ answer.nonce = n
    BY DEF Answers
  <2> HIDE DEF made, answer
  <2>3. /\ \A p \in Request \ {m.req} : Pending(p)' \subseteq Pending(p)
        /\ \A x, y \in Pending(m.req)' : x = y
        /\ Pending(m.req) = {} => Pending(m.req)' = {}
        /\ \A x \in net' : x.kind \in {"prepare", "prepared"} =>
             x \in net \/ (x.req = m.req /\ x.kind = answer.kind)
        /\ \A x \in net : x.kind \in {"clear", "prepared"} => x \in net'
    BY <1>3, <2>1, <2>2, CallAnswered
  <2>4. answer \in net'
    BY <1>3, <2>1 DEF Answer
  <2>5. TextsTold
    BY <1>2, <1>4, <2>1, <2>2, <2>4 DEF TextsTold, Grows, Held
  <2>6. Serves(m.req)
    BY <1>3, <2>2, <2>3, <2>5 DEF Serves
  <2> QED BY <1>1, <2>6, ServesText
<1>5. CASE made.status # "created"
  <2>1. py' = made.py /\ net' = (net \ {m}) \cup Refused(m)
    BY <1>5 DEF PyPrepare
  <2> HIDE DEF made
  <2>2. Held(py') \subseteq Held(py)
    BY <1>2, <1>5, <2>1 DEF Keeps, Held
  <2> QED BY <1>3, <2>1, <2>2, RefusedText
<1> QED BY <1>4, <1>5

\* The privacy check refuses.
LEMMA PyPrepareRefusesText ==
  ASSUME IInv, TextInv, NEW m \in net, PyPrepareRefuses(m)
  PROVE  TextKept
<1>1. /\ m.kind \in Calls /\ net' = (net \ {m}) \cup Refused(m)
      /\ UNCHANGED <<store, req, work>> /\ Held(py') \subseteq Held(py)
  BY DEF PyPrepareRefuses, Calls, fastify, reviews
<1> QED BY <1>1, RefusedText

\* What takes the place of x is pending if x was.
LEMMA Exchanged ==
  ASSUME TextInv, NEW r \in Request, NEW x, NEW y,
         x \in Pending(r) => Pending(r)' \subseteq (Pending(r) \ {x}) \cup {y},
         x \notin Pending(r) => Pending(r)' \subseteq Pending(r)
  PROVE  /\ \A a, b \in Pending(r)' : a = b
         /\ Pending(r) = {} => Pending(r)' = {}
<1>1. \A a, b \in Pending(r) : a = b
  BY DEF TextInv, Accounted
<1> QED BY <1>1

\* text/continue: the analysis takes the place of the call.
LEMMA PyBeginText ==
  ASSUME IInv, TextInv, NEW m \in net, PyBegin(m)
  PROVE  TextKept
<1> DEFINE j == [nonce |-> m.nonce, req |-> m.req, awaited |-> m.awaited, passed |-> FALSE]
<1>1. /\ m.kind = "continue" /\ m.kind \in Calls /\ m.req \in Request /\ m \notin work
      /\ UNCHANGED <<store, req>>
  BY ServiceTyped, MessagesAreNotAnalyses DEF PyBegin, Messages, Calls, fastify, reviews
<1>2. j.req = m.req /\ j.awaited = m.awaited
  OBVIOUS
<1>3. CASE net' = (net \ {m}) \cup Refused(m) /\ UNCHANGED <<py, work>>
  BY <1>1, <1>3, RefusedText
<1>4. ASSUME NEW matches \in BOOLEAN, Leased(m, PyConsume(py, m.nonce, matches, 0))
      PROVE  TextKept
  <2> DEFINE consumed == PyConsume(py, m.nonce, matches, 0)
  <2>1. /\ PyReady(consumed.py)
        /\ \/ consumed.status = "leased" /\ Leases(py, m.nonce, consumed.py)
           \/ consumed.status # "leased" /\ Keeps(py, consumed.py)
    <3>1. m.nonce \in Nonce /\ 0 \in Nat
      BY <1>1, ServiceTyped DEF Messages
    <3> HIDE DEF consumed
    <3> QED BY <3>1, ServiceTyped, PyConsumeReady DEF consumed
  <2>2. Held(py') \subseteq Held(py)
    <3>1. py' = consumed.py
      BY <1>4 DEF Leased
    <3> HIDE DEF consumed
    <3> QED BY <2>1, <3>1 DEF Leases, Keeps, Held
  <2>3. CASE consumed.status = "leased"
    <3>1. net' = net \ {m} /\ work' = work \cup {j}
      BY <1>4, <2>3 DEF Leased
    <3> HIDE DEF j
    <3>2. \A p \in Request \ {m.req} : Pending(p)' \subseteq Pending(p)
      BY <1>2, <3>1 DEF Pending
    <3>3. m \in Pending(m.req) => Pending(m.req)' \subseteq (Pending(m.req) \ {m}) \cup {j}
      BY <1>1, <3>1 DEF Pending
    <3>4. m \notin Pending(m.req) => Pending(m.req)' \subseteq Pending(m.req)
      <4>1. m \notin Pending(m.req) => ~j.awaited
        BY <1>1, <1>2 DEF Pending
      <4> QED BY <3>1, <4>1 DEF Pending
    <3>5. /\ \A a, b \in Pending(m.req)' : a = b
          /\ Pending(m.req) = {} => Pending(m.req)' = {}
      BY <1>1, <3>3, <3>4, Exchanged
    <3>6. Serves(m.req)
      BY <1>1, <2>2, <3>1, <3>2, <3>5 DEF Serves, TextsTold
    <3> QED BY <1>1, <3>6, ServesText
  <2>4. CASE consumed.status # "leased"
    <3>1. net' = (net \ {m}) \cup Refused(m) /\ UNCHANGED work
      BY <1>4, <2>4 DEF Leased
    <3> QED BY <1>1, <2>2, <3>1, RefusedText
  <2> QED BY <2>3, <2>4
<1> QED BY <1>3, <1>4, BeginOutcomes

\* An analysis is no message.
LEMMA AnalysesAreNotMessages ==
  ASSUME IInv, NEW j \in work
  PROVE  j \notin net /\ j.req \in Request /\ j.awaited \in BOOLEAN
BY ServiceTyped, MessagesAreNotAnalyses DEF Analyses

\* The analysis goes on.
LEMMA PyPassText ==
  ASSUME IInv, TextInv, NEW j \in work, PyPass(j)
  PROVE  TextKept
<1> DEFINE k == [j EXCEPT !.passed = TRUE]
<1>1. /\ work' = (work \ {j}) \cup {k} /\ UNCHANGED <<store, req, py, net>>
      /\ j \notin net /\ j.req \in Request
  BY AnalysesAreNotMessages DEF PyPass, fastify, reviews
<1>2. k.req = j.req /\ k.awaited = j.awaited
  BY ServiceTyped DEF Analyses
<1> HIDE DEF k
<1>3. \A p \in Request \ {j.req} : Pending(p)' \subseteq Pending(p)
  BY <1>1, <1>2 DEF Pending
<1>4. j \in Pending(j.req) => Pending(j.req)' \subseteq (Pending(j.req) \ {j}) \cup {k}
  BY <1>1 DEF Pending
<1>5. j \notin Pending(j.req) => Pending(j.req)' \subseteq Pending(j.req)
  <2>1. j \notin Pending(j.req) => ~k.awaited
    BY <1>2 DEF Pending
  <2> QED BY <1>1, <2>1 DEF Pending
<1>6. /\ \A a, b \in Pending(j.req)' : a = b
      /\ Pending(j.req) = {} => Pending(j.req)' = {}
  BY <1>1, <1>4, <1>5, Exchanged
<1>7. Serves(j.req)
  BY <1>1, <1>3, <1>6, SameTexts DEF Serves
<1> QED BY <1>1, <1>7, ServesText

\* The answer takes the place of the analysis.
LEMMA PyEndText ==
  ASSUME IInv, TextInv, NEW j \in work, PyEnd(j)
  PROVE  TextKept
<1> DEFINE answer == IF j.passed THEN [kind |-> "analysed", req |-> j.req]
                                 ELSE [kind |-> "refused", req |-> j.req]
<1>1. /\ work' = work \ {j} /\ py' = PyFinish(py, j.nonce) /\ UNCHANGED <<store, req>>
      /\ net' = net \cup (IF j.awaited THEN {answer} ELSE {})
      /\ j \notin net /\ j.req \in Request /\ j.nonce \in Nonce
  BY AnalysesAreNotMessages, ServiceTyped DEF PyEnd, Answer, Refused, Analyses, fastify, reviews
<1>2. answer.kind \in {"analysed", "refused"} /\ answer.req = j.req
  OBVIOUS
<1> HIDE DEF answer
<1>3. \A p \in Request \ {j.req} : Pending(p)' \subseteq Pending(p)
  BY <1>1, <1>2 DEF Pending
<1>4. j \in Pending(j.req) => Pending(j.req)' \subseteq (Pending(j.req) \ {j}) \cup {answer}
  BY <1>1 DEF Pending
<1>5. j \notin Pending(j.req) => Pending(j.req)' \subseteq Pending(j.req)
  <2>1. j \notin Pending(j.req) => ~j.awaited
    BY DEF Pending
  <2> QED BY <1>1, <2>1 DEF Pending
<1>6. /\ \A a, b \in Pending(j.req)' : a = b
      /\ Pending(j.req) = {} => Pending(j.req)' = {}
  BY <1>1, <1>4, <1>5, Exchanged
<1>7. Held(py') \subseteq Held(py)
  <2>1. py'.stored = py.stored /\ DOMAIN py'.leased = DOMAIN py.leased \ {j.nonce}
    BY <1>1, ServiceTyped, FinishSettled
  <2> QED BY <2>1 DEF Held
<1>8. Serves(j.req)
  BY <1>1, <1>2, <1>3, <1>6, <1>7 DEF Serves, TextsTold
<1> QED BY <1>1, <1>8, ServesText

(***************************************************************************)
(* No text is orphaned.                                                    *)
(***************************************************************************)

\* Nothing is held or under way at the start.
LEMMA InitText == Init => TextInv
<1> SUFFICES ASSUME Init PROVE TextInv
  OBVIOUS
<1>1. Held(py) = {} /\ \A r \in Request : Pending(r) = {} /\ req[r].at = "idle"
  BY PyEmptyReady DEF Init, Pending, Idle
<1>2. Accounted /\ NoncesAgree
  BY <1>1 DEF Accounted, NoncesAgree, Claimed, Init
<1> QED BY <1>1, <1>2 DEF TextInv, NoOrphanText

\* No step takes back that an answer was not accepted.
LEMMA UnacceptedGrow ==
  ASSUME [Next]_vars
  PROVE  unaccepted \subseteq unaccepted'
<1>1. CASE Arrival
  BY <1>1 DEF Arrival, StartPrepare, StartContinue, ClearReview, fastify
<1>2. ASSUME NEW r \in Request, HandlerStep(r) PROVE UNCHANGED unaccepted
  <2>1. CASE PrepareInvalidate(r) \/ PrepareSend(r) \/ PrepareFinalConsent(r) \/ ContinueClaim(r)
             \/ PrepareRelease(r) \/ ContinueRelease(r)
    BY <2>1 DEF PrepareInvalidate, PrepareSend, PrepareFinalConsent, ContinueClaim, PrepareRelease,
                ContinueRelease, EndContinue, fastify
  <2>2. ASSUME NEW t \in Token, PrepareCreate(r, t) PROVE UNCHANGED unaccepted
    BY <2>2 DEF PrepareCreate
  <2>3. ASSUME NEW m \in net, PrepareHeaders(r, m) \/ ContinueHeaders(r, m)
        PROVE  UNCHANGED unaccepted
    BY <2>3 DEF PrepareHeaders, ContinueHeaders, EndContinue, fastify
  <2> QED BY <1>2, <2>1, <2>2, <2>3 DEF HandlerStep
<1>3. ASSUME NEW r \in Request, BodyStep(r) \/ GiveUp(r)
      PROVE  unaccepted \subseteq unaccepted'
  BY <1>3 DEF BodyStep, GiveUp, PrepareBody, ContinueBody, PrepareGivesUp, ContinueGivesUp,
              EndContinue, fastify
<1>4. CASE PyStep
  BY <1>4 DEF PyStep, PyPrepare, PyPrepareRefuses, PyBegin, PyClearCall, PyPass, PyEnd, fastify
<1>5. CASE Environment
  BY <1>5 DEF Environment, Withdraw, Grant, AdmissionChanges, SessionExpires, PyExpires, Lose,
              PyRestarts, fastify
<1>6. CASE UNCHANGED vars
  BY <1>6 DEF vars
<1> QED BY <1>1, <1>2, <1>3, <1>4, <1>5, <1>6 DEF Next

\* Every step that loses nothing keeps every text accounted for.
LEMMA StepText ==
  ASSUME ~Lossy
  PROVE  IInv /\ TextInv /\ [Next]_vars => TextInv'
<1> SUFFICES ASSUME IInv, TextInv, [Next]_vars PROVE TextKept
  BY UnacceptedGrow DEF TextKept
<1>1. CASE Arrival
  BY <1>1, StartPrepareText, StartContinueText, ClearReviewText DEF Arrival
<1>2. ASSUME NEW r \in Request, HandlerStep(r) PROVE TextKept
  BY <1>2, PrepareInvalidateText, PrepareSendText, PrepareCreateText, PrepareFinalConsentText,
     PrepareReleaseText, ContinueClaimText, ContinueReleaseText, PrepareHeadersText,
     ContinueHeadersText DEF HandlerStep
<1>3. ASSUME NEW r \in Request, BodyStep(r) PROVE TextKept
  BY <1>3, PrepareBodyText, ContinueBodyText DEF BodyStep
<1>4. ASSUME NEW r \in Request, GiveUp(r) PROVE TextKept
  BY <1>4, ContinueGivesUpText DEF GiveUp, PrepareGivesUp
<1>5. CASE PyStep
  BY <1>5, PyPrepareText, PyPrepareRefusesText, PyBeginText, PyClearCallText, PyPassText,
     PyEndText DEF PyStep
<1>6. CASE Environment
  <2>1. ASSUME NEW s \in Subject, NEW version \in Binding, Grant(s, version) PROVE TextKept
    BY <2>1, IdleText DEF Grant
  <2>2. CASE AdmissionChanges
    BY <2>2, IdleText DEF AdmissionChanges
  <2> QED BY <1>6, <2>1, <2>2, WithdrawText
          DEF Environment, SessionExpires, PyExpires, Lose, PyRestarts
<1>7. CASE UNCHANGED vars
  BY <1>7, IdleText DEF vars
<1> QED BY <1>1, <1>2, <1>3, <1>4, <1>5, <1>6, <1>7 DEF Next

\* With a network that loses nothing and no expiry, no minimized text stays in
\* the Python service once the review it was made for is gone, unless somebody
\* is about to clear it or to be told of it, or prepare refused the answer that
\* named it before it took note of the nonce (v2-user-draft-analysis.ts 164,
\* 205, 227-231, 267, 302-311, 328, 343, 398-400, 413-415): however many requests,
\* withdrawals and clears interleave.
THEOREM NoTextOrphaned ==
  ASSUME ~Lossy
  PROVE  Spec => []NoOrphanText
<1>1. IInv /\ TextInv /\ [Next]_vars => TextInv'
  BY StepText
<1>2. TextInv => NoOrphanText
  BY DEF TextInv
<1> QED BY <1>1, <1>2, InitText, Invariance, PTL DEF Spec
=============================================================================
