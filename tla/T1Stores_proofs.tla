----------------------------- MODULE T1Stores_proofs -----------------------------
(***************************************************************************)
(* Lemmas about the operations of the two session stores, the Fastify one  *)
(* first and the private service's after it: what each operation makes of  *)
(* any store that is settled, for every value of the constants.  The       *)
(* proofs about the two state machines and about the protocol cite them.   *)
(***************************************************************************)
EXTENDS T1SessionOps, T1PythonOps, FiniteSetTheorems, WellFoundedInduction, TLAPS

\* A nonempty set of naturals has a least element, so Min picks one.
LEMMA MinOfNaturals ==
  ASSUME NEW S \in SUBSET Nat, S # {}
  PROVE  Min(S) \in S /\ \A d \in S : Min(S) <= d
<1> DEFINE R == OpToRel(<, Nat)
<1>1. IsWellFoundedOn(R, Nat)
  BY NatLessThanWellFounded
<1>2. PICK x \in S : \A y \in S : ~(<<y, x>> \in R)
  <2> HIDE DEF R
  <2> QED BY <1>1, WFMin
<1>3. \A y \in S : x <= y
  <2> TAKE y \in S
  <2>1. ~(<<y, x>> \in R)
    BY <1>2
  <2>2. ~(y < x)
    BY <2>1 DEF OpToRel
  <2> QED BY <2>2
<1> QED BY <1>3 DEF Min

(***************************************************************************)
(* Facts about the bytes that sets of sessions hold.                       *)
(***************************************************************************)

\* The slots BytesOf counts.
Slots(st, T) == {slot \in T \X (1..MaxBytes) : slot[2] <= st.sessions[slot[1]].bytes}

\* A set of sessions has finitely many bytes, and they are counted.
LEMMA SlotsFinite ==
  ASSUME NEW st, NEW T, IsFiniteSet(T)
  PROVE  IsFiniteSet(Slots(st, T)) /\ BytesOf(st, T) \in Nat
         /\ BytesOf(st, T) = Cardinality(Slots(st, T))
<1>1. IsFiniteSet(1..MaxBytes)
  BY FS_Interval, LimitsAssumption
<1>2. IsFiniteSet(T \X (1..MaxBytes))
  BY <1>1, FS_Product
<1>3. Slots(st, T) \in SUBSET (T \X (1..MaxBytes))
  BY DEF Slots
<1>4. IsFiniteSet(Slots(st, T))
  BY <1>2, <1>3, FS_Subset
<1>5. BytesOf(st, T) = Cardinality(Slots(st, T))
  BY DEF BytesOf, Slots
<1> QED BY <1>4, <1>5, FS_CardinalityType

\* Bytes of disjoint sets of sessions add up.
LEMMA BytesAddUp ==
  ASSUME NEW st, NEW T, NEW U, IsFiniteSet(T), IsFiniteSet(U), T \cap U = {}
  PROVE  BytesOf(st, T \cup U) = BytesOf(st, T) + BytesOf(st, U)
<1> DEFINE A == Slots(st, T)
           B == Slots(st, U)
<1>1. Slots(st, T \cup U) = A \cup B
  BY DEF Slots
<1>2. A \cap B = {}
  BY DEF Slots
<1>3. /\ IsFiniteSet(A) /\ BytesOf(st, T) = Cardinality(A)
      /\ IsFiniteSet(B) /\ BytesOf(st, U) = Cardinality(B)
  BY SlotsFinite
<1>4. BytesOf(st, T \cup U) = Cardinality(A \cup B)
  <2>1. IsFiniteSet(T \cup U)
    BY FS_Union
  <2>2. BytesOf(st, T \cup U) = Cardinality(Slots(st, T \cup U))
    BY <2>1, SlotsFinite
  <2> QED BY <1>1, <2>2
<1> HIDE DEF A, B
<1>5. Cardinality(A) \in Nat /\ Cardinality(B) \in Nat
  BY <1>3, FS_CardinalityType
<1>6. Cardinality(A \cap B) = 0
  BY <1>2, FS_EmptySet
<1>7. Cardinality(A \cup B) = Cardinality(A) + Cardinality(B) - Cardinality(A \cap B)
  BY <1>3, FS_Union
<1> QED BY <1>3, <1>4, <1>5, <1>6, <1>7

\* Bytes depend on nothing but the byte fields.
LEMMA BytesSame ==
  ASSUME NEW st, NEW st2, NEW T,
         \A t \in T : st2.sessions[t].bytes = st.sessions[t].bytes
  PROVE  BytesOf(st2, T) = BytesOf(st, T)
BY DEF BytesOf

\* One session holds its own bytes.
LEMMA BytesOfOne ==
  ASSUME NEW st, NEW t, st.sessions[t].bytes \in 0..MaxBytes
  PROVE  BytesOf(st, {t}) = st.sessions[t].bytes
<1> DEFINE n == st.sessions[t].bytes
<1>0. MaxBytes \in Nat /\ n \in Nat /\ n <= MaxBytes
  BY LimitsAssumption
<1>1. Slots(st, {t}) = {t} \X (1..n)
  BY <1>0 DEF Slots
<1>2. IsFiniteSet({t}) /\ Cardinality({t}) = 1
  BY FS_Singleton
<1>3. IsFiniteSet(1..n) /\ Cardinality(1..n) = n
  <2>1. 1 \in Int /\ n \in Int
    BY <1>0
  <2> HIDE DEF n
  <2>2. IsFiniteSet(1..n) /\ Cardinality(1..n) = IF 1 > n THEN 0 ELSE n - 1 + 1
    BY <2>1, FS_Interval
  <2> QED BY <1>0, <2>2
<1>4. Cardinality({t} \X (1..n)) = 1 * n
  <2> DEFINE one == {t}
             counted == 1..n
  <2>1. IsFiniteSet(one) /\ Cardinality(one) = 1 /\ IsFiniteSet(counted) /\ Cardinality(counted) = n
    BY <1>2, <1>3
  <2> HIDE DEF one, counted
  <2>2. Cardinality(one \X counted) = Cardinality(one) * Cardinality(counted)
    BY <2>1, FS_Product
  <2> QED BY <2>1, <2>2 DEF one, counted
<1> QED BY <1>0, <1>1, <1>2, <1>4, SlotsFinite

(***************************************************************************)
(* The inductive invariant, stated of any store between two steps of an    *)
(* operation.  Settled is what removal and insertion keep; TimerArmed only *)
(* holds again once the timer has been scheduled.  DeadlinesNear is the    *)
(* strengthening: a removal that does not re-arm the timer leaves a        *)
(* tombstone one TTL away, which the armed timer precedes only because no  *)
(* session's deadline was ever further than that.                          *)
(***************************************************************************)

DeadlinesNear(st, time) == \A d \in Deadlines(st) : d <= time + TTL
DeadlinesAhead(st, time) == \A d \in Deadlines(st) : d > time
Aborted(st, drawn) == /\ Stored(st) \cup st.aborted = drawn
                      /\ Stored(st) \cap st.aborted = {}

Settled(st, time, drawn) ==
  /\ StoreShape(st)
  /\ IsFiniteSet(Stored(st))
  /\ OneReview(st)
  /\ BytesAccounted(st)
  /\ WithinLimits(st)
  /\ Aborted(st, drawn)
  /\ DeadlinesNear(st, time)

\* What removing T does to each field.
Removes(st, T, time, after) ==
  LET gone == T \cap Stored(st)
  IN  /\ Stored(after) = Stored(st) \ gone
      /\ \A t \in Stored(after) : after.sessions[t] = st.sessions[t]
      /\ after.sessions = [t \in Stored(after) |-> st.sessions[t]]
      /\ DOMAIN after.active = {s \in DOMAIN st.active :
           ~\E t \in gone : st.sessions[t].subject = s /\ st.active[s] = t}
      /\ after.active = [s \in DOMAIN after.active |-> st.active[s]]
      /\ DOMAIN after.tombstones = DOMAIN st.tombstones \cup gone
      /\ after.tombstones = [t \in DOMAIN st.tombstones \cup gone |->
                              IF t \in gone THEN time + TTL ELSE st.tombstones[t]]
      /\ after.timer = st.timer
      /\ after.aborted = st.aborted \cup gone
      /\ after.total = IF st.total - BytesOf(st, gone) > 0
                       THEN st.total - BytesOf(st, gone) ELSE 0
      /\ after = [sessions |-> after.sessions, active |-> after.active,
                  tombstones |-> after.tombstones, total |-> after.total,
                  timer |-> after.timer, aborted |-> after.aborted]

\* What removing a set of sessions makes of every field.
LEMMA RemoveAllFields ==
  ASSUME NEW st, NEW time, NEW T
  PROVE  Removes(st, T, time, RemoveAll(st, T, time))
BY DEF Removes, RemoveAll, Stored, Restrict

\* Removal keeps everything but the timer's promise.
LEMMA RemoveAllSettled ==
  ASSUME NEW st, NEW time \in Nat, NEW drawn, Settled(st, time, drawn), NEW T
  PROVE  Settled(RemoveAll(st, T, time), time, drawn)
<1> DEFINE after == RemoveAll(st, T, time)
           gone  == T \cap Stored(st)
<1>0. StoreShape(st) /\ TTL \in Nat /\ MaxBytes \in Nat /\ MaxSessions \in Nat
  BY LimitsAssumption DEF Settled
<1>1. Removes(st, T, time, after)
  BY RemoveAllFields
<1> HIDE DEF after
<1>2. StoreShape(after)
  BY <1>0, <1>1 DEF StoreShape, Removes, Stored
<1>3. IsFiniteSet(Stored(after)) /\ IsFiniteSet(gone) /\ IsFiniteSet(Stored(st))
  <2>1. IsFiniteSet(Stored(st))
    BY DEF Settled
  <2>2. IsFiniteSet(gone)
    BY <2>1, FS_Intersection
  <2>3. IsFiniteSet(Stored(st) \ gone)
    BY <2>1, FS_Difference
  <2> QED BY <1>1, <2>1, <2>2, <2>3 DEF Removes
<1>4. OneReview(after)
  <2>1. OneReview(st)
    BY DEF Settled
  <2> QED BY <1>1, <2>1 DEF OneReview, Removes
<1>5. BytesAccounted(after) /\ after.total <= st.total /\ after.total \in Nat /\ st.total \in Nat
  <2>1. Stored(st) = Stored(after) \cup gone /\ Stored(after) \cap gone = {}
    BY <1>1 DEF Removes
  <2>2. BytesOf(st, Stored(st)) = BytesOf(st, Stored(after)) + BytesOf(st, gone)
    BY <2>1, <1>3, BytesAddUp
  <2>3. BytesOf(st, Stored(after)) \in Nat /\ BytesOf(st, gone) \in Nat
    BY <1>3, SlotsFinite
  <2>4. BytesOf(after, Stored(after)) = BytesOf(st, Stored(after))
    BY <1>1, BytesSame DEF Removes
  <2>5. st.total = BytesOf(st, Stored(st))
    BY DEF Settled, BytesAccounted
  <2>6. after.total = BytesOf(st, Stored(after))
    BY <1>1, <2>2, <2>3, <2>5 DEF Removes
  <2> QED BY <2>2, <2>3, <2>4, <2>5, <2>6 DEF BytesAccounted
<1>6. WithinLimits(after)
  <2>1. Cardinality(Stored(after)) <= Cardinality(Stored(st))
    BY <1>1, <1>3, FS_Subset DEF Removes
  <2>2. Cardinality(Stored(after)) \in Nat /\ Cardinality(Stored(st)) \in Nat
    BY <1>3, FS_CardinalityType
  <2>3. Cardinality(Stored(st)) <= MaxSessions /\ st.total <= MaxBytes
    BY DEF Settled, WithinLimits
  <2> QED BY <1>0, <1>5, <2>1, <2>2, <2>3 DEF WithinLimits
<1>7. Aborted(after, drawn)
  BY <1>1 DEF Settled, Aborted, Removes
<1>8. DeadlinesNear(after, time)
  <2>1. DeadlinesNear(st, time)
    BY DEF Settled
  <2>2. ASSUME NEW t \in Stored(after)  PROVE after.sessions[t].expiresAt <= time + TTL
    BY <1>1, <2>1 DEF DeadlinesNear, Deadlines, Removes
  <2>3. ASSUME NEW t \in DOMAIN after.tombstones  PROVE after.tombstones[t] <= time + TTL
    <3>1. CASE t \in gone
      BY <1>0, <1>1, <3>1 DEF Removes
    <3>2. CASE t \notin gone
      BY <1>1, <2>1, <3>2 DEF DeadlinesNear, Deadlines, Removes
    <3> QED BY <3>1, <3>2
  <2> QED BY <2>2, <2>3 DEF DeadlinesNear, Deadlines
<1> QED BY <1>2, <1>3, <1>4, <1>5, <1>6, <1>7, <1>8 DEF Settled, after

\* Removal without re-arming is safe: the armed timer preceded the deadlines
\* of the sessions that are gone, and those preceded their tombstones'.
LEMMA RemoveAllArmed ==
  ASSUME NEW st, NEW time \in Nat, NEW drawn, Settled(st, time, drawn), TimerArmed(st), NEW T
  PROVE  TimerArmed(RemoveAll(st, T, time))
<1> DEFINE after == RemoveAll(st, T, time)
           gone  == T \cap Stored(st)
<1>1. Removes(st, T, time, after)
  BY RemoveAllFields
<1> HIDE DEF after
<1>2. StoreShape(st) /\ DeadlinesNear(st, time) /\ TTL \in Nat
  BY LimitsAssumption DEF Settled
<1>3. ASSUME NEW t \in Stored(after)
      PROVE  after.timer # NoTimer /\ after.timer <= after.sessions[t].expiresAt
  <2>1. t \in Stored(st) /\ after.sessions[t] = st.sessions[t] /\ after.timer = st.timer
    BY <1>1, <1>3 DEF Removes
  <2>2. st.sessions[t].expiresAt \in Deadlines(st)
    BY <2>1 DEF Deadlines
  <2> QED BY <2>1, <2>2 DEF TimerArmed
<1>4. ASSUME NEW t \in DOMAIN after.tombstones
      PROVE  after.timer # NoTimer /\ after.timer <= after.tombstones[t]
  <2>1. CASE t \in gone
    <3>1. st.sessions[t].expiresAt \in Deadlines(st)
      BY <2>1 DEF Deadlines
    <3>2. st.sessions[t].expiresAt \in Nat
      BY <1>2, <2>1 DEF StoreShape, Session
    <3>3. st.timer # NoTimer /\ st.timer <= st.sessions[t].expiresAt
      BY <3>1 DEF TimerArmed
    <3>4. st.sessions[t].expiresAt <= time + TTL
      BY <1>2, <3>1 DEF DeadlinesNear
    <3>5. after.timer = st.timer /\ after.tombstones[t] = time + TTL /\ st.timer \in Int
      BY <1>1, <1>2, <2>1 DEF Removes, StoreShape, NoTimer
    <3> QED BY <1>2, <3>2, <3>3, <3>4, <3>5
  <2>2. CASE t \notin gone
    BY <1>1, <2>2 DEF TimerArmed, Deadlines, Removes
  <2> QED BY <2>1, <2>2
<1> QED BY <1>3, <1>4 DEF TimerArmed, Deadlines, after

\* Two stores that differ in their timer only.
SameButTimer(st, after) ==
  /\ after = [sessions |-> st.sessions, active |-> st.active,
              tombstones |-> st.tombstones, total |-> st.total,
              timer |-> after.timer, aborted |-> st.aborted]
  /\ after.timer \in Nat \cup {NoTimer}

\* A settled store stays settled whatever its timer is.
LEMMA TimerIsIndependent ==
  ASSUME NEW st, NEW time, NEW drawn, Settled(st, time, drawn),
         NEW after, SameButTimer(st, after)
  PROVE  Settled(after, time, drawn) /\ Deadlines(after) = Deadlines(st)
<1>1. /\ after.sessions = st.sessions /\ after.active = st.active
      /\ after.tombstones = st.tombstones /\ after.total = st.total
      /\ after.aborted = st.aborted /\ Stored(after) = Stored(st)
  BY DEF SameButTimer, Stored
<1>2. Deadlines(after) = Deadlines(st)
  BY <1>1 DEF Deadlines
<1>3. BytesOf(after, Stored(after)) = BytesOf(st, Stored(st))
  BY <1>1 DEF BytesOf
<1>4. StoreShape(after)
  BY <1>1 DEF StoreShape, SameButTimer, Settled, Stored
<1>5. OneReview(after) /\ Aborted(after, drawn) /\ WithinLimits(after)
  BY <1>1 DEF Settled, OneReview, Aborted, WithinLimits
<1>6. BytesAccounted(after) /\ DeadlinesNear(after, time) /\ IsFiniteSet(Stored(after))
  BY <1>1, <1>2, <1>3 DEF Settled, BytesAccounted, DeadlinesNear
<1> QED BY <1>2, <1>4, <1>5, <1>6 DEF Settled

\* Every deadline is a time.
LEMMA DeadlinesAreNaturals ==
  ASSUME NEW st, StoreShape(st)
  PROVE  Deadlines(st) \in SUBSET Nat
BY DEF StoreShape, Deadlines, Session, Stored

\* Scheduling changes the timer only, and arms it for the nearest deadline.
LEMMA ScheduleExpirySettled ==
  ASSUME NEW st, NEW time \in Nat, NEW drawn, Settled(st, time, drawn)
  PROVE  /\ Settled(ScheduleExpiry(st, time), time, drawn)
         /\ Deadlines(ScheduleExpiry(st, time)) = Deadlines(st)
         /\ DeadlinesAhead(st, time) => TimerArmed(ScheduleExpiry(st, time))
<1> DEFINE after == ScheduleExpiry(st, time)
<1>1. StoreShape(st) /\ Deadlines(st) \in SUBSET Nat
  BY DeadlinesAreNaturals DEF Settled
<1>2. CASE Deadlines(st) = {}
  <2>1. SameButTimer(st, after)
    BY <1>1, <1>2 DEF ScheduleExpiry, StoreShape, SameButTimer
  <2> QED BY <1>2, <2>1, TimerIsIndependent DEF TimerArmed
<1>3. CASE Deadlines(st) # {}
  <2>1. Min(Deadlines(st)) \in Nat /\ Min(Deadlines(st)) \in Deadlines(st)
          /\ \A d \in Deadlines(st) : Min(Deadlines(st)) <= d
    BY <1>1, <1>3, MinOfNaturals
  <2>2. after = [st EXCEPT !.timer = IF Min(Deadlines(st)) > time
                                     THEN Min(Deadlines(st)) ELSE time]
    BY <1>3 DEF ScheduleExpiry
  <2>3. SameButTimer(st, after)
    BY <1>1, <2>1, <2>2 DEF StoreShape, SameButTimer
  <2>4. Settled(after, time, drawn) /\ Deadlines(after) = Deadlines(st)
    BY <2>3, TimerIsIndependent
  <2>5. DeadlinesAhead(st, time) => after.timer = Min(Deadlines(st))
    BY <1>1, <2>1, <2>2 DEF DeadlinesAhead, StoreShape
  <2>6. DeadlinesAhead(st, time) => TimerArmed(after)
    BY <1>1, <2>1, <2>4, <2>5 DEF TimerArmed, NoTimer
  <2> QED BY <2>4, <2>6
<1> QED BY <1>2, <1>3

(***************************************************************************)
(* The operations, each from a settled store.                              *)
(***************************************************************************)

\* What create may be called with, whatever its caller makes of sizes and clocks.
Inputs == [subject : Subject, nonce : Nonce, binding : Binding, bytes : Int, remaining : Int]

\* What holds between two operations.
Ready(st, time, drawn) == Settled(st, time, drawn) /\ TimerArmed(st)

\* sweep leaves a ready store.
LEMMA SweepReady ==
  ASSUME NEW st, NEW time \in Nat, NEW drawn, Settled(st, time, drawn)
  PROVE  Ready(Sweep(st, time), time, drawn) /\ DeadlinesAhead(Sweep(st, time), time)
<1> DEFINE expired == {t \in Stored(st) : st.sessions[t].expiresAt <= time}
           kept    == RemoveAll(st, expired, time)
           recent  == {t \in DOMAIN kept.tombstones : kept.tombstones[t] > time}
           buried  == [kept EXCEPT !.tombstones = Restrict(kept.tombstones, recent)]
<1>1. Settled(kept, time, drawn) /\ Removes(st, expired, time, kept)
  BY RemoveAllSettled, RemoveAllFields
<1>2. Sweep(st, time) = ScheduleExpiry(buried, time)
  BY DEF Sweep
<1>3. StoreShape(st)
  BY DEF Settled
<1>4. \A t \in Stored(kept) : kept.sessions[t].expiresAt > time
  BY <1>1, <1>3 DEF Removes, StoreShape, Session
<1> HIDE DEF kept
<1>5. StoreShape(kept)
  BY <1>1 DEF Settled
<1>6. /\ buried.sessions = kept.sessions /\ buried.active = kept.active
      /\ buried.total = kept.total /\ buried.timer = kept.timer
      /\ buried.aborted = kept.aborted
      /\ buried.tombstones = [t \in recent |-> kept.tombstones[t]]
      /\ buried = [sessions |-> buried.sessions, active |-> buried.active,
                   tombstones |-> buried.tombstones, total |-> buried.total,
                   timer |-> buried.timer, aborted |-> buried.aborted]
  BY <1>5 DEF StoreShape, Restrict
<1> HIDE DEF buried
<1>7. Stored(buried) = Stored(kept) /\ DOMAIN buried.tombstones = recent
  BY <1>6 DEF Stored
<1>8. Deadlines(buried) \subseteq Deadlines(kept)
  BY <1>6, <1>7 DEF Deadlines
<1>9. DeadlinesAhead(buried, time)
  BY <1>4, <1>6, <1>7 DEF DeadlinesAhead, Deadlines
<1>10. Settled(buried, time, drawn)
  <2>1. StoreShape(buried)
    BY <1>5, <1>6, <1>7 DEF StoreShape
  <2>2. BytesOf(buried, Stored(buried)) = BytesOf(kept, Stored(kept))
    BY <1>6, <1>7 DEF BytesOf
  <2>3. BytesAccounted(buried) /\ DeadlinesNear(buried, time)
    BY <1>1, <1>6, <1>8, <2>2 DEF Settled, BytesAccounted, DeadlinesNear
  <2>4. OneReview(buried) /\ WithinLimits(buried) /\ Aborted(buried, drawn)
    BY <1>1, <1>6, <1>7 DEF Settled, OneReview, WithinLimits, Aborted
  <2>5. IsFiniteSet(Stored(buried))
    BY <1>1, <1>7 DEF Settled
  <2> QED BY <2>1, <2>3, <2>4, <2>5 DEF Settled
<1>11. /\ Settled(ScheduleExpiry(buried, time), time, drawn)
       /\ Deadlines(ScheduleExpiry(buried, time)) = Deadlines(buried)
       /\ TimerArmed(ScheduleExpiry(buried, time))
  BY <1>9, <1>10, ScheduleExpirySettled
<1> QED BY <1>2, <1>9, <1>11 DEF Ready, DeadlinesAhead

\* A removal followed by scheduleExpiry, as consume, clear and invalidate do.
LEMMA RemoveAndScheduleReady ==
  ASSUME NEW st, NEW time \in Nat, NEW drawn, Settled(st, time, drawn),
         DeadlinesAhead(st, time), NEW T
  PROVE  Ready(ScheduleExpiry(RemoveAll(st, T, time), time), time, drawn)
<1> DEFINE after == RemoveAll(st, T, time)
           gone  == T \cap Stored(st)
<1>1. Settled(after, time, drawn) /\ Removes(st, T, time, after)
  BY RemoveAllSettled, RemoveAllFields
<1> HIDE DEF after
<1>2. TTL \in Nat /\ TTL > 0
  BY LimitsAssumption
<1>3. \A t \in Stored(after) : after.sessions[t].expiresAt > time
  BY <1>1 DEF Removes, DeadlinesAhead, Deadlines
<1>4. ASSUME NEW t \in DOMAIN after.tombstones  PROVE after.tombstones[t] > time
  <2>1. CASE t \in gone
    BY <1>1, <1>2, <2>1 DEF Removes
  <2>2. CASE t \notin gone
    BY <1>1, <2>2 DEF Removes, DeadlinesAhead, Deadlines
  <2> QED BY <2>1, <2>2
<1>5. DeadlinesAhead(after, time)
  BY <1>3, <1>4 DEF DeadlinesAhead, Deadlines
<1> QED BY <1>1, <1>5, ScheduleExpirySettled DEF Ready, after

\* invalidateSubject leaves a ready store.
LEMMA InvalidateSubjectReady ==
  ASSUME NEW st, NEW time \in Nat, NEW drawn, Settled(st, time, drawn), NEW s
  PROVE  Ready(InvalidateSubject(st, s, time).st, time, drawn)
BY SweepReady, RemoveAndScheduleReady DEF InvalidateSubject, Ready

\* consume leaves a ready store.
LEMMA ConsumeReady ==
  ASSUME NEW st, NEW time \in Nat, NEW drawn, Settled(st, time, drawn), NEW t
  PROVE  Ready(Consume(st, t, time).st, time, drawn)
BY SweepReady, RemoveAndScheduleReady DEF Consume, Ready

\* clear leaves a ready store.
LEMMA ClearReady ==
  ASSUME NEW st, NEW time \in Nat, NEW drawn, Settled(st, time, drawn), NEW t, NEW s
  PROVE  Ready(Clear(st, t, s, time).st, time, drawn)
BY SweepReady, RemoveAndScheduleReady DEF Clear, Ready

\* dispose leaves a ready store.
LEMMA DisposeReady ==
  ASSUME NEW st, NEW time \in Nat, NEW drawn, Settled(st, time, drawn)
  PROVE  Ready(Dispose(st, time), time, drawn)
<1> DEFINE freed == RemoveAll(st, Stored(st), time)
           after == Dispose(st, time)
<1>1. Settled(freed, time, drawn) /\ Removes(st, Stored(st), time, freed)
  BY RemoveAllSettled, RemoveAllFields
<1>a. after = [freed EXCEPT !.tombstones = [t \in {} |-> 0], !.timer = NoTimer]
  BY DEF Dispose, EmptyStore
<1> HIDE DEF freed, after
<1>2. /\ after.sessions = freed.sessions /\ after.active = freed.active
      /\ after.total = freed.total /\ after.aborted = freed.aborted
      /\ after.timer = NoTimer /\ after.tombstones = [t \in {} |-> 0]
      /\ after = [sessions |-> after.sessions, active |-> after.active,
                  tombstones |-> after.tombstones, total |-> after.total,
                  timer |-> after.timer, aborted |-> after.aborted]
  BY <1>1, <1>a DEF Removes
<1>3. Stored(freed) = {} /\ Stored(after) = {} /\ DOMAIN after.tombstones = {}
  BY <1>1, <1>2 DEF Removes, Stored
<1>4. Deadlines(after) = {}
  BY <1>3 DEF Deadlines
<1>5. BytesOf(after, Stored(after)) = BytesOf(freed, Stored(freed))
  BY <1>3 DEF BytesOf
<1>6. StoreShape(after)
  BY <1>1, <1>2, <1>3 DEF Settled, StoreShape, Stored
<1>7. Settled(after, time, drawn)
  BY <1>1, <1>2, <1>3, <1>4, <1>5, <1>6
  DEF Settled, OneReview, BytesAccounted, WithinLimits, Aborted, DeadlinesNear, Stored
<1> QED BY <1>4, <1>7 DEF Ready, TimerArmed, after

\* Marking or corrupting a stored record touches nothing the invariant reads.
LEMMA RecordFlagsReady ==
  ASSUME NEW st, NEW time \in Nat, NEW drawn, Ready(st, time, drawn),
         NEW t \in Stored(st), NEW record \in Session,
         record.subject = st.sessions[t].subject,
         record.bytes = st.sessions[t].bytes,
         record.expiresAt = st.sessions[t].expiresAt
  PROVE  Ready([st EXCEPT !.sessions = Put(st.sessions, t, record)], time, drawn)
<1> DEFINE after == [st EXCEPT !.sessions = Put(st.sessions, t, record)]
<1>1. StoreShape(st) /\ Settled(st, time, drawn) /\ TimerArmed(st)
  BY DEF Ready, Settled
<1>2. /\ after.active = st.active /\ after.tombstones = st.tombstones
      /\ after.total = st.total /\ after.timer = st.timer /\ after.aborted = st.aborted
      /\ after.sessions = [u \in Stored(st) |-> IF u = t THEN record ELSE st.sessions[u]]
      /\ after = [sessions |-> after.sessions, active |-> after.active,
                  tombstones |-> after.tombstones, total |-> after.total,
                  timer |-> after.timer, aborted |-> after.aborted]
  <2>1. Put(st.sessions, t, record)
          = [u \in Stored(st) |-> IF u = t THEN record ELSE st.sessions[u]]
    BY DEF Put, Stored
  <2> QED BY <1>1, <2>1 DEF StoreShape
<1> HIDE DEF after
<1>3. /\ Stored(after) = Stored(st)
      /\ \A u \in Stored(st) : /\ after.sessions[u].subject = st.sessions[u].subject
                               /\ after.sessions[u].bytes = st.sessions[u].bytes
                               /\ after.sessions[u].expiresAt = st.sessions[u].expiresAt
  BY <1>2 DEF Stored
<1>4. Deadlines(after) = Deadlines(st)
  BY <1>2, <1>3 DEF Deadlines
<1>5. BytesOf(after, Stored(after)) = BytesOf(st, Stored(st))
  BY <1>3, BytesSame
<1>6. StoreShape(after)
  <2>1. after.sessions \in [Stored(st) -> Session]
    BY <1>1, <1>2 DEF StoreShape
  <2> QED BY <1>1, <1>2, <1>3, <2>1 DEF StoreShape
<1>7. OneReview(after) /\ WithinLimits(after) /\ Aborted(after, drawn)
  BY <1>1, <1>2, <1>3 DEF Settled, OneReview, WithinLimits, Aborted
<1>8. /\ BytesAccounted(after) /\ DeadlinesNear(after, time) /\ TimerArmed(after)
      /\ IsFiniteSet(Stored(after))
  BY <1>1, <1>2, <1>3, <1>4, <1>5 DEF Settled, BytesAccounted, DeadlinesNear, TimerArmed
<1> QED BY <1>6, <1>7, <1>8 DEF Ready, Settled, after

\* claim leaves a ready store, whatever it answers.
LEMMA ClaimReady ==
  ASSUME NEW st, NEW time \in Nat, NEW drawn, Settled(st, time, drawn), NEW t, NEW s
  PROVE  Ready(Claim(st, t, s, time).st, time, drawn)
<1> DEFINE swept  == Sweep(st, time)
           status == ClaimStatus(swept, t, s)
<1>1. Ready(swept, time, drawn)
  BY SweepReady
<1>2. CASE status = "ok"
  <2> DEFINE record == [swept.sessions[t] EXCEPT !.claimed = TRUE]
  <2>1. t \in Stored(swept)
    BY <1>2 DEF ClaimStatus
  <2>2. swept.sessions[t] \in Session
    BY <1>1, <2>1 DEF Ready, Settled, StoreShape
  <2> HIDE DEF swept
  <2>3. /\ record \in Session
        /\ record.subject = swept.sessions[t].subject
        /\ record.bytes = swept.sessions[t].bytes
        /\ record.expiresAt = swept.sessions[t].expiresAt
    BY <2>2 DEF Session
  <2>4. Ready([swept EXCEPT !.sessions = Put(swept.sessions, t, record)], time, drawn)
    BY <1>1, <2>1, <2>3, RecordFlagsReady
  <2>5. Claim(st, t, s, time).st = [swept EXCEPT !.sessions = Put(swept.sessions, t, record)]
    BY <1>2 DEF Claim, swept
  <2> QED BY <2>4, <2>5
<1>3. CASE status = "integrity_failure"
  <2>1. Ready(RemoveAll(swept, {t}, time), time, drawn)
    BY <1>1, RemoveAllSettled, RemoveAllArmed DEF Ready
  <2>2. Claim(st, t, s, time).st = RemoveAll(swept, {t}, time)
    BY <1>3 DEF Claim
  <2> QED BY <2>1, <2>2
<1>4. CASE status \notin {"ok", "integrity_failure"}
  <2>1. Claim(st, t, s, time).st = swept
    BY <1>4 DEF Claim, ClaimStatus
  <2> QED BY <1>1, <2>1
<1> QED BY <1>2, <1>3, <1>4

\* Once admitted, a session fits where the displaced one was.
LEMMA InsertReady ==
  ASSUME NEW st, NEW time \in Nat, NEW drawn, Settled(st, time, drawn),
         DeadlinesAhead(st, time), NEW in \in Inputs, Fits(st, in),
         NEW t \in Token, t \notin drawn
  PROVE  Ready(Insert(st, in, t, time), time, drawn \cup {t})
<1> DEFINE s     == in.subject
           old   == Displaced(st, s)
           freed == RemoveAll(st, old, time)
           life  == Lifetime(in)
           new   == [subject |-> s, nonce |-> in.nonce, binding |-> in.binding,
                     bytes |-> in.bytes, expiresAt |-> time + life,
                     claimed |-> FALSE, intact |-> TRUE]
           grown == [freed EXCEPT !.sessions = Put(freed.sessions, t, new),
                                  !.active   = Put(freed.active, s, t),
                                  !.total    = freed.total + in.bytes]
<1>1. Insert(st, in, t, time) = ScheduleExpiry(grown, time)
  BY DEF Insert
<1>2. /\ TTL \in Nat /\ TTL > 0 /\ MaxSessions \in Nat /\ MaxBytes \in Nat
      /\ s \in Subject /\ in.nonce \in Nonce /\ in.binding \in Binding
      /\ in.bytes \in Int /\ in.remaining \in Int
  BY LimitsAssumption DEF Inputs
<1>3. life \in Nat /\ 0 < life /\ life <= TTL
  BY <1>2 DEF Fits, Lifetime
<1>4. Settled(freed, time, drawn) /\ Removes(st, old, time, freed) /\ old \subseteq Stored(st)
  BY RemoveAllSettled, RemoveAllFields DEF Displaced
<1>5. /\ StoreShape(st) /\ IsFiniteSet(Stored(st)) /\ OneReview(st) /\ BytesAccounted(st)
      /\ StoreShape(freed) /\ IsFiniteSet(Stored(freed)) /\ BytesAccounted(freed)
      /\ Aborted(freed, drawn)
  BY <1>4 DEF Settled
<1>6. IsFiniteSet(old) /\ Stored(st) = Stored(freed) \cup old
        /\ Stored(freed) = Stored(st) \ old /\ Stored(freed) \cap old = {}
  BY <1>4, <1>5, FS_Subset DEF Removes
<1>7. t \notin Stored(freed)
  BY <1>5 DEF Aborted
<1>8. \A u \in Stored(freed) : freed.sessions[u].subject # s
  <2> SUFFICES ASSUME NEW u \in Stored(st), u \notin old
               PROVE  st.sessions[u].subject # s
    BY <1>4 DEF Removes
  <2> QED BY <1>5 DEF OneReview, Displaced
<1>9. freed.total + in.bytes \in 0..MaxBytes
  <2>1. st.total = BytesOf(st, Stored(freed)) + BytesOf(st, old)
    BY <1>5, <1>6, BytesAddUp DEF BytesAccounted
  <2>2. BytesOf(st, Stored(freed)) \in Nat /\ BytesOf(st, old) \in Nat
    BY <1>5, <1>6, SlotsFinite
  <2>3. freed.total = BytesOf(st, Stored(freed))
    <3>1. BytesOf(freed, Stored(freed)) = BytesOf(st, Stored(freed))
      BY <1>4, BytesSame DEF Removes
    <3> QED BY <1>5, <3>1 DEF BytesAccounted
  <2>4. in.bytes >= 0 /\ st.total - BytesOf(st, old) + in.bytes <= MaxBytes
    BY DEF Fits
  <2> QED BY <1>2, <2>1, <2>2, <2>3, <2>4
<1>10. in.bytes \in 0..MaxBytes /\ freed.total \in Nat
  <2>1. freed.total \in Nat
    BY <1>5, SlotsFinite DEF BytesAccounted
  <2>2. in.bytes >= 0
    BY DEF Fits
  <2> QED BY <1>2, <1>9, <2>1, <2>2
<1>11. Cardinality(Stored(freed) \cup {t}) <= MaxSessions /\ IsFiniteSet(Stored(freed) \cup {t})
  <2>1. Cardinality(Stored(st)) - Cardinality(old) + 1 <= MaxSessions
    BY DEF Fits
  <2>2. Cardinality(Stored(freed)) = Cardinality(Stored(st)) - Cardinality(Stored(st) \cap old)
    BY <1>5, <1>6, FS_Difference
  <2>3. Stored(st) \cap old = old
    BY <1>4
  <2>4. Cardinality(Stored(freed) \cup {t}) = Cardinality(Stored(freed)) + 1
          /\ IsFiniteSet(Stored(freed) \cup {t})
    BY <1>5, <1>7, FS_AddElement
  <2> QED BY <2>1, <2>2, <2>3, <2>4
<1>12. new \in Session
  BY <1>2, <1>3, <1>10 DEF Session
<1>13. /\ new.subject = s /\ new.bytes = in.bytes /\ new.expiresAt = time + life
  OBVIOUS
<1> HIDE DEF s, old, freed, life, new
<1>14. /\ grown.tombstones = freed.tombstones /\ grown.timer = freed.timer
       /\ grown.aborted = freed.aborted
       /\ grown.sessions = [u \in Stored(freed) \cup {t} |->
                             IF u = t THEN new ELSE freed.sessions[u]]
       /\ grown.active = [u \in DOMAIN freed.active \cup {s} |->
                           IF u = s THEN t ELSE freed.active[u]]
       /\ grown.total = freed.total + in.bytes
       /\ grown = [sessions |-> grown.sessions, active |-> grown.active,
                   tombstones |-> grown.tombstones, total |-> grown.total,
                   timer |-> grown.timer, aborted |-> grown.aborted]
  <2> DEFINE ss == Put(freed.sessions, t, new)
             aa == Put(freed.active, s, t)
  <2>1. ss = [u \in Stored(freed) \cup {t} |-> IF u = t THEN new ELSE freed.sessions[u]]
    BY DEF Put, Stored
  <2>2. aa = [u \in DOMAIN freed.active \cup {s} |-> IF u = s THEN t ELSE freed.active[u]]
    BY DEF Put
  <2>3. grown = [freed EXCEPT !.sessions = ss, !.active = aa,
                              !.total = freed.total + in.bytes]
    OBVIOUS
  <2> HIDE DEF ss, aa, grown
  <2>4. /\ grown.tombstones = freed.tombstones /\ grown.timer = freed.timer
        /\ grown.aborted = freed.aborted /\ grown.sessions = ss /\ grown.active = aa
        /\ grown.total = freed.total + in.bytes
        /\ grown = [sessions |-> grown.sessions, active |-> grown.active,
                    tombstones |-> grown.tombstones, total |-> grown.total,
                    timer |-> grown.timer, aborted |-> grown.aborted]
    BY <1>5, <2>3 DEF StoreShape
  <2> QED BY <2>1, <2>2, <2>4
<1> HIDE DEF grown
<1>15. Stored(grown) = Stored(freed) \cup {t} /\ DOMAIN grown.active = DOMAIN freed.active \cup {s}
  BY <1>14 DEF Stored
<1>16. StoreShape(grown)
  <2>1. grown.sessions \in [Stored(grown) -> Session] /\ Stored(grown) \subseteq Token
    BY <1>5, <1>12, <1>14, <1>15 DEF StoreShape
  <2>2. grown.active \in [DOMAIN grown.active -> Token] /\ DOMAIN grown.active \subseteq Subject
    BY <1>2, <1>5, <1>14, <1>15 DEF StoreShape
  <2> QED BY <1>5, <1>14, <2>1, <2>2 DEF StoreShape
<1>17. OneReview(grown)
  <2>1. OneReview(freed)
    BY <1>4 DEF Settled
  <2> QED BY <1>7, <1>8, <1>13, <1>14, <1>15, <2>1 DEF OneReview
<1>18. BytesAccounted(grown)
  <2>1. BytesOf(grown, Stored(freed) \cup {t})
          = BytesOf(grown, Stored(freed)) + BytesOf(grown, {t})
    BY <1>5, <1>7, BytesAddUp, FS_Singleton
  <2>2. BytesOf(grown, Stored(freed)) = BytesOf(freed, Stored(freed))
    BY <1>7, <1>14, BytesSame
  <2>3. grown.sessions[t].bytes = in.bytes
    BY <1>13, <1>14
  <2>4. BytesOf(grown, {t}) = in.bytes
    BY <1>10, <2>3, BytesOfOne
  <2> QED BY <1>5, <1>14, <1>15, <2>1, <2>2, <2>4 DEF BytesAccounted
<1>19. WithinLimits(grown)
  BY <1>9, <1>11, <1>14, <1>15 DEF WithinLimits
<1>20. Aborted(grown, drawn \cup {t})
  BY <1>5, <1>14, <1>15 DEF Aborted
<1>21. DeadlinesNear(grown, time) /\ DeadlinesAhead(grown, time)
  <2>1. DeadlinesNear(freed, time)
    BY <1>4 DEF Settled
  <2>2. \A d \in Deadlines(freed) : d > time
    <3>1. ASSUME NEW u \in Stored(freed)  PROVE freed.sessions[u].expiresAt > time
      BY <1>4 DEF Removes, DeadlinesAhead, Deadlines
    <3>2. ASSUME NEW u \in DOMAIN freed.tombstones  PROVE freed.tombstones[u] > time
      <4>1. CASE u \in old
        BY <1>2, <1>4, <4>1 DEF Removes
      <4>2. CASE u \notin old
        BY <1>4, <4>2 DEF Removes, DeadlinesAhead, Deadlines
      <4> QED BY <4>1, <4>2
    <3> QED BY <3>1, <3>2 DEF Deadlines
  <2>3. Deadlines(grown) \subseteq Deadlines(freed) \cup {time + life}
    <3>1. ASSUME NEW u \in Stored(grown)
          PROVE  grown.sessions[u].expiresAt \in Deadlines(freed) \cup {time + life}
      BY <1>13, <1>14, <1>15 DEF Deadlines
    <3>2. {grown.tombstones[u] : u \in DOMAIN grown.tombstones} \subseteq Deadlines(freed)
      BY <1>14 DEF Deadlines
    <3> QED BY <3>1, <3>2 DEF Deadlines
  <2>4. time + life > time /\ time + life <= time + TTL
    BY <1>2, <1>3
  <2> QED BY <2>1, <2>2, <2>3, <2>4 DEF DeadlinesNear, DeadlinesAhead
<1>22. Settled(grown, time, drawn \cup {t})
  BY <1>11, <1>15, <1>16, <1>17, <1>18, <1>19, <1>20, <1>21 DEF Settled
<1> QED BY <1>1, <1>21, <1>22, ScheduleExpirySettled DEF Ready

\* create leaves a ready store, whether it issues or refuses.
LEMMA CreateReady ==
  ASSUME NEW st, NEW time \in Nat, NEW drawn, Settled(st, time, drawn),
         NEW in \in Inputs, NEW t \in Token, t \notin drawn
  PROVE  LET made == Create(st, in, t, time)
         IN  Ready(made.st, time, IF made.status = "created" THEN drawn \cup {t} ELSE drawn)
<1> DEFINE swept == Sweep(st, time)
<1>1. Ready(swept, time, drawn) /\ DeadlinesAhead(swept, time)
  BY SweepReady
<1>2. CASE Fits(swept, in)
  <2>1. Ready(Insert(swept, in, t, time), time, drawn \cup {t})
    BY <1>1, <1>2, InsertReady DEF Ready
  <2>2. Create(st, in, t, time).st = Insert(swept, in, t, time)
          /\ Create(st, in, t, time).status = "created"
    BY <1>2 DEF Create
  <2> QED BY <2>1, <2>2
<1>3. CASE ~Fits(swept, in)
  <2>1. Create(st, in, t, time).st = swept /\ Create(st, in, t, time).status = "capacity"
    BY <1>3 DEF Create
  <2> QED BY <1>1, <2>1
<1> QED BY <1>2, <1>3

\* A store that was just made is ready.
LEMMA EmptyReady == Ready(EmptyStore, 0, {})
<1> DEFINE st == EmptyStore
<1>2. /\ st.sessions = [t \in {} |-> 0] /\ st.active = [s \in {} |-> 0]
      /\ st.tombstones = [t \in {} |-> 0] /\ st.total = 0
      /\ st.timer = NoTimer /\ st.aborted = {}
      /\ st = [sessions |-> st.sessions, active |-> st.active,
               tombstones |-> st.tombstones, total |-> st.total,
               timer |-> st.timer, aborted |-> st.aborted]
  BY DEF EmptyStore
<1> HIDE DEF st
<1>3. Stored(st) = {} /\ DOMAIN st.active = {} /\ DOMAIN st.tombstones = {}
  BY <1>2 DEF Stored
<1>4. Deadlines(st) = {}
  BY <1>3 DEF Deadlines
<1>5. BytesOf(st, Stored(st)) = 0
  <2>1. {slot \in {} \X (1..MaxBytes) : slot[2] <= st.sessions[slot[1]].bytes} = {}
    OBVIOUS
  <2> QED BY <1>3, <2>1, FS_EmptySet DEF BytesOf
<1>6. StoreShape(st)
  BY <1>2, <1>3 DEF StoreShape
<1>7. WithinLimits(st) /\ IsFiniteSet(Stored(st))
  BY <1>2, <1>3, FS_EmptySet, LimitsAssumption DEF WithinLimits
<1>8. OneReview(st) /\ BytesAccounted(st) /\ Aborted(st, {})
  BY <1>2, <1>3, <1>5 DEF OneReview, BytesAccounted, Aborted
<1>9. DeadlinesNear(st, 0) /\ TimerArmed(st)
  BY <1>4 DEF DeadlinesNear, TimerArmed
<1> QED BY <1>6, <1>7, <1>8, <1>9 DEF Ready, Settled, st

(***************************************************************************)
(* Which sessions an operation leaves.                                     *)
(***************************************************************************)

\* The sessions a sweep keeps.
Live(st, time) == {t \in Stored(st) : st.sessions[t].expiresAt > time}

\* Those of one subject among them.
Owned(st, s, time) == {t \in Live(st, time) : st.sessions[t].subject = s}

\* after holds the sessions of st in T, untouched.
LeavesOnly(st, after, T) ==
  /\ Stored(after) = T /\ T \subseteq Stored(st)
  /\ \A t \in T : after.sessions[t] = st.sessions[t]

\* Two operations in a row.
LEMMA LeavesTransitive ==
  ASSUME NEW a, NEW b, NEW c, NEW T, NEW U, LeavesOnly(a, b, T), LeavesOnly(b, c, U)
  PROVE  LeavesOnly(a, c, U)
BY DEF LeavesOnly

\* st has the fields of a store.
IsStore(st) == st = [sessions |-> st.sessions, active |-> st.active,
                     tombstones |-> st.tombstones, total |-> st.total,
                     timer |-> st.timer, aborted |-> st.aborted]

\* Re-arming the timer touches no session.
LEMMA ScheduleLeaves ==
  ASSUME NEW st, IsStore(st), NEW time \in Nat
  PROVE  ScheduleExpiry(st, time).sessions = st.sessions
<1> DEFINE due == CASE Deadlines(st) = {} -> NoTimer
                    [] Deadlines(st) # {} -> LET nearest == Min(Deadlines(st))
                                             IN  IF nearest > time THEN nearest ELSE time
<1>1. ScheduleExpiry(st, time) = [st EXCEPT !.timer = due]
  BY DEF ScheduleExpiry
<1> HIDE DEF due
<1> QED BY <1>1 DEF IsStore

\* removeByHash takes out what it is told to, and no other session.
LEMMA RemoveAllLeaves ==
  ASSUME NEW st, NEW time, NEW T
  PROVE  LeavesOnly(st, RemoveAll(st, T, time), Stored(st) \ T)
<1> DEFINE after == RemoveAll(st, T, time)
<1>1. Removes(st, T, time, after)
  BY RemoveAllFields
<1> HIDE DEF after
<1>2. Stored(after) = Stored(st) \ T
  BY <1>1 DEF Removes
<1>3. \A t \in Stored(after) : after.sessions[t] = st.sessions[t]
  BY <1>1 DEF Removes
<1> QED BY <1>2, <1>3 DEF LeavesOnly, after

\* A sweep keeps exactly the sessions that have not expired.
LEMMA SweepLeaves ==
  ASSUME NEW st, NEW time \in Nat, NEW drawn, Settled(st, time, drawn)
  PROVE  LeavesOnly(st, Sweep(st, time), Live(st, time))
<1> DEFINE expired == {t \in Stored(st) : st.sessions[t].expiresAt <= time}
           kept    == RemoveAll(st, expired, time)
           recent  == {t \in DOMAIN kept.tombstones : kept.tombstones[t] > time}
           rest    == Restrict(kept.tombstones, recent)
           buried  == [kept EXCEPT !.tombstones = rest]
<1>1. LeavesOnly(st, kept, Stored(st) \ expired)
  BY RemoveAllLeaves
<1>2. Stored(st) \ expired = Live(st, time)
  <2>1. \A t \in Stored(st) : st.sessions[t].expiresAt \in Nat
    BY DEF Settled, StoreShape, Session
  <2> QED BY <2>1 DEF Live
<1>3. Settled(kept, time, drawn)
  BY RemoveAllSettled
<1>4. Sweep(st, time) = ScheduleExpiry(buried, time)
  BY DEF Sweep
<1>5. StoreShape(kept) /\ recent \subseteq DOMAIN kept.tombstones
  BY <1>3 DEF Settled
<1>6. rest \in [recent -> Nat]
  <2> HIDE DEF kept, recent
  <2> QED BY <1>5 DEF Restrict, StoreShape
<1> HIDE DEF expired, kept, rest
<1>7. StoreShape(buried) /\ buried.sessions = kept.sessions
  <2>1. buried = [kept EXCEPT !.tombstones = rest]
    OBVIOUS
  <2>2. DOMAIN rest = recent
    BY <1>6
  <2> HIDE DEF buried, recent
  <2>3. buried = [sessions |-> kept.sessions, active |-> kept.active, tombstones |-> rest,
                  total |-> kept.total, timer |-> kept.timer, aborted |-> kept.aborted]
    BY <1>5, <2>1 DEF StoreShape
  <2> QED BY <1>5, <1>6, <2>2, <2>3 DEF StoreShape, Stored
<1> HIDE DEF buried
<1>8. ScheduleExpiry(buried, time).sessions = kept.sessions
  BY <1>7, ScheduleLeaves DEF StoreShape, IsStore
<1> QED BY <1>1, <1>2, <1>4, <1>8 DEF LeavesOnly, Stored

\* A sweep, a removal and a new timer, as most methods do.
LEMMA SweepAndRemoveLeaves ==
  ASSUME NEW st, NEW time \in Nat, NEW drawn, Settled(st, time, drawn), NEW T
  PROVE  LeavesOnly(st, ScheduleExpiry(RemoveAll(Sweep(st, time), T, time), time),
                    Live(st, time) \ T)
<1> DEFINE swept == Sweep(st, time)
           freed == RemoveAll(swept, T, time)
<1>1. LeavesOnly(st, swept, Live(st, time)) /\ Settled(swept, time, drawn)
  BY SweepLeaves, SweepReady DEF Ready
<1> HIDE DEF swept
<1>2. LeavesOnly(swept, freed, Stored(swept) \ T) /\ StoreShape(freed)
  BY <1>1, RemoveAllLeaves, RemoveAllSettled DEF Settled
<1> HIDE DEF freed
<1>3. ScheduleExpiry(freed, time).sessions = freed.sessions
  BY <1>2, ScheduleLeaves DEF StoreShape, IsStore
<1>4. LeavesOnly(st, freed, Live(st, time) \ T)
  <2>1. Stored(swept) = Live(st, time)
    BY <1>1 DEF LeavesOnly
  <2> QED BY <1>1, <1>2, <2>1, LeavesTransitive
<1> QED BY <1>3, <1>4 DEF LeavesOnly, Stored, freed, swept

\* What is looked up after the sweep is what was stored.
LEMMA SweptRecords ==
  ASSUME NEW st, NEW time \in Nat, NEW drawn, Settled(st, time, drawn)
  PROVE  LET swept == Sweep(st, time)
         IN  /\ LeavesOnly(st, swept, Live(st, time))
             /\ Stored(swept) = Live(st, time) /\ OneReview(swept) /\ StoreShape(swept)
             /\ \A t \in Live(st, time) : /\ swept.sessions[t] = st.sessions[t]
                                          /\ NonceOf(swept, t) = st.sessions[t].nonce
<1>1. LeavesOnly(st, Sweep(st, time), Live(st, time)) /\ Settled(Sweep(st, time), time, drawn)
  BY SweepLeaves, SweepReady DEF Ready
<1> QED BY <1>1 DEF LeavesOnly, NonceOf, Settled

\* consume ends the session it names and hands back its nonce.
LEMMA ConsumeLeaves ==
  ASSUME NEW st, NEW time \in Nat, NEW drawn, Settled(st, time, drawn), NEW t
  PROVE  LET consumed == Consume(st, t, time)
         IN  /\ LeavesOnly(st, consumed.st, Live(st, time) \ {t})
             /\ consumed.nonce = IF t \in Live(st, time) THEN st.sessions[t].nonce ELSE NoNonce
<1>1. LeavesOnly(st, Consume(st, t, time).st, Live(st, time) \ {t})
  BY SweepAndRemoveLeaves DEF Consume
<1>2. Consume(st, t, time).nonce = NonceOf(Sweep(st, time), t)
  BY DEF Consume
<1> QED BY <1>1, <1>2, SweptRecords DEF NonceOf

\* clear ends the session it names if it is its owner's, and hands back its nonce.
LEMMA ClearLeaves ==
  ASSUME NEW st, NEW time \in Nat, NEW drawn, Settled(st, time, drawn), NEW t, NEW s
  PROVE  LET cleared == Clear(st, t, s, time)
             own     == t \in Live(st, time) /\ st.sessions[t].subject = s
         IN  /\ LeavesOnly(st, cleared.st, IF own THEN Live(st, time) \ {t} ELSE Live(st, time))
             /\ cleared.nonce = IF own THEN st.sessions[t].nonce ELSE NoNonce
             /\ own => cleared.status = "cleared"
<1> DEFINE swept == Sweep(st, time)
           after == ScheduleExpiry(RemoveAll(swept, {t}, time), time)
<1>1. /\ Stored(swept) = Live(st, time) /\ LeavesOnly(st, swept, Live(st, time))
      /\ t \in Live(st, time) => swept.sessions[t] = st.sessions[t]
                                 /\ NonceOf(swept, t) = st.sessions[t].nonce
  BY SweptRecords
<1>2. LeavesOnly(st, after, Live(st, time) \ {t})
  BY SweepAndRemoveLeaves
<1>3. Clear(st, t, s, time)
        = IF t \notin Stored(swept) THEN [st |-> swept, status |-> "cleared", nonce |-> NoNonce]
          ELSE IF swept.sessions[t].subject # s
          THEN [st |-> swept, status |-> "forbidden", nonce |-> NoNonce]
          ELSE [st |-> after, status |-> "cleared", nonce |-> NonceOf(swept, t)]
  BY DEF Clear
<1> HIDE DEF swept, after
<1> QED BY <1>1, <1>2, <1>3

\* invalidateSubject ends its subject's sessions, one at most, and hands back
\* the nonce.
LEMMA InvalidateLeaves ==
  ASSUME NEW st, NEW time \in Nat, NEW drawn, Settled(st, time, drawn), NEW s
  PROVE  LET invalidated == InvalidateSubject(st, s, time)
             own         == Owned(st, s, time)
         IN  /\ LeavesOnly(st, invalidated.st, Live(st, time) \ own)
             /\ \A t \in own : invalidated.nonce = st.sessions[t].nonce
             /\ own = {} => invalidated.nonce = NoNonce
<1> DEFINE swept == Sweep(st, time)
           t     == swept.active[s]
           after == ScheduleExpiry(RemoveAll(swept, {t}, time), time)
           own   == Owned(st, s, time)
<1>1. /\ Stored(swept) = Live(st, time) /\ LeavesOnly(st, swept, Live(st, time))
      /\ OneReview(swept)
      /\ \A u \in Live(st, time) : /\ swept.sessions[u] = st.sessions[u]
                                   /\ NonceOf(swept, u) = st.sessions[u].nonce
  BY SweptRecords
<1>2. LeavesOnly(st, after, Live(st, time) \ {t})
  BY SweepAndRemoveLeaves
<1>3. InvalidateSubject(st, s, time) = IF s \in DOMAIN swept.active
                                       THEN [st |-> after, nonce |-> NonceOf(swept, t)]
                                       ELSE [st |-> swept, nonce |-> NoNonce]
  BY DEF InvalidateSubject
<1>4. /\ s \in DOMAIN swept.active => t \in Live(st, time) /\ own = {t}
      /\ s \notin DOMAIN swept.active => own = {}
  BY <1>1 DEF OneReview, Owned
<1>5. s \notin DOMAIN swept.active => Live(st, time) \ own = Live(st, time)
  BY <1>4
<1> DEFINE invalidated == InvalidateSubject(st, s, time)
<1> HIDE DEF swept, after, t, own, invalidated
<1>6. CASE s \in DOMAIN swept.active
  <2>1. invalidated.st = after /\ invalidated.nonce = NonceOf(swept, t)
    BY <1>3, <1>6 DEF invalidated
  <2>2. own = {t} /\ t \in Live(st, time)
    BY <1>4, <1>6
  <2>3. LeavesOnly(st, invalidated.st, Live(st, time) \ own)
    BY <1>2, <2>1, <2>2
  <2>4. \A u \in own : invalidated.nonce = st.sessions[u].nonce
    BY <1>1, <2>1, <2>2
  <2>5. own # {}
    BY <2>2
  <2> QED BY <2>3, <2>4, <2>5 DEF own, invalidated
<1>7. CASE s \notin DOMAIN swept.active
  <2>1. invalidated.st = swept /\ invalidated.nonce = NoNonce
    BY <1>3, <1>7 DEF invalidated
  <2>2. LeavesOnly(st, invalidated.st, Live(st, time) \ own)
    BY <1>1, <1>5, <1>7, <2>1
  <2>3. own = {}
    BY <1>4, <1>7
  <2>4. \A u \in own : invalidated.nonce = st.sessions[u].nonce
    BY <2>3
  <2> QED BY <2>1, <2>2, <2>4 DEF own, invalidated
<1> QED BY <1>6, <1>7

\* claim marks the session it names, if it is its owner's and was not claimed
\* before; it ends one whose seal is broken, and else touches none.
LEMMA ClaimLeaves ==
  ASSUME NEW st, NEW time \in Nat, NEW drawn, Settled(st, time, drawn), NEW t, NEW s
  PROVE  LET claimed == Claim(st, t, s, time)
         IN  /\ claimed.status \in {"gone", "forbidden", "ok", "integrity_failure"}
             /\ claimed.status = "ok" =>
                  /\ t \in Live(st, time) /\ Stored(claimed.st) = Live(st, time)
                  /\ st.sessions[t].subject = s /\ ~st.sessions[t].claimed
                  /\ claimed.st.sessions[t] = [st.sessions[t] EXCEPT !.claimed = TRUE]
                  /\ \A u \in Live(st, time) \ {t} : claimed.st.sessions[u] = st.sessions[u]
             /\ claimed.status = "integrity_failure" =>
                  /\ t \in Live(st, time) /\ ~st.sessions[t].intact
                  /\ st.sessions[t].subject = s
                  /\ LeavesOnly(st, claimed.st, Live(st, time) \ {t})
             /\ claimed.status \in {"gone", "forbidden"} =>
                  LeavesOnly(st, claimed.st, Live(st, time))
<1> DEFINE swept   == Sweep(st, time)
           status  == ClaimStatus(swept, t, s)
           marked  == Put(swept.sessions, t, [swept.sessions[t] EXCEPT !.claimed = TRUE])
           ended   == RemoveAll(swept, {t}, time)
           claimed == Claim(st, t, s, time)
<1>1. /\ Stored(swept) = Live(st, time) /\ LeavesOnly(st, swept, Live(st, time))
      /\ StoreShape(swept)
      /\ \A u \in Live(st, time) : swept.sessions[u] = st.sessions[u]
  BY SweptRecords
<1>2. claimed.status = status
        /\ claimed.st = CASE status = "ok" -> [swept EXCEPT !.sessions = marked]
                          [] status = "integrity_failure" -> ended
                          [] OTHER -> swept
  BY DEF Claim
<1>3. /\ status \in {"gone", "forbidden", "ok", "integrity_failure"}
      /\ status \in {"ok", "integrity_failure"} =>
           t \in Stored(swept) /\ ~swept.sessions[t].claimed /\ swept.sessions[t].subject = s
      /\ status = "integrity_failure" => ~swept.sessions[t].intact
  BY DEF ClaimStatus
<1> HIDE DEF swept, status, claimed
<1>4. CASE status = "ok"
  <2>1. claimed.st = [swept EXCEPT !.sessions = marked]
    BY <1>2, <1>4
  <2>2. claimed.st.sessions = marked
    <3> HIDE DEF marked
    <3> QED BY <1>1, <2>1 DEF StoreShape
  <2>3. /\ Stored(claimed.st) = Live(st, time)
        /\ claimed.st.sessions[t] = [st.sessions[t] EXCEPT !.claimed = TRUE]
        /\ \A u \in Live(st, time) \ {t} : claimed.st.sessions[u] = st.sessions[u]
    BY <1>1, <1>3, <1>4, <2>2 DEF Put, Stored
  <2>4. t \in Live(st, time) /\ ~st.sessions[t].claimed /\ st.sessions[t].subject = s
    BY <1>1, <1>3, <1>4
  <2> QED BY <1>2, <1>3, <1>4, <2>3, <2>4 DEF claimed
<1>5. CASE status = "integrity_failure"
  <2>1. claimed.st = ended
    BY <1>2, <1>5
  <2>2. LeavesOnly(swept, ended, Stored(swept) \ {t})
    BY RemoveAllLeaves
  <2> HIDE DEF ended
  <2>3. LeavesOnly(st, claimed.st, Live(st, time) \ {t})
    BY <1>1, <2>1, <2>2, LeavesTransitive
  <2>4. t \in Live(st, time) /\ ~st.sessions[t].intact /\ st.sessions[t].subject = s
    BY <1>1, <1>3, <1>5
  <2> QED BY <1>2, <1>5, <2>3, <2>4 DEF claimed
<1>6. CASE status \notin {"ok", "integrity_failure"}
  <2>1. claimed.st = swept
    BY <1>2, <1>6
  <2> QED BY <1>1, <1>2, <1>3, <1>6, <2>1 DEF claimed
<1> QED BY <1>4, <1>5, <1>6

\* create stores one session, in place of those its subject had, and hands
\* back the nonce of the one it displaced; or it touches none.
LEMMA CreateLeaves ==
  ASSUME NEW st, NEW time \in Nat, NEW drawn, Settled(st, time, drawn),
         NEW in \in Inputs, NEW t, t \notin drawn
  PROVE  LET made == Create(st, in, t, time)
             own  == Owned(st, in.subject, time)
             new  == [subject |-> in.subject, nonce |-> in.nonce, binding |-> in.binding,
                      bytes |-> in.bytes, expiresAt |-> time + Lifetime(in),
                      claimed |-> FALSE, intact |-> TRUE]
         IN  /\ made.status \in {"created", "capacity"}
             /\ made.status = "created" =>
                  /\ Stored(made.st) = (Live(st, time) \ own) \cup {t}
                  /\ \A u \in Live(st, time) \ own : made.st.sessions[u] = st.sessions[u]
                  /\ made.st.sessions[t] = new
                  /\ time + Lifetime(in) \in (time + 1)..(time + TTL)
                  /\ \A u \in own : made.replaced = st.sessions[u].nonce
                  /\ own = {} => made.replaced = NoNonce
             /\ made.status = "capacity" => LeavesOnly(st, made.st, Live(st, time))
<1> DEFINE swept == Sweep(st, time)
           s     == in.subject
           old   == Displaced(swept, s)
           own   == Owned(st, s, time)
           freed == RemoveAll(swept, old, time)
           life  == Lifetime(in)
           new   == [subject |-> s, nonce |-> in.nonce, binding |-> in.binding,
                     bytes |-> in.bytes, expiresAt |-> time + life,
                     claimed |-> FALSE, intact |-> TRUE]
           held  == Put(freed.sessions, t, new)
           owned == Put(freed.active, s, t)
           sum   == freed.total + in.bytes
           grown == [freed EXCEPT !.sessions = held, !.active = owned, !.total = sum]
           made  == Create(st, in, t, time)
<1>1. /\ Stored(swept) = Live(st, time) /\ LeavesOnly(st, swept, Live(st, time))
      /\ StoreShape(swept) /\ OneReview(swept)
      /\ \A u \in Live(st, time) : /\ swept.sessions[u] = st.sessions[u]
                                   /\ NonceOf(swept, u) = st.sessions[u].nonce
  BY SweptRecords
<1>2. CASE ~Fits(swept, in)
  <2>1. made.st = swept /\ made.status = "capacity"
    BY <1>2 DEF Create
  <2> QED BY <1>1, <2>1
<1>3. CASE Fits(swept, in)
  <2>1. /\ made.st = ScheduleExpiry(grown, time) /\ made.status = "created"
        /\ made.replaced = IF old = {} THEN NoNonce ELSE NonceOf(swept, swept.active[s])
    BY <1>3 DEF Create, Insert
  <2>2. time + life \in (time + 1)..(time + TTL)
    <3>1. in.remaining \in Int /\ TTL \in Nat
      BY LimitsAssumption DEF Inputs
    <3>2. life \in Int /\ life > 0 /\ life <= TTL
      BY <1>3, <3>1 DEF Fits, Lifetime
    <3> HIDE DEF life
    <3> QED BY <3>1, <3>2
  <2>3. /\ old = own
        /\ own # {} => own = {swept.active[s]}
    BY <1>1 DEF Displaced, OneReview, Owned
  <2>4. /\ LeavesOnly(swept, freed, Stored(swept) \ old)
        /\ Settled(swept, time, drawn) /\ Settled(freed, time, drawn)
    BY RemoveAllLeaves, RemoveAllSettled, SweepReady DEF Ready
  <2> HIDE DEF swept, old, made
  <2>5. own \subseteq Live(st, time)
    BY DEF Owned
  <2> HIDE DEF own
  <2>6. \A u \in own : made.replaced = st.sessions[u].nonce
    BY <1>1, <2>1, <2>3, <2>5
  <2>7. own = {} => made.replaced = NoNonce
    BY <2>1, <2>3
  <2>8. StoreShape(freed) /\ t \notin Stored(freed)
    BY <2>4 DEF Settled, Aborted
  <2> HIDE DEF freed, life, s, new
  <2>9. made.st.sessions = held
    <3> HIDE DEF held, owned, sum
    <3>1. grown = [sessions |-> held, active |-> owned, tombstones |-> freed.tombstones,
                   total |-> sum, timer |-> freed.timer, aborted |-> freed.aborted]
      <4>1. grown = [freed EXCEPT !.sessions = held, !.active = owned, !.total = sum]
        OBVIOUS
      <4> HIDE DEF grown
      <4> QED BY <2>8, <4>1 DEF StoreShape
    <3>2. grown.sessions = held /\ IsStore(grown)
      <4> HIDE DEF grown
      <4> QED BY <3>1 DEF IsStore
    <3> HIDE DEF grown
    <3>3. ScheduleExpiry(grown, time).sessions = held
      BY <3>2, ScheduleLeaves
    <3> QED BY <2>1, <3>3
  <2>10. /\ Stored(made.st) = (Live(st, time) \ own) \cup {t} /\ made.st.sessions[t] = new
         /\ \A u \in Live(st, time) \ own : made.st.sessions[u] = st.sessions[u]
    <3>1. Stored(freed) = Live(st, time) \ own
            /\ \A u \in Stored(freed) : freed.sessions[u] = st.sessions[u]
      BY <1>1, <2>3, <2>4 DEF LeavesOnly
    <3> QED BY <2>8, <2>9, <3>1 DEF Put, Stored
  <2> QED BY <2>1, <2>2, <2>6, <2>7, <2>10 DEF own, made, new, s, life
<1> QED BY <1>2, <1>3

(***************************************************************************)
(* The bytes that a set of nonces holds.                                   *)
(***************************************************************************)

\* The slots PyBytesOf counts.
PySlots(st, N) == {slot \in N \X (1..PyBytes) : slot[2] <= LeaseOf(st, slot[1]).bytes}

\* A set of entries has finitely many bytes, and they are counted.
LEMMA PySlotsFinite ==
  ASSUME NEW st, NEW N, IsFiniteSet(N)
  PROVE  /\ IsFiniteSet(PySlots(st, N)) /\ PyBytesOf(st, N) \in Nat
         /\ PyBytesOf(st, N) = Cardinality(PySlots(st, N))
<1>0. IsFiniteSet(1..PyBytes)
  BY FS_Interval, PyLimitsAssumption
<1>1. IsFiniteSet(N \X (1..PyBytes))
  BY <1>0, FS_Product
<1>2. IsFiniteSet(PySlots(st, N))
  BY <1>1, FS_Subset DEF PySlots
<1>3. PyBytesOf(st, N) = Cardinality(PySlots(st, N))
  BY DEF PyBytesOf, PySlots
<1> QED BY <1>2, <1>3, FS_CardinalityType

\* Bytes of disjoint sets of nonces add up.
LEMMA PyBytesAddUp ==
  ASSUME NEW st, NEW N, NEW M, IsFiniteSet(N), IsFiniteSet(M), N \cap M = {}
  PROVE  PyBytesOf(st, N \cup M) = PyBytesOf(st, N) + PyBytesOf(st, M)
<1> DEFINE A == PySlots(st, N)
           B == PySlots(st, M)
<1>1. PySlots(st, N \cup M) = A \cup B /\ A \cap B = {}
  BY DEF PySlots
<1>2. /\ IsFiniteSet(A) /\ PyBytesOf(st, N) = Cardinality(A)
      /\ IsFiniteSet(B) /\ PyBytesOf(st, M) = Cardinality(B)
  BY PySlotsFinite
<1>3. PyBytesOf(st, N \cup M) = Cardinality(A \cup B)
  <2>1. IsFiniteSet(N \cup M)
    BY FS_Union
  <2>2. PyBytesOf(st, N \cup M) = Cardinality(PySlots(st, N \cup M))
    BY <2>1, PySlotsFinite
  <2> QED BY <1>1, <2>2
<1> HIDE DEF A, B
<1>4. Cardinality(A) \in Nat /\ Cardinality(B) \in Nat
  BY <1>2, FS_CardinalityType
<1>5. Cardinality(A \cap B) = 0
  BY <1>1, FS_EmptySet
<1>6. Cardinality(A \cup B) = Cardinality(A) + Cardinality(B) - Cardinality(A \cap B)
  BY <1>2, FS_Union
<1> QED BY <1>2, <1>3, <1>4, <1>5, <1>6

\* Bytes depend on nothing but the leases.
LEMMA PyBytesSame ==
  ASSUME NEW st, NEW st2, NEW N, \A n \in N : LeaseOf(st2, n) = LeaseOf(st, n)
  PROVE  PyBytesOf(st2, N) = PyBytesOf(st, N)
<1>1. PySlots(st2, N) = PySlots(st, N)
  BY DEF PySlots
<1> QED BY <1>1 DEF PyBytesOf, PySlots

\* One text holds its own bytes.
LEMMA PyBytesOfOne ==
  ASSUME NEW st, NEW n, LeaseOf(st, n).bytes \in 0..PyBytes
  PROVE  PyBytesOf(st, {n}) = LeaseOf(st, n).bytes
<1> DEFINE b == LeaseOf(st, n).bytes
<1>0. PyBytes \in Nat /\ b \in Nat /\ b <= PyBytes
  BY PyLimitsAssumption
<1>1. PySlots(st, {n}) = {n} \X (1..b)
  BY <1>0 DEF PySlots
<1>2. IsFiniteSet({n}) /\ Cardinality({n}) = 1
  BY FS_Singleton
<1>3. IsFiniteSet(1..b) /\ Cardinality(1..b) = b
  <2>1. 1 \in Int /\ b \in Int
    BY <1>0
  <2> HIDE DEF b
  <2>2. IsFiniteSet(1..b) /\ Cardinality(1..b) = IF 1 > b THEN 0 ELSE b - 1 + 1
    BY <2>1, FS_Interval
  <2> QED BY <1>0, <2>2
<1>4. Cardinality({n} \X (1..b)) = 1 * b
  <2> DEFINE one == {n}
             counted == 1..b
  <2>1. IsFiniteSet(one) /\ Cardinality(one) = 1 /\ IsFiniteSet(counted) /\ Cardinality(counted) = b
    BY <1>2, <1>3
  <2> HIDE DEF one, counted
  <2>2. Cardinality(one \X counted) = Cardinality(one) * Cardinality(counted)
    BY <2>1, FS_Product
  <2> QED BY <2>1, <2>2 DEF one, counted
<1>5. PyBytesOf(st, {n}) = Cardinality(PySlots(st, {n}))
  BY <1>2, PySlotsFinite
<1> HIDE DEF b
<1>6. Cardinality({n} \X (1..b)) = b
  BY <1>0, <1>4
<1>7. PyBytesOf(st, {n}) = b
  BY <1>1, <1>5, <1>6
<1> QED BY <1>7 DEF b

(***************************************************************************)
(* The store between two steps of an operation.  PySettled leaves out the    *)
(* timers' promise, which holds again once a timer has been scheduled.     *)
(***************************************************************************)

PySettled(st) == /\ PyShape(st) /\ LeasesExclusive(st)
               /\ IsFiniteSet(Held(st))
               /\ PyBytesAccounted(st) /\ PyWithinLimits(st)

PyAhead(st, time) == \A d \in PyDeadlines(st) : d > time

\* What no operation but finish undoes: a text that a worker has stays
\* leased or is revoked, and only create and consume add to a dict.
Keeps(st, after) ==
  /\ DOMAIN after.stored \subseteq DOMAIN st.stored
  /\ DOMAIN after.leased \subseteq DOMAIN st.leased
  /\ st.revoked \subseteq after.revoked
  /\ after.revoked \subseteq st.revoked \cup Held(st)
  /\ DOMAIN st.leased \subseteq DOMAIN after.leased \cup after.revoked

\* after is st without the nonces in gone.
Drops(st, gone, after) ==
  /\ after.stored = [n \in DOMAIN st.stored \ gone |-> st.stored[n]]
  /\ after.leased = [n \in DOMAIN st.leased \ gone |-> st.leased[n]]
  /\ after.total = st.total - PyBytesOf(st, gone)
  /\ after.handle = st.handle /\ after.fired = st.fired
  /\ after.strays = st.strays /\ after.waiting = st.waiting
  /\ after = [stored |-> after.stored, leased |-> after.leased, total |-> after.total,
              revoked |-> after.revoked, handle |-> after.handle, fired |-> after.fired,
              strays |-> after.strays, waiting |-> after.waiting]

\* Whatever is dropped, the rest stays in step, and no deadline is added.
LEMMA DropsSettled ==
  ASSUME NEW st, PySettled(st), NEW gone, gone \subseteq Held(st), NEW after, Drops(st, gone, after),
         after.revoked \in {st.revoked, st.revoked \cup gone}
  PROVE  /\ PySettled(after)
         /\ Held(after) = Held(st) \ gone
         /\ PyDeadlines(after) \subseteq PyDeadlines(st)
<1>0. /\ PyShape(st) /\ LeasesExclusive(st) /\ IsFiniteSet(Held(st))
      /\ PyBytesAccounted(st) /\ PyWithinLimits(st)
      /\ PySessions \in Nat /\ PyBytes \in Nat
  BY PyLimitsAssumption DEF PySettled
<1>1. /\ DOMAIN after.stored = DOMAIN st.stored \ gone
      /\ DOMAIN after.leased = DOMAIN st.leased \ gone
      /\ Held(after) = Held(st) \ gone
  BY DEF Drops, Held
<1>2. \A n \in Held(after) : LeaseOf(after, n) = LeaseOf(st, n)
  BY <1>1 DEF LeaseOf, Drops, Held
<1>3. PyDeadlines(after) \subseteq PyDeadlines(st)
  BY <1>1, <1>2 DEF PyDeadlines
<1>4. PyShape(after)
  <2>1. after.stored \in [DOMAIN after.stored -> Lease]
    BY <1>0, <1>1 DEF PyShape, Drops
  <2>2. after.leased \in [DOMAIN after.leased -> Lease]
    BY <1>0, <1>1 DEF PyShape, Drops
  <2>3. after.revoked \subseteq Nonce
    BY <1>0 DEF PyShape
  <2> QED BY <1>0, <1>1, <2>1, <2>2, <2>3 DEF PyShape, Drops
<1>5. LeasesExclusive(after)
  BY <1>0, <1>1 DEF LeasesExclusive
<1>6. IsFiniteSet(Held(after)) /\ IsFiniteSet(gone)
  BY <1>0, <1>1, FS_Subset
<1>7. PyBytesAccounted(after) /\ after.total <= st.total /\ st.total \in Nat /\ after.total \in Nat
  <2>1. Held(st) = Held(after) \cup gone /\ Held(after) \cap gone = {}
    BY <1>1
  <2>2. PyBytesOf(st, Held(st)) = PyBytesOf(st, Held(after)) + PyBytesOf(st, gone)
    BY <1>6, <2>1, PyBytesAddUp
  <2>3. PyBytesOf(st, Held(after)) \in Nat /\ PyBytesOf(st, gone) \in Nat
    BY <1>6, PySlotsFinite
  <2>4. PyBytesOf(after, Held(after)) = PyBytesOf(st, Held(after))
    BY <1>2, PyBytesSame
  <2>5. st.total = PyBytesOf(st, Held(st)) /\ after.total = st.total - PyBytesOf(st, gone)
    BY <1>0 DEF PyBytesAccounted, Drops
  <2> QED BY <2>2, <2>3, <2>4, <2>5 DEF PyBytesAccounted
<1>8. PyWithinLimits(after)
  <2>1. Cardinality(Held(after)) <= Cardinality(Held(st))
    BY <1>0, <1>1, FS_Subset
  <2>2. Cardinality(Held(after)) \in Nat /\ Cardinality(Held(st)) \in Nat
    BY <1>0, <1>6, FS_CardinalityType
  <2> QED BY <1>0, <1>7, <2>1, <2>2 DEF PyWithinLimits
<1> QED BY <1>1, <1>3, <1>4, <1>5, <1>6, <1>7, <1>8 DEF PySettled

\* Revoking any set of nonces keeps the store settled and adds no deadline.
LEMMA RevokeSettled ==
  ASSUME NEW st, PySettled(st), NEW N
  PROVE  LET after == Revoke(st, N)
         IN  /\ PySettled(after) /\ Keeps(st, after)
             /\ Held(after) = Held(st) \ N
             /\ PyDeadlines(after) \subseteq PyDeadlines(st)
<1> DEFINE after == Revoke(st, N)
           gone  == N \cap Held(st)
<1>1. PyShape(st)
  BY DEF PySettled
<1>2. Drops(st, gone, after) /\ after.revoked = st.revoked \cup gone
  <2> DEFINE s == Without(st.stored, gone)
             l == Without(st.leased, gone)
             t == st.total - PyBytesOf(st, gone)
             r == st.revoked \cup gone
  <2>1. /\ s = [n \in DOMAIN st.stored \ gone |-> st.stored[n]]
        /\ l = [n \in DOMAIN st.leased \ gone |-> st.leased[n]]
    <3> HIDE DEF gone
    <3> QED BY DEF Without, Restrict
  <2>2. after = [st EXCEPT !.stored = s, !.leased = l, !.total = t, !.revoked = r]
    BY DEF Revoke
  <2>3. t = st.total - PyBytesOf(st, gone) /\ r = st.revoked \cup gone
    OBVIOUS
  <2> HIDE DEF s, l, t, r, after, gone
  <2>4. after = [stored |-> s, leased |-> l, total |-> t, revoked |-> r, handle |-> st.handle,
                 fired |-> st.fired, strays |-> st.strays, waiting |-> st.waiting]
    BY <1>1, <2>2 DEF PyShape
  <2> QED BY <2>1, <2>3, <2>4 DEF Drops
<1> HIDE DEF after
<1>3. PySettled(after) /\ Held(after) = Held(st) \ gone /\ PyDeadlines(after) \subseteq PyDeadlines(st)
  BY <1>2, DropsSettled
<1>4. Keeps(st, after)
  BY <1>2 DEF Keeps, Drops, Held
<1> QED BY <1>3, <1>4 DEF after

\* Two operations in a row keep what each of them keeps.
LEMMA KeepsTransitive ==
  ASSUME NEW a, NEW b, NEW c, Keeps(a, b), Keeps(b, c)
  PROVE  Keeps(a, c)
BY DEF Keeps, Held

\* Deadlines are monotonic readings.
LEMMA PyDeadlinesAreNaturals ==
  ASSUME NEW st, PyShape(st)
  PROVE  PyDeadlines(st) \in SUBSET Nat
<1> SUFFICES ASSUME NEW n \in Held(st) PROVE LeaseOf(st, n).expiresAt \in Nat
  BY DEF PyDeadlines
<1>1. LeaseOf(st, n) \in Lease
  BY DEF PyShape, LeaseOf, Held
<1> QED BY <1>1 DEF Lease

\* After a purge every deadline left is ahead of the clock.
LEMMA PurgeSettled ==
  ASSUME NEW st, NEW time \in Nat, PySettled(st)
  PROVE  LET after == Purge(st, time)
         IN  PySettled(after) /\ Keeps(st, after) /\ PyAhead(after, time)
<1> DEFINE due   == {n \in Held(st) : LeaseOf(st, n).expiresAt <= time}
           after == Revoke(st, due)
<1>1. /\ PySettled(after) /\ Keeps(st, after)
      /\ Held(after) = Held(st) \ due
  BY RevokeSettled
<1>2. PyAhead(after, time)
  <2> SUFFICES ASSUME NEW n \in Held(after) PROVE LeaseOf(after, n).expiresAt > time
    BY DEF PyAhead, PyDeadlines
  <2>1. n \in Held(st) /\ n \notin due
    BY <1>1
  <2>2. LeaseOf(st, n).expiresAt \in Nat
    BY <2>1, PyDeadlinesAreNaturals DEF PyDeadlines, PySettled
  <2>3. LeaseOf(after, n) = LeaseOf(st, n)
    <3>1. PyShape(st)
      BY DEF PySettled
    <3>2. /\ after.stored = [m \in DOMAIN st.stored \ (due \cap Held(st)) |-> st.stored[m]]
          /\ after.leased = [m \in DOMAIN st.leased \ (due \cap Held(st)) |-> st.leased[m]]
      <4> HIDE DEF due
      <4> QED BY <3>1 DEF Revoke, Without, Restrict, PyShape
    <3> HIDE DEF after, due
    <3> QED BY <2>1, <3>2 DEF LeaseOf, Held
  <2> QED BY <2>1, <2>2, <2>3
<1> QED BY <1>1, <1>2 DEF Purge

(***************************************************************************)
(* The timers.                                                             *)
(***************************************************************************)

\* Two stores that differ in their timers only.
SameButTimers(st, after) ==
  /\ after = [stored |-> st.stored, leased |-> st.leased, total |-> st.total,
              revoked |-> st.revoked, handle |-> after.handle, fired |-> after.fired,
              strays |-> after.strays, waiting |-> after.waiting]
  /\ after.handle \in Nat \cup {NoHandle} /\ after.fired \in BOOLEAN
  /\ after.strays \subseteq Nat /\ after.waiting \in Nat

\* Starting, cancelling or losing a timer changes nothing but the timers.
LEMMA TimersAreIndependent ==
  ASSUME NEW st, PySettled(st), NEW after, SameButTimers(st, after)
  PROVE  PySettled(after) /\ Keeps(st, after) /\ PyDeadlines(after) = PyDeadlines(st)
<1>1. /\ after.stored = st.stored /\ after.leased = st.leased
      /\ after.total = st.total /\ after.revoked = st.revoked
  BY DEF SameButTimers
<1>2. Held(after) = Held(st) /\ \A n \in Held(st) : LeaseOf(after, n) = LeaseOf(st, n)
  BY <1>1 DEF Held, LeaseOf
<1>3. PyBytesOf(after, Held(after)) = PyBytesOf(st, Held(st))
  BY <1>2, PyBytesSame
<1>4. PyDeadlines(after) = PyDeadlines(st)
  BY <1>2 DEF PyDeadlines
<1>5. PyShape(after)
  BY <1>1, <1>2 DEF PySettled, PyShape, SameButTimers
<1>6. LeasesExclusive(after) /\ PyBytesAccounted(after) /\ PyWithinLimits(after)
  BY <1>1, <1>2, <1>3 DEF PySettled, LeasesExclusive, PyBytesAccounted, PyWithinLimits
<1>7. Keeps(st, after)
  BY <1>1 DEF Keeps
<1> QED BY <1>2, <1>4, <1>5, <1>6, <1>7 DEF PySettled

\* What holds whenever the lock is free.
PyReady(st) == PySettled(st) /\ PyTimerArmed(st)

\* A store whose texts are all ahead of the clock gets a timer for the nearest.
LEMMA ScheduleReady ==
  ASSUME NEW st, NEW time \in Nat, PySettled(st), PyAhead(st, time)
  PROVE  LET after == Schedule(st, time)
         IN  PyReady(after) /\ PyAhead(after, time) /\ SameButTimers(st, after)
<1> DEFINE after == Schedule(st, time)
<1>1. PyShape(st) /\ PyDeadlines(st) \in SUBSET Nat
  BY PyDeadlinesAreNaturals DEF PySettled
<1>2. CASE PyDeadlines(st) = {}
  <2>1. after = [st EXCEPT !.fired = FALSE, !.handle = NoHandle]
    BY <1>2 DEF Schedule
  <2> HIDE DEF after
  <2>2. SameButTimers(st, after)
    BY <1>1, <2>1 DEF PyShape, SameButTimers
  <2>3. PySettled(after) /\ PyDeadlines(after) = {}
    BY <1>2, <2>2, TimersAreIndependent
  <2> QED BY <2>2, <2>3 DEF PyReady, PyTimerArmed, PyAhead, after
<1>3. CASE PyDeadlines(st) # {}
  <2> DEFINE nearest == Min(PyDeadlines(st))
  <2>1. nearest \in PyDeadlines(st) /\ \A d \in PyDeadlines(st) : nearest <= d
    BY <1>1, <1>3, MinOfNaturals
  <2>2. nearest \in Nat /\ nearest > time
    BY <1>1, <2>1 DEF PyAhead
  <2>3. after = [st EXCEPT !.fired = FALSE, !.handle = nearest]
    BY <1>3, <2>2 DEF Schedule
  <2> HIDE DEF nearest, after
  <2>4. SameButTimers(st, after) /\ after.handle = nearest /\ after.fired = FALSE
    BY <1>1, <2>2, <2>3 DEF PyShape, SameButTimers
  <2>5. PySettled(after) /\ PyDeadlines(after) = PyDeadlines(st)
    BY <2>4, TimersAreIndependent
  <2>6. nearest \in LiveTimers(after)
    BY <2>2, <2>4 DEF LiveTimers, NoHandle
  <2>7. PyTimerArmed(after) /\ PyAhead(after, time)
    BY <2>1, <2>5, <2>6 DEF PyTimerArmed, PyAhead
  <2> QED BY <2>4, <2>5, <2>7 DEF PyReady, after
<1> QED BY <1>2, <1>3

\* The purge with which most methods begin leaves a ready store.
LEMMA PurgeAndScheduleReady ==
  ASSUME NEW st, NEW time \in Nat, PySettled(st)
  PROVE  LET after == PurgeAndSchedule(st, time)
         IN  PyReady(after) /\ Keeps(st, after) /\ PyAhead(after, time)
<1> DEFINE purged == Purge(st, time)
<1>1. PySettled(purged) /\ Keeps(st, purged) /\ PyAhead(purged, time)
  BY PurgeSettled
<1> HIDE DEF purged
<1>2. PyReady(Schedule(purged, time)) /\ PyAhead(Schedule(purged, time), time)
        /\ SameButTimers(purged, Schedule(purged, time))
  BY <1>1, ScheduleReady
<1>3. Keeps(st, Schedule(purged, time))
  BY <1>1, <1>2, TimersAreIndependent, KeepsTransitive
<1> QED BY <1>2, <1>3 DEF PurgeAndSchedule, purged

\* A revocation that is followed by a schedule, in a purged store.
LEMMA RevokeAndScheduleReady ==
  ASSUME NEW st, NEW time \in Nat, PySettled(st), PyAhead(st, time), NEW N
  PROVE  LET after == Schedule(Revoke(st, N), time)
         IN  PyReady(after) /\ Keeps(st, after)
<1> DEFINE freed == Revoke(st, N)
<1>1. PySettled(freed) /\ Keeps(st, freed) /\ PyDeadlines(freed) \subseteq PyDeadlines(st)
  BY RevokeSettled
<1> HIDE DEF freed
<1>2. PyAhead(freed, time)
  BY <1>1 DEF PyAhead
<1>3. PyReady(Schedule(freed, time)) /\ SameButTimers(freed, Schedule(freed, time))
  BY <1>1, <1>2, ScheduleReady
<1>4. Keeps(st, Schedule(freed, time))
  BY <1>1, <1>3, TimersAreIndependent, KeepsTransitive
<1> QED BY <1>3, <1>4 DEF freed

(***************************************************************************)
(* The operations.  Each leaves a ready store, and says which nonces it    *)
(* put where.                                                              *)
(***************************************************************************)

\* The store has gained n, and otherwise kept to Keeps.
Grows(st, n, after) ==
  /\ DOMAIN after.stored \subseteq DOMAIN st.stored \cup {n}
  /\ DOMAIN after.leased \subseteq DOMAIN st.leased
  /\ st.revoked \subseteq after.revoked
  /\ after.revoked \subseteq st.revoked \cup Held(st)
  /\ DOMAIN st.leased \subseteq DOMAIN after.leased \cup after.revoked

\* n was available and is leased now.
Leases(st, n, after) ==
  /\ n \in DOMAIN st.stored /\ n \in DOMAIN after.leased
  /\ DOMAIN after.stored \subseteq DOMAIN st.stored \ {n}
  /\ DOMAIN after.leased \subseteq DOMAIN st.leased \cup {n}
  /\ st.revoked \subseteq after.revoked
  /\ after.revoked \subseteq st.revoked \cup Held(st)
  /\ DOMAIN st.leased \subseteq DOMAIN after.leased \cup after.revoked

\* A store that takes one more text within the limits stays settled.
LEMMA GrowSettled ==
  ASSUME NEW st, NEW time \in Nat, PySettled(st), PyAhead(st, time),
         NEW n \in Nonce, n \notin Held(st), n \notin st.revoked,
         NEW bytes \in Nat, PyFits(st, bytes)
  PROVE  LET session == [bytes |-> bytes, expiresAt |-> time + PyTTL]
             grown == [st EXCEPT !.stored = With(st.stored, n, session), !.total = st.total + bytes]
         IN  PySettled(grown) /\ PyAhead(grown, time) /\ Grows(st, n, grown)
<1> DEFINE session == [bytes |-> bytes, expiresAt |-> time + PyTTL]
           held  == With(st.stored, n, session)
           sum   == st.total + bytes
           grown == [st EXCEPT !.stored = held, !.total = sum]
<1>0. /\ PyShape(st) /\ LeasesExclusive(st) /\ IsFiniteSet(Held(st))
      /\ PyBytesAccounted(st) /\ PyWithinLimits(st)
      /\ PySessions \in Nat /\ PyBytes \in Nat /\ PyTTL \in Nat /\ PyTTL > 0
  BY PyLimitsAssumption DEF PySettled
<1>1. st.total \in Nat /\ Cardinality(Held(st)) \in Nat
  BY <1>0, PySlotsFinite, FS_CardinalityType DEF PyBytesAccounted
<1>2. bytes \in 0..PyBytes /\ session \in Lease /\ session.bytes = bytes
        /\ session.expiresAt = time + PyTTL
  BY <1>0, <1>1 DEF PyFits, Lease
<1>3. /\ DOMAIN held = DOMAIN st.stored \cup {n} /\ held[n] = session
      /\ \A m \in DOMAIN st.stored : held[m] = st.stored[m]
      /\ held \in [DOMAIN held -> Lease]
  <2> HIDE DEF session
  <2>1. st.stored \in [DOMAIN st.stored -> Lease] /\ n \notin DOMAIN st.stored
    BY <1>0 DEF PyShape, Held
  <2> QED BY <1>2, <2>1 DEF With
<1>4. sum = st.total + bytes
  OBVIOUS
<1> HIDE DEF session, held, sum
<1>5. grown = [stored |-> held, leased |-> st.leased, total |-> sum, revoked |-> st.revoked,
               handle |-> st.handle, fired |-> st.fired, strays |-> st.strays,
               waiting |-> st.waiting]
  <2>1. grown = [st EXCEPT !.stored = held, !.total = sum]
    OBVIOUS
  <2> HIDE DEF grown
  <2> QED BY <1>0, <2>1 DEF PyShape
<1> HIDE DEF grown
<1>6. /\ Held(grown) = Held(st) \cup {n} /\ LeaseOf(grown, n) = session
      /\ \A m \in Held(st) : LeaseOf(grown, m) = LeaseOf(st, m)
  BY <1>3, <1>5 DEF Held, LeaseOf
<1>7. PyShape(grown)
  BY <1>0, <1>3, <1>5, <1>6 DEF PyShape
<1>8. LeasesExclusive(grown)
  BY <1>0, <1>3, <1>5, <1>6 DEF LeasesExclusive, Held
<1>9. IsFiniteSet(Held(grown)) /\ Cardinality(Held(grown)) = Cardinality(Held(st)) + 1
  BY <1>0, <1>6, FS_AddElement
<1>10. PyBytesAccounted(grown)
  <2>1. PyBytesOf(grown, Held(grown)) = PyBytesOf(grown, Held(st)) + PyBytesOf(grown, {n})
    <3>1. IsFiniteSet({n}) /\ Held(st) \cap {n} = {}
      BY FS_Singleton
    <3> QED BY <1>0, <1>6, <3>1, PyBytesAddUp
  <2>2. PyBytesOf(grown, Held(st)) = PyBytesOf(st, Held(st))
    BY <1>6, PyBytesSame
  <2>3. PyBytesOf(grown, {n}) = bytes
    BY <1>2, <1>6, PyBytesOfOne
  <2> QED BY <1>0, <1>4, <1>5, <2>1, <2>2, <2>3 DEF PyBytesAccounted
<1>11. PyWithinLimits(grown)
  <2>1. Cardinality(Held(st)) < PySessions
    <3>1. IsFiniteSet(DOMAIN st.stored) /\ IsFiniteSet(DOMAIN st.leased)
      BY <1>0, FS_Subset DEF Held
    <3>2. Cardinality(Held(st)) = Cardinality(DOMAIN st.stored) + Cardinality(DOMAIN st.leased)
                                    - Cardinality(DOMAIN st.stored \cap DOMAIN st.leased)
      BY <3>1, FS_Union DEF Held
    <3>3. Cardinality(DOMAIN st.stored \cap DOMAIN st.leased) = 0
      BY <1>0, FS_EmptySet DEF LeasesExclusive
    <3>4. Cardinality(DOMAIN st.stored) \in Nat /\ Cardinality(DOMAIN st.leased) \in Nat
      BY <3>1, FS_CardinalityType
    <3> QED BY <3>2, <3>3, <3>4 DEF PyFits
  <2>2. sum <= PyBytes
    BY <1>4 DEF PyFits
  <2> QED BY <1>0, <1>1, <1>5, <1>9, <2>1, <2>2 DEF PyWithinLimits
<1>12. PyAhead(grown, time)
  <2> SUFFICES ASSUME NEW m \in Held(grown) PROVE LeaseOf(grown, m).expiresAt > time
    BY DEF PyAhead, PyDeadlines
  <2>1. CASE m = n
    BY <1>0, <1>2, <1>6, <2>1
  <2>2. CASE m \in Held(st)
    BY <1>6, <2>2 DEF PyAhead, PyDeadlines
  <2> QED BY <1>6, <2>1, <2>2
<1>13. Grows(st, n, grown)
  BY <1>3, <1>5 DEF Grows
<1> QED BY <1>7, <1>8, <1>9, <1>10, <1>11, <1>12, <1>13 DEF PySettled, grown, sum, held, session

\* create_session: one text more, or a store that is full.
LEMMA PyCreateReady ==
  ASSUME NEW st, NEW time \in Nat, PySettled(st),
         NEW n \in Nonce, n \notin Held(st), n \notin st.revoked, NEW bytes \in Nat
  PROVE  LET made == PyCreate(st, n, bytes, time)
         IN  /\ PyReady(made.py)
             /\ \/ made.status = "created" /\ Grows(st, n, made.py)
                \/ made.status = "capacity" /\ Keeps(st, made.py)
<1> DEFINE purged == PurgeAndSchedule(st, time)
           session == [bytes |-> bytes, expiresAt |-> time + PyTTL]
           grown == [purged EXCEPT !.stored = With(purged.stored, n, session),
                                   !.total = purged.total + bytes]
<1>1. PyReady(purged) /\ Keeps(st, purged) /\ PyAhead(purged, time)
  BY PurgeAndScheduleReady
<1>2. PyCreate(st, n, bytes, time) = IF PyFits(purged, bytes)
                                     THEN [py |-> Schedule(grown, time), status |-> "created"]
                                     ELSE [py |-> purged, status |-> "capacity"]
  BY DEF PyCreate
<1> HIDE DEF purged
<1>3. CASE PyFits(purged, bytes)
  <2>1. n \notin Held(purged) /\ n \notin purged.revoked
    BY <1>1 DEF Keeps, Held
  <2>2. PySettled(grown) /\ PyAhead(grown, time) /\ Grows(purged, n, grown)
    BY <1>1, <1>3, <2>1, GrowSettled DEF PyReady
  <2> HIDE DEF grown
  <2>3. PyReady(Schedule(grown, time)) /\ SameButTimers(grown, Schedule(grown, time))
    BY <2>2, ScheduleReady
  <2>4. Keeps(grown, Schedule(grown, time))
    BY <2>2, <2>3, TimersAreIndependent
  <2>5. Grows(st, n, Schedule(grown, time))
    <3>1. Grows(st, n, grown)
      BY <1>1, <2>1, <2>2 DEF Keeps, Grows, Held
    <3>2. Schedule(grown, time).stored = grown.stored /\ Schedule(grown, time).leased = grown.leased
            /\ Schedule(grown, time).revoked = grown.revoked
      BY <2>3 DEF SameButTimers
    <3> QED BY <3>1, <3>2 DEF Grows
  <2> DEFINE made == PyCreate(st, n, bytes, time)
             after == Schedule(grown, time)
  <2>6. made = [py |-> after, status |-> "created"]
    BY <1>2, <1>3
  <2> HIDE DEF after, made
  <2>7. made.py = after /\ made.status = "created"
    BY <2>6
  <2>8. PyReady(made.py) /\ Grows(st, n, made.py)
    BY <2>3, <2>5, <2>7 DEF after
  <2> QED BY <2>7, <2>8 DEF made
<1>4. CASE ~PyFits(purged, bytes)
  BY <1>1, <1>2, <1>4
<1> QED BY <1>3, <1>4


\* A lease moves a text from one dict to the other.
LEMMA LeaseSettled ==
  ASSUME NEW st, NEW time \in Nat, PySettled(st), PyAhead(st, time), NEW n \in DOMAIN st.stored
  PROVE  LET moved == [st EXCEPT !.stored = Without(st.stored, {n}),
                                 !.leased = With(st.leased, n, st.stored[n])]
         IN  PySettled(moved) /\ PyAhead(moved, time) /\ Leases(st, n, moved)
<1> DEFINE rest  == Without(st.stored, {n})
           held  == With(st.leased, n, st.stored[n])
           moved == [st EXCEPT !.stored = rest, !.leased = held]
<1>0. /\ PyShape(st) /\ LeasesExclusive(st) /\ IsFiniteSet(Held(st))
      /\ PyBytesAccounted(st) /\ PyWithinLimits(st)
      /\ n \notin DOMAIN st.leased
  BY DEF PySettled, LeasesExclusive
<1>1. /\ DOMAIN rest = DOMAIN st.stored \ {n}
      /\ \A m \in DOMAIN rest : rest[m] = st.stored[m]
      /\ rest \in [DOMAIN rest -> Lease]
  BY <1>0 DEF PyShape, Without, Restrict
<1>2. /\ DOMAIN held = DOMAIN st.leased \cup {n} /\ held[n] = st.stored[n]
      /\ \A m \in DOMAIN st.leased : held[m] = st.leased[m]
      /\ held \in [DOMAIN held -> Lease]
  BY <1>0 DEF PyShape, With
<1> HIDE DEF rest, held
<1>3. moved = [stored |-> rest, leased |-> held, total |-> st.total, revoked |-> st.revoked,
               handle |-> st.handle, fired |-> st.fired, strays |-> st.strays,
               waiting |-> st.waiting]
  <2>1. moved = [st EXCEPT !.stored = rest, !.leased = held]
    OBVIOUS
  <2> HIDE DEF moved
  <2> QED BY <1>0, <2>1 DEF PyShape
<1> HIDE DEF moved
<1>4. Held(moved) = Held(st) /\ \A m \in Held(st) : LeaseOf(moved, m) = LeaseOf(st, m)
  BY <1>0, <1>1, <1>2, <1>3 DEF Held, LeaseOf
<1>5. PyShape(moved)
  BY <1>0, <1>1, <1>2, <1>3, <1>4 DEF PyShape
<1>6. LeasesExclusive(moved)
  BY <1>0, <1>1, <1>2, <1>3, <1>4 DEF LeasesExclusive
<1>7. PyBytesAccounted(moved) /\ PyWithinLimits(moved)
  <2>1. PyBytesOf(moved, Held(moved)) = PyBytesOf(st, Held(st))
    BY <1>4, PyBytesSame
  <2> QED BY <1>0, <1>3, <1>4, <2>1 DEF PyBytesAccounted, PyWithinLimits
<1>8. PyAhead(moved, time)
  BY <1>4 DEF PyAhead, PyDeadlines
<1>9. Leases(st, n, moved)
  BY <1>1, <1>2, <1>3 DEF Leases
<1> QED BY <1>0, <1>4, <1>5, <1>6, <1>7, <1>8, <1>9 DEF PySettled, moved, rest, held

\* consume: a lease, or a refusal that adds nothing to any dict.
LEMMA PyConsumeReady ==
  ASSUME NEW st, NEW time \in Nat, PySettled(st), NEW n, NEW matches \in BOOLEAN
  PROVE  LET consumed == PyConsume(st, n, matches, time)
         IN  /\ PyReady(consumed.py)
             /\ \/ consumed.status = "leased" /\ Leases(st, n, consumed.py)
                \/ consumed.status # "leased" /\ Keeps(st, consumed.py)
<1> DEFINE purged == PurgeAndSchedule(st, time)
           ended  == Schedule(Revoke(purged, {n}), time)
           moved  == [purged EXCEPT !.stored = Without(purged.stored, {n}),
                                    !.leased = With(purged.leased, n, purged.stored[n])]
           after  == Schedule(moved, time)
           consumed == PyConsume(st, n, matches, time)
<1>1. PyReady(purged) /\ Keeps(st, purged) /\ PyAhead(purged, time)
  BY PurgeAndScheduleReady
<1>2. consumed = IF n \notin DOMAIN purged.stored THEN [py |-> purged, status |-> "unavailable"]
                 ELSE IF ~matches THEN [py |-> ended, status |-> "admission_changed"]
                 ELSE [py |-> after, status |-> "leased"]
  BY DEF PyConsume
<1> HIDE DEF purged, consumed
<1>3. PyReady(ended) /\ Keeps(st, ended)
  <2>1. PyReady(ended) /\ Keeps(purged, ended)
    BY <1>1, RevokeAndScheduleReady DEF PyReady
  <2> HIDE DEF ended
  <2> QED BY <1>1, <2>1, KeepsTransitive
<1>4. ASSUME n \in DOMAIN purged.stored
      PROVE  PyReady(after) /\ Leases(st, n, after)
  <2>1. PySettled(moved) /\ PyAhead(moved, time) /\ Leases(purged, n, moved)
    BY <1>1, <1>4, LeaseSettled DEF PyReady
  <2> HIDE DEF moved
  <2>2. PyReady(after) /\ SameButTimers(moved, after)
    BY <2>1, ScheduleReady
  <2> HIDE DEF after
  <2>3. after.stored = moved.stored /\ after.leased = moved.leased /\ after.revoked = moved.revoked
    BY <2>2 DEF SameButTimers
  <2>4. Leases(st, n, moved)
    BY <1>1, <2>1 DEF Keeps, Leases, Held
  <2> QED BY <2>2, <2>3, <2>4 DEF Leases
<1> HIDE DEF ended, after, moved
<1>5. CASE n \notin DOMAIN purged.stored
  <2>1. consumed.py = purged /\ consumed.status # "leased"
    BY <1>2, <1>5
  <2> QED BY <1>1, <2>1 DEF consumed
<1>6. CASE n \in DOMAIN purged.stored /\ ~matches
  <2>1. consumed.py = ended /\ consumed.status # "leased"
    BY <1>2, <1>6
  <2> QED BY <1>3, <2>1 DEF consumed
<1>7. CASE n \in DOMAIN purged.stored /\ matches
  <2>1. consumed.py = after /\ consumed.status = "leased"
    BY <1>2, <1>7
  <2> QED BY <1>4, <1>7, <2>1 DEF consumed
<1> QED BY <1>5, <1>6, <1>7

\* clear revokes one nonce, wherever it is.
LEMMA PyClearReady ==
  ASSUME NEW st, NEW time \in Nat, PySettled(st), NEW n
  PROVE  PyReady(PyClear(st, n, time)) /\ Keeps(st, PyClear(st, n, time))
<1> DEFINE purged == Purge(st, time)
           after  == Schedule(Revoke(purged, {n}), time)
<1>1. PySettled(purged) /\ Keeps(st, purged) /\ PyAhead(purged, time)
  BY PurgeSettled
<1> HIDE DEF purged
<1>2. PyReady(after) /\ Keeps(purged, after)
  BY <1>1, RevokeAndScheduleReady
<1> HIDE DEF after
<1>3. PyReady(after) /\ Keeps(st, after)
  BY <1>1, <1>2, KeepsTransitive
<1> QED BY <1>3 DEF PyClear, after, purged

\* finish drops a lease, and nothing else.
LEMMA FinishSettled ==
  ASSUME NEW st, PySettled(st), NEW n
  PROVE  LET after == PyFinish(st, n)
         IN  /\ PySettled(after) /\ PyDeadlines(after) \subseteq PyDeadlines(st)
             /\ after.stored = st.stored /\ after.revoked = st.revoked
             /\ DOMAIN after.leased = DOMAIN st.leased \ {n}
             /\ LiveTimers(after) = LiveTimers(st) /\ after.waiting = st.waiting
<1> DEFINE gone  == {n} \cap DOMAIN st.leased
           l     == Without(st.leased, gone)
           t     == st.total - PyBytesOf(st, gone)
           after == PyFinish(st, n)
<1>0. PyShape(st) /\ LeasesExclusive(st)
  BY DEF PySettled
<1>1. /\ gone \subseteq Held(st) /\ DOMAIN st.stored \cap gone = {}
      /\ DOMAIN st.leased \ gone = DOMAIN st.leased \ {n}
  BY <1>0 DEF Held, LeasesExclusive
<1>2. l = [m \in DOMAIN st.leased \ gone |-> st.leased[m]] /\ t = st.total - PyBytesOf(st, gone)
  <2> HIDE DEF gone
  <2> QED BY DEF Without, Restrict
<1>3. after = [st EXCEPT !.leased = l, !.total = t]
  BY DEF PyFinish
<1> HIDE DEF l, t, gone, after
<1>4. after = [stored |-> st.stored, leased |-> l, total |-> t, revoked |-> st.revoked,
               handle |-> st.handle, fired |-> st.fired, strays |-> st.strays,
               waiting |-> st.waiting]
  BY <1>0, <1>3 DEF PyShape
<1>5. Drops(st, gone, after) /\ after.revoked = st.revoked /\ after.stored = st.stored
  <2>1. st.stored = [m \in DOMAIN st.stored \ gone |-> st.stored[m]]
    BY <1>0, <1>1 DEF PyShape
  <2> QED BY <1>2, <1>4, <2>1 DEF Drops
<1>6. PySettled(after) /\ PyDeadlines(after) \subseteq PyDeadlines(st)
  BY <1>1, <1>5, DropsSettled
<1>7. LiveTimers(after) = LiveTimers(st) /\ after.waiting = st.waiting
  BY <1>4 DEF LiveTimers
<1>8. DOMAIN after.leased = DOMAIN st.leased \ {n}
  BY <1>1, <1>2, <1>4
<1> QED BY <1>5, <1>6, <1>7, <1>8 DEF after

\* finish takes n out of the leased and touches neither the timers nor the
\* revocation events.
LEMMA FinishReady ==
  ASSUME NEW st, PyReady(st), NEW n
  PROVE  LET after == PyFinish(st, n)
         IN  /\ PyReady(after)
             /\ after.stored = st.stored /\ after.revoked = st.revoked
             /\ DOMAIN after.leased = DOMAIN st.leased \ {n}
<1> DEFINE after == PyFinish(st, n)
<1>1. /\ PySettled(after) /\ PyDeadlines(after) \subseteq PyDeadlines(st)
      /\ after.stored = st.stored /\ after.revoked = st.revoked
      /\ DOMAIN after.leased = DOMAIN st.leased \ {n}
      /\ LiveTimers(after) = LiveTimers(st) /\ after.waiting = st.waiting
  BY FinishSettled DEF PyReady
<1> HIDE DEF after
<1>2. PyTimerArmed(after)
  BY <1>1 DEF PyTimerArmed, PyReady
<1> QED BY <1>1, <1>2 DEF PyReady, after

\* close leaves nothing held, and so nothing to arm a timer for.
LEMMA CloseReady ==
  ASSUME NEW st, PySettled(st)
  PROVE  PyReady(PyClose(st)) /\ Keeps(st, PyClose(st))
<1> DEFINE freed == Revoke(st, Held(st))
           after == PyClose(st)
<1>1. PySettled(freed) /\ Keeps(st, freed) /\ Held(freed) = {}
  BY RevokeSettled
<1>2. after = [freed EXCEPT !.total = 0, !.handle = NoHandle, !.fired = FALSE]
  BY DEF PyClose
<1> HIDE DEF freed, after
<1>3. freed.total = 0
  <2>1. PySlots(freed, {}) = {}
    BY DEF PySlots
  <2>2. PyBytesOf(freed, {}) = Cardinality({})
    BY <2>1, FS_EmptySet, PySlotsFinite
  <2> QED BY <1>1, <2>2, FS_EmptySet DEF PySettled, PyBytesAccounted
<1>4. SameButTimers(freed, after)
  <2>1. PyShape(freed)
    BY <1>1 DEF PySettled
  <2> QED BY <1>2, <1>3, <2>1 DEF PyShape, SameButTimers
<1>5. PySettled(after) /\ Keeps(freed, after) /\ PyDeadlines(after) = PyDeadlines(freed)
  BY <1>1, <1>4, TimersAreIndependent
<1>6. Keeps(st, after)
  BY <1>1, <1>5, KeepsTransitive
<1>7. PyTimerArmed(after)
  BY <1>1, <1>5 DEF PyTimerArmed, PyDeadlines
<1> QED BY <1>5, <1>6, <1>7 DEF PyReady, after

\* A timer thread that got the lock drops one handle and arms another.
LEMMA ExpireReady ==
  ASSUME NEW st, NEW time \in Nat, PyReady(st), st.waiting > 0
  PROVE  PyReady(ExpireDue(st, time)) /\ Keeps(st, ExpireDue(st, time))
<1> DEFINE stray   == IF st.fired \/ st.handle = NoHandle THEN {} ELSE {st.handle}
           left    == st.strays \cup stray
           fewer   == st.waiting - 1
           dropped == [st EXCEPT !.waiting = fewer, !.handle = NoHandle,
                                 !.fired = FALSE, !.strays = left]
           after   == PurgeAndSchedule(dropped, time)
<1>0. PySettled(st) /\ PyShape(st)
  BY DEF PyReady, PySettled
<1>1. left \subseteq Nat /\ fewer \in Nat
  BY <1>0 DEF PyShape, NoHandle
<1>2. ExpireDue(st, time) = after
  BY DEF ExpireDue
<1> HIDE DEF left, fewer, stray
<1>3. SameButTimers(st, dropped)
  <2>1. dropped = [st EXCEPT !.waiting = fewer, !.handle = NoHandle, !.fired = FALSE, !.strays = left]
    OBVIOUS
  <2> HIDE DEF dropped
  <2> QED BY <1>0, <1>1, <2>1 DEF PyShape, SameButTimers
<1> HIDE DEF dropped
<1>4. PySettled(dropped) /\ Keeps(st, dropped)
  BY <1>0, <1>3, TimersAreIndependent
<1>5. PyReady(after) /\ Keeps(dropped, after)
  BY <1>4, PurgeAndScheduleReady
<1> HIDE DEF after
<1>6. Keeps(st, after)
  BY <1>4, <1>5, KeepsTransitive
<1> QED BY <1>2, <1>5, <1>6

\* A store that was just made is ready.
LEMMA PyEmptyReady == PyReady(EmptyPyStore) /\ Held(EmptyPyStore) = {} /\ EmptyPyStore.revoked = {}
<1> DEFINE st == EmptyPyStore
<1>1. /\ st.stored = [n \in {} |-> 0] /\ st.leased = [n \in {} |-> 0] /\ st.total = 0
      /\ st.revoked = {} /\ st.handle = NoHandle /\ st.fired = FALSE
      /\ st.strays = {} /\ st.waiting = 0
      /\ st = [stored |-> st.stored, leased |-> st.leased, total |-> st.total,
               revoked |-> st.revoked, handle |-> st.handle, fired |-> st.fired,
               strays |-> st.strays, waiting |-> st.waiting]
  BY DEF EmptyPyStore
<1> HIDE DEF st
<1>2. Held(st) = {}
  BY <1>1 DEF Held
<1>3. PyBytesOf(st, {}) = 0
  <2>1. PySlots(st, {}) = {}
    BY DEF PySlots
  <2> QED BY <2>1, FS_EmptySet, PySlotsFinite
<1>4. PySettled(st)
  <2>1. PyShape(st)
    <3>1. st.stored \in [DOMAIN st.stored -> Lease] /\ st.leased \in [DOMAIN st.leased -> Lease]
      BY <1>1
    <3>2. Held(st) \subseteq Nonce /\ st.revoked \subseteq Nonce /\ st.strays \subseteq Nat
      BY <1>1, <1>2
    <3>3. st.handle \in Nat \cup {NoHandle} /\ st.fired \in BOOLEAN
      BY <1>1
    <3>4. st.waiting \in Nat
      BY <1>1
    <3> QED BY <1>1, <3>1, <3>2, <3>3, <3>4 DEF PyShape
  <2>2. PyWithinLimits(st)
    BY <1>1, <1>2, FS_EmptySet, PyLimitsAssumption DEF PyWithinLimits
  <2> QED BY <1>1, <1>2, <1>3, <2>1, <2>2, FS_EmptySet
          DEF PySettled, LeasesExclusive, PyBytesAccounted
<1>5. PyReady(st)
  BY <1>2, <1>4 DEF PyReady, PyTimerArmed, PyDeadlines
<1> QED BY <1>1, <1>2, <1>5 DEF st
=============================================================================
