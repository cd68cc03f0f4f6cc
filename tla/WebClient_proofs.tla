---------------------------- MODULE WebClient_proofs ---------------------------
(***************************************************************************)
(* Proofs about the web client, for any peers, fixtures and fields, any    *)
(* number of calls and saves under way, and answers in every order.        *)
(***************************************************************************)
EXTENDS WebClient, FiniteSetTheorems, WellFoundedInduction, TLAPS

(***************************************************************************)
(* The fixture page.                                                       *)
(***************************************************************************)

\* A review that loads is the one request under way; what it shows or asks for
\* is what is selected, which the API allows.
ReviewOK(s, c) ==
  /\ s \in SignalState /\ c \in Reviewing \cup {None}
  /\ Allowlisted(Ask(s))
  /\ s.analysis # None => s.phase = "result" /\ s.analysis = Ask(s)
  /\ (s.phase = "loading") = (c # None)
  /\ c # None => c.ask = Ask(s)
  /\ s.phase = "loading" => s.current
  /\ s.repair # "none" => s.phase \in {"result", "loading"}

SignalInv == IF route = "signal" THEN ReviewOK(signal, call) ELSE signal = None /\ call = None

\* A page that was just opened is in order.
LEMMA FreshReview == ReviewOK(InitialSignal, None)
<1>1. InitialSignal \in SignalState /\ InitialSignal.phase = "setup" /\ InitialSignal.analysis = None
      /\ InitialSignal.repair = "none" /\ Allowlisted(Ask(InitialSignal))
  BY WebAssumption DEF InitialSignal, SignalState, Allowlisted, Ask
<1> QED BY <1>1 DEF ReviewOK

\* A page that shows nothing and waits for nothing is in order.
LEMMA BareReview ==
  ASSUME NEW q \in SignalState, q.phase # "loading", q.analysis = None, q.repair = "none",
         q.task = IF q.fixture = Excerpt THEN "excerpt" ELSE "draft"
  PROVE  ReviewOK(q, None)
BY DEF ReviewOK, Allowlisted, Ask

\* What is selected anew is reconsidered.
LEMMA ChosenReview ==
  ASSUME NEW s, ReviewOK(s, None)
  PROVE  /\ \A f \in Fixture : ReviewOK(SelectFixture(s, f), None)
         /\ \A t \in {"draft", "excerpt"} : ReviewOK(SelectTask(s, t), None)
         /\ \A p \in Profile : ReviewOK(SelectProfile(s, p), None)
         /\ \A yes \in BOOLEAN : ReviewOK(ConfirmReview(s, yes), None)
<1>1. /\ s \in SignalState /\ s.phase # "loading"
      /\ s.task = IF s.fixture = Excerpt THEN "excerpt" ELSE "draft"
  BY DEF ReviewOK, Allowlisted, Ask
<1>2. PICK r : r = Reconsidered(s)
  OBVIOUS
<1>3. /\ r \in SignalState /\ r.phase = "setup" /\ r.analysis = None /\ r.repair = "none"
      /\ r.fixture = s.fixture /\ r.task = s.task /\ r.profile = s.profile
  BY <1>1, <1>2 DEF Reconsidered, SignalState
<1>4. ASSUME NEW f \in Fixture PROVE ReviewOK(SelectFixture(s, f), None)
  <2> DEFINE t == IF f = Excerpt THEN "excerpt" ELSE "draft"
             q == [r EXCEPT !.fixture = f, !.task = t]
  <2>1. /\ q \in SignalState /\ q.phase = "setup" /\ q.analysis = None /\ q.repair = "none"
        /\ q.fixture = f /\ q.task = t
    BY <1>3 DEF SignalState
  <2> HIDE DEF q
  <2>2. ReviewOK(q, None)
    BY <2>1, BareReview
  <2> QED BY <1>2, <2>2 DEF SelectFixture, q
<1>5. ASSUME NEW t \in {"draft", "excerpt"} PROVE ReviewOK(SelectTask(s, t), None)
  <2> DEFINE f == IF t = "excerpt" THEN Excerpt
                  ELSE IF s.fixture = Excerpt THEN DefaultFixture ELSE s.fixture
             q == [r EXCEPT !.task = t, !.fixture = f]
  <2>1. f \in Fixture /\ t = IF f = Excerpt THEN "excerpt" ELSE "draft"
    BY <1>1, WebAssumption DEF SignalState
  <2> HIDE DEF f
  <2>2. /\ q \in SignalState /\ q.phase = "setup" /\ q.analysis = None /\ q.repair = "none"
        /\ q.fixture = f /\ q.task = t
    BY <1>3, <2>1 DEF SignalState
  <2> HIDE DEF q
  <2>3. ReviewOK(q, None)
    BY <2>1, <2>2, BareReview
  <2> QED BY <1>2, <2>3 DEF SelectTask, q, f
<1>6. ASSUME NEW p \in Profile PROVE ReviewOK(SelectProfile(s, p), None)
  <2> DEFINE q == [r EXCEPT !.profile = p]
  <2>1. /\ q \in SignalState /\ q.phase = "setup" /\ q.analysis = None /\ q.repair = "none"
        /\ q.fixture = s.fixture /\ q.task = s.task
    BY <1>3 DEF SignalState
  <2> HIDE DEF q
  <2>2. ReviewOK(q, None)
    BY <1>1, <2>1, BareReview
  <2> QED BY <1>2, <2>2 DEF SelectProfile, q
<1>7. ASSUME NEW yes \in BOOLEAN PROVE ReviewOK(ConfirmReview(s, yes), None)
  <2> DEFINE q == [s EXCEPT !.confirmed = yes]
  <2>1. /\ q \in SignalState /\ q.phase = s.phase /\ q.analysis = s.analysis
        /\ q.repair = s.repair /\ Ask(q) = Ask(s) /\ q.current = s.current
    BY <1>1 DEF SignalState, Ask
  <2> HIDE DEF q
  <2>2. ReviewOK(q, None)
    BY <2>1 DEF ReviewOK
  <2> QED BY <1>1, <2>2 DEF ConfirmReview, q
<1> QED BY <1>4, <1>5, <1>6, <1>7

\* The request moves on, and stays for what is selected.
LEMMA MovedReview ==
  ASSUME NEW s, NEW c \in Reviewing, ReviewOK(s, c), NEW d \in Reviewing, d.ask = c.ask
  PROVE  ReviewOK(s, d)
<1>1. c # None /\ d # None
  BY WebAssumption
<1> QED BY <1>1 DEF ReviewOK

\* A request for what is selected loads.
LEMMA StartedReview ==
  ASSUME NEW s, ReviewOK(s, None), s.confirmed
  PROVE  ReviewOK(Start(s), [at |-> "sent", ask |-> Ask(s)])
<1> DEFINE c == [at |-> "sent", ask |-> Ask(s)]
           q == Start(s)
<1>1. c \in Reviewing /\ c.ask = Ask(s)
  BY DEF Reviewing, ReviewOK, SignalState, Ask, Asked
<1>2. /\ q \in SignalState /\ Ask(q) = Ask(s) /\ q.phase = "loading"
      /\ q.current /\ q.analysis = None
  BY DEF ReviewOK, SignalState, Start, Ask
<1>3. c # None
  BY <1>1, WebAssumption
<1> HIDE DEF c, q
<1>4. ReviewOK(q, c)
  BY <1>1, <1>2, <1>3 DEF ReviewOK
<1> QED BY <1>4 DEF c, q

\* The answer belongs to what is selected.
LEMMA SettledReview ==
  ASSUME NEW s, NEW c \in Reviewing, ReviewOK(s, c)
  PROVE  /\ c.at = "released" => ReviewOK(Succeed(s, c), None)
         /\ ReviewOK(Failed(s), None)
<1>1. /\ s \in SignalState /\ c # None /\ s.current /\ c.ask = Ask(s) /\ c.ask \in Asked
      /\ Allowlisted(Ask(s))
  BY WebAssumption DEF ReviewOK, Reviewing
<1>2. /\ Failed(s) \in SignalState /\ Failed(s).phase = "error" /\ Ask(Failed(s)) = Ask(s)
      /\ Failed(s).analysis = None /\ Failed(s).repair = "none"
  BY <1>1 DEF Failed, SignalState, Ask
<1>3. ReviewOK(Failed(s), None)
  BY <1>1, <1>2 DEF ReviewOK
<1>4. ASSUME c.at = "released" PROVE ReviewOK(Succeed(s, c), None)
  <2>1. /\ Succeed(s, c) \in SignalState /\ Succeed(s, c).phase = "result"
        /\ Ask(Succeed(s, c)) = Ask(s) /\ Succeed(s, c).analysis = Ask(s)
    BY <1>1, <1>4 DEF Succeed, SignalState, Ask
  <2> QED BY <1>1, <2>1 DEF ReviewOK
<1> QED BY <1>3, <1>4

\* No step of the page, the adapter or the private service disturbs that.
LEMMA SignalSteps ==
  ASSUME SignalInv, SignalNext, UNCHANGED route
  PROVE  SignalInv'
<1>1. CASE Choose
  <2>1. route = "signal" /\ ReviewOK(signal, None) /\ call = None
    BY <1>1 DEF Choose, SignalInv, ReviewOK
  <2>2. ReviewOK(signal', None)
    BY <1>1, <2>1, ChosenReview DEF Choose
  <2> QED BY <1>1, <2>1, <2>2 DEF Choose, SignalInv
<1>2. CASE EditRepair
  <2>1. route = "signal" /\ ReviewOK(signal, call) /\ signal.phase = "result"
    BY <1>2 DEF EditRepair, SignalInv
  <2>2. signal' = [signal EXCEPT !.repair = "edited"] /\ call' = call
    BY <1>2 DEF EditRepair
  <2>3. /\ signal' \in SignalState /\ Ask(signal') = Ask(signal) /\ signal'.phase = signal.phase
        /\ signal'.analysis = signal.analysis /\ signal'.current = signal.current
    BY <2>1, <2>2 DEF ReviewOK, SignalState, Ask
  <2>4. ReviewOK(signal', call')
    BY <2>1, <2>2, <2>3 DEF ReviewOK
  <2> QED BY <2>1, <2>4 DEF SignalInv
<1>3. CASE HandleSubmit
  <2>1. route = "signal" /\ ReviewOK(signal, None) /\ signal.confirmed
    BY <1>3 DEF HandleSubmit, SignalInv, ReviewOK
  <2>2. ReviewOK(signal', call')
    BY <1>3, <2>1, StartedReview DEF HandleSubmit
  <2> QED BY <2>1, <2>2 DEF SignalInv
<1>4. CASE ClearSession
  BY <1>4, FreshReview DEF ClearSession, SignalInv
<1>5. CASE Settle
  <2>1. route = "signal" /\ ReviewOK(signal, call) /\ call \in Reviewing
    BY <1>5 DEF Settle, SignalInv, ReviewOK
  <2>2. ReviewOK(signal', None) /\ call' = None
    BY <1>5, <2>1, SettledReview DEF Settle
  <2> QED BY <2>1, <2>2 DEF SignalInv
<1>6. CASE Tick \/ OtherRequest
  BY <1>6 DEF Tick, OtherRequest, SignalInv
<1>7. CASE Receive \/ UpstreamHeaders \/ UpstreamBody \/ Timeout
  <2>1. route = "signal" /\ ReviewOK(signal, call) /\ call \in Reviewing /\ call.at # "released"
        /\ signal' = signal
    BY <1>7 DEF Receive, UpstreamHeaders, UpstreamBody, Timeout, SignalInv, ReviewOK
  <2>2. \/ \E at \in {"fetching", "reading", "refused"} : call' = [call EXCEPT !.at = at]
        \/ \E repair \in BOOLEAN : call' = [at |-> "released", ask |-> call.ask, repair |-> repair]
    BY <1>7 DEF Receive, UpstreamHeaders, UpstreamBody, Timeout, Reach
  <2>3. call' \in Reviewing /\ call'.ask = call.ask
    BY <2>1, <2>2 DEF Reviewing
  <2>4. ReviewOK(signal', call')
    BY <2>1, <2>3, MovedReview
  <2> QED BY <2>1, <2>4 DEF SignalInv
<1> QED BY <1>1, <1>2, <1>3, <1>4, <1>5, <1>6, <1>7 DEF SignalNext

\* Opening and leaving the page.
LEMMA SignalRouted ==
  ASSUME SignalInv, NEW to, to # route, route' = to, SignalRoute(to)
  PROVE  SignalInv'
<1>1. CASE route = "signal"
  BY <1>1 DEF SignalInv, SignalRoute, UnmountSignal
<1>2. CASE route # "signal" /\ to = "signal"
  <2>1. signal' = InitialSignal /\ call' = None
    BY <1>2 DEF SignalInv, SignalRoute, MountSignal
  <2> QED BY <1>2, <2>1, FreshReview DEF SignalInv
<1>3. CASE route # "signal" /\ to # "signal"
  BY <1>3 DEF SignalInv, SignalRoute, signalVars
<1> QED BY <1>1, <1>2, <1>3

(***************************************************************************)
(* The rate limit of the fixture page's adapter.                           *)
(***************************************************************************)

\* In its window the limit lets pass what it counts and no more than the
\* maximum; before it, at most the maximum; and when it is over, nothing has
\* passed since.
RateOK(l) ==
  /\ l \in [age : 0..rateLimitWindow, count : Nat, passed : [0..rateLimitWindow - 1 -> Nat]]
  /\ l.age # rateLimitWindow =>
       /\ \A k \in 0..l.age : l.passed[k] <= l.count /\ l.passed[k] <= rateLimitMax
       /\ \A k \in l.age..rateLimitWindow - 1 : l.passed[k] <= l.passed[l.age] + rateLimitMax
  /\ l.age = rateLimitWindow =>
       l.passed[0] = 0 /\ \A k \in 0..rateLimitWindow - 1 : l.passed[k] <= rateLimitMax

\* The lesser of two numbers.
LEMMA MinOfTwo ==
  ASSUME NEW m \in Nat, NEW n \in Nat
  PROVE  Min({m, n}) = IF m <= n THEN m ELSE n
<1>1. CASE m <= n
  BY <1>1 DEF Min
<1>2. CASE ~(m <= n)
  BY <1>2 DEF Min
<1> QED BY <1>1, <1>2

\* What one more request adds to a number of passes keeps it within the count
\* and the maximum.
LEMMA OneMorePass ==
  ASSUME NEW p \in Nat, NEW n \in Nat, NEW c \in Nat, NEW M \in Nat, NEW q,
         q = IF c <= M THEN p + 1 ELSE p,
         p <= n, p <= M, c = IF n <= M THEN n + 1 ELSE M + 1
  PROVE  q <= c /\ q <= M
<1>1. CASE c <= M
  BY <1>1
<1>2. CASE ~(c <= M)
  BY <1>2
<1> QED BY <1>1, <1>2

\* Two numbers of passes stay within M of each other when both take one more.
LEMMA BothOneMore ==
  ASSUME NEW p \in Nat, NEW q \in Nat, NEW c \in Nat, NEW M \in Nat, NEW pp, NEW qq,
         pp = IF c <= M THEN p + 1 ELSE p,
         qq = IF c <= M THEN q + 1 ELSE q,
         p <= q + M
  PROVE  pp <= qq + M
<1>1. CASE c <= M
  BY <1>1
<1>2. CASE ~(c <= M)
  BY <1>2
<1> QED BY <1>1, <1>2

\* A request is counted: it passes in a new window, or below the maximum.
LEMMA CountedRate ==
  ASSUME NEW l, RateOK(l)
  PROVE  RateOK(Counted(l))
<1> DEFINE W == rateLimitWindow
           M == rateLimitMax
           over == l.age >= W
           count == IF over THEN 1 ELSE Min({l.count, M}) + 1
           age == IF over THEN 0 ELSE l.age
           passed == Passed(l.passed, count)
           d == [l EXCEPT !.age = age, !.count = count, !.passed = passed]
<1>1. /\ W \in Nat \ {0} /\ M \in Nat
      /\ l \in [age : 0..W, count : Nat, passed : [0..W - 1 -> Nat]]
      /\ l.age \in 0..W /\ l.count \in Nat /\ l.passed \in [0..W - 1 -> Nat]
      /\ over = (l.age = W)
  BY RateAssumption DEF RateOK
<1>2. /\ count \in Nat /\ age \in 0..W - 1
      /\ over => count = 1 /\ age = 0
      /\ ~over => age = l.age /\ count = IF l.count <= M THEN l.count + 1 ELSE M + 1
  BY <1>1, MinOfTwo
<1> HIDE DEF count, age
<1>3. /\ passed \in [0..W - 1 -> Nat]
      /\ \A k \in 0..W - 1 : passed[k] = IF count <= M THEN l.passed[k] + 1 ELSE l.passed[k]
  BY <1>1, <1>2 DEF Passed
<1> HIDE DEF passed
<1>4. /\ d \in [age : 0..W, count : Nat, passed : [0..W - 1 -> Nat]]
      /\ d.age = age /\ d.count = count /\ d.passed = passed
  <2>1. age \in 0..W
    BY <1>1, <1>2
  <2> HIDE DEF W
  <2> QED BY <1>1, <1>2, <1>3, <2>1
<1>5. Counted(l) = d
  BY DEF Counted, count, age, passed
<1> HIDE DEF d
<1>6. ASSUME NEW k \in 0..age PROVE passed[k] <= count /\ passed[k] <= M
  <2>1. k \in 0..W - 1
    BY <1>1, <1>2
  <2>2. CASE over
    <3>1. k = 0 /\ l.passed[k] = 0
      BY <1>1, <1>2, <2>2 DEF RateOK
    <3>2. /\ passed[k] = IF count <= M THEN l.passed[k] + 1 ELSE l.passed[k]
          /\ count = IF 0 <= M THEN 0 + 1 ELSE M + 1
      BY <1>1, <1>2, <1>3, <2>1, <2>2
    <3> HIDE DEF M, over
    <3> QED BY <1>1, <1>2, <3>1, <3>2, OneMorePass
  <2>3. CASE ~over
    <3>1. l.passed[k] <= l.count /\ l.passed[k] <= M /\ l.passed[k] \in Nat
      BY <1>1, <1>2, <2>1, <2>3 DEF RateOK
    <3>2. /\ passed[k] = IF count <= M THEN l.passed[k] + 1 ELSE l.passed[k]
          /\ count = IF l.count <= M THEN l.count + 1 ELSE M + 1
      BY <1>2, <1>3, <2>1, <2>3
    <3> HIDE DEF M, over
    <3> QED BY <1>1, <1>2, <3>1, <3>2, OneMorePass
  <2> QED BY <2>2, <2>3
<1>7. ASSUME NEW k \in age..W - 1 PROVE passed[k] <= passed[age] + M
  <2>1. k \in 0..W - 1 /\ l.passed[k] \in Nat /\ l.passed[age] \in Nat
    BY <1>1, <1>2
  <2>2. l.passed[k] <= l.passed[age] + M
    <3>1. CASE over
      BY <1>1, <1>2, <2>1, <3>1 DEF RateOK
    <3>2. CASE ~over
      BY <1>1, <1>2, <2>1, <3>2 DEF RateOK
    <3> QED BY <3>1, <3>2
  <2>3. /\ passed[k] = IF count <= M THEN l.passed[k] + 1 ELSE l.passed[k]
        /\ passed[age] = IF count <= M THEN l.passed[age] + 1 ELSE l.passed[age]
    BY <1>2, <1>3, <2>1
  <2> HIDE DEF M, over
  <2> QED BY <1>1, <1>2, <2>1, <2>2, <2>3, BothOneMore
<1>8. d.age # W
  BY <1>1, <1>2, <1>4
<1>9. RateOK(d)
  BY <1>4, <1>6, <1>7, <1>8 DEF RateOK
<1> QED BY <1>5, <1>9

\* Time passes.
LEMMA TickedRate ==
  ASSUME RateOK(limiter), Tick
  PROVE  RateOK(limiter')
<1> DEFINE W == rateLimitWindow
           M == rateLimitMax
           l == limiter
           age == Min({l.age + 1, W})
           count == IF l.age + 1 >= W THEN 0 ELSE l.count
           passed == [k \in 0..W - 1 |-> IF k = 0 THEN 0 ELSE l.passed[k - 1]]
<1>1. /\ W \in Nat \ {0} /\ M \in Nat
      /\ l.age \in 0..W /\ l.count \in Nat /\ l.passed \in [0..W - 1 -> Nat]
  BY RateAssumption DEF RateOK
<1>2. /\ age = IF l.age + 1 <= W THEN l.age + 1 ELSE W
      /\ age \in 0..W /\ count \in Nat
  <2>1. l.age \in Nat /\ l.age + 1 \in Nat /\ W \in Nat
    BY <1>1
  <2>2. age = IF l.age + 1 <= W THEN l.age + 1 ELSE W
    <3> HIDE DEF W, l
    <3> QED BY <2>1, MinOfTwo
  <2> HIDE DEF age
  <2> QED BY <1>1, <2>1, <2>2
<1>3. limiter' = [age |-> age, count |-> count, passed |-> passed]
  BY <1>1 DEF Tick
<1>4. /\ passed \in [0..W - 1 -> Nat] /\ passed[0] = 0
      /\ \A k \in 1..W - 1 : k - 1 \in 0..W - 1 /\ passed[k] = l.passed[k - 1]
  BY <1>1
<1> HIDE DEF passed, age, count
<1>5. /\ limiter' \in [age : 0..W, count : Nat, passed : [0..W - 1 -> Nat]]
      /\ limiter'.age = age /\ limiter'.count = count /\ limiter'.passed = passed
  BY <1>2, <1>3, <1>4
<1>6. ASSUME age = W, NEW k \in 0..W - 1 PROVE passed[k] <= M
  <2>1. CASE k = 0
    BY <1>1, <1>4, <2>1
  <2>2. CASE k # 0
    <3>1. k \in 1..W - 1 /\ passed[k] = l.passed[k - 1] /\ k - 1 \in 0..W - 1
      BY <1>1, <1>4, <1>6, <2>2
    <3>2. CASE l.age = W
      BY <1>1, <3>1, <3>2 DEF RateOK
    <3>3. CASE l.age # W
      <4>1. k - 1 \in 0..l.age
        BY <1>1, <1>2, <1>6, <3>1, <3>3
      <4> QED BY <3>1, <3>3, <4>1 DEF RateOK
    <3> QED BY <3>2, <3>3
  <2> QED BY <2>1, <2>2
<1>7. ASSUME age # W PROVE /\ l.age # W /\ age = l.age + 1 /\ count = l.count /\ age \in 1..W - 1
                           /\ l.age \in 0..W - 1 /\ passed[age] = l.passed[l.age]
  <2>1. l.age # W /\ age = l.age + 1 /\ age \in 1..W - 1 /\ l.age \in 0..W - 1 /\ ~(l.age + 1 >= W)
    BY <1>1, <1>2, <1>7
  <2>2. passed[age] = l.passed[age - 1]
    <3> HIDE DEF W, l
    <3> QED BY <1>4, <2>1
  <2>3. age - 1 = l.age
    BY <1>1, <2>1
  <2> QED BY <2>1, <2>2, <2>3 DEF count
<1>8. ASSUME age # W, NEW k \in 0..age PROVE passed[k] <= count /\ passed[k] <= M
  <2>1. CASE k = 0
    <3>1. passed[k] = 0
      BY <1>4, <2>1
    <3> HIDE DEF W, M, l
    <3> QED BY <1>1, <1>2, <3>1
  <2>2. CASE k # 0
    <3>1. k \in 1..W - 1 /\ k - 1 \in 0..l.age
      BY <1>1, <1>7, <1>8, <2>2
    <3>2. passed[k] = l.passed[k - 1]
      BY <1>4, <3>1
    <3> QED BY <1>7, <1>8, <3>1, <3>2 DEF RateOK
  <2> QED BY <2>1, <2>2
<1>9. ASSUME age # W, NEW k \in age..W - 1 PROVE passed[k] <= passed[age] + M
  <2>1. k \in 1..W - 1 /\ k - 1 \in l.age..W - 1
    BY <1>1, <1>7, <1>9
  <2>2. passed[k] = l.passed[k - 1]
    BY <1>4, <2>1
  <2> QED BY <1>7, <1>9, <2>1, <2>2 DEF RateOK
<1> QED BY <1>4, <1>5, <1>6, <1>8, <1>9 DEF RateOK

\* The limit is kept by every step that the page or the adapter takes.
LEMMA SignalRates ==
  ASSUME RateOK(limiter), SignalNext
  PROVE  RateOK(limiter')
<1>1. \/ Tick \/ limiter' = Counted(limiter) \/ limiter' = limiter
  BY DEF SignalNext, Choose, EditRepair, HandleSubmit, ClearSession, Settle, Tick, OtherRequest,
         Receive, UpstreamHeaders, UpstreamBody, Timeout
<1> QED BY <1>1, TickedRate, CountedRate

(***************************************************************************)
(* Sequences that lose an element.                                         *)
(***************************************************************************)

\* What a sequence without its k-th element is.
LEMMA RemoveAtFacts ==
  ASSUME NEW S, NEW q \in Seq(S), NEW k \in DOMAIN q
  PROVE  /\ RemoveAt(q, k) \in Seq(S) /\ Len(RemoveAt(q, k)) = Len(q) - 1
         /\ \A i \in 1..Len(q) - 1 : RemoveAt(q, k)[i] = q[IF i < k THEN i ELSE i + 1]
<1> DEFINE l == SubSeq(q, 1, k - 1)
           r == SubSeq(q, k + 1, Len(q))
<1>1. k \in 1..Len(q) /\ Len(q) \in Nat
  OBVIOUS
<1>2. l \in Seq(S) /\ Len(l) = k - 1 /\ \A i \in 1..k - 1 : l[i] = q[i]
  BY <1>1
<1>3. r \in Seq(S) /\ Len(r) = Len(q) - k /\ \A i \in 1..Len(q) - k : r[i] = q[k + i]
  BY <1>1
<1> HIDE DEF l, r
<1>4. l \o r \in Seq(S) /\ Len(l \o r) = Len(q) - 1
  BY <1>1, <1>2, <1>3
<1>5. ASSUME NEW i \in 1..Len(q) - 1 PROVE (l \o r)[i] = q[IF i < k THEN i ELSE i + 1]
  <2>1. CASE i < k
    BY <1>1, <1>2, <1>3, <2>1
  <2>2. CASE ~(i < k)
    <3>1. i - (k - 1) \in 1..Len(q) - k /\ k + (i - (k - 1)) = i + 1
      BY <1>1, <2>2
    <3>2. (l \o r)[i] = r[i - (k - 1)]
      BY <1>1, <1>2, <1>3, <2>2
    <3>3. r[i - (k - 1)] = q[k + (i - (k - 1))]
      BY <1>3, <3>1
    <3> QED BY <2>2, <3>1, <3>2, <3>3
  <2> QED BY <2>1, <2>2
<1> QED BY <1>4, <1>5 DEF RemoveAt, l, r

\* A nonempty set of naturals has a least element, so Min picks one.
LEMMA LeastNatural ==
  ASSUME NEW S \in SUBSET Nat, S # {}
  PROVE  Min(S) \in S
<1> DEFINE R == OpToRel(<, Nat)
<1>1. IsWellFoundedOn(R, Nat)
  BY NatLessThanWellFounded
<1>2. PICK x \in S : \A y \in S : ~(<<y, x>> \in R)
  <2> HIDE DEF R
  <2> QED BY <1>1, WFMin
<1>3. \A y \in S : x <= y
  <2> TAKE y \in S
  <2>1. ~(y < x)
    BY <1>2 DEF OpToRel
  <2> QED BY <2>1
<1> QED BY <1>3 DEF Min

\* What comes before a sequence joins its elements.
LEMMA PrependFacts ==
  ASSUME NEW S, NEW r \in Seq(S), NEW p \in S
  PROVE  <<p>> \o r \in Seq(S) /\ Range(<<p>> \o r) = Range(r) \cup {p}
<1>1. /\ <<p>> \o r \in Seq(S) /\ Len(<<p>> \o r) = Len(r) + 1 /\ Len(r) \in Nat
      /\ (<<p>> \o r)[1] = p /\ \A i \in 1..Len(r) : (<<p>> \o r)[i + 1] = r[i]
  OBVIOUS
<1>2. Range(<<p>> \o r) = Range(r) \cup {p}
  <2> DEFINE n == <<p>> \o r
  <2>1. \A i \in 1..Len(r) + 1 : i = 1 \/ (i - 1 \in 1..Len(r) /\ (i - 1) + 1 = i)
    BY <1>1
  <2>2. \A i \in 1..Len(r) : i + 1 \in 1..Len(r) + 1
    BY <1>1
  <2>3. 1 \in 1..Len(r) + 1
    BY <1>1
  <2> HIDE DEF n
  <2>4. DOMAIN n = 1..Len(r) + 1 /\ DOMAIN r = 1..Len(r)
    BY <1>1 DEF n
  <2>5. Range(n) \subseteq Range(r) \cup {p}
    BY <1>1, <2>1, <2>4 DEF Range, n
  <2>6. p \in Range(n)
    BY <1>1, <2>3, <2>4 DEF Range, n
  <2>7. ASSUME NEW i \in DOMAIN r PROVE r[i] \in Range(n)
    <3>1. i + 1 \in DOMAIN n /\ n[i + 1] = r[i]
      BY <1>1, <2>2, <2>4 DEF n
    <3> QED BY <3>1 DEF Range
  <2> QED BY <2>5, <2>6, <2>7 DEF n, Range
<1> QED BY <1>1, <1>2

\* A thread that moves to the front stays with all others.
LEMMA ToFrontFacts ==
  ASSUME NEW q \in Seq(Peer), NEW p \in Peer
  PROVE  ToFront(q, p) \in Seq(Peer) /\ Range(q) \cup {p} = Range(ToFront(q, p))
<1> DEFINE r == RemoveFirst(q, p)
           K == {i \in 1..Len(q) : q[i] = p}
<1>1. r \in Seq(Peer) /\ Range(q) \subseteq Range(r) \cup {p} /\ Range(r) \subseteq Range(q)
  <2>1. CASE K = {}
    BY <2>1 DEF RemoveFirst
  <2>2. CASE K # {}
    <3> DEFINE k == Min(K)
    <3>1. k \in K
      <4>1. K \in SUBSET Nat
        OBVIOUS
      <4> HIDE DEF K
      <4> QED BY <2>2, <4>1, LeastNatural
    <3>2. r = RemoveAt(q, k)
      BY <2>2 DEF RemoveFirst, SelectInSeq
    <3> HIDE DEF k, r
    <3>3. /\ r \in Seq(Peer) /\ Len(r) = Len(q) - 1 /\ Len(q) \in Nat
          /\ k \in 1..Len(q) /\ q[k] = p
          /\ \A i \in 1..Len(q) - 1 : r[i] = q[IF i < k THEN i ELSE i + 1]
      BY <3>1, <3>2, RemoveAtFacts
    <3>4. ASSUME NEW i \in 1..Len(q), q[i] # p PROVE q[i] \in Range(r)
      <4>1. CASE i < k
        <5>1. i \in 1..Len(q) - 1 /\ r[i] = q[i]
          BY <3>3, <4>1
        <5> QED BY <3>3, <5>1 DEF Range
      <4>2. CASE i > k
        <5>1. i - 1 \in 1..Len(q) - 1 /\ ~(i - 1 < k) /\ (i - 1) + 1 = i
          BY <3>3, <4>2
        <5>2. r[i - 1] = q[i]
          BY <3>3, <5>1
        <5> QED BY <3>3, <5>1, <5>2 DEF Range
      <4> QED BY <3>3, <3>4, <4>1, <4>2
    <3>5. ASSUME NEW i \in 1..Len(r) PROVE r[i] \in Range(q)
      <4>1. i \in 1..Len(q) - 1 /\ (IF i < k THEN i ELSE i + 1) \in 1..Len(q)
        BY <3>3
      <4>2. r[i] = q[IF i < k THEN i ELSE i + 1]
        BY <3>3, <4>1
      <4> HIDE DEF r
      <4> QED BY <4>1, <4>2 DEF Range
    <3>6. Range(q) \subseteq Range(r) \cup {p}
      BY <3>4 DEF Range
    <3>7. Range(r) \subseteq Range(q)
      BY <3>3, <3>5 DEF Range
    <3> QED BY <3>3, <3>6, <3>7
  <2> QED BY <2>1, <2>2
<1> HIDE DEF r
<1>2. <<p>> \o r \in Seq(Peer) /\ Range(<<p>> \o r) = Range(r) \cup {p}
  BY <1>1, PrependFacts
<1> QED BY <1>1, <1>2 DEF ToFront, r

(***************************************************************************)
(* The chat page.                                                          *)
(***************************************************************************)

Asking  == [at : {"sent"}, kind : {"list"}, peer : Peer \cup {None}, then : {"mount", "open", "tail"}]
             \cup [at : {"sent"}, kind : {"messages"}, peer : Peer, then : {"tail", "effect"}]
Writing == [at : {"sent", "served", "refused"}, kind : {"create"}, peer : Peer, then : {"open"}]
             \cup [at : {"sent", "served", "refused"}, kind : {"send"}, peer : Peer, then : {"tail"}]
Listed  == [at : {"served"}, kind : {"list"}, peer : Peer \cup {None}, then : {"mount", "open", "tail"},
            list : Seq(Peer), barred : SUBSET Peer]
Told    == [at : {"served"}, kind : {"messages"}, peer : Peer, then : {"tail", "effect"}, count : Nat]

ChatCall == Asking \cup Writing \cup Listed \cup Told

ServerState == [threads : Seq(Peer), sent : [Peer -> Nat], blocked : SUBSET Peer]

\* After this call the page asks for the messages of a thread it was told of.
Promises(x) == x.kind = "send" \/ (x.kind = "list" /\ x.then = "tail")

\* A list is asked for by the mounted page, or for a peer who is in it.
CallOK(x, threads) ==
  /\ x \in ChatCall
  /\ x.kind = "list" => (x.then = "mount") = (x.peer = None)
  /\ \/ x.kind = "send" \/ (x.kind = "create" /\ x.at = "served")
     \/ x.kind = "list" /\ x.then # "mount"
     => x.peer \in Range(threads)
  /\ x.kind = "list" /\ x.at = "served" =>
       Range(x.list) \subseteq Range(threads) /\ (x.then # "mount" => x.peer \in Range(x.list))

\* The conversation that is selected is listed, and lists only grow.
ListOK(c, q, s) ==
  /\ c \in ChatState /\ s \in ServerState /\ q \in Seq(ChatCall)
  /\ c.selected = None \/ c.selected \in Range(c.list)
  /\ Range(c.list) \subseteq Range(s.threads)
  /\ \A k \in DOMAIN q : CallOK(q[k], s.threads)

\* Until the first list arrives nothing is selected, shown or sent.
FirstList(c, q) ==
  \A k \in DOMAIN q : q[k].then = "mount" =>
    /\ k = 1 /\ q[k].kind = "list" /\ c.list = <<>> /\ c.selected = None /\ c.messages = None
    /\ \A j \in DOMAIN q : j # 1 => q[j].kind = "create"

\* If it shows messages, they are of the thread selected.
Own(c, x) == x.kind = "messages" => x.peer = c.selected

\* The thread shown, or the last one asked for, is the one selected.
ThreadAsked(c, q) ==
  \/ /\ c.messages # None => c.messages.of = c.selected
     /\ \A k \in DOMAIN q : Own(c, q[k])
  \/ \E k \in DOMAIN q : /\ q[k].kind = "messages" /\ q[k].then = "effect"
                         /\ \A j \in DOMAIN q : j >= k => Own(c, q[j])

\* If it shows messages, they are all messages of the thread selected.
Fresh(c, x, s) ==
  x.kind = "messages" => x.peer = c.selected /\ (x.at = "served" => x.count = s.sent[c.selected])

\* The thread shown is up to date, or the last one asked for will be.
ThreadCurrent(c, q, s) ==
  \/ \E k \in DOMAIN q : Promises(q[k])
  \/ \E k \in DOMAIN q : /\ q[k].kind = "messages"
                         /\ \A j \in DOMAIN q : j >= k => Fresh(c, q[j], s)
  \/ /\ c.messages = [of |-> c.selected, count |-> s.sent[c.selected]]
     /\ \A k \in DOMAIN q : Fresh(c, q[k], s)

\* Whom a link named is selected or will be; what was sent since is theirs.
LinkOpens(c, q) ==
  c.opened # None =>
    /\ \A k \in DOMAIN q : q[k].then = "open" \/ Promises(q[k]) => q[k].peer = c.opened
    /\ c.selected = c.opened \/ \E k \in DOMAIN q : q[k].then = "open"

ThreadOK(c, q, s) ==
  /\ ListOK(c, q, s) /\ LinkOpens(c, q)
  /\ c.order => FirstList(c, q) /\ ThreadAsked(c, q)
  /\ c.order /\ c.whole /\ c.selected # None => ThreadCurrent(c, q, s)

ChatInv ==
  /\ server \in ServerState
  /\ writes \subseteq [kind : {"create", "send"}, peer : Peer]
  /\ IF route = "chat" THEN ThreadOK(chat, calls, server) ELSE chat = None /\ calls = <<>>

\* Writes keep the store sound and every thread in its list; only sending
\* changes how many messages a thread has.
LEMMA WrittenFacts ==
  ASSUME NEW s \in ServerState, NEW w, w.kind \in {"create", "send"} => w.peer \in Peer
  PROVE  /\ Written(s, w) \in ServerState
         /\ Range(s.threads) \subseteq Range(Written(s, w).threads)
         /\ w.kind # "send" => Written(s, w).sent = s.sent
         /\ w.kind \notin {"create", "send"} => Written(s, w) = s
         /\ w.kind = "create" /\ w.peer \notin s.blocked => w.peer \in Range(Written(s, w).threads)
<1> DEFINE p == w.peer
           front == ToFront(s.threads, p)
           more == <<p>> \o s.threads
<1>8. CASE w.kind \notin {"create", "send"}
  BY <1>8 DEF Written
<1> SUFFICES ASSUME p \in Peer
             PROVE  /\ Written(s, w) \in ServerState
                    /\ Range(s.threads) \subseteq Range(Written(s, w).threads)
                    /\ w.kind # "send" => Written(s, w).sent = s.sent
                    /\ w.kind \notin {"create", "send"} => Written(s, w) = s
                    /\ w.kind = "create" /\ w.peer \notin s.blocked =>
                         w.peer \in Range(Written(s, w).threads)
  BY <1>8
<1>1. /\ s.threads \in Seq(Peer) /\ s.sent \in [Peer -> Nat] /\ p \in Peer
      /\ s.sent[p] + 1 \in Nat
  BY DEF ServerState
<1>2. front \in Seq(Peer) /\ Range(s.threads) \subseteq Range(front)
  BY <1>1, ToFrontFacts
<1>3. more \in Seq(Peer) /\ Range(s.threads) \subseteq Range(more) /\ p \in Range(more)
  BY <1>1, PrependFacts
<1> HIDE DEF front, more
<1>4. CASE w.kind = "create" /\ p \notin s.blocked \cup Range(s.threads)
  <2> DEFINE t == [s EXCEPT !.threads = more]
  <2>1. t \in ServerState /\ t.threads = more /\ t.sent = s.sent
    BY <1>3 DEF ServerState
  <2>2. Written(s, w) = t
    BY <1>4 DEF Written, Created, more
  <2> HIDE DEF t
  <2> QED BY <1>3, <1>4, <2>1, <2>2
<1>5. CASE w.kind = "create" /\ p \in s.blocked \cup Range(s.threads)
  BY <1>5 DEF Written, Created
<1>6. CASE w.kind = "send" /\ p \in s.blocked
  BY <1>6 DEF Written, Sent
<1>7. CASE w.kind = "send" /\ p \notin s.blocked
  <2> DEFINE t == [s EXCEPT !.threads = front, !.sent[p] = s.sent[p] + 1]
  <2>1. t \in ServerState /\ t.threads = front
    BY <1>1, <1>2 DEF ServerState
  <2>2. Written(s, w) = t
    BY <1>7 DEF Written, Sent, front
  <2> HIDE DEF t
  <2> QED BY <1>2, <1>7, <2>1, <2>2
<1> QED BY <1>4, <1>5, <1>6, <1>7, <1>8

\* What the store was told stays true as its list grows.
LEMMA GrownList ==
  ASSUME NEW c, NEW q, NEW s, ListOK(c, q, s), NEW t \in ServerState,
         Range(s.threads) \subseteq Range(t.threads)
  PROVE  ListOK(c, q, t)
<1>1. \A k \in DOMAIN q : CallOK(q[k], t.threads)
  BY DEF ListOK, CallOK
<1> QED BY <1>1 DEF ListOK

\* The store answers a call with what it holds then.
LEMMA AnswerFacts ==
  ASSUME server \in ServerState, NEW x, CallOK(x, server.threads), x.at = "sent"
  PROVE  /\ CallOK(Answer(x), Written(server, x).threads)
         /\ Answer(x).kind = x.kind /\ Answer(x).peer = x.peer /\ Answer(x).then = x.then
         /\ x.kind = "messages" => Answer(x).count = server.sent[x.peer]
<1>1. /\ x \in ChatCall /\ x.kind \in {"list", "messages", "create", "send"}
      /\ x.kind # "list" => x.peer \in Peer
  BY DEF CallOK, ChatCall, Asking, Writing, Listed, Told
<1>2. /\ Written(server, x) \in ServerState
      /\ Range(server.threads) \subseteq Range(Written(server, x).threads)
      /\ x.kind \notin {"create", "send"} => Written(server, x) = server
      /\ x.kind = "create" /\ x.peer \notin server.blocked =>
           x.peer \in Range(Written(server, x).threads)
  BY <1>1, WrittenFacts
<1>3. CASE x.kind = "list"
  <2>1. Answer(x) = [at |-> "served", kind |-> "list", peer |-> x.peer, then |-> x.then,
                     list |-> server.threads, barred |-> server.blocked]
    BY <1>3 DEF Answer
  <2>2. x \in Asking \cup Listed /\ x.peer \in Peer \cup {None} /\ x.then \in {"mount", "open", "tail"}
    BY <1>1, <1>3 DEF ChatCall, Asking, Writing, Listed, Told
  <2>3. Answer(x) \in Listed
    BY <2>1, <2>2 DEF Listed, ServerState
  <2> QED BY <1>2, <1>3, <2>1, <2>3 DEF CallOK, ChatCall
<1>4. CASE x.kind = "messages"
  <2>1. Answer(x) = [at |-> "served", kind |-> "messages", peer |-> x.peer, then |-> x.then,
                     count |-> server.sent[x.peer]]
    BY <1>4 DEF Answer
  <2>2. x.peer \in Peer /\ x.then \in {"tail", "effect"} /\ server.sent[x.peer] \in Nat
    BY <1>1, <1>4 DEF ChatCall, Asking, Writing, Listed, Told, ServerState
  <2>3. Answer(x) \in Told
    BY <2>1, <2>2 DEF Told
  <2> QED BY <1>4, <2>1, <2>3 DEF CallOK, ChatCall
<1>5. CASE x.kind \in {"create", "send"}
  <2> DEFINE at == IF Refused(x) THEN "refused" ELSE "served"
             y == [x EXCEPT !.at = at]
  <2>1. x \in Writing
    BY <1>1, <1>5 DEF ChatCall, Asking, Writing, Listed, Told
  <2>2. at \in {"refused", "served"} /\ (at = "served" => x.peer \notin server.blocked)
    BY <1>5 DEF Refused
  <2> HIDE DEF at
  <2>3. y \in Writing /\ y.kind = x.kind /\ y.peer = x.peer /\ y.then = x.then /\ y.at = at
    BY <2>1, <2>2 DEF Writing
  <2>4. Answer(x) = y
    BY <1>5 DEF Answer, at
  <2> HIDE DEF y
  <2>5. CallOK(y, Written(server, x).threads)
    BY <1>2, <1>5, <2>2, <2>3 DEF CallOK, ChatCall
  <2> QED BY <1>5, <2>3, <2>4, <2>5
<1> QED BY <1>1, <1>3, <1>4, <1>5

\* A call that was answered promises what it did.
LEMMA ServedThread ==
  ASSUME ThreadOK(chat, calls, server), NEW k \in DOMAIN calls, calls[k].at = "sent",
         calls' = [calls EXCEPT ![k] = Answer(calls[k])],
         server' = Written(server, calls[k]), chat' = chat
  PROVE  ThreadOK(chat, calls', server')
<1> DEFINE x == calls[k]
           y == Answer(x)
<1>1. /\ ListOK(chat, calls, server) /\ server \in ServerState /\ calls \in Seq(ChatCall)
      /\ CallOK(x, server.threads)
  BY DEF ThreadOK, ListOK
<1>2. /\ CallOK(y, server'.threads) /\ y \in ChatCall
      /\ y.kind = x.kind /\ y.peer = x.peer /\ y.then = x.then
      /\ y.kind = "messages" => y.count = server.sent[y.peer]
  BY <1>1, AnswerFacts DEF CallOK
<1>3. /\ server' \in ServerState /\ Range(server.threads) \subseteq Range(server'.threads)
      /\ x.kind # "send" => server'.sent = server.sent
  <2>1. x.kind \in {"create", "send"} => x.peer \in Peer
    BY <1>1 DEF CallOK, ChatCall, Asking, Writing, Listed, Told
  <2> QED BY <1>1, <2>1, WrittenFacts
<1>4. /\ DOMAIN calls' = DOMAIN calls /\ calls' \in Seq(ChatCall) /\ calls'[k] = y
      /\ \A j \in DOMAIN calls \ {k} : calls'[j] = calls[j]
  <2> HIDE DEF y
  <2> QED BY <1>1, <1>2 DEF y
<1> HIDE DEF y
<1>5. \A j \in DOMAIN calls : /\ calls'[j].kind = calls[j].kind /\ calls'[j].peer = calls[j].peer
                              /\ calls'[j].then = calls[j].then
  BY <1>2, <1>4
<1>6. ListOK(chat, calls', server')
  <2>1. ListOK(chat, calls, server')
    BY <1>1, <1>3, GrownList
  <2> QED BY <1>2, <1>4, <2>1 DEF ListOK
<1>7. LinkOpens(chat, calls')
  BY <1>4, <1>5 DEF ThreadOK, LinkOpens, Promises
<1>8. chat.order => FirstList(chat, calls') /\ ThreadAsked(chat, calls')
  BY <1>4, <1>5 DEF ThreadOK, FirstList, ThreadAsked, Own
<1>9. ASSUME chat.order, chat.whole, chat.selected # None PROVE ThreadCurrent(chat, calls', server')
  <2>1. ThreadCurrent(chat, calls, server)
    BY <1>9 DEF ThreadOK
  <2>2. CASE \E j \in DOMAIN calls : Promises(calls[j])
    BY <1>4, <1>5, <2>2 DEF ThreadCurrent, Promises
  <2>3. CASE ~ \E j \in DOMAIN calls : Promises(calls[j])
    <3>1. server'.sent = server.sent
      BY <1>3, <2>3 DEF Promises
    <3>2. \A j \in DOMAIN calls : Fresh(chat, calls[j], server) => Fresh(chat, calls'[j], server')
      BY <1>2, <1>4, <1>5, <3>1 DEF Fresh
    <3> QED BY <1>4, <1>5, <2>1, <2>3, <3>1, <3>2 DEF ThreadCurrent
  <2> QED BY <2>2, <2>3
<1> QED BY <1>6, <1>7, <1>8, <1>9 DEF ThreadOK

\* When somebody else wrote, only what is not about the last message stays.
LEMMA GrownThread ==
  ASSUME NEW c, NEW q, NEW s, ThreadOK(c, q, s), NEW t \in ServerState,
         Range(s.threads) \subseteq Range(t.threads)
  PROVE  ThreadOK([c EXCEPT !.whole = FALSE], q, t)
<1> DEFINE d == [c EXCEPT !.whole = FALSE]
<1>1. c \in ChatState
  BY DEF ThreadOK, ListOK
<1>2. /\ d \in ChatState /\ ~d.whole /\ d.list = c.list /\ d.selected = c.selected
      /\ d.messages = c.messages /\ d.opened = c.opened /\ d.order = c.order
  BY <1>1 DEF ChatState
<1>3. ListOK(c, q, t)
  BY GrownList DEF ThreadOK
<1> HIDE DEF d
<1>4. ListOK(d, q, t) /\ LinkOpens(d, q)
  BY <1>2, <1>3 DEF ThreadOK, ListOK, LinkOpens
<1>5. d.order => FirstList(d, q) /\ ThreadAsked(d, q)
  BY <1>2 DEF ThreadOK, FirstList, ThreadAsked, Own
<1> QED BY <1>2, <1>4, <1>5 DEF ThreadOK, d

\* What two sequences make.
LEMMA ConcatFacts ==
  ASSUME NEW S, NEW r, r \in Seq(S), NEW e, e \in Seq(S), NEW n, n = r \o e
  PROVE  /\ n \in Seq(S) /\ DOMAIN n = 1..Len(r) + Len(e)
         /\ Len(e) \in Nat /\ DOMAIN e = 1..Len(e)
         /\ \A i \in 1..Len(r) : n[i] = r[i]
         /\ \A i \in 1..Len(e) : n[Len(r) + i] = e[i]
<1>1. n \in Seq(S) /\ Len(r) \in Nat /\ Len(e) \in Nat /\ Len(n) = Len(r) + Len(e)
  OBVIOUS
<1>2. DOMAIN n = 1..Len(r) + Len(e) /\ DOMAIN e = 1..Len(e)
  BY <1>1
<1>3. ASSUME NEW i \in 1..Len(r) PROVE n[i] = r[i]
  BY <1>1
<1>4. ASSUME NEW i \in 1..Len(e) PROVE n[Len(r) + i] = e[i]
  BY <1>1
<1> QED BY <1>1, <1>2, <1>3, <1>4

\* n holds the calls of q but the k-th, and e.
Follows(q, k, e, n) ==
  /\ n \in Seq(ChatCall)
  /\ \A i \in DOMAIN n : \/ \E j \in DOMAIN q \ {k} : n[i] = q[j]
                         \/ \E j \in DOMAIN e : n[i] = e[j]
  /\ \A j \in DOMAIN q \ {k} : \E i \in DOMAIN n : n[i] = q[j]
  /\ \A j \in DOMAIN e : \E i \in DOMAIN n : n[i] = e[j]

\* The calls that stay when the k-th was settled and e were made.
LEMMA QueueAfter ==
  ASSUME NEW q \in Seq(ChatCall), NEW k \in DOMAIN q, NEW e \in Seq(ChatCall),
         NEW n, n = RemoveAt(q, k) \o e
  PROVE  Follows(q, k, e, n)
<1> DEFINE r == RemoveAt(q, k)
<1>0. k \in 1..Len(q) /\ Len(q) \in Nat /\ DOMAIN q = 1..Len(q)
  OBVIOUS
<1>1. /\ k \in 1..Len(q) /\ Len(q) \in Nat /\ DOMAIN q = 1..Len(q)
      /\ r \in Seq(ChatCall) /\ Len(r) = Len(q) - 1
      /\ \A i \in 1..Len(q) - 1 : r[i] = q[IF i < k THEN i ELSE i + 1]
  <2>1. /\ RemoveAt(q, k) \in Seq(ChatCall) /\ Len(RemoveAt(q, k)) = Len(q) - 1
        /\ \A i \in 1..Len(q) - 1 : RemoveAt(q, k)[i] = q[IF i < k THEN i ELSE i + 1]
    BY RemoveAtFacts, Zenon
  <2> QED BY <1>0, <2>1, Zenon
<1> HIDE DEF r
<1>2. /\ n \in Seq(ChatCall) /\ DOMAIN n = 1..Len(r) + Len(e) /\ Len(e) \in Nat /\ DOMAIN e = 1..Len(e)
      /\ \A i \in 1..Len(r) : n[i] = r[i]
      /\ \A i \in 1..Len(e) : n[Len(r) + i] = e[i]
  <2>1. n = r \o e
    BY DEF r
  <2>2. r \in Seq(ChatCall)
    BY <1>1
  <2> QED BY <2>1, <2>2, ConcatFacts
<1>3. ASSUME NEW i \in DOMAIN n
      PROVE  (\E j \in DOMAIN q \ {k} : n[i] = q[j]) \/ \E j \in DOMAIN e : n[i] = e[j]
  <2>1. CASE i <= Len(r)
    <3>1. i \in 1..Len(q) - 1 /\ i \in 1..Len(r)
      BY <1>1, <1>2, <1>3, <2>1
    <3>2. (IF i < k THEN i ELSE i + 1) \in DOMAIN q \ {k}
      BY <1>1, <3>1
    <3> QED BY <1>1, <1>2, <3>1, <3>2
  <2>2. CASE ~(i <= Len(r))
    <3>1. i - Len(r) \in 1..Len(e) /\ Len(r) + (i - Len(r)) = i
      BY <1>1, <1>2, <1>3, <2>2
    <3> QED BY <1>2, <3>1
  <2> QED BY <2>1, <2>2
<1>4. ASSUME NEW j \in DOMAIN q \ {k} PROVE \E i \in DOMAIN n : n[i] = q[j]
  <2> DEFINE i == IF j < k THEN j ELSE j - 1
  <2>1. i \in 1..Len(q) - 1 /\ (IF i < k THEN i ELSE i + 1) = j
    BY <1>1, <1>4
  <2>2. i \in DOMAIN n /\ i \in 1..Len(r)
    BY <1>1, <1>2, <2>1
  <2> HIDE DEF i
  <2>3. n[i] = q[j]
    BY <1>1, <1>2, <2>1, <2>2
  <2> QED BY <2>2, <2>3
<1>5. ASSUME NEW j \in DOMAIN e PROVE \E i \in DOMAIN n : n[i] = e[j]
  <2>1. Len(r) + j \in DOMAIN n
    BY <1>1, <1>2, <1>5
  <2> QED BY <1>2, <1>5, <2>1
<1> QED BY <1>2, <1>3, <1>4, <1>5 DEF Follows

\* q without its first call, then e, is n.
Shifts(q, e, n) ==
  /\ q # <<>> /\ n \in Seq(ChatCall)
  /\ DOMAIN n \subseteq Int /\ DOMAIN q \subseteq Int /\ DOMAIN e \subseteq Int
  /\ \A i \in DOMAIN n : \/ i + 1 \in DOMAIN q \ {1} /\ n[i] = q[i + 1]
                         \/ i - (Len(q) - 1) \in DOMAIN e /\ n[i] = e[i - (Len(q) - 1)]
  /\ \A j \in DOMAIN q \ {1} : j - 1 \in DOMAIN n /\ n[j - 1] = q[j]
  /\ \A j \in DOMAIN e : Len(q) - 1 + j \in DOMAIN n /\ n[Len(q) - 1 + j] = e[j]
  /\ Len(q) \in Nat /\ Len(e) \in Nat /\ DOMAIN q = 1..Len(q) /\ DOMAIN e = 1..Len(e)
  /\ DOMAIN n = 1..Len(q) - 1 + Len(e)

\* The calls that stay when the first was settled.
LEMMA FirstSettles ==
  ASSUME NEW q \in Seq(ChatCall), 1 \in DOMAIN q, NEW e \in Seq(ChatCall)
  PROVE  Shifts(q, e, RemoveAt(q, 1) \o e)
<1> DEFINE r == RemoveAt(q, 1)
           n == r \o e
<1>1. /\ 1 \in 1..Len(q) /\ Len(q) \in Nat /\ DOMAIN q = 1..Len(q)
      /\ r \in Seq(ChatCall) /\ Len(r) = Len(q) - 1
      /\ \A i \in 1..Len(q) - 1 : r[i] = q[IF i < 1 THEN i ELSE i + 1]
  BY RemoveAtFacts
<1> HIDE DEF r
<1>2. /\ n \in Seq(ChatCall) /\ DOMAIN n = 1..Len(r) + Len(e)
      /\ Len(e) \in Nat /\ DOMAIN e = 1..Len(e)
      /\ \A i \in 1..Len(r) : n[i] = r[i]
      /\ \A i \in 1..Len(e) : n[Len(r) + i] = e[i]
  <2>1. n = r \o e
    OBVIOUS
  <2> HIDE DEF n
  <2>2. r \in Seq(ChatCall)
    BY <1>1
  <2> QED BY <2>1, <2>2, ConcatFacts
<1> HIDE DEF n
<1>3. ASSUME NEW i \in DOMAIN n
      PROVE  \/ i + 1 \in DOMAIN q \ {1} /\ n[i] = q[i + 1]
             \/ i - (Len(q) - 1) \in DOMAIN e /\ n[i] = e[i - (Len(q) - 1)]
  <2>1. CASE i <= Len(r)
    <3>1. i \in 1..Len(q) - 1 /\ i \in 1..Len(r) /\ ~(i < 1) /\ i + 1 \in DOMAIN q \ {1}
      BY <1>1, <1>2, <1>3, <2>1
    <3> QED BY <1>1, <1>2, <3>1
  <2>2. CASE ~(i <= Len(r))
    <3>1. i - Len(r) \in 1..Len(e) /\ Len(r) + (i - Len(r)) = i
      BY <1>1, <1>2, <1>3, <2>2
    <3> QED BY <1>1, <1>2, <3>1
  <2> QED BY <2>1, <2>2
<1>4. ASSUME NEW j \in DOMAIN q \ {1} PROVE j - 1 \in DOMAIN n /\ n[j - 1] = q[j]
  <2>1. j - 1 \in 1..Len(q) - 1 /\ ~(j - 1 < 1) /\ (j - 1) + 1 = j /\ j - 1 \in 1..Len(r)
    BY <1>1, <1>4
  <2> QED BY <1>1, <1>2, <2>1
<1>5. ASSUME NEW j \in DOMAIN e PROVE Len(q) - 1 + j \in DOMAIN n /\ n[Len(q) - 1 + j] = e[j]
  BY <1>1, <1>2, <1>5
<1>6. DOMAIN n \subseteq Int /\ DOMAIN q \subseteq Int /\ DOMAIN e \subseteq Int /\ q # <<>>
      /\ DOMAIN n = 1..Len(q) - 1 + Len(e)
  BY <1>1, <1>2
<1>7. Shifts(q, e, n)
  BY <1>1, <1>2, <1>3, <1>4, <1>5, <1>6 DEF Shifts
<1> QED BY <1>7 DEF n, r

\* The request an effect has just made is the last word.
LEMMA LastAsked ==
  ASSUME NEW c, NEW q \in Seq(ChatCall), q # <<>>, NEW s, q[Len(q)] = MessagesOf(c.selected)
  PROVE  ThreadAsked(c, q) /\ ThreadCurrent(c, q, s)
<1> DEFINE k == Len(q)
<1>1. k \in DOMAIN q /\ \A j \in DOMAIN q : j >= k => j = k
  OBVIOUS
<1>2. /\ q[k].kind = "messages" /\ q[k].then = "effect" /\ q[k].peer = c.selected
      /\ q[k].at = "sent"
  BY DEF MessagesOf, Request
<1> HIDE DEF k
<1> QED BY <1>1, <1>2 DEF ThreadAsked, ThreadCurrent, Own, Fresh

\* The first call is settled and the selection stays: the page still shows, or
\* waits for, the thread selected.
LEMMA AskedAfter ==
  ASSUME NEW c, NEW d, NEW q, NEW e, NEW n, Shifts(q, e, n), ThreadAsked(c, q),
         d.selected = c.selected, \A j \in DOMAIN e : Own(d, e[j]),
         \/ q[1].then # "effect" /\ d.messages = c.messages
         \/ q[1].kind = "messages" /\ (d.messages # None => d.messages.of = q[1].peer)
  PROVE  ThreadAsked(d, n)
<1>0. 1 \in DOMAIN q
  BY DEF Shifts
<1>1. CASE /\ c.messages # None => c.messages.of = c.selected
           /\ \A k \in DOMAIN q : Own(c, q[k])
  <2>1. d.messages # None => d.messages.of = d.selected
    BY <1>0, <1>1 DEF Own
  <2>2. \A i \in DOMAIN n : Own(d, n[i])
    BY <1>1 DEF Shifts, Own
  <2> QED BY <2>1, <2>2 DEF ThreadAsked
<1>2. ASSUME NEW k \in DOMAIN q, q[k].kind = "messages", q[k].then = "effect",
             \A j \in DOMAIN q : j >= k => Own(c, q[j])
      PROVE  ThreadAsked(d, n)
  <2>1. CASE k = 1
    <3>1. \A j \in DOMAIN q : j >= 1
      BY DEF Shifts
    <3>2. \A j \in DOMAIN q : Own(c, q[j])
      BY <1>2, <2>1, <3>1
    <3>3. d.messages # None => d.messages.of = d.selected
      BY <1>0, <1>2, <2>1, <3>2 DEF Own
    <3>4. ASSUME NEW i \in DOMAIN n PROVE Own(d, n[i])
      <4>1. \/ i + 1 \in DOMAIN q /\ n[i] = q[i + 1]
            \/ i - (Len(q) - 1) \in DOMAIN e /\ n[i] = e[i - (Len(q) - 1)]
        BY <3>4 DEF Shifts
      <4> QED BY <3>2, <4>1 DEF Own
    <3> QED BY <3>3, <3>4 DEF ThreadAsked
  <2>2. CASE k # 1
    <3>1. k - 1 \in DOMAIN n /\ n[k - 1] = q[k]
      BY <2>2 DEF Shifts
    <3>2. ASSUME NEW i \in DOMAIN n, i >= k - 1 PROVE Own(d, n[i])
      <4>1. i + 1 >= k
        BY <3>2 DEF Shifts
      <4>2. CASE i + 1 \in DOMAIN q /\ n[i] = q[i + 1]
        <5>1. Own(c, n[i])
          BY <1>2, <4>1, <4>2
        <5> QED BY <5>1 DEF Own
      <4>3. CASE i - (Len(q) - 1) \in DOMAIN e /\ n[i] = e[i - (Len(q) - 1)]
        BY <4>3
      <4> QED BY <3>2, <4>2, <4>3 DEF Shifts
    <3> QED BY <1>2, <3>1, <3>2 DEF ThreadAsked
  <2> QED BY <2>1, <2>2
<1> QED BY <1>1, <1>2 DEF ThreadAsked

\* It also shows all messages of that thread, or will.
LEMMA CurrentAfter ==
  ASSUME NEW c, NEW d, NEW q, NEW e, NEW n, NEW s, Shifts(q, e, n), ThreadCurrent(c, q, s),
         d.selected = c.selected, \A j \in DOMAIN e : Fresh(d, e[j], s),
         q[1].kind # "messages" => d.messages = c.messages,
         q[1].kind = "messages" =>
           q[1].at = "served" /\ d.messages = [of |-> q[1].peer, count |-> q[1].count],
         Promises(q[1]) => \E j \in DOMAIN e : Promises(e[j]) \/ (j = Len(e) /\ e[j].kind = "messages")
  PROVE  ThreadCurrent(d, n, s)
<1>0. 1 \in DOMAIN q
  BY DEF Shifts
<1>1. ASSUME NEW k \in DOMAIN q, Promises(q[k]) PROVE ThreadCurrent(d, n, s)
  <2>1. CASE k # 1
    BY <1>1, <2>1 DEF Shifts, ThreadCurrent
  <2>2. CASE k = 1
    <3>1. PICK j \in DOMAIN e : Promises(e[j]) \/ (j = Len(e) /\ e[j].kind = "messages")
      BY <1>1, <2>2
    <3>2. Len(q) - 1 + j \in DOMAIN n /\ n[Len(q) - 1 + j] = e[j]
      BY DEF Shifts
    <3>3. CASE Promises(e[j])
      BY <3>2, <3>3 DEF ThreadCurrent
    <3>4. CASE j = Len(e) /\ e[j].kind = "messages"
      <4>1. \A i \in DOMAIN n : i >= Len(q) - 1 + j => i = Len(q) - 1 + j
        <5>1. Len(q) \in Nat /\ Len(e) \in Nat /\ DOMAIN n = 1..Len(q) - 1 + Len(e)
          BY DEF Shifts
        <5> QED BY <3>4, <5>1
      <4> QED BY <3>2, <3>4, <4>1 DEF ThreadCurrent, Fresh
    <3> QED BY <3>1, <3>3, <3>4
  <2> QED BY <2>1, <2>2
<1>2. ASSUME NEW k \in DOMAIN q, q[k].kind = "messages",
             \A j \in DOMAIN q : j >= k => Fresh(c, q[j], s)
      PROVE  ThreadCurrent(d, n, s)
  <2>1. CASE k = 1
    <3>1. \A j \in DOMAIN q : j >= 1
      BY DEF Shifts
    <3>2. \A j \in DOMAIN q : Fresh(c, q[j], s)
      BY <1>2, <2>1, <3>1
    <3>3. d.messages = [of |-> d.selected, count |-> s.sent[d.selected]]
      BY <1>0, <1>2, <2>1, <3>2 DEF Fresh
    <3>4. \A i \in DOMAIN n : Fresh(d, n[i], s)
      BY <3>2 DEF Shifts, Fresh
    <3> QED BY <3>3, <3>4 DEF ThreadCurrent
  <2>2. CASE k # 1
    <3>1. k - 1 \in DOMAIN n /\ n[k - 1] = q[k]
      BY <2>2 DEF Shifts
    <3>2. ASSUME NEW i \in DOMAIN n, i >= k - 1 PROVE Fresh(d, n[i], s)
      <4>1. i + 1 >= k
        BY <3>2 DEF Shifts
      <4>2. CASE i + 1 \in DOMAIN q /\ n[i] = q[i + 1]
        <5>1. Fresh(c, n[i], s)
          BY <1>2, <4>1, <4>2
        <5> QED BY <5>1 DEF Fresh
      <4>3. CASE i - (Len(q) - 1) \in DOMAIN e /\ n[i] = e[i - (Len(q) - 1)]
        BY <4>3
      <4> QED BY <3>2, <4>2, <4>3 DEF Shifts
    <3> QED BY <1>2, <3>1, <3>2 DEF ThreadCurrent
  <2> QED BY <2>1, <2>2
<1>3. CASE /\ c.messages = [of |-> c.selected, count |-> s.sent[c.selected]]
           /\ \A k \in DOMAIN q : Fresh(c, q[k], s)
  <2>1. d.messages = [of |-> d.selected, count |-> s.sent[d.selected]]
    BY <1>0, <1>3 DEF Fresh
  <2>2. \A i \in DOMAIN n : Fresh(d, n[i], s)
    BY <1>3 DEF Shifts, Fresh
  <2> QED BY <2>1, <2>2 DEF ThreadCurrent
<1> QED BY <1>1, <1>2, <1>3 DEF ThreadCurrent

\* The k-th call is settled: the page becomes d and makes the calls e.
Settles(c, q, s, k, d, e) ==
  /\ ThreadOK(c, q, s) /\ k \in DOMAIN q /\ e \in Seq(ChatCall) /\ d \in ChatState
  /\ d.selected = None \/ d.selected \in Range(d.list)
  /\ Range(d.list) \subseteq Range(s.threads)
  /\ \A j \in DOMAIN e :
       /\ CallOK(e[j], s.threads) /\ e[j].then # "mount"
       /\ e[j].then = "open" \/ Promises(e[j]) =>
            e[j].peer = q[k].peer /\ (q[k].then = "open" \/ Promises(q[k]))
  /\ d.order => c.order /\ k = 1
  /\ d.whole => c.whole
  /\ d.opened \in {c.opened, None}
  /\ d.opened # None =>
       \/ d.selected = d.opened
       \/ \E j \in DOMAIN e : e[j].then = "open"
       \/ q[k].then # "open" /\ (c.selected = d.selected \/ \E j \in DOMAIN q : q[j].then = "open")

\* It keeps to what it was, if it shows or asks for the right thread.
LEMMA SettledThread ==
  ASSUME NEW c, NEW q, NEW s, NEW k, NEW d, NEW e, Settles(c, q, s, k, d, e),
         NEW n, Follows(q, k, e, n),
         d.order => ThreadAsked(d, n),
         d.order /\ d.whole /\ d.selected # None => ThreadCurrent(d, n, s)
  PROVE  ThreadOK(d, n, s)
<1>1. /\ q \in Seq(ChatCall) /\ k \in DOMAIN q /\ e \in Seq(ChatCall)
      /\ s \in ServerState /\ ListOK(c, q, s) /\ LinkOpens(c, q)
  BY DEF Settles, ThreadOK, ListOK
<1>2. /\ n \in Seq(ChatCall)
      /\ \A i \in DOMAIN n : \/ \E j \in DOMAIN q \ {k} : n[i] = q[j]
                             \/ \E j \in DOMAIN e : n[i] = e[j]
      /\ \A j \in DOMAIN q \ {k} : \E i \in DOMAIN n : n[i] = q[j]
      /\ \A j \in DOMAIN e : \E i \in DOMAIN n : n[i] = e[j]
  BY DEF Follows
<1>3. ListOK(d, n, s)
  <2>1. \A i \in DOMAIN n : CallOK(n[i], s.threads)
    BY <1>1, <1>2 DEF Settles, ListOK
  <2> QED BY <1>1, <1>2, <2>1 DEF Settles, ListOK
<1>4. LinkOpens(d, n)
  <2> SUFFICES ASSUME d.opened # None
               PROVE  /\ \A i \in DOMAIN n : n[i].then = "open" \/ Promises(n[i]) => n[i].peer = d.opened
                      /\ d.selected = d.opened \/ \E i \in DOMAIN n : n[i].then = "open"
    BY DEF LinkOpens
  <2>1. /\ d.opened = c.opened
        /\ \A j \in DOMAIN q : q[j].then = "open" \/ Promises(q[j]) => q[j].peer = d.opened
        /\ c.selected = d.opened \/ \E j \in DOMAIN q : q[j].then = "open"
    BY <1>1 DEF Settles, LinkOpens
  <2>2. ASSUME NEW i \in DOMAIN n, n[i].then = "open" \/ Promises(n[i]) PROVE n[i].peer = d.opened
    <3>1. CASE \E j \in DOMAIN q \ {k} : n[i] = q[j]
      BY <2>1, <2>2, <3>1
    <3>2. CASE \E j \in DOMAIN e : n[i] = e[j]
      BY <1>1, <2>1, <2>2, <3>2 DEF Settles
    <3> QED BY <1>2, <3>1, <3>2
  <2>3. d.selected = d.opened \/ \E i \in DOMAIN n : n[i].then = "open"
    <3>1. CASE d.selected = d.opened
      BY <3>1
    <3>2. CASE \E j \in DOMAIN e : e[j].then = "open"
      <4>1. PICK j \in DOMAIN e : e[j].then = "open"
        BY <3>2
      <4>2. PICK i \in DOMAIN n : n[i] = e[j]
        BY <1>2
      <4> QED BY <4>1, <4>2
    <3>3. CASE /\ d.selected # d.opened /\ q[k].then # "open"
               /\ c.selected = d.selected \/ \E j \in DOMAIN q : q[j].then = "open"
      <4>1. PICK j \in DOMAIN q : q[j].then = "open"
        BY <2>1, <3>3
      <4>2. j \in DOMAIN q \ {k}
        BY <3>3, <4>1
      <4>3. PICK i \in DOMAIN n : n[i] = q[j]
        BY <1>2, <4>2
      <4> QED BY <4>1, <4>3
    <3> QED BY <3>1, <3>2, <3>3 DEF Settles
  <2> QED BY <2>2, <2>3
<1>5. d.order => FirstList(d, n)
  <2> SUFFICES ASSUME d.order, NEW i \in DOMAIN n, n[i].then = "mount" PROVE FALSE
    BY DEF FirstList
  <2>1. k = 1 /\ FirstList(c, q)
    BY DEF Settles, ThreadOK
  <2>2. \A j \in DOMAIN e : e[j].then # "mount"
    BY DEF Settles
  <2>3. PICK j \in DOMAIN q \ {k} : n[i] = q[j]
    <3>1. ASSUME NEW j \in DOMAIN e, n[i] = e[j] PROVE FALSE
      BY <2>2, <3>1
    <3> QED BY <1>2, <3>1
  <2> QED BY <2>1, <2>3 DEF FirstList
<1> QED BY <1>3, <1>4, <1>5 DEF ThreadOK

\* The page selects a thread, and shows none if there is none.
LEMMA SelectingFacts ==
  ASSUME NEW c \in ChatState, NEW p \in Peer \cup {None}
  PROVE  LET d == Selecting(c, p)
         IN  /\ d \in ChatState /\ d.selected = p /\ d.list = c.list /\ d.barred = c.barred
             /\ d.typed = c.typed /\ d.opened = c.opened /\ d.order = c.order /\ d.whole = c.whole
             /\ p = c.selected \/ p # None => d.messages = c.messages
<1>1. CASE p = c.selected
  BY <1>1 DEF Selecting, ChatState
<1>2. CASE p # c.selected
  <2> DEFINE m == IF p = None THEN None ELSE c.messages
             d == [c EXCEPT !.selected = p, !.messages = m]
  <2>1. m \in [of : Peer, count : Nat] \cup {None} /\ (p # None => m = c.messages)
    BY DEF ChatState
  <2> HIDE DEF m
  <2>2. /\ d \in ChatState /\ d.selected = p /\ d.list = c.list /\ d.barred = c.barred
        /\ d.typed = c.typed /\ d.opened = c.opened /\ d.order = c.order /\ d.whole = c.whole
        /\ d.messages = m
    BY <2>1 DEF ChatState
  <2> HIDE DEF d
  <2>3. Selecting(c, p) = d
    BY <1>2 DEF Selecting, d, m
  <2> QED BY <1>2, <2>1, <2>2, <2>3
<1> QED BY <1>1, <1>2

\* Nothing, or one.
AtMost(a, t) == a \in Seq(ChatCall) /\ Len(a) \in {0, 1} /\ \A j \in DOMAIN a : a[j] = t

\* At most one call and at most another one.
Both(a, t, b, f, e) ==
  /\ e \in Seq(ChatCall)
  /\ \A j \in DOMAIN e : (e[j] = t /\ Len(a) = 1) \/ (e[j] = f /\ Len(b) = 1)
  /\ Len(a) = 1 => Len(e) \in DOMAIN e
  /\ Len(b) = 1 => Len(e) \in DOMAIN e /\ e[Len(e)] = f

\* One after the other.
LEMMA TwoCalls ==
  ASSUME NEW a, NEW t, AtMost(a, t), NEW b, NEW f, AtMost(b, f), NEW e, e = a \o b
  PROVE  Both(a, t, b, f, e)
<1>1. /\ a \in Seq(ChatCall) /\ b \in Seq(ChatCall) /\ Len(a) \in {0, 1} /\ Len(b) \in {0, 1}
      /\ DOMAIN a = 1..Len(a) /\ DOMAIN b = 1..Len(b)
      /\ \A j \in 1..Len(a) : a[j] = t
      /\ \A j \in 1..Len(b) : b[j] = f
  BY DEF AtMost
<1>2. e \in Seq(ChatCall) /\ DOMAIN e = 1..Len(a) + Len(b) /\ Len(e) = Len(a) + Len(b)
  BY <1>1
<1>3. ASSUME NEW j \in DOMAIN e PROVE e[j] = IF j <= Len(a) THEN a[j] ELSE b[j - Len(a)]
  BY <1>1, <1>2, <1>3
<1>4. ASSUME NEW j \in DOMAIN e PROVE (e[j] = t /\ Len(a) = 1) \/ (e[j] = f /\ Len(b) = 1)
  <2>1. CASE j <= Len(a)
    <3>1. j \in 1..Len(a) /\ Len(a) = 1
      BY <1>1, <1>2, <1>4, <2>1
    <3> QED BY <1>1, <1>3, <2>1, <3>1
  <2>2. CASE ~(j <= Len(a))
    <3>1. j - Len(a) \in 1..Len(b) /\ Len(b) = 1
      BY <1>1, <1>2, <1>4, <2>2
    <3> QED BY <1>1, <1>3, <2>2, <3>1
  <2> QED BY <2>1, <2>2
<1>5. Len(a) = 1 => Len(e) \in DOMAIN e
  BY <1>1, <1>2
<1>6. ASSUME Len(b) = 1 PROVE Len(e) \in DOMAIN e /\ e[Len(e)] = f
  <2>1. Len(e) \in DOMAIN e /\ ~(Len(e) <= Len(a)) /\ Len(e) - Len(a) = 1 /\ 1 \in 1..Len(b)
    BY <1>1, <1>2, <1>6
  <2> QED BY <1>1, <1>3, <2>1
<1> QED BY <1>2, <1>4, <1>5, <1>6 DEF Both

\* What the page asks for when a list has arrived, the thread p being selected.
Requests(c, x, p) ==
  (IF x.then = "tail" THEN <<Request("messages", x.peer, "tail")>> ELSE <<>>) \o Effect(c, p)

\* It asks for the messages of that thread, if for any.
LEMMA ListAsks ==
  ASSUME NEW c, NEW x, NEW p \in Peer \cup {None}, x.then = "tail" => x.peer = p /\ p \in Peer,
         NEW e, e = Requests(c, x, p)
  PROVE  /\ e \in Seq(ChatCall)
         /\ \A j \in DOMAIN e : /\ e[j].kind = "messages" /\ e[j].at = "sent" /\ e[j].peer = p
                                /\ e[j].then \in {"tail", "effect"}
         /\ x.then = "tail" => Len(e) \in DOMAIN e
         /\ p # c.selected /\ p # None => Len(e) \in DOMAIN e /\ e[Len(e)] = MessagesOf(p)
<1> DEFINE t == Request("messages", x.peer, "tail")
           f == MessagesOf(p)
<1>1. x.then = "tail" => t \in ChatCall /\ t.kind = "messages" /\ t.at = "sent" /\ t.peer = p /\ t.then = "tail"
  BY DEF Request, ChatCall, Asking
<1>2. p # None => f \in ChatCall /\ f.kind = "messages" /\ f.at = "sent" /\ f.peer = p /\ f.then = "effect"
  BY DEF MessagesOf, Request, ChatCall, Asking
<1> DEFINE a == IF x.then = "tail" THEN <<t>> ELSE <<>>
           b == Effect(c, p)
<1>3. e = a \o b
  BY DEF Requests
<1>4. AtMost(a, t) /\ (Len(a) = 1) = (x.then = "tail")
  <2> HIDE DEF t
  <2> QED BY <1>1 DEF AtMost
<1>5. AtMost(b, f) /\ (Len(b) = 1) = (p # None /\ p # c.selected)
  <2>1. b = IF p = c.selected \/ p = None THEN <<>> ELSE <<f>>
    BY DEF Effect
  <2> HIDE DEF f, b
  <2> QED BY <1>2, <2>1 DEF AtMost
<1> HIDE DEF a, b, t, f
<1>6. /\ e \in Seq(ChatCall)
      /\ \A j \in DOMAIN e : (e[j] = t /\ Len(a) = 1) \/ (e[j] = f /\ Len(b) = 1)
      /\ Len(a) = 1 => Len(e) \in DOMAIN e
      /\ Len(b) = 1 => Len(e) \in DOMAIN e /\ e[Len(e)] = f
  <2>1. AtMost(a, t)
    BY <1>4
  <2>2. AtMost(b, f)
    BY <1>5
  <2>3. Both(a, t, b, f, e)
    BY <1>3, <2>1, <2>2, TwoCalls, Zenon
  <2> QED BY <2>3 DEF Both
<1> QED BY <1>1, <1>2, <1>4, <1>5, <1>6 DEF f

\* The list keeps the thread it was asked for, if it has that, and its first
\* one otherwise.
LEMMA NextFacts ==
  ASSUME NEW list, list \in Seq(Peer), NEW p
  PROVE  /\ NextSelected(list, p) \in Range(list) \cup {None}
         /\ NextSelected(list, p) \in Peer \cup {None}
         /\ NextSelected(list, p) = None => list = <<>>
         /\ p \in Range(list) => NextSelected(list, p) = p
<1>1. Range(list) \subseteq Peer /\ None \notin Peer
  BY WebAssumption DEF Range
<1>2. CASE p \in Range(list)
  BY <1>1, <1>2 DEF NextSelected
<1>3. CASE p \notin Range(list) /\ list = <<>>
  BY <1>3 DEF NextSelected
<1>4. CASE p \notin Range(list) /\ list # <<>>
  <2>1. 1 \in DOMAIN list /\ Head(list) = list[1]
    BY <1>4
  <2>2. Head(list) \in Range(list)
    BY <2>1 DEF Range
  <2> QED BY <1>1, <1>4, <2>2 DEF NextSelected
<1> QED BY <1>2, <1>3, <1>4

\* The page d with the list of x, and the calls e it makes then.
Lists(c, x, o, d, e) ==
  /\ d \in ChatState /\ d.list = x.list
  /\ d.opened \in {c.opened, None} /\ d.order = (c.order /\ o) /\ d.whole = c.whole
  /\ d.selected = None \/ d.selected \in Range(x.list)
  /\ x.then # "mount" => d.selected = x.peer /\ d.selected # None
  /\ d.selected = c.selected \/ d.selected # None => d.messages = c.messages
  /\ e \in Seq(ChatCall)
  /\ \A j \in DOMAIN e : /\ e[j].kind = "messages" /\ e[j].at = "sent" /\ e[j].peer = d.selected
                         /\ e[j].then \in {"tail", "effect"}
  /\ x.then = "tail" => Len(e) \in DOMAIN e
  /\ d.selected # c.selected /\ d.selected # None =>
       Len(e) \in DOMAIN e /\ e[Len(e)] = MessagesOf(d.selected)

\* Which of its threads is selected, and what is asked for.
LEMMA ListPage ==
  ASSUME NEW c \in ChatState, NEW x \in Listed, x.then # "mount" => x.peer \in Range(x.list),
         NEW o \in BOOLEAN
  PROVE  Lists(c, x, o, [ListArrives(c, x).page EXCEPT !.order = @ /\ o], ListArrives(c, x).calls)
<1> DEFINE p == NextSelected(x.list, x.peer)
           b == Selecting(c, p)
           f == [b EXCEPT !.list = x.list, !.barred = x.barred]
           y == c.order /\ o
           d == [f EXCEPT !.order = y]
           e == ListArrives(c, x).calls
<1>1. x.list \in Seq(Peer) /\ x.barred \in SUBSET Peer /\ Range(x.list) \subseteq Peer
  <2>1. x.list \in Seq(Peer) /\ x.barred \in SUBSET Peer
    BY DEF Listed
  <2> QED BY <2>1 DEF Range
<1>2. /\ p \in Range(x.list) \cup {None} /\ p \in Peer \cup {None}
      /\ x.then # "mount" => p = x.peer /\ p # None /\ p \in Peer
  BY <1>1, NextFacts, WebAssumption
<1>3. e = Requests(c, x, p)
  BY DEF ListArrives, Requests
<1>4. ListArrives(c, x).page = f
  BY DEF ListArrives
<1> HIDE DEF p, e
<1>5. /\ e \in Seq(ChatCall)
      /\ \A j \in DOMAIN e : /\ e[j].kind = "messages" /\ e[j].at = "sent" /\ e[j].peer = p
                             /\ e[j].then \in {"tail", "effect"}
      /\ x.then = "tail" => Len(e) \in DOMAIN e
      /\ p # c.selected /\ p # None => Len(e) \in DOMAIN e /\ e[Len(e)] = MessagesOf(p)
  <2>1. x.then = "tail" => x.peer = p /\ p \in Peer
    BY <1>2
  <2> QED BY <1>2, <1>3, <2>1, ListAsks
<1>6. /\ b \in ChatState /\ b.selected = p /\ b.opened = c.opened /\ b.order = c.order
      /\ b.whole = c.whole /\ (p = c.selected \/ p # None => b.messages = c.messages)
  BY <1>2, SelectingFacts
<1> HIDE DEF b
<1>7. /\ f \in ChatState /\ f.selected = p /\ f.opened = c.opened /\ f.order = c.order
      /\ f.list = x.list /\ f.whole = c.whole /\ f.messages = b.messages
  BY <1>1, <1>6 DEF ChatState
<1> HIDE DEF f
<1>8. y \in BOOLEAN
  OBVIOUS
<1>9. [ListArrives(c, x).page EXCEPT !.order = @ /\ o] = d
  BY <1>4, <1>7
<1> HIDE DEF y
<1>10. /\ d \in ChatState /\ d.selected = p /\ d.opened = c.opened /\ d.order = y
       /\ d.list = x.list /\ d.whole = c.whole /\ d.messages = b.messages
  BY <1>7, <1>8 DEF ChatState
<1> HIDE DEF d
<1>11. Lists(c, x, o, d, e)
  BY <1>2, <1>5, <1>6, <1>10 DEF Lists, y
<1> QED BY <1>9, <1>11 DEF e

\* A link that was overtaken has no say.
LEMMA ListOvertaken ==
  ASSUME NEW c, NEW x, NEW o, NEW d, NEW e, Lists(c, x, o, d, e), NEW b \in BOOLEAN
  PROVE  LET f == [d EXCEPT !.opened = IF b THEN None ELSE @]
         IN  Lists(c, x, o, f, e) /\ (b => f.opened = None) /\ (~b => f = d)
<1> DEFINE p == IF b THEN None ELSE d.opened
           f == [d EXCEPT !.opened = p]
<1>1. d \in ChatState /\ p \in {d.opened, None} /\ p \in Peer \cup {None}
  BY DEF Lists, ChatState
<1>2. [d EXCEPT !.opened = IF b THEN None ELSE @] = f
  OBVIOUS
<1>3. (b => p = None) /\ (~b => p = d.opened)
  OBVIOUS
<1> HIDE DEF p
<1>4. /\ f \in ChatState /\ f.list = d.list /\ f.opened = p /\ f.order = d.order
      /\ f.whole = d.whole /\ f.selected = d.selected /\ f.messages = d.messages
  BY <1>1 DEF ChatState
<1>5. ~b => f = d
  BY <1>1, <1>3 DEF ChatState
<1> HIDE DEF f
<1>6. Lists(c, x, o, f, e)
  BY <1>1, <1>4 DEF Lists
<1> QED BY <1>2, <1>3, <1>4, <1>5, <1>6

\* The last call is the last one made.
LEMMA LastCall ==
  ASSUME NEW q, NEW e, NEW n, Shifts(q, e, n), Len(e) \in DOMAIN e
  PROVE  n \in Seq(ChatCall) /\ n # <<>> /\ n[Len(n)] = e[Len(e)]
<1>1. /\ Len(q) - 1 + Len(e) \in DOMAIN n /\ n[Len(q) - 1 + Len(e)] = e[Len(e)]
      /\ n \in Seq(ChatCall) /\ DOMAIN n = 1..Len(q) - 1 + Len(e) /\ Len(q) \in Nat /\ Len(e) \in Nat
  BY DEF Shifts
<1>2. Len(n) = Len(q) - 1 + Len(e)
  BY <1>1
<1> QED BY <1>1, <1>2

\* A list arrives.
LEMMA ListArrived ==
  ASSUME NEW c, NEW q, NEW s, ThreadOK(c, q, s), NEW k \in DOMAIN q,
         q[k].kind = "list", q[k].at = "served",
         NEW d, NEW e, NEW n, Lists(c, q[k], k = 1, d, e), Follows(q, k, e, n),
         k = 1 => Shifts(q, e, n),
         d.opened # None /\ q[k].then = "mount" => \E j \in DOMAIN q : q[j].then = "open"
  PROVE  ThreadOK(d, n, s)
<1> DEFINE x == q[k]
           p == d.selected
<1>1. /\ c \in ChatState /\ q \in Seq(ChatCall) /\ ListOK(c, q, s) /\ CallOK(x, s.threads)
      /\ LinkOpens(c, q) /\ x.kind = "list" /\ x.at = "served"
  BY DEF ThreadOK, ListOK
<1>2. x \in Listed
  BY <1>1 DEF CallOK, ChatCall, Asking, Writing, Listed, Told
<1>3. /\ x.then \in {"mount", "open", "tail"} /\ Range(x.list) \subseteq Range(s.threads)
  BY <1>1, <1>2 DEF CallOK, Listed
<1>4. /\ d \in ChatState /\ d.list = x.list /\ (p = None \/ p \in Range(x.list))
      /\ d.opened \in {c.opened, None} /\ d.order = (c.order /\ k = 1) /\ d.whole = c.whole
      /\ p = c.selected \/ p # None => d.messages = c.messages
      /\ x.then # "mount" => p = x.peer /\ p # None
  BY DEF Lists
<1>5. /\ e \in Seq(ChatCall)
      /\ \A j \in DOMAIN e : /\ e[j].kind = "messages" /\ e[j].at = "sent" /\ e[j].peer = p
                             /\ e[j].then \in {"tail", "effect"}
      /\ x.then = "tail" => Len(e) \in DOMAIN e
      /\ p # c.selected /\ p # None => Len(e) \in DOMAIN e /\ e[Len(e)] = MessagesOf(p)
  BY DEF Lists
<1>6. k = 1 /\ c.order /\ x.then = "mount" => c.selected = None
  BY DEF ThreadOK, FirstList
<1>7. Settles(c, q, s, k, d, e)
  <2>1. \A j \in DOMAIN e : /\ CallOK(e[j], s.threads) /\ e[j].then \notin {"mount", "open"}
                            /\ ~Promises(e[j])
    BY <1>5 DEF CallOK, Promises
  <2>2. ASSUME d.opened # None
        PROVE  d.selected = d.opened \/ (x.then # "open" /\ \E j \in DOMAIN q : q[j].then = "open")
    <3>1. x.then = "open" \/ x.then = "tail" => x.peer = c.opened
      BY <1>1, <1>4, <2>2 DEF LinkOpens, Promises
    <3> QED BY <1>3, <1>4, <2>2, <3>1
  <2> QED BY <1>1, <1>3, <1>4, <1>5, <2>1, <2>2 DEF Settles
<1>8. ASSUME d.order, p # c.selected PROVE p # None
  BY <1>4, <1>6, <1>8
<1>9. ASSUME k = 1, p # c.selected, p # None PROVE ThreadAsked(d, n) /\ ThreadCurrent(d, n, s)
  <2>1. n \in Seq(ChatCall) /\ n # <<>> /\ n[Len(n)] = MessagesOf(d.selected)
    <3>1. Shifts(q, e, n) /\ Len(e) \in DOMAIN e /\ e[Len(e)] = MessagesOf(p)
      BY <1>5, <1>9
    <3> QED BY <3>1, LastCall
  <2> QED BY <2>1, LastAsked
<1>10. ASSUME d.order PROVE ThreadAsked(d, n)
  <2>1. CASE p = c.selected
    <3>1. /\ Shifts(q, e, n) /\ ThreadAsked(c, q) /\ d.selected = c.selected
          /\ q[1].then # "effect" /\ d.messages = c.messages
      BY <1>3, <1>4, <1>10, <2>1 DEF ThreadOK
    <3>2. \A j \in DOMAIN e : Own(d, e[j])
      BY <1>5 DEF Own
    <3> QED BY <3>1, <3>2, AskedAfter
  <2>2. CASE p # c.selected
    BY <1>4, <1>8, <1>9, <1>10, <2>2
  <2> QED BY <2>1, <2>2
<1>11. ASSUME d.order, d.whole, d.selected # None PROVE ThreadCurrent(d, n, s)
  <2>1. CASE p = c.selected
    <3>1. /\ Shifts(q, e, n) /\ ThreadCurrent(c, q, s) /\ d.selected = c.selected
          /\ q[1].kind = "list" /\ d.messages = c.messages
      BY <1>1, <1>4, <1>11, <2>1 DEF ThreadOK
    <3>2. \A j \in DOMAIN e : Fresh(d, e[j], s)
      BY <1>5 DEF Fresh
    <3>3. Promises(q[1]) => \E j \in DOMAIN e : Promises(e[j]) \/ (j = Len(e) /\ e[j].kind = "messages")
      BY <1>4, <1>5, <1>11, <3>1 DEF Promises
    <3>4. q[1].kind # "messages" => d.messages = c.messages
      BY <3>1
    <3>5. q[1].kind = "messages" =>
            q[1].at = "served" /\ d.messages = [of |-> q[1].peer, count |-> q[1].count]
      BY <3>1
    <3> QED BY <3>1, <3>2, <3>3, <3>4, <3>5, CurrentAfter
  <2>2. CASE p # c.selected
    BY <1>4, <1>8, <1>9, <1>11, <2>2
  <2> QED BY <2>1, <2>2
<1> QED BY <1>7, <1>10, <1>11, SettledThread

\* The page d after the answer to x, with the thread it had selected, and the
\* calls e it makes then.
Replies(c, x, o, d, e, threads) ==
  /\ d \in ChatState /\ d.list = c.list /\ d.selected = c.selected /\ d.order = (c.order /\ o)
  /\ d.opened \in {c.opened, None}
  /\ e \in Seq(ChatCall)
  /\ \A j \in DOMAIN e : /\ CallOK(e[j], threads) /\ e[j].kind = "list" /\ e[j].then # "mount"
                         /\ e[j].peer = x.peer /\ (x.then = "open" \/ Promises(x))
  /\ d.opened # None /\ x.then = "open" => \E j \in DOMAIN e : e[j].then = "open"
  /\ \/ x.then # "effect" /\ d.messages = c.messages
     \/ x.kind = "messages" /\ (d.messages # None => d.messages.of = x.peer)
  /\ d.whole =>
       /\ c.whole
       /\ x.kind # "messages" => d.messages = c.messages
       /\ x.kind = "messages" =>
            x.at = "served" /\ d.messages = [of |-> x.peer, count |-> x.count]
       /\ Promises(x) => \E j \in DOMAIN e : Promises(e[j])

\* Such an answer leaves the page in order.
LEMMA RepliedThread ==
  ASSUME NEW c, NEW q, NEW s, ThreadOK(c, q, s), NEW k \in DOMAIN q,
         NEW d, NEW e, NEW n, Replies(c, q[k], k = 1, d, e, s.threads), Follows(q, k, e, n),
         k = 1 => Shifts(q, e, n)
  PROVE  ThreadOK(d, n, s)
<1>1. /\ c \in ChatState /\ q \in Seq(ChatCall) /\ ListOK(c, q, s) /\ d \in ChatState
      /\ d.list = c.list /\ d.selected = c.selected /\ d.order = (c.order /\ k = 1)
      /\ \A j \in DOMAIN e : e[j].kind = "list"
  BY DEF ThreadOK, ListOK, Replies
<1>2. Settles(c, q, s, k, d, e)
  BY <1>1 DEF Settles, Replies, ListOK
<1>3. ASSUME d.order PROVE ThreadAsked(d, n)
  <2>1. /\ Shifts(q, e, n) /\ ThreadAsked(c, q) /\ k = 1
    BY <1>1, <1>3 DEF ThreadOK
  <2>2. \/ q[1].then # "effect" /\ d.messages = c.messages
        \/ q[1].kind = "messages" /\ (d.messages # None => d.messages.of = q[1].peer)
    BY <2>1 DEF Replies
  <2>3. \A j \in DOMAIN e : Own(d, e[j])
    BY <1>1 DEF Own
  <2> QED BY <1>1, <2>1, <2>2, <2>3, AskedAfter
<1>4. ASSUME d.order, d.whole, d.selected # None PROVE ThreadCurrent(d, n, s)
  <2>1. /\ Shifts(q, e, n) /\ ThreadCurrent(c, q, s) /\ k = 1
    BY <1>1, <1>4 DEF ThreadOK, Replies
  <2>2. /\ q[1].kind # "messages" => d.messages = c.messages
        /\ q[1].kind = "messages" =>
             q[1].at = "served" /\ d.messages = [of |-> q[1].peer, count |-> q[1].count]
        /\ Promises(q[1]) => \E j \in DOMAIN e : Promises(e[j]) \/ (j = Len(e) /\ e[j].kind = "messages")
    BY <1>4, <2>1 DEF Replies
  <2>3. \A j \in DOMAIN e : Fresh(d, e[j], s)
    BY <1>1 DEF Fresh
  <2> QED BY <1>1, <2>1, <2>2, <2>3, CurrentAfter
<1> QED BY <1>2, <1>3, <1>4, SettledThread

\* A sequence of one call.
LEMMA OneCall ==
  ASSUME NEW y, y \in ChatCall, NEW e, e = <<y>>
  PROVE  e \in Seq(ChatCall) /\ 1 \in DOMAIN e /\ e[1] = y /\ \A j \in DOMAIN e : e[j] = y
OBVIOUS

\* A conversation was opened: its list is asked for.
LEMMA CreateReplies ==
  ASSUME NEW c \in ChatState, NEW s, NEW x, CallOK(x, s.threads), x.kind = "create", x.at = "served",
         NEW o \in BOOLEAN
  PROVE  Replies(c, x, o, [Arrives(c, x).page EXCEPT !.order = @ /\ o], Arrives(c, x).calls, s.threads)
<1> DEFINE y == Request("list", x.peer, "open")
           e == Arrives(c, x).calls
           b == c.order /\ o
           d == [c EXCEPT !.order = b]
<1>1. x.peer \in Peer /\ x.then = "open" /\ x.peer \in Range(s.threads)
  BY DEF CallOK, ChatCall, Asking, Writing, Listed, Told
<1>2. /\ y \in ChatCall /\ y.kind = "list" /\ y.then = "open" /\ y.peer = x.peer /\ y.at = "sent"
  BY <1>1 DEF Request, ChatCall, Asking
<1> HIDE DEF y
<1>3. CallOK(y, s.threads)
  BY <1>1, <1>2, WebAssumption DEF CallOK
<1>4. e = <<y>>
  BY DEF Arrives, y
<1>5. [Arrives(c, x).page EXCEPT !.order = @ /\ o] = d
  BY DEF Arrives
<1> HIDE DEF e
<1>6. e \in Seq(ChatCall) /\ 1 \in DOMAIN e /\ e[1] = y /\ \A j \in DOMAIN e : e[j] = y
  BY <1>2, <1>4, OneCall
<1>7. b \in BOOLEAN
  OBVIOUS
<1> HIDE DEF b
<1>8. /\ d \in ChatState /\ d.list = c.list /\ d.selected = c.selected /\ d.order = b
      /\ d.opened = c.opened /\ d.messages = c.messages /\ d.whole = c.whole
  BY <1>7 DEF ChatState
<1> HIDE DEF d
<1>9. Replies(c, x, o, d, e, s.threads)
  BY <1>1, <1>2, <1>3, <1>6, <1>8 DEF Replies, Promises, b
<1> QED BY <1>5, <1>9 DEF e

\* A message was sent: the list, with its thread at the front, is asked for.
LEMMA SendReplies ==
  ASSUME NEW c \in ChatState, NEW s, NEW x, CallOK(x, s.threads), x.kind = "send", NEW o \in BOOLEAN
  PROVE  Replies(c, x, o, [Arrives(c, x).page EXCEPT !.order = @ /\ o], Arrives(c, x).calls, s.threads)
<1> DEFINE y == Request("list", x.peer, "tail")
           e == Arrives(c, x).calls
           b == c.order /\ o
           d == [c EXCEPT !.typed = FALSE, !.order = b]
<1>1. x.peer \in Peer /\ x.then = "tail" /\ x.peer \in Range(s.threads)
  BY DEF CallOK, ChatCall, Asking, Writing, Listed, Told
<1>2. /\ y \in ChatCall /\ y.kind = "list" /\ y.then = "tail" /\ y.peer = x.peer /\ y.at = "sent"
  BY <1>1 DEF Request, ChatCall, Asking
<1> HIDE DEF y
<1>3. CallOK(y, s.threads)
  BY <1>1, <1>2, WebAssumption DEF CallOK
<1>4. e = <<y>>
  BY DEF Arrives, y
<1>5. [Arrives(c, x).page EXCEPT !.order = @ /\ o] = d
  BY DEF Arrives, ChatState
<1> HIDE DEF e
<1>6. e \in Seq(ChatCall) /\ 1 \in DOMAIN e /\ e[1] = y /\ \A j \in DOMAIN e : e[j] = y
  BY <1>2, <1>4, OneCall
<1>7. b \in BOOLEAN
  OBVIOUS
<1> HIDE DEF b
<1>8. /\ d \in ChatState /\ d.list = c.list /\ d.selected = c.selected /\ d.order = b
      /\ d.opened = c.opened /\ d.messages = c.messages /\ d.whole = c.whole
  BY <1>7 DEF ChatState
<1> HIDE DEF d
<1>9. Replies(c, x, o, d, e, s.threads)
  BY <1>1, <1>2, <1>3, <1>6, <1>8 DEF Replies, Promises, b
<1> QED BY <1>5, <1>9 DEF e

\* The messages of a thread arrive.
LEMMA MessagesReply ==
  ASSUME NEW c \in ChatState, NEW s, NEW x, CallOK(x, s.threads), x.kind = "messages", x.at = "served",
         NEW o \in BOOLEAN
  PROVE  Replies(c, x, o, [Arrives(c, x).page EXCEPT !.order = @ /\ o], Arrives(c, x).calls, s.threads)
<1> DEFINE e == Arrives(c, x).calls
           b == c.order /\ o
           m == [of |-> x.peer, count |-> x.count]
           d == [c EXCEPT !.messages = m, !.order = b]
<1>1. x.peer \in Peer /\ x.count \in Nat /\ x.then \in {"tail", "effect"}
  BY DEF CallOK, ChatCall, Asking, Writing, Listed, Told
<1>2. m \in [of : Peer, count : Nat] /\ m.of = x.peer
  BY <1>1
<1>3. e = <<>>
  BY DEF Arrives
<1>4. [Arrives(c, x).page EXCEPT !.order = @ /\ o] = d
  BY DEF Arrives, ChatState
<1>5. e \in Seq(ChatCall) /\ DOMAIN e = {}
  BY <1>3
<1> HIDE DEF e
<1>6. b \in BOOLEAN
  OBVIOUS
<1> HIDE DEF b
<1>7. /\ d \in ChatState /\ d.list = c.list /\ d.selected = c.selected /\ d.order = b
      /\ d.opened = c.opened /\ d.messages = m /\ d.whole = c.whole
  <2> HIDE DEF m
  <2> QED BY <1>2, <1>6 DEF ChatState
<1> HIDE DEF d
<1>8. ~Promises(x)
  BY DEF Promises
<1>9. Replies(c, x, o, d, e, s.threads)
  BY <1>1, <1>2, <1>5, <1>7, <1>8 DEF Replies, b
<1> QED BY <1>4, <1>9 DEF e

\* A call fails: only the effect's own request empties the thread shown.
LEMMA FailureReplies ==
  ASSUME NEW c \in ChatState, NEW s, NEW x, CallOK(x, s.threads), NEW o \in BOOLEAN
  PROVE  Replies(c, x, o, [Fails(c, x) EXCEPT !.order = @ /\ o], <<>>, s.threads)
<1> DEFINE b == c.order /\ o
           m == IF x.then = "effect" THEN None ELSE c.messages
           p == IF x.then = "open" THEN None ELSE c.opened
           d == [c EXCEPT !.whole = FALSE, !.messages = m, !.opened = p, !.order = b]
<1>1. x.then = "effect" => x.kind = "messages"
  BY DEF CallOK, ChatCall, Asking, Writing, Listed, Told
<1>2. m \in [of : Peer, count : Nat] \cup {None} /\ p \in Peer \cup {None}
  BY DEF ChatState
<1>3. [Fails(c, x) EXCEPT !.order = @ /\ o] = d
  BY DEF Fails, ChatState
<1>4. b \in BOOLEAN
  OBVIOUS
<1> HIDE DEF b, m, p
<1>5. /\ d \in ChatState /\ d.list = c.list /\ d.selected = c.selected /\ d.order = b
      /\ d.opened = p /\ d.messages = m /\ ~d.whole
  BY <1>2, <1>4 DEF ChatState
<1> HIDE DEF d
<1>6. <<>> \in Seq(ChatCall) /\ DOMAIN <<>> = {}
  OBVIOUS
<1> DEFINE e == <<>>
<1>7. e \in Seq(ChatCall) /\ DOMAIN e = {}
  BY <1>6
<1> HIDE DEF e
<1>8. Replies(c, x, o, d, e, s.threads)
  BY <1>1, <1>5, <1>7 DEF Replies, b, m, p
<1> QED BY <1>3, <1>8 DEF e

\* An answer, or a failure, in whatever order.
LEMMA ChatSettled ==
  ASSUME ThreadOK(chat, calls, server), ChatSettles
  PROVE  ThreadOK(chat', calls', server)
<1> DEFINE late(c, k) == [c EXCEPT !.order = @ /\ k = 1]
           rest(k) == RemoveAt(calls, k)
           overtaken(k) == calls[k].then = "mount" /\ ~\E j \in DOMAIN rest(k) : rest(k)[j].then = "open"
<1>1. PICK k \in DOMAIN calls :
        \/ /\ calls[k].at = "served"
           /\ chat' = [late(Arrives(chat, calls[k]).page, k) EXCEPT !.opened = IF overtaken(k) THEN None ELSE @]
           /\ calls' = RemoveAt(calls, k) \o Arrives(chat, calls[k]).calls
        \/ /\ chat' = late(Fails(chat, calls[k]), k)
           /\ calls' = RemoveAt(calls, k)
  BY DEF ChatSettles
<1> DEFINE x == calls[k]
           e == Arrives(chat, x).calls
           o == k = 1
           f == late(Arrives(chat, x).page, k)
           b == overtaken(k)
<1>2. /\ chat \in ChatState /\ calls \in Seq(ChatCall) /\ CallOK(x, server.threads) /\ o \in BOOLEAN
  BY DEF ThreadOK, ListOK
<1>3. ASSUME NEW a, a \in Seq(ChatCall), NEW n, n = RemoveAt(calls, k) \o a
      PROVE  Follows(calls, k, a, n) /\ (k = 1 => Shifts(calls, a, n))
  <2>1. Follows(calls, k, a, n)
    BY <1>2, <1>3, QueueAfter
  <2>2. k = 1 => Shifts(calls, a, n)
    BY <1>2, <1>3, FirstSettles
  <2> QED BY <2>1, <2>2
<1>4. CASE /\ x.at = "served" /\ chat' = [f EXCEPT !.opened = IF b THEN None ELSE @]
           /\ calls' = RemoveAt(calls, k) \o e
  <2>1. x.kind \in {"list", "create", "send", "messages"}
    BY <1>2 DEF CallOK, ChatCall, Asking, Writing, Listed, Told
  <2>2. CASE x.kind = "list"
    <3>1. Arrives(chat, x) = ListArrives(chat, x)
      BY <2>2 DEF Arrives
    <3>2. x \in Listed /\ (x.then # "mount" => x.peer \in Range(x.list))
      BY <1>2, <1>4, <2>2 DEF CallOK, ChatCall, Asking, Writing, Listed, Told
    <3>3. Lists(chat, x, o, chat', e) /\ (b => chat'.opened = None)
      <4>1. Lists(chat, x, o, f, e)
        BY <1>2, <3>1, <3>2, ListPage
      <4>2. b \in BOOLEAN
        OBVIOUS
      <4> HIDE DEF b, f, e
      <4> QED BY <1>4, <4>1, <4>2, ListOvertaken
    <3>5. chat'.opened # None /\ x.then = "mount" => \E j \in DOMAIN calls : calls[j].then = "open"
      <4> SUFFICES ASSUME ~b, x.then = "mount" PROVE \E j \in DOMAIN calls : calls[j].then = "open"
        BY <3>3
      <4>1. PICK i \in DOMAIN rest(k) : rest(k)[i].then = "open"
        OBVIOUS
      <4>2. <<>> \in Seq(ChatCall) /\ rest(k) = rest(k) \o <<>>
        BY <1>2, RemoveAtFacts
      <4>3. Follows(calls, k, <<>>, rest(k))
        BY <1>3, <4>2
      <4>4. PICK j \in DOMAIN calls : rest(k)[i] = calls[j]
        BY <4>3 DEF Follows
      <4> QED BY <4>1, <4>4
    <3>4. Follows(calls, k, e, calls') /\ (k = 1 => Shifts(calls, e, calls'))
      <4>1. e \in Seq(ChatCall)
        BY <3>3 DEF Lists
      <4> QED BY <1>3, <1>4, <4>1
    <3>6. /\ calls[k].kind = "list" /\ calls[k].at = "served"
          /\ Lists(chat, calls[k], k = 1, chat', e)
          /\ chat'.opened # None /\ calls[k].then = "mount" =>
               \E j \in DOMAIN calls : calls[j].then = "open"
      BY <1>4, <2>2, <3>3, <3>5
    <3>7. ThreadOK(chat, calls, server) /\ k \in DOMAIN calls
      OBVIOUS
    <3> HIDE DEF e, f, b, o, x, late, rest, overtaken
    <3> QED BY ONLY <3>4, <3>6, <3>7, ListArrived
  <2>3. CASE x.kind # "list"
    <3>1. Replies(chat, x, o, chat', e, server.threads)
      <4>1. ASSUME x.kind = "create" PROVE Replies(chat, x, o, f, e, server.threads)
        BY <1>2, <1>4, <4>1, CreateReplies
      <4>2. ASSUME x.kind = "send" PROVE Replies(chat, x, o, f, e, server.threads)
        BY <1>2, <4>2, SendReplies
      <4>3. ASSUME x.kind = "messages" PROVE Replies(chat, x, o, f, e, server.threads)
        BY <1>2, <1>4, <4>3, MessagesReply
      <4>4. Replies(chat, x, o, f, e, server.threads)
        BY <2>1, <2>3, <4>1, <4>2, <4>3
      <4>5. ~b /\ f \in ChatState
        BY <1>2, <2>3, <4>4 DEF Replies, CallOK, ChatCall, Asking, Writing, Listed, Told
      <4>6. chat' = f
        <5> HIDE DEF f, b
        <5> QED BY <1>4, <4>5 DEF ChatState
      <4> QED BY <4>4, <4>6
    <3>2. Follows(calls, k, e, calls') /\ (k = 1 => Shifts(calls, e, calls'))
      <4>1. e \in Seq(ChatCall)
        BY <3>1 DEF Replies
      <4> QED BY <1>3, <1>4, <4>1
    <3> HIDE DEF e
    <3> QED BY <3>1, <3>2, RepliedThread
  <2> QED BY <2>2, <2>3
<1>5. CASE chat' = late(Fails(chat, x), k) /\ calls' = RemoveAt(calls, k)
  <2> DEFINE a == <<>>
  <2>1. Replies(chat, x, o, chat', a, server.threads)
    BY <1>2, <1>5, FailureReplies
  <2>2. RemoveAt(calls, k) \in Seq(ChatCall)
    BY <1>2, RemoveAtFacts
  <2>3. a \in Seq(ChatCall) /\ calls' = RemoveAt(calls, k) \o a
    BY <1>5, <2>2
  <2> HIDE DEF a
  <2>4. Follows(calls, k, a, calls') /\ (k = 1 => Shifts(calls, a, calls'))
    BY <1>3, <2>3
  <2> QED BY <2>1, <2>4, RepliedThread
<1> QED BY <1>1, <1>4, <1>5

\* What only the form, or the link the user followed, is about.
LEMMA SameThread ==
  ASSUME NEW c, NEW q, NEW s, ThreadOK(c, q, s), NEW d \in ChatState,
         d.list = c.list, d.selected = c.selected, d.messages = c.messages,
         d.order = c.order, d.whole = c.whole, d.opened \in {c.opened, None}
  PROVE  ThreadOK(d, q, s)
<1>1. ListOK(d, q, s) /\ LinkOpens(d, q)
  BY DEF ThreadOK, ListOK, LinkOpens
<1>2. d.order => FirstList(d, q) /\ ThreadAsked(d, q)
  BY DEF ThreadOK, FirstList, ThreadAsked, Own
<1>3. d.order /\ d.whole /\ d.selected # None => ThreadCurrent(d, q, s)
  BY DEF ThreadOK, ThreadCurrent, Fresh
<1> QED BY <1>1, <1>2, <1>3 DEF ThreadOK

\* q with one call more, y, is n.
Grows(q, y, n) ==
  /\ n \in Seq(ChatCall) /\ n # <<>> /\ n[Len(n)] = y
  /\ DOMAIN n \subseteq Int
  /\ \A i \in DOMAIN n : (i \in DOMAIN q /\ n[i] = q[i]) \/ (i = Len(n) /\ i \notin DOMAIN q)
  /\ \A j \in DOMAIN q : j \in DOMAIN n /\ n[j] = q[j]
  /\ Len(n) \in DOMAIN n /\ Len(n) \notin DOMAIN q

\* The page makes a call.
LEMMA CallMade ==
  ASSUME NEW q \in Seq(ChatCall), NEW y \in ChatCall
  PROVE  Grows(q, y, q \o <<y>>) /\ Grows(q, y, Append(q, y)) /\ q \o <<>> = q
<1>1. Grows(q, y, Append(q, y))
  BY DEF Grows
<1>2. q \o <<y>> = Append(q, y) /\ q \o <<>> = q
  OBVIOUS
<1> QED BY <1>1, <1>2

\* The user chooses a thread.
LEMMA ThreadSelected ==
  ASSUME ThreadOK(chat, calls, server), route = "chat", SelectThread
  PROVE  ThreadOK(chat', calls', server')
<1>1. PICK p \in Range(chat.list) : /\ chat' = [Selecting(chat, p) EXCEPT !.opened = None]
                                    /\ calls' = calls \o Effect(chat, p)
  BY DEF SelectThread
<1>2. /\ chat \in ChatState /\ server \in ServerState /\ calls \in Seq(ChatCall)
      /\ ListOK(chat, calls, server) /\ server' = server
  BY DEF ThreadOK, ListOK, SelectThread
<1>3. p \in Peer /\ p # None /\ chat.list # <<>>
  BY <1>2, WebAssumption DEF ChatState, Range
<1> DEFINE b == Selecting(chat, p)
<1>4. /\ b \in ChatState /\ b.selected = p /\ b.list = chat.list /\ b.order = chat.order
      /\ b.whole = chat.whole /\ b.messages = chat.messages
  BY <1>2, <1>3, SelectingFacts
<1>5. chat' = [b EXCEPT !.opened = None]
  BY <1>1
<1> HIDE DEF b
<1>6. /\ chat' \in ChatState /\ chat'.selected = p /\ chat'.list = chat.list /\ chat'.opened = None
      /\ chat'.order = chat.order /\ chat'.whole = chat.whole /\ chat'.messages = chat.messages
  BY <1>4, <1>5 DEF ChatState
<1>7. CASE p = chat.selected
  <2>1. calls' = calls \o <<>>
    BY <1>1, <1>7 DEF Effect
  <2>2. calls' = calls
    BY <1>2, <2>1
  <2> QED BY <1>2, <1>6, <1>7, <2>2, SameThread
<1>8. CASE p # chat.selected
  <2> DEFINE y == MessagesOf(p)
  <2>1. calls' = calls \o <<y>>
    BY <1>1, <1>3, <1>8 DEF Effect
  <2>2. y \in ChatCall /\ y.kind = "messages" /\ y.then = "effect"
    BY <1>3 DEF MessagesOf, Request, ChatCall, Asking
  <2> HIDE DEF y
  <2>3. Grows(calls, y, calls')
    BY <1>2, <2>1, <2>2, CallMade
  <2>4. ListOK(chat', calls', server')
    BY <1>2, <1>6, <2>2, <2>3 DEF ListOK, Grows, CallOK
  <2>5. chat'.order => FirstList(chat', calls')
    <3> SUFFICES ASSUME chat.order, NEW i \in DOMAIN calls', calls'[i].then = "mount" PROVE FALSE
      BY <1>6 DEF FirstList
    <3>1. i \in DOMAIN calls /\ calls[i].then = "mount"
      BY <2>2, <2>3 DEF Grows
    <3> QED BY <1>3, <3>1 DEF ThreadOK, FirstList
  <2>6. ThreadAsked(chat', calls') /\ ThreadCurrent(chat', calls', server')
    BY <1>6, <2>3, LastAsked DEF Grows, y
  <2>7. LinkOpens(chat', calls')
    BY <1>6 DEF LinkOpens
  <2> QED BY <2>4, <2>5, <2>6, <2>7 DEF ThreadOK
<1> QED BY <1>7, <1>8

\* The user types a message.
LEMMA MessageTyped ==
  ASSUME ThreadOK(chat, calls, server), TypeMessage
  PROVE  ThreadOK(chat', calls', server')
<1>1. chat \in ChatState /\ chat' = [chat EXCEPT !.typed = TRUE] /\ calls' = calls /\ server' = server
  BY DEF ThreadOK, ListOK, TypeMessage
<1>2. /\ chat' \in ChatState /\ chat'.list = chat.list /\ chat'.selected = chat.selected
      /\ chat'.messages = chat.messages /\ chat'.order = chat.order /\ chat'.whole = chat.whole
      /\ chat'.opened = chat.opened
  BY <1>1 DEF ChatState
<1> QED BY <1>1, <1>2, SameThread

\* The user sends it: whatever the page shows by then, it will show this one.
LEMMA MessageSent ==
  ASSUME ThreadOK(chat, calls, server), HandleSendMessage
  PROVE  ThreadOK(chat', calls', server')
<1> DEFINE p == chat.selected
           y == Request("send", p, "tail")
           l == IF chat.opened = p THEN chat.opened ELSE None
<1>1. /\ chat \in ChatState /\ calls \in Seq(ChatCall) /\ ListOK(chat, calls, server)
      /\ server' = server /\ calls' = Append(calls, y) /\ chat' = [chat EXCEPT !.opened = l]
      /\ p \in Peer /\ p # None /\ p \in Range(server.threads)
  BY DEF ThreadOK, ListOK, HandleSendMessage, ChatState
<1>2. /\ y \in ChatCall /\ y.kind = "send" /\ y.peer = p /\ y.then = "tail"
  BY <1>1 DEF Request, ChatCall, Writing
<1> HIDE DEF y
<1>3. Grows(calls, y, calls')
  BY <1>1, <1>2, CallMade
<1>4. l \in {chat.opened, None} /\ (l # None => l = p) /\ l \in Peer \cup {None}
  BY <1>1 DEF ChatState
<1> HIDE DEF l, p
<1>5. /\ chat' \in ChatState /\ chat'.list = chat.list /\ chat'.selected = chat.selected
      /\ chat'.messages = chat.messages /\ chat'.order = chat.order /\ chat'.whole = chat.whole
      /\ chat'.opened = l
  BY <1>1, <1>4 DEF ChatState
<1>6. ListOK(chat', calls', server')
  <2>1. CallOK(y, server.threads)
    BY <1>1, <1>2 DEF CallOK
  <2> QED BY <1>1, <1>3, <1>5, <2>1 DEF ListOK, Grows
<1>7. LinkOpens(chat', calls')
  <2> SUFFICES ASSUME l # None
               PROVE  /\ \A i \in DOMAIN calls' : calls'[i].then = "open" \/ Promises(calls'[i])
                                                    => calls'[i].peer = l
                      /\ chat'.selected = l
    BY <1>5 DEF LinkOpens
  <2>1. \A j \in DOMAIN calls : calls[j].then = "open" \/ Promises(calls[j]) => calls[j].peer = l
    BY <1>4 DEF ThreadOK, LinkOpens
  <2> QED BY <1>2, <1>3, <1>4, <1>5, <2>1 DEF Grows, p
<1>8. ASSUME chat'.order PROVE FirstList(chat', calls')
  <2> SUFFICES ASSUME NEW i \in DOMAIN calls', calls'[i].then = "mount" PROVE FALSE
    BY DEF FirstList
  <2>1. i \in DOMAIN calls /\ calls[i].then = "mount"
    BY <1>2, <1>3 DEF Grows
  <2> QED BY <1>1, <1>5, <1>8, <2>1 DEF ThreadOK, FirstList, p
<1>9. ASSUME chat'.order PROVE ThreadAsked(chat', calls')
  <2>1. ThreadAsked(chat, calls)
    BY <1>5, <1>9 DEF ThreadOK
  <2>2. \A i \in DOMAIN calls' : (i \in DOMAIN calls /\ calls'[i] = calls[i]) \/ Own(chat', calls'[i])
    BY <1>2, <1>3 DEF Grows, Own
  <2>3. CASE \A i \in DOMAIN calls : Own(chat, calls[i])
    <3>1. \A i \in DOMAIN calls' : Own(chat', calls'[i])
      BY <1>5, <2>2, <2>3 DEF Own
    <3>2. \A i \in DOMAIN calls : calls[i].kind = "messages" => i \in DOMAIN calls' /\ calls'[i] = calls[i]
      BY <1>3 DEF Grows
    <3> QED BY <1>5, <2>1, <3>1, <3>2 DEF ThreadAsked
  <2>4. CASE ~ \A i \in DOMAIN calls : Own(chat, calls[i])
    <3>1. PICK k \in DOMAIN calls : /\ calls[k].kind = "messages" /\ calls[k].then = "effect"
                                    /\ \A j \in DOMAIN calls : j >= k => Own(chat, calls[j])
      BY <2>1, <2>4 DEF ThreadAsked
    <3>2. k \in DOMAIN calls' /\ calls'[k] = calls[k]
      BY <1>3 DEF Grows
    <3>3. \A j \in DOMAIN calls' : j >= k => Own(chat', calls'[j])
      BY <1>5, <2>2, <3>1 DEF Own
    <3> QED BY <3>1, <3>2, <3>3 DEF ThreadAsked
  <2> QED BY <2>3, <2>4
<1>10. ThreadCurrent(chat', calls', server')
  <2>1. Promises(y) /\ Len(calls') \in DOMAIN calls' /\ calls'[Len(calls')] = y
    BY <1>2, <1>3 DEF Promises, Grows
  <2> QED BY <2>1 DEF ThreadCurrent
<1> QED BY <1>6, <1>7, <1>8, <1>9, <1>10 DEF ThreadOK

\* Two calls.
LEMMA PairFacts ==
  ASSUME NEW y, y \in ChatCall, NEW z, z \in ChatCall, NEW n, n = <<y>> \o <<z>>
  PROVE  /\ n \in Seq(ChatCall) /\ 1 \in DOMAIN n /\ n[1] = y /\ 2 \in DOMAIN n /\ n[2] = z
         /\ \A i \in DOMAIN n : i = 1 \/ n[i] = z
<1>1. Len(n) = 2 /\ n \in Seq(ChatCall) /\ DOMAIN n = 1..2
  OBVIOUS
<1>2. n[1] = y /\ n[2] = z
  OBVIOUS
<1> QED BY <1>1, <1>2

\* The page is opened, by a link or from the menu.
LEMMA ChatMounted ==
  ASSUME server \in ServerState, NEW p \in Peer \cup {None}, MountChat(p)
  PROVE  ThreadOK(chat', calls', server)
<1> DEFINE y == Request("list", None, "mount")
           z == Request("create", p, "open")
           b == IF p = None THEN <<>> ELSE <<z>>
<1>1. /\ y \in ChatCall /\ y.kind = "list" /\ y.then = "mount" /\ y.peer = None /\ y.at = "sent"
  BY DEF Request, ChatCall, Asking
<1>2. p # None => /\ z \in ChatCall /\ z.kind = "create" /\ z.then = "open" /\ z.peer = p
                  /\ z.at = "sent"
  BY DEF Request, ChatCall, Writing
<1>3. calls' = <<y>> \o b
  BY DEF MountChat
<1>4. /\ EmptyChat \in ChatState /\ EmptyChat.list = <<>> /\ EmptyChat.selected = None
      /\ EmptyChat.messages = None
  BY DEF EmptyChat, ChatState
<1>5. /\ chat' \in ChatState /\ chat'.list = <<>> /\ chat'.selected = None /\ chat'.messages = None
      /\ chat'.opened = p
  BY <1>4 DEF MountChat, ChatState
<1> HIDE DEF y, z
<1>6. /\ calls' \in Seq(ChatCall) /\ 1 \in DOMAIN calls' /\ calls'[1] = y
      /\ \A i \in DOMAIN calls' : i = 1 \/ (p # None /\ calls'[i] = z)
      /\ p # None => 2 \in DOMAIN calls' /\ calls'[2] = z
  <2>1. CASE p = None
    <3>1. calls' = <<y>>
      BY <1>1, <1>3, <2>1
    <3> QED BY <1>1, <2>1, <3>1
  <2>2. CASE p # None
    <3>1. calls' = <<y>> \o <<z>>
      BY <1>3, <2>2
    <3> QED BY <1>1, <1>2, <2>2, <3>1, PairFacts
  <2> QED BY <2>1, <2>2
<1>7. ListOK(chat', calls', server)
  <2>1. CallOK(y, server.threads) /\ (p # None => CallOK(z, server.threads))
    BY <1>1, <1>2 DEF CallOK
  <2>2. Range(chat'.list) = {}
    BY <1>5 DEF Range
  <2> QED BY <1>5, <1>6, <2>1, <2>2 DEF ListOK
<1>8. LinkOpens(chat', calls')
  <2>1. \A i \in DOMAIN calls' : calls'[i].then = "open" \/ Promises(calls'[i]) => calls'[i].peer = p
    BY <1>1, <1>2, <1>6 DEF Promises
  <2> QED BY <1>2, <1>5, <1>6, <2>1 DEF LinkOpens
<1>9. FirstList(chat', calls')
  BY <1>1, <1>2, <1>5, <1>6 DEF FirstList
<1>10. ThreadAsked(chat', calls')
  BY <1>1, <1>2, <1>5, <1>6 DEF ThreadAsked, Own
<1> QED BY <1>5, <1>7, <1>8, <1>9, <1>10 DEF ThreadOK

\* The store blocks somebody: no thread leaves its list.
LEMMA BarredFacts ==
  ASSUME NEW s \in ServerState, NEW p \in Peer
  PROVE  Barred(s, p) \in ServerState /\ Range(s.threads) \subseteq Range(Barred(s, p).threads)
<1> DEFINE b == s.blocked \cup {p}
           front == ToFront(s.threads, p)
           l == IF p \in Range(s.threads) THEN front ELSE s.threads
           t == [s EXCEPT !.blocked = b, !.threads = l]
<1>1. s.threads \in Seq(Peer) /\ b \in SUBSET Peer
  BY DEF ServerState
<1>2. front \in Seq(Peer) /\ Range(s.threads) \subseteq Range(front)
  BY <1>1, ToFrontFacts
<1>3. l \in Seq(Peer) /\ Range(s.threads) \subseteq Range(l)
  <2> HIDE DEF front
  <2> QED BY <1>1, <1>2
<1>4. Barred(s, p) = t
  BY DEF Barred
<1> HIDE DEF b, l
<1>5. t \in ServerState /\ t.threads = l
  BY <1>1, <1>3 DEF ServerState
<1> QED BY <1>3, <1>4, <1>5

\* A write that the page does not wait for is carried out, or is lost.
LEMMA WriteCarried ==
  ASSUME ChatInv, WriteServed, UNCHANGED route
  PROVE  ChatInv'
<1>1. PICK w \in writes : writes' = writes \ {w} /\ server' \in {server, Written(server, w)}
  BY DEF WriteServed
<1>2. /\ server \in ServerState /\ w.peer \in Peer
      /\ writes' \subseteq [kind : {"create", "send"}, peer : Peer]
  BY <1>1 DEF ChatInv
<1>3. server' \in ServerState /\ Range(server.threads) \subseteq Range(server'.threads)
  <2>1. Written(server, w) \in ServerState /\ Range(server.threads) \subseteq Range(Written(server, w).threads)
    BY <1>2, WrittenFacts
  <2> QED BY <1>1, <1>2, <2>1
<1>4. CASE route # "chat"
  BY <1>2, <1>3, <1>4 DEF ChatInv, WriteServed
<1>5. CASE route = "chat"
  <2>1. /\ ThreadOK(chat, calls, server) /\ chat \in ChatState /\ chat # None /\ calls' = calls
        /\ chat' = [chat EXCEPT !.whole = chat.whole /\ server' = server]
    BY <1>5, WebAssumption DEF ChatInv, ThreadOK, ListOK, WriteServed
  <2>2. CASE server' = server
    <3>1. /\ chat' \in ChatState /\ chat'.list = chat.list /\ chat'.selected = chat.selected
          /\ chat'.messages = chat.messages /\ chat'.order = chat.order
          /\ chat'.opened = chat.opened
      BY <2>1 DEF ChatState
    <3>2. chat'.whole = chat.whole
      BY <2>1, <2>2 DEF ChatState
    <3>3. ThreadOK(chat', calls, server)
      BY <2>1, <3>1, <3>2, SameThread
    <3> QED BY <1>2, <1>3, <1>5, <2>1, <2>2, <3>3 DEF ChatInv
  <2>3. CASE server' # server
    <3>1. chat' = [chat EXCEPT !.whole = FALSE]
      BY <2>1, <2>3
    <3>2. ThreadOK(chat', calls', server')
      BY <1>3, <2>1, <3>1, GrownThread
    <3> QED BY <1>2, <1>3, <1>5, <3>2 DEF ChatInv
  <2> QED BY <2>2, <2>3
<1> QED BY <1>4, <1>5

\* No step of the page or the store disturbs the page.
LEMMA ChatSteps ==
  ASSUME ChatInv, ChatNext, UNCHANGED route
  PROVE  ChatInv'
<1>1. CASE WriteServed
  BY <1>1, WriteCarried
<1>2. CASE ~WriteServed
  <2>1. route = "chat"
    <3>1. \/ route = "chat"
          \/ \E k \in DOMAIN calls : TRUE
      BY <1>2 DEF ChatNext, SelectThread, TypeMessage, HandleSendMessage, ChatSettles, ChatServed
    <3>2. DOMAIN <<>> = {}
      OBVIOUS
    <3> QED BY <3>1, <3>2 DEF ChatInv
  <2>2. /\ server \in ServerState /\ ThreadOK(chat, calls, server)
        /\ writes \subseteq [kind : {"create", "send"}, peer : Peer]
    BY <2>1 DEF ChatInv
  <2>3. ThreadOK(chat', calls', server') /\ writes' = writes
    <3>1. CASE SelectThread
      BY <2>1, <2>2, <3>1, ThreadSelected DEF SelectThread
    <3>2. CASE TypeMessage
      BY <2>2, <3>2, MessageTyped DEF TypeMessage
    <3>3. CASE HandleSendMessage
      BY <2>2, <3>3, MessageSent DEF HandleSendMessage
    <3>4. CASE ChatSettles
      BY <2>2, <3>4, ChatSettled DEF ChatSettles
    <3>5. CASE ChatServed
      BY <2>2, <3>5, ServedThread DEF ChatServed
    <3> QED BY <1>2, <3>1, <3>2, <3>3, <3>4, <3>5 DEF ChatNext
  <2>4. server' \in ServerState
    BY <2>3 DEF ThreadOK, ListOK
  <2> QED BY <2>1, <2>2, <2>3, <2>4 DEF ChatInv
<1> QED BY <1>1, <1>2

\* Opening and leaving the page.
LEMMA ChatRouted ==
  ASSUME ChatInv, NEW to, to # route, route' = to, NEW p \in Peer \cup {None}, ChatRoute(to, p)
  PROVE  ChatInv'
<1>1. CASE route = "chat"
  <2>1. /\ chat' = None /\ calls' = <<>> /\ server' = server
        /\ writes' = writes \cup {[kind |-> calls[k].kind, peer |-> calls[k].peer] :
             k \in {k \in DOMAIN calls : calls[k].at = "sent" /\ calls[k].kind \in {"create", "send"}}}
    BY <1>1 DEF ChatRoute, UnmountChat
  <2>2. \A k \in DOMAIN calls : calls[k].kind \in {"create", "send"} => calls[k].peer \in Peer
    BY <1>1 DEF ChatInv, ThreadOK, ListOK, CallOK, ChatCall, Asking, Writing, Listed, Told
  <2>3. writes' \subseteq [kind : {"create", "send"}, peer : Peer]
    BY <2>1, <2>2 DEF ChatInv
  <2> QED BY <1>1, <2>1, <2>3 DEF ChatInv
<1>2. CASE route # "chat" /\ to = "chat"
  <2>1. MountChat(p) /\ writes' = writes /\ server' = server
    BY <1>2 DEF ChatRoute
  <2>2. ThreadOK(chat', calls', server)
    BY <2>1, ChatMounted DEF ChatInv
  <2> QED BY <1>2, <2>1, <2>2 DEF ChatInv
<1>3. CASE route # "chat" /\ to # "chat"
  BY <1>3 DEF ChatInv, ChatRoute, chatVars
<1> QED BY <1>1, <1>2, <1>3

(***************************************************************************)
(* The report form.                                                        *)
(***************************************************************************)

\* A conversation the page fills in is with the person it is about.
Rightful(t) == t.conversation \in {None, t.id}

FormOK(s) ==
  /\ s \in SafetyState
  /\ ~s.mixed => s.conversation \in {None, s.target}
  /\ \A k \in DOMAIN s.targets : Rightful(s.targets[k])

SafetyInv == IF route = "safety" THEN FormOK(safety) ELSE safety = None

Report == [at : {"sent", "stored"}, target : Peer, conversation : Peer \cup {None},
           block : BOOLEAN, mixed : BOOLEAN]

ReportInv == report # None => /\ report \in Report
                              /\ ~report.mixed => report.conversation \in {None, report.target}

\* A finite set has a sequence of its elements.
LEMMA SeqOfSet ==
  ASSUME NEW S, IsFiniteSet(S)
  PROVE  SetToSeq(S) \in Seq(S)
<1> DEFINE n == Cardinality(S)
<1>1. n \in Nat /\ ExistsBijection(1..n, S)
  BY FS_CardinalityType
<1>2. PICK f \in [1..n -> S] : IsInjective(f)
  BY <1>1 DEF ExistsBijection, Bijection, Injection
<1>3. SetToSeq(S) \in [1..n -> S]
  BY <1>2 DEF SetToSeq
<1> HIDE DEF n
<1> QED BY <1>1, <1>3

\* The people who can be reported, each with their own conversation, if any.
LEMMA TargetsFacts ==
  ASSUME NEW threads \in Seq(Peer), NEW people \in SUBSET Candidate
  PROVE  /\ ReportTargets(threads, people) \in Seq(Target)
         /\ \A k \in DOMAIN ReportTargets(threads, people) : Rightful(ReportTargets(threads, people)[k])
<1> DEFINE R == {t \in Target : Rightful(t)}
           P == people \ Range(threads)
           S == {[id |-> p, conversation |-> None] : p \in P}
           l == [k \in DOMAIN threads |-> [id |-> threads[k], conversation |-> threads[k]]]
           r == SetToSeq(S)
<1>1. P \subseteq Peer /\ IsFiniteSet(P)
  BY WebAssumption, FS_Subset
<1>2. IsFiniteSet(S)
  <2> DEFINE f == [p \in P |-> [id |-> p, conversation |-> None]]
  <2>1. f \in Surjection(P, S)
    BY DEF Surjection
  <2> HIDE DEF S, P
  <2> QED BY <1>1, <2>1, FS_Surjection DEF ExistsSurjection
<1>3. S \subseteq R
  BY <1>1 DEF Target, Rightful
<1>4. r \in Seq(S)
  <2> HIDE DEF S
  <2> QED BY <1>2, SeqOfSet
<1> HIDE DEF S, r
<1>5. r \in Seq(R)
  BY <1>3, <1>4
<1>6. \A k \in DOMAIN threads : l[k] \in R
  BY DEF Target, Rightful
<1>7. l \in Seq(R)
  <2>1. Len(threads) \in Nat /\ DOMAIN threads = 1..Len(threads)
    OBVIOUS
  <2> HIDE DEF R
  <2>2. l \in [1..Len(threads) -> R]
    BY <1>6, <2>1
  <2> HIDE DEF l
  <2> QED BY <2>1, <2>2
<1>8. ReportTargets(threads, people) = l \o r
  BY DEF ReportTargets, r, S
<1> HIDE DEF l, R
<1>9. l \o r \in Seq(R)
  BY <1>5, <1>7
<1> DEFINE t == l \o r
<1>10. t \in Seq(R)
  BY <1>9
<1> HIDE DEF t
<1>11. t \in Seq(Target) /\ \A k \in DOMAIN t : Rightful(t[k])
  <2>1. \A k \in DOMAIN t : t[k] \in R
    BY <1>10
  <2>2. R \subseteq Target
    BY DEF R
  <2>3. t \in Seq(Target)
    BY <1>10, <2>2
  <2> QED BY <2>1, <2>3 DEF R
<1> QED BY <1>8, <1>11 DEF t

\* The first person on the list is chosen if nobody else was.
LEMMA PickedForm ==
  ASSUME NEW s, FormOK(s), NEW l \in Seq(Target), \A k \in DOMAIN l : Rightful(l[k]), s.targets = l
  PROVE  FormOK(PickFirst(s, l))
<1>1. s \in SafetyState
  BY DEF FormOK
<1>2. CASE s.target # None \/ l = <<>>
  BY <1>2 DEF PickFirst
<1>3. CASE ~(s.target # None \/ l = <<>>)
  <2> DEFINE p == l[1].id
             c == IF s.conversation = None THEN l[1].conversation ELSE s.conversation
             d == [s EXCEPT !.target = p, !.conversation = c]
  <2>1. l[1] \in Target /\ Rightful(l[1])
    BY <1>3
  <2>2. /\ p \in Peer /\ c \in Peer \cup {None}
        /\ s.conversation = None => c \in {None, p}
    BY <1>1, <2>1 DEF Target, Rightful, SafetyState
  <2>3. PickFirst(s, l) = d
    BY <1>3 DEF PickFirst
  <2> HIDE DEF p, c
  <2>4. /\ d \in SafetyState /\ d.target = p /\ d.conversation = c /\ d.mixed = s.mixed
        /\ d.targets = s.targets
    BY <1>1, <2>2 DEF SafetyState
  <2> HIDE DEF d
  <2>5. ~s.mixed => s.conversation = None
    BY <1>3 DEF FormOK
  <2>6. FormOK(d)
    BY <2>2, <2>4, <2>5 DEF FormOK
  <2> QED BY <2>3, <2>6
<1> QED BY <1>2, <1>3

\* What only the text, the status or the check box is about.
LEMMA SameForm ==
  ASSUME NEW s, FormOK(s), NEW d \in SafetyState, d.target = s.target,
         d.conversation = s.conversation, d.targets = s.targets, d.mixed = s.mixed
  PROVE  FormOK(d)
BY DEF FormOK

\* The lists of the page arrive.
LEMMA TargetsLoaded ==
  ASSUME FormOK(safety), server \in ServerState, LoadTargets
  PROVE  FormOK(safety')
<1>1. PICK threads \in {<<>>, server.threads}, people \in {{}, Candidate \ server.blocked} :
        safety' = PickFirst([safety EXCEPT !.loaded = TRUE, !.targets = ReportTargets(threads, people)],
                            ReportTargets(threads, people))
  BY DEF LoadTargets
<1> DEFINE l == ReportTargets(threads, people)
           s == [safety EXCEPT !.loaded = TRUE, !.targets = l]
<1>2. threads \in Seq(Peer) /\ people \in SUBSET Candidate
  <2>1. server.threads \in Seq(Peer) /\ <<>> \in Seq(Peer)
    BY DEF ServerState
  <2> QED BY <2>1
<1>3. l \in Seq(Target) /\ \A k \in DOMAIN l : Rightful(l[k])
  BY <1>2, TargetsFacts
<1>4. safety' = PickFirst(s, l)
  BY <1>1
<1> HIDE DEF l
<1>5. /\ s \in SafetyState /\ s.targets = l /\ s.target = safety.target /\ s.mixed = safety.mixed
      /\ s.conversation = safety.conversation
  BY <1>3 DEF FormOK, SafetyState
<1> HIDE DEF s
<1>6. FormOK(s)
  BY <1>3, <1>5 DEF FormOK
<1> QED BY <1>3, <1>4, <1>5, <1>6, PickedForm

\* The user chooses whom the report is about.
LEMMA TargetChosen ==
  ASSUME FormOK(safety), ChooseTarget
  PROVE  FormOK(safety')
<1> DEFINE listed(p) == {t \in Range(safety.targets) : t.id = p}
           suggested(p) == IF listed(p) = {} THEN None ELSE (CHOOSE t \in listed(p) : TRUE).conversation
<1>1. PICK p \in Peer :
        safety' = [safety EXCEPT !.target = p,
                     !.conversation = IF @ = None THEN suggested(p) ELSE @,
                     !.mixed = @ \/ safety.conversation # None]
  BY DEF ChooseTarget
<1> DEFINE c == IF safety.conversation = None THEN suggested(p) ELSE safety.conversation
           m == safety.mixed \/ safety.conversation # None
<1>2. safety \in SafetyState /\ \A t \in Range(safety.targets) : t \in Target /\ Rightful(t)
  BY DEF FormOK, SafetyState, Range
<1>3. suggested(p) \in {None, p}
  <2>1. CASE listed(p) # {}
    <3>1. (CHOOSE t \in listed(p) : TRUE) \in listed(p)
      BY <2>1
    <3> QED BY <1>2, <2>1, <3>1 DEF Rightful
  <2> QED BY <2>1
<1> HIDE DEF suggested
<1>4. c \in Peer \cup {None} /\ (safety.conversation = None => c \in {None, p})
  BY <1>2, <1>3 DEF SafetyState
<1>5. m \in BOOLEAN /\ (~m => safety.conversation = None)
  BY <1>2 DEF SafetyState
<1>6. safety' = [safety EXCEPT !.target = p, !.conversation = c, !.mixed = m]
  BY <1>1, <1>2 DEF SafetyState
<1> HIDE DEF c, m
<1>7. /\ safety' \in SafetyState /\ safety'.target = p /\ safety'.conversation = c
      /\ safety'.mixed = m /\ safety'.targets = safety.targets
  BY <1>2, <1>4, <1>5, <1>6 DEF SafetyState
<1> QED BY <1>4, <1>5, <1>7 DEF FormOK

\* The user edits the report.
LEMMA ReportEdited ==
  ASSUME FormOK(safety), EditReport
  PROVE  FormOK(safety')
<1>1. safety \in SafetyState
  BY DEF FormOK
<1>2. ASSUME NEW c \in Peer \cup {None},
             safety' = [safety EXCEPT !.conversation = c, !.mixed = @ \/ c # None]
      PROVE  FormOK(safety')
  <2> DEFINE m == safety.mixed \/ c # None
  <2>1. m \in BOOLEAN /\ (~m => c = None) /\ safety' = [safety EXCEPT !.conversation = c, !.mixed = m]
    BY <1>1, <1>2 DEF SafetyState
  <2> HIDE DEF m
  <2>2. /\ safety' \in SafetyState /\ safety'.conversation = c /\ safety'.mixed = m
        /\ safety'.targets = safety.targets
    BY <1>1, <2>1 DEF SafetyState
  <2> QED BY <2>1, <2>2 DEF FormOK
<1>3. ASSUME NEW b \in BOOLEAN, \/ safety' = [safety EXCEPT !.described = TRUE]
                                \/ safety' = [safety EXCEPT !.block = b]
      PROVE  FormOK(safety')
  <2>1. /\ safety' \in SafetyState /\ safety'.target = safety.target
        /\ safety'.conversation = safety.conversation /\ safety'.mixed = safety.mixed
        /\ safety'.targets = safety.targets
    BY <1>1, <1>3 DEF SafetyState
  <2> QED BY <2>1, SameForm
<1>4. (~safety.block) \in BOOLEAN
  OBVIOUS
<1> QED BY <1>2, <1>3, <1>4 DEF EditReport

\* No step of the form disturbs it, the chat page, or what is reported.
LEMMA SafetySteps ==
  ASSUME SafetyInv, ReportInv, ChatInv, SafetyNext, UNCHANGED route
  PROVE  SafetyInv' /\ ReportInv' /\ ChatInv'
<1>0. UNCHANGED chatVars => ChatInv'
  BY DEF ChatInv, chatVars
<1>1. CASE ReportServed
  <2>1. /\ report # None /\ report \in Report /\ server \in ServerState
        /\ ~report.mixed => report.conversation \in {None, report.target}
    BY <1>1 DEF ReportServed, ReportInv, ChatInv
  <2>2. report' = [report EXCEPT !.at = "stored"] /\ safety' = safety /\ calls' = calls /\ writes' = writes
    BY <1>1 DEF ReportServed
  <2>3. /\ report' \in Report /\ report'.mixed = report.mixed
        /\ report'.conversation = report.conversation /\ report'.target = report.target
    BY <2>1, <2>2 DEF Report
  <2>4. server' \in ServerState /\ Range(server.threads) \subseteq Range(server'.threads)
    <3>1. report.target \in Peer
      BY <2>1 DEF Report
    <3>2. /\ Barred(server, report.target) \in ServerState
          /\ Range(server.threads) \subseteq Range(Barred(server, report.target).threads)
      BY <2>1, <3>1, BarredFacts
    <3> QED BY <1>1, <2>1, <3>2 DEF ReportServed
  <2>5. ChatInv'
    <3>1. CASE route = "chat"
      <4>1. ThreadOK(chat, calls, server) /\ chat \in ChatState /\ chat # None
        BY <3>1, WebAssumption DEF ChatInv, ThreadOK, ListOK
      <4>2. chat' = [chat EXCEPT !.whole = FALSE]
        BY <1>1, <4>1 DEF ReportServed
      <4>3. ThreadOK(chat', calls, server')
        BY <2>4, <4>1, <4>2, GrownThread
      <4> QED BY <2>2, <2>4, <3>1, <4>3 DEF ChatInv
    <3>2. CASE route # "chat"
      BY <1>1, <2>2, <2>4, <3>2 DEF ChatInv, ReportServed
    <3> QED BY <3>1, <3>2
  <2> QED BY <2>1, <2>2, <2>3, <2>5 DEF SafetyInv, ReportInv
<1>2. CASE ~ReportServed
  <2>1. route = "safety" /\ UNCHANGED chatVars
    BY <1>2 DEF SafetyNext, LoadTargets, ChooseTarget, EditReport, HandleReport, ReportSettles
  <2>2. FormOK(safety) /\ safety \in SafetyState /\ server \in ServerState
    BY <2>1 DEF SafetyInv, ChatInv, FormOK
  <2>3. CASE LoadTargets
    BY <1>0, <2>1, <2>2, <2>3, TargetsLoaded DEF LoadTargets, SafetyInv, ReportInv
  <2>4. CASE ChooseTarget
    BY <1>0, <2>1, <2>2, <2>4, TargetChosen DEF ChooseTarget, SafetyInv, ReportInv
  <2>5. CASE EditReport
    BY <1>0, <2>1, <2>2, <2>5, ReportEdited DEF EditReport, SafetyInv, ReportInv
  <2>6. CASE HandleReport
    <3>1. \E st \in {"submitting", "invalid"} : safety' = [safety EXCEPT !.status = st]
      BY <2>6 DEF HandleReport
    <3>2. /\ safety' \in SafetyState /\ safety'.target = safety.target
          /\ safety'.conversation = safety.conversation /\ safety'.mixed = safety.mixed
          /\ safety'.targets = safety.targets
      BY <2>2, <3>1 DEF SafetyState
    <3>3. FormOK(safety')
      BY <2>2, <3>2, SameForm
    <3>4. ReportInv'
      <4>1. CASE Valid(safety)
        <5>1. report' = [at |-> "sent", target |-> safety.target, conversation |-> safety.conversation,
                         block |-> safety.block, mixed |-> safety.mixed]
          BY <2>6, <4>1 DEF HandleReport
        <5>2. safety.target \in Peer
          BY <2>2, <4>1 DEF Valid, SafetyState
        <5>3. report' \in Report
          BY <2>2, <5>1, <5>2 DEF Report, SafetyState
        <5>4. ~report'.mixed => report'.conversation \in {None, report'.target}
          BY <2>2, <5>1 DEF FormOK
        <5> QED BY <5>3, <5>4 DEF ReportInv
      <4>2. CASE ~Valid(safety)
        BY <2>6, <4>2 DEF HandleReport, ReportInv
      <4> QED BY <4>1, <4>2
    <3> QED BY <1>0, <2>1, <3>3, <3>4 DEF SafetyInv
  <2>7. CASE ReportSettles
    <3>1. \/ safety' = [safety EXCEPT !.status = "submitted", !.described = FALSE]
          \/ safety' = [safety EXCEPT !.status = "failed"]
      BY <2>7 DEF ReportSettles
    <3>2. /\ safety' \in SafetyState /\ safety'.target = safety.target
          /\ safety'.conversation = safety.conversation /\ safety'.mixed = safety.mixed
          /\ safety'.targets = safety.targets
      BY <2>2, <3>1 DEF SafetyState
    <3>3. FormOK(safety')
      BY <2>2, <3>2, SameForm
    <3> QED BY <1>0, <2>1, <2>7, <3>3 DEF ReportSettles, SafetyInv, ReportInv
  <2> QED BY <1>2, <2>3, <2>4, <2>5, <2>6, <2>7 DEF SafetyNext
<1> QED BY <1>1, <1>2

\* Opening the form, with whom a link names, and leaving it.
LEMMA SafetyRouted ==
  ASSUME SafetyInv, ReportInv, NEW to, to # route, route' = to, NEW p \in Peer \cup {None},
         SafetyRoute(to, p)
  PROVE  SafetyInv' /\ ReportInv'
<1>1. CASE route # "safety" /\ to = "safety"
  <2>1. safety' = [target |-> p, conversation |-> p, targets |-> <<>>, loaded |-> FALSE,
                   described |-> FALSE, block |-> TRUE, status |-> "ready", mixed |-> FALSE]
    BY <1>1 DEF SafetyRoute, MountSafety
  <2>2. /\ safety' \in SafetyState /\ safety'.target = p /\ safety'.conversation = p
        /\ safety'.targets = <<>>
    BY <2>1 DEF SafetyState
  <2>3. FormOK(safety')
    BY <2>2 DEF FormOK
  <2> QED BY <1>1, <2>3 DEF SafetyInv, ReportInv, SafetyRoute
<1>2. CASE ~(route # "safety" /\ to = "safety")
  BY <1>2 DEF SafetyRoute, UnmountSafety, SafetyInv, ReportInv
<1> QED BY <1>1, <1>2

(***************************************************************************)
(* The marks on matches.                                                   *)
(***************************************************************************)

\* What the browser stores, or the page is about to restore, is what the user
\* marked, unless a visit ended in between.
MarksInv ==
  /\ storage \in MarkSets /\ marks \in MarkSets
  /\ route # "matches" => matches = None /\ (~cut => storage = marks)
  /\ route = "matches" =>
       /\ matches \in MatchesState
       /\ matches.restoring = None => (~cut => storage = marks)
       /\ matches.restoring # None => storage = NoMarks /\ (~cut => matches.restoring = marks)

\* No step of the page disturbs that.
LEMMA MatchesSteps ==
  ASSUME MarksInv, MatchesNext, UNCHANGED route
  PROVE  MarksInv'
<1>1. /\ route = "matches" /\ matches \in MatchesState /\ storage \in MarkSets /\ marks \in MarkSets
      /\ cut' = cut
  BY DEF MarksInv, MatchesNext, Restore, LoadCandidates, Mark
<1>2. CASE Restore
  <2>1. /\ matches.restoring # None /\ matches.restoring \in MarkSets
        /\ storage' = matches.restoring /\ marks' = marks
        /\ matches' = [matches EXCEPT !.shown = matches.restoring, !.restoring = None]
    BY <1>1, <1>2 DEF Restore, MatchesState
  <2>2. matches' \in MatchesState /\ matches'.restoring = None
    BY <1>1, <2>1 DEF MatchesState
  <2> QED BY <1>1, <2>1, <2>2 DEF MarksInv
<1>3. CASE LoadCandidates
  <2>1. matches' = [matches EXCEPT !.candidates = Candidate \ server.blocked]
    BY <1>3 DEF LoadCandidates
  <2>2. matches' \in MatchesState /\ matches'.restoring = matches.restoring
    BY <1>1, <2>1 DEF MatchesState
  <2> QED BY <1>1, <1>3, <2>2 DEF MarksInv, LoadCandidates
<1>4. CASE Mark
  <2>1. PICK m \in Marked(matches.shown) :
          matches' = [matches EXCEPT !.shown = m] /\ storage' = m /\ marks' = m
    BY <1>4 DEF Mark
  <2>2. matches.restoring = None /\ matches.shown \in MarkSets /\ Visible \subseteq Candidate
    BY <1>1, <1>4 DEF Mark, MatchesState, Visible
  <2>3. m \in MarkSets
    BY <2>1, <2>2 DEF Marked, MarkSets, Toggled
  <2>4. matches' \in MatchesState /\ matches'.restoring = None
    BY <1>1, <2>1, <2>2, <2>3 DEF MatchesState
  <2> QED BY <1>1, <2>1, <2>3, <2>4 DEF MarksInv
<1> QED BY <1>2, <1>3, <1>4 DEF MatchesNext

\* Opening and leaving the page.
LEMMA MatchesRouted ==
  ASSUME MarksInv, NEW to, to # route, route' = to, MatchesRoute(to)
  PROVE  MarksInv'
<1>0. NoMarks \in MarkSets
  BY DEF NoMarks, MarkSets
<1>1. CASE route = "matches"
  <2>1. /\ matches' = None /\ storage' = storage /\ marks' = marks
        /\ cut' = (cut \/ matches.restoring \notin {None, NoMarks})
    BY <1>1 DEF MatchesRoute, UnmountMatches
  <2>2. ~cut' => storage = marks
    BY <1>1, <2>1 DEF MarksInv
  <2> QED BY <1>1, <2>1, <2>2 DEF MarksInv
<1>2. CASE route # "matches" /\ to = "matches"
  <2>1. /\ matches' = [candidates |-> {}, shown |-> NoMarks, restoring |-> storage]
        /\ storage' = NoMarks /\ marks' = marks /\ cut' = cut
    BY <1>2 DEF MatchesRoute, MountMatches, MountEffects
  <2>2. storage \in MarkSets /\ storage # None
    BY WebAssumption DEF MarksInv
  <2>3. matches' \in MatchesState /\ matches'.restoring = storage
    BY <1>0, <2>1, <2>2 DEF MatchesState
  <2> QED BY <1>0, <1>2, <2>1, <2>2, <2>3 DEF MarksInv
<1>3. CASE route # "matches" /\ to # "matches"
  BY <1>3 DEF MarksInv, MatchesRoute, matchesVars
<1> QED BY <1>1, <1>2, <1>3

(***************************************************************************)
(* The forms.                                                              *)
(***************************************************************************)

\* A draft with every field the onboarding asks for.
Complete(draft) == \A k \in DOMAIN StepFields : \A f \in StepFields[k] : draft[f] # None

Save == [at : {"sent", "served"}, draft : Draft, awaited : BOOLEAN]

\* A save that waited for all others is the only one under way.
SavesOK ==
  /\ stored \in Draft /\ saves \subseteq Save
  /\ \A s \in saves : s.awaited => OnForm /\ (route = "onboarding" => Complete(s.draft))
  /\ alone => \A s, t \in saves : s = t
  /\ alone => \A s \in saves : s.at = "served" => s.draft = stored

\* A form that says "saved" waits for none, and shows what is stored.
ShowsSaved ==
  OnForm /\ form.status = "saved" /\ alone =>
    /\ saves = {}
    /\ form.edited \/ form.draft = stored
    /\ route = "onboarding" => Complete(stored)

FormInv == (IF OnForm THEN form \in FormState ELSE form = None) /\ SavesOK /\ ShowsSaved

\* A step that saves nothing.
LEMMA FormEdited ==
  ASSUME FormInv, OnForm, UNCHANGED <<route, saves, stored, alone>>, form' \in FormState,
         form'.status = "saved" => form.status = "saved" /\ (form'.edited \/ form' = form
                                     \/ (form'.draft = form.draft /\ form'.edited = form.edited))
  PROVE  FormInv'
<1>1. SavesOK' /\ OnForm'
  BY DEF FormInv, SavesOK, OnForm
<1>2. ShowsSaved'
  BY DEF FormInv, ShowsSaved, OnForm
<1> QED BY <1>1, <1>2 DEF FormInv

\* A draft is saved.
LEMMA Submitted ==
  ASSUME FormInv, Loaded, Submit, UNCHANGED route, route = "onboarding" => Complete(form.draft)
  PROVE  FormInv'
<1> DEFINE s == [at |-> "sent", draft |-> form.draft, awaited |-> TRUE]
<1>1. /\ OnForm /\ OnForm' /\ form \in FormState /\ form.draft \in Draft
      /\ form' = [form EXCEPT !.status = "saving"]
      /\ saves' = saves \cup {s} /\ alone' = (saves = {}) /\ stored' = stored
  BY DEF FormInv, Loaded, FormState, Submit, OnForm
<1>2. /\ s \in Save /\ s.at = "sent" /\ s.draft = form.draft
  BY <1>1 DEF Save
<1> HIDE DEF s
<1>3. form' \in FormState /\ form'.status = "saving"
  BY <1>1 DEF FormState
<1>4. SavesOK'
  BY <1>1, <1>2 DEF FormInv, SavesOK, OnForm, Complete
<1>5. ShowsSaved'
  BY <1>3 DEF ShowsSaved
<1> QED BY <1>1, <1>3, <1>4, <1>5 DEF FormInv

\* What is stored is what was saved, and what it left out.
LEMMA MergedFacts ==
  ASSUME NEW p \in Draft, NEW d \in Draft
  PROVE  Merged(p, d) \in Draft /\ (Complete(d) => Complete(Merged(p, d)))
<1>1. /\ Merged(p, d) \in Draft
      /\ \A f \in Field : d[f] # None => Merged(p, d)[f] # None
  BY DEF Merged, Draft
<1>2. \A k \in DOMAIN StepFields : StepFields[k] \subseteq Field
  BY WebAssumption
<1> QED BY <1>1, <1>2 DEF Complete

\* A save is carried out.
LEMMA SaveCarried ==
  ASSUME FormInv, SaveServed, UNCHANGED route
  PROVE  FormInv'
<1>1. PICK s \in saves :
        /\ s.at = "sent" /\ stored' = Merged(stored, s.draft)
        /\ saves' = (saves \ {s}) \cup
             IF s.awaited THEN {[at |-> "served", draft |-> Merged(stored, s.draft), awaited |-> TRUE]} ELSE {}
  BY DEF SaveServed
<1> DEFINE p == Merged(stored, s.draft)
           t == [at |-> "served", draft |-> p, awaited |-> TRUE]
<1>2. /\ s \in Save /\ s.draft \in Draft /\ stored \in Draft /\ form' = form /\ alone' = alone
      /\ OnForm' = OnForm /\ route' = route
  BY DEF FormInv, SavesOK, Save, SaveServed, OnForm
<1>3. p \in Draft /\ (Complete(s.draft) => Complete(p))
  BY <1>2, MergedFacts
<1>4. stored' = p /\ saves' = (saves \ {s}) \cup IF s.awaited THEN {t} ELSE {}
  BY <1>1
<1> HIDE DEF p
<1>5. t \in Save /\ t.draft = p /\ t.at = "served"
  BY <1>3 DEF Save
<1> HIDE DEF t
<1>6. SavesOK'
  <2>1. stored' \in Draft /\ saves' \subseteq Save
    BY <1>3, <1>4, <1>5 DEF FormInv, SavesOK
  <2>2. \A u \in saves' : u.awaited => OnForm /\ (route = "onboarding" => Complete(u.draft))
    BY <1>3, <1>4, <1>5 DEF FormInv, SavesOK
  <2>3. ASSUME alone PROVE saves = {s}
    BY <2>3 DEF FormInv, SavesOK
  <2>4. alone => \A u, v \in saves' : u = v
    BY <1>4, <2>3
  <2>5. alone => \A u \in saves' : u.draft = stored'
    BY <1>4, <1>5, <2>3
  <2> QED BY <1>2, <2>1, <2>2, <2>4, <2>5 DEF SavesOK, Complete
<1>7. ShowsSaved'
  <2>1. ~(OnForm /\ form.status = "saved" /\ alone)
    BY <1>1 DEF FormInv, ShowsSaved
  <2> QED BY <1>2, <2>1 DEF ShowsSaved, Complete
<1> QED BY <1>2, <1>6, <1>7 DEF FormInv

\* A save is answered, or fails.
LEMMA SaveSettled ==
  ASSUME FormInv, SaveSettles, UNCHANGED route
  PROVE  FormInv'
<1>1. PICK s \in saves :
        /\ saves' = saves \ {s}
        /\ \/ s.at = "served" /\ s.awaited /\ form' = ShowSaved(form, s)
           \/ form' = IF s.awaited THEN [form EXCEPT !.status = "failed"] ELSE form
  BY DEF SaveSettles
<1>2. /\ s \in Save /\ s.draft \in Draft /\ stored' = stored /\ alone' = alone
      /\ OnForm' = OnForm /\ route' = route /\ (s.awaited => OnForm /\ form \in FormState)
      /\ s.awaited /\ route = "onboarding" => Complete(s.draft)
  BY DEF FormInv, SavesOK, Save, SaveSettles, OnForm
<1>3. SavesOK'
  BY <1>1, <1>2 DEF FormInv, SavesOK, Complete
<1>4. ~(OnForm /\ form.status = "saved" /\ alone)
  BY <1>1 DEF FormInv, ShowsSaved
<1>5. CASE s.at = "served" /\ s.awaited /\ form' = ShowSaved(form, s)
  <2>1. form' = [form EXCEPT !.draft = s.draft, !.status = "saved", !.edited = FALSE]
    BY <1>5 DEF ShowSaved
  <2>2. form' \in FormState /\ form'.draft = s.draft
    BY <1>2, <1>5, <2>1 DEF FormState
  <2>3. ASSUME alone PROVE saves' = {} /\ s.draft = stored
    BY <1>1, <1>5, <2>3 DEF FormInv, SavesOK
  <2>4. ShowsSaved'
    BY <1>2, <1>5, <2>2, <2>3 DEF ShowsSaved, Complete
  <2> QED BY <1>2, <1>3, <1>5, <2>2, <2>4 DEF FormInv
<1>6. CASE form' = IF s.awaited THEN [form EXCEPT !.status = "failed"] ELSE form
  <2>1. CASE s.awaited
    <3>1. form' \in FormState /\ form'.status = "failed"
      BY <1>2, <1>6, <2>1 DEF FormState
    <3> QED BY <1>2, <1>3, <2>1, <3>1 DEF FormInv, ShowsSaved
  <2>2. CASE ~s.awaited
    <3>1. form' = form
      BY <1>6, <2>2
    <3>2. ShowsSaved'
      BY <1>2, <1>4, <3>1 DEF ShowsSaved
    <3> QED BY <1>2, <1>3, <3>1, <3>2 DEF FormInv
  <2> QED BY <2>1, <2>2
<1> QED BY <1>1, <1>5, <1>6

\* No step of the two pages disturbs that.
LEMMA FormsSteps ==
  ASSUME FormInv, FormsNext, UNCHANGED route
  PROVE  FormInv'
<1>0. LastStep \in Nat
  BY WebAssumption DEF LastStep
<1>1. CASE LoadProfile
  <2>1. OnForm /\ form \in FormState /\ stored \in Draft
    BY <1>1 DEF LoadProfile, FormInv, SavesOK
  <2>2. \/ form' = [form EXCEPT !.draft = stored, !.status = "ready"]
        \/ form' = [form EXCEPT !.status = "unavailable"]
    BY <1>1 DEF LoadProfile
  <2>3. form' \in FormState /\ form'.status # "saved"
    BY <2>1, <2>2 DEF FormState
  <2> QED BY <1>1, <2>1, <2>3, FormEdited DEF LoadProfile
<1>2. CASE Edit
  <2>1. OnForm /\ form \in FormState /\ form.draft \in Draft
    BY <1>2 DEF Edit, Loaded, FormInv, FormState
  <2>2. PICK f \in Field, v \in Value \cup {None} : form' = [form EXCEPT !.draft[f] = v, !.edited = TRUE]
    BY <1>2 DEF Edit
  <2> DEFINE d == [form.draft EXCEPT ![f] = v]
  <2>3. d \in Draft /\ form' = [form EXCEPT !.draft = d, !.edited = TRUE]
    BY <2>1, <2>2 DEF Draft
  <2> HIDE DEF d
  <2>4. form' \in FormState /\ form'.edited /\ form'.status = form.status
    BY <2>1, <2>3 DEF FormState
  <2> QED BY <1>2, <2>1, <2>4, FormEdited DEF Edit
<1>3. CASE HandleNext \/ Back
  <2>1. OnForm /\ form \in FormState /\ form.step \in 1..LastStep
    BY <1>3 DEF HandleNext, Back, Loaded, FormInv, FormState
  <2>2. \/ form.step < LastStep /\ form' = [form EXCEPT !.step = form.step + 1, !.status = "ready"]
        \/ form' = [form EXCEPT !.status = "invalid"]
        \/ form.step > 1 /\ form' = [form EXCEPT !.step = form.step - 1]
    BY <1>3 DEF HandleNext, Back
  <2>3. /\ form.step < LastStep => form.step + 1 \in 1..LastStep
        /\ form.step > 1 => form.step - 1 \in 1..LastStep
    BY <1>0, <2>1
  <2>4. /\ form' \in FormState /\ form'.draft = form.draft /\ form'.edited = form.edited
        /\ form'.status \in {form.status, "ready", "invalid"}
    <3>1. CASE form.step < LastStep /\ form' = [form EXCEPT !.step = form.step + 1, !.status = "ready"]
      BY <2>1, <2>3, <3>1 DEF FormState
    <3>2. CASE form' = [form EXCEPT !.status = "invalid"]
      BY <2>1, <3>2 DEF FormState
    <3>3. CASE form.step > 1 /\ form' = [form EXCEPT !.step = form.step - 1]
      BY <2>1, <2>3, <3>3 DEF FormState
    <3> QED BY <2>2, <3>1, <3>2, <3>3
  <2> QED BY <1>3, <2>1, <2>4, FormEdited DEF HandleNext, Back
<1>4. CASE SubmitOnboarding
  <2>1. Loaded /\ OnForm /\ form \in FormState
    BY <1>4 DEF SubmitOnboarding, Loaded, FormInv
  <2>2. CASE \A k \in DOMAIN StepFields : ValidStep(form.draft, k)
    <3>1. Complete(form.draft) /\ Submit
      BY <1>4, <2>2 DEF SubmitOnboarding, ValidStep, Complete
    <3> QED BY <2>1, <3>1, Submitted
  <2>3. CASE ~ \A k \in DOMAIN StepFields : ValidStep(form.draft, k)
    <3>1. form' = [form EXCEPT !.status = "invalid"] /\ UNCHANGED <<saves, stored, alone>>
      BY <1>4, <2>3 DEF SubmitOnboarding
    <3>2. form' \in FormState /\ form'.status = "invalid"
      BY <2>1, <3>1 DEF FormState
    <3> QED BY <2>1, <3>1, <3>2, FormEdited
  <2> QED BY <2>2, <2>3
<1>5. CASE SubmitProfile
  BY <1>5, Submitted DEF SubmitProfile
<1>6. CASE SaveServed
  BY <1>6, SaveCarried
<1>7. CASE SaveSettles
  BY <1>7, SaveSettled
<1> QED BY <1>1, <1>2, <1>3, <1>4, <1>5, <1>6, <1>7 DEF FormsNext

\* Opening and leaving a form: nobody waits for its saves any more.
LEMMA FormRouted ==
  ASSUME FormInv, NEW to, route' = to, FormRoute(to)
  PROVE  FormInv'
<1>1. /\ OnForm' = (to \in {"onboarding", "profile"})
      /\ form' = (IF to \in {"onboarding", "profile"} THEN NewForm ELSE None)
      /\ saves' = {[s EXCEPT !.awaited = FALSE] : s \in saves}
      /\ stored' = stored /\ alone' = alone
  BY DEF FormRoute, OnForm
<1>2. NewForm \in FormState /\ NewForm.status = "loading"
  <2>1. 1 \in 1..LastStep
    BY WebAssumption DEF LastStep
  <2> QED BY <2>1 DEF NewForm, FormState
<1>3. saves \subseteq Save
  BY DEF FormInv, SavesOK
<1>4. \A s \in saves : LET t == [s EXCEPT !.awaited = FALSE]
                       IN  t \in Save /\ ~t.awaited /\ t.draft = s.draft /\ t.at = s.at
  BY <1>3 DEF Save
<1>5. SavesOK'
  <2>1. saves' \subseteq Save /\ \A t \in saves' : ~t.awaited
    BY <1>1, <1>4
  <2>2. alone' => \A s, t \in saves' : s = t
    BY <1>1 DEF FormInv, SavesOK
  <2>3. ASSUME alone', NEW t \in saves', t.at = "served" PROVE t.draft = stored'
    <3>1. PICK s \in saves : t = [s EXCEPT !.awaited = FALSE]
      BY <1>1
    <3>2. t.draft = s.draft /\ s.at = "served"
      BY <1>4, <2>3, <3>1
    <3> QED BY <1>1, <2>3, <3>2 DEF FormInv, SavesOK
  <2>4. stored' \in Draft
    BY <1>1 DEF FormInv, SavesOK
  <2> QED BY <2>1, <2>2, <2>3, <2>4 DEF SavesOK
<1>6. ShowsSaved'
  BY <1>1, <1>2 DEF ShowsSaved
<1> QED BY <1>1, <1>2, <1>5, <1>6 DEF FormInv

(***************************************************************************)
(* The client.                                                             *)
(***************************************************************************)

\* The pages share the store and the route, and are each in order.
IInv == route \in tour /\ SignalInv /\ RateOK(limiter) /\ ChatInv /\ SafetyInv /\ ReportInv /\ MarksInv /\ FormInv

\* The client starts in order.
LEMMA InitInv == ASSUME Init PROVE IInv
<1>1. route = "overview" /\ route \in tour
  BY DEF Init, Tours, Offered
<1>2. SignalInv /\ SafetyInv /\ ReportInv
  BY <1>1 DEF Init, SignalInv, SafetyInv, ReportInv
<1>3. RateOK(limiter)
  <2> DEFINE none == [k \in 0..rateLimitWindow - 1 |-> 0]
  <2>1. rateLimitWindow \in Nat \ {0} /\ rateLimitMax \in Nat
    BY RateAssumption
  <2>2. limiter.age = 0 /\ limiter.count = 0 /\ limiter.passed = none
    BY DEF Init, IdleLimiter
  <2>3. none \in [0..rateLimitWindow - 1 -> Nat] /\ \A k \in 0..rateLimitWindow - 1 : none[k] = 0
    OBVIOUS
  <2> HIDE DEF none
  <2>4. limiter \in [age : 0..rateLimitWindow, count : Nat, passed : [0..rateLimitWindow - 1 -> Nat]]
    <3>1. limiter = [age |-> 0, count |-> 0, passed |-> none]
      BY DEF Init, IdleLimiter, none
    <3> QED BY <2>1, <2>3, <3>1
  <2> QED BY <2>1, <2>2, <2>3, <2>4 DEF RateOK
<1>4. ChatInv
  <2>1. [threads |-> Threads, sent |-> [p \in Peer |-> 0], blocked |-> {}] \in ServerState
    BY WebAssumption DEF ServerState
  <2> QED BY <1>1, <2>1 DEF Init, ChatInv
<1>5. MarksInv
  BY <1>1 DEF Init, MarksInv, NoMarks, MarkSets
<1>6. FormInv
  BY <1>1 DEF Init, FormInv, SavesOK, ShowsSaved, OnForm, Draft
<1> QED BY <1>1, <1>2, <1>3, <1>4, <1>5, <1>6 DEF IInv

\* The user goes from one page to another.
LEMMA NavigateInv == ASSUME IInv, Navigate PROVE IInv'
<1>1. PICK to \in tour \ {route}, p \in Peer \cup {None} :
        /\ route' = to
        /\ SignalRoute(to) /\ ChatRoute(to, p) /\ SafetyRoute(to, p)
        /\ MatchesRoute(to) /\ FormRoute(to)
        /\ UNCHANGED tour
  BY DEF Navigate
<1>2. route' \in tour' /\ to # route
  BY <1>1
<1>3. SignalInv' /\ RateOK(limiter)'
  <2>1. limiter' = limiter
    BY <1>1 DEF SignalRoute, UnmountSignal, signalVars
  <2>2. RateOK(limiter)'
    BY <2>1 DEF IInv, RateOK
  <2> QED BY <1>1, <1>2, <2>2, SignalRouted DEF IInv
<1>4. ChatInv'
  BY <1>1, <1>2, ChatRouted DEF IInv
<1>5. SafetyInv' /\ ReportInv'
  BY <1>1, <1>2, SafetyRouted DEF IInv
<1>6. MarksInv'
  BY <1>1, <1>2, MatchesRouted DEF IInv
<1>7. FormInv'
  BY <1>1, FormRouted DEF IInv
<1> QED BY <1>2, <1>3, <1>4, <1>5, <1>6, <1>7 DEF IInv

\* What a page does not touch stays in order.
LEMMA Untouched ==
  ASSUME IInv, UNCHANGED route
  PROVE  /\ UNCHANGED signalVars => SignalInv' /\ RateOK(limiter)'
         /\ UNCHANGED chatVars => ChatInv'
         /\ UNCHANGED safetyVars => SafetyInv' /\ ReportInv'
         /\ UNCHANGED matchesVars => MarksInv'
         /\ UNCHANGED formVars => FormInv'
<1>1. UNCHANGED signalVars => SignalInv' /\ RateOK(limiter)'
  BY DEF IInv, SignalInv, signalVars, RateOK
<1>2. UNCHANGED chatVars => ChatInv'
  BY DEF IInv, ChatInv, chatVars
<1>3. UNCHANGED safetyVars => SafetyInv' /\ ReportInv'
  BY DEF IInv, SafetyInv, ReportInv, safetyVars
<1>4. UNCHANGED matchesVars => MarksInv'
  BY DEF IInv, MarksInv, matchesVars
<1>5. UNCHANGED formVars => FormInv'
  BY DEF IInv, FormInv, SavesOK, ShowsSaved, OnForm, formVars
<1> QED BY <1>1, <1>2, <1>3, <1>4, <1>5

\* Every step keeps the pages in order.
LEMMA NextInv == ASSUME IInv, [Next]_vars PROVE IInv'
<1>1. CASE Navigate
  BY <1>1, NavigateInv
<1>2. CASE InSignal
  <2>1. RateOK(limiter')
    BY <1>2, SignalRates DEF InSignal, IInv
  <2>2. SignalInv'
    BY <1>2, SignalSteps DEF InSignal, Stays, IInv
  <2> QED BY <1>2, <2>1, <2>2, Untouched DEF InSignal, Stays, IInv
<1>3. CASE InChat
  BY <1>3, Untouched, ChatSteps DEF InChat, Stays, IInv
<1>4. CASE InSafety
  BY <1>4, Untouched, SafetySteps DEF InSafety, Stays, IInv
<1>5. CASE InMatches
  BY <1>5, Untouched, MatchesSteps DEF InMatches, Stays, IInv
<1>6. CASE InForms
  BY <1>6, Untouched, FormsSteps DEF InForms, Stays, IInv
<1>7. CASE UNCHANGED vars
  BY <1>7, Untouched DEF vars, IInv
<1> QED BY <1>1, <1>2, <1>3, <1>4, <1>5, <1>6, <1>7 DEF Next

\* Every page is in order, whatever was done on all of them.
THEOREM Invariance == Spec => []IInv
<1>1. Init => IInv
  BY InitInv
<1>2. IInv /\ [Next]_vars => IInv'
  BY NextInv
<1> QED BY <1>1, <1>2, PTL DEF Spec

\* One page is mounted, with a state of the shape its code gives it, and no
\* other page keeps any (App.tsx 14-40).
THEOREM WebTypeCorrect == Spec => []WebTypeOK
<1>1. IInv => WebTypeOK
  <2> SUFFICES ASSUME IInv PROVE WebTypeOK
    OBVIOUS
  <2>1. /\ IF route = "signal" THEN signal \in SignalState ELSE signal = None
        /\ call \in Reviewing \cup {None} /\ (call # None => route = "signal")
    BY DEF IInv, SignalInv, ReviewOK
  <2>2. IF route = "chat" THEN chat \in ChatState ELSE chat = None /\ calls = <<>>
    BY DEF IInv, ChatInv, ThreadOK, ListOK
  <2>3. IF route = "safety" THEN safety \in SafetyState ELSE safety = None
    BY DEF IInv, SafetyInv, FormOK
  <2>4. /\ IF route = "matches" THEN matches \in MatchesState ELSE matches = None
        /\ storage \in MarkSets /\ marks \in MarkSets
    BY DEF IInv, MarksInv
  <2>5. (IF OnForm THEN form \in FormState ELSE form = None) /\ stored \in Draft
    BY DEF IInv, FormInv, SavesOK
  <2> QED BY <2>1, <2>2, <2>3, <2>4, <2>5 DEF IInv, WebTypeOK
<1> QED BY <1>1, Invariance, PTL

\* The fixture page shows a result for what is selected, waits for one that is
\* asked for what is selected, and asks only for what the API's schema allows
\* (SignalReviewPage.tsx 25-58, signalReviewModel.ts 96-185).
THEOREM ReviewShownAsSelected == Spec => []ShownAsSelected
<1>1. IInv /\ WebTypeOK => ShownAsSelected
  BY DEF IInv, SignalInv, ReviewOK, ShownAsSelected
<1> QED BY <1>1, Invariance, WebTypeCorrect, PTL

\* The fixed window of the rate limit lets twice its maximum pass in the time of
\* one window, and never more (v2-signal-analysis.ts 22-35).
THEOREM TwiceTheRateAtMost == Spec => []RateHolds
<1>1. IInv => RateHolds
  <2> SUFFICES ASSUME RateOK(limiter) PROVE RateHolds
    BY DEF IInv
  <2> DEFINE k == rateLimitWindow - 1
  <2>1. /\ rateLimitWindow \in Nat \ {0} /\ rateLimitMax \in Nat /\ k \in 0..k
        /\ limiter.age \in 0..rateLimitWindow /\ limiter.passed \in [0..k -> Nat]
    BY RateAssumption DEF RateOK
  <2>2. CASE limiter.age = rateLimitWindow
    BY <2>1, <2>2 DEF RateOK, RateHolds
  <2>3. CASE limiter.age # rateLimitWindow
    <3>1. limiter.age \in 0..limiter.age /\ k \in limiter.age..k /\ limiter.age \in 0..k
      BY <2>1, <2>3
    <3>2. /\ limiter.passed[limiter.age] <= rateLimitMax
          /\ limiter.passed[k] <= limiter.passed[limiter.age] + rateLimitMax
      BY <2>3, <3>1 DEF RateOK
    <3>3. limiter.passed[k] \in Nat /\ limiter.passed[limiter.age] \in Nat
      BY <2>1, <3>1
    <3> QED BY <2>1, <3>2, <3>3 DEF RateHolds
  <2> QED BY <2>2, <2>3
<1> QED BY <1>1, Invariance, PTL

\* The chat page at rest shows the thread selected, and all of it, if its
\* requests were answered in their order (ChatPage.tsx 31-130).
THEOREM SelectedThreadShown == Spec => []ThreadShown
<1>1. IInv => ThreadShown
  <2> SUFFICES ASSUME IInv, route = "chat"
               PROVE  /\ chat.selected = None \/ chat.selected \in Range(chat.list)
                      /\ chat.order /\ calls = <<>> =>
                           /\ chat.messages # None => chat.messages.of = chat.selected
                           /\ chat.whole /\ chat.selected # None =>
                                chat.messages = [of |-> chat.selected, count |-> server.sent[chat.selected]]
    BY DEF ThreadShown
  <2>1. ThreadOK(chat, calls, server)
    BY DEF IInv, ChatInv
  <2>2. calls = <<>> => DOMAIN calls = {}
    OBVIOUS
  <2> QED BY <2>1, <2>2 DEF ThreadOK, ListOK, ThreadAsked, ThreadCurrent
<1> QED BY <1>1, Invariance, PTL

\* Whatever the order of the answers, the thread a match's link opens is selected
\* in the end and stays so until the user acts on another one or the first list
\* arrives after the link's; and a report names a conversation with the person
\* it is about, unless the user filled one in or changed the person over one
\* (ChatPage.tsx 31-50, 68-86; SafetyPage.tsx 58-61, 120-127, 233-246).
THEOREM LinksOpenTheirOwn == Spec => []LinksKept
<1>1. IInv => LinksKept
  <2> SUFFICES ASSUME IInv PROVE LinksKept
    OBVIOUS
  <2>1. route = "chat" => LinkOpens(chat, calls)
    BY DEF IInv, ChatInv, ThreadOK
  <2> QED BY <2>1 DEF IInv, ReportInv, LinkOpens, LinksKept
<1> QED BY <1>1, Invariance, PTL

\* What the user left with the client is kept: marks on matches across visits,
\* and a form that says "saved" shows what is stored (MatchesPage.tsx 30-43,
\* 72-84; OnboardingPage.tsx 482-508; ProfilePage.tsx 169-187).
THEOREM LeftIsKept == Spec => []KeptAsShown
<1>1. IInv => KeptAsShown
  <2> SUFFICES ASSUME IInv PROVE KeptAsShown
    OBVIOUS
  <2>1. ~cut /\ (route = "matches" => matches.restoring = None) => storage = marks
    BY DEF IInv, MarksInv
  <2>2. form # None => OnForm
    BY DEF IInv, FormInv
  <2> QED BY <2>1, <2>2 DEF IInv, FormInv, ShowsSaved, Complete, KeptAsShown
<1> QED BY <1>1, Invariance, PTL
=============================================================================
