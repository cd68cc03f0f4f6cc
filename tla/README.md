# A TLA+ model of Clarity's private review, text pipeline, web client and local store

This directory holds TLA+ modules for the parts of the Clarity repository whose
correctness depends on order, or on an algorithm that a few examples do not settle:
the T1 private draft review (web page, Fastify API, private Python service), the
minimisation of a text and the cue rules behind it, the pages of the web client, and
the MVP's JSON document store. TLC checks them on small instances; TLAPS proves the
main properties of the two session stores, of the protocol over them, of the draft
page, of the other pages of the web client, of the document store and of the text
pipeline, from the merge of identifier spans to the choice of cues, for every value
of their constants. Paths below are relative to the repository; line numbers of
every definition are in `PROJECT.json` under "map".

## 1. Inventory

| Part | Sources | State it keeps | Hard behaviour |
|---|---|---|---|
| T1 session store | `apps/api/src/services/signal/t1-session-store.ts` | two Maps (sessions by token hash, token hash by subject), tombstones, a byte counter, one timer, an AbortController per record | six operations that all sweep, displace and re-arm by hand; two clocks; limits counted before a displacement |
| T1 private review routes | `apps/api/src/routes/v2-user-draft-analysis.ts`, `services/signal/t1-{auth,consent,admission}.ts` | a consent record per subject, a withdrawal revision, a rate-limit window, the handlers' own local variables | five to seven awaits per handler, each of which lets a withdrawal, a replacement, a clear, an expiry or another request in; cleanup of both stores in `finally` |
| T1 private session store | `services/signal-engine/communication_signal_engine/t1_sessions.py` | available and leased dicts, a byte counter, a `threading.Timer` and the revocation event of each session | timer threads that wait for the lock while others re-arm; analyses that run outside the lock |
| T1 private protocol | `communication_signal_engine/t1_protocol.py`, `app/routes/v2_analysis.py` | none of its own | lease, check, analyse, check, finish; refusals at each step |
| T1 review page | `apps/web/src/pages/T1UserDraftReviewPage.tsx`, `t1UserDraftReviewModel.ts`, `lib/t1UserDraftApi.ts` | a reducer's state, three refs, an expiry timer | late answers, aborted fetches, an edit between a dispatch and its render, leaving the page |
| Identifier minimisation | `privacy/{redaction,patterns,receipts}.py` | none | spans of several detectors that overlap, nest or fall outside the text; replacement offsets; what the replacement leaves to be found |
| Cue engine and orchestrator | `cues/*.py`, `orchestrator.py`, `contracts.py` | none | rules over words, questions and quotations; selection by priority and conflicts; checks that refuse the engine's own result |
| Privacy admission, language policy | `privacy/admission.py`, `language_policy.py` | none | which fixture, segment and language may be analysed |
| Synthetic v1 adapter | `routes/v2-signal-analysis.ts`, `services/signal/fixtures.ts` | a rate-limit window | one timer over headers and body; a fixed window over a clock |
| Signal review page | `SignalReviewPage.tsx`, `signalReviewModel.ts` | a reducer's state, a request number | answers for an earlier selection, a send while one is under way, leaving |
| Chat page | `ChatPage.tsx`, `lib/api.ts` | conversations, one thread, a draft | requests that are neither numbered nor aborted; a link that opens a thread |
| Form pages | `OnboardingPage.tsx`, `ProfilePage.tsx`, `SafetyPage.tsx`, `MatchesPage.tsx` | a draft; marks in the browser's storage | lists that arrive after the user has chosen; edits and saves under way at once; effects that write what they have not yet read |
| Routes and layout | `App.tsx`, `AppShell.tsx`, `LandingPage.tsx` | the route | which pages a build has, links with parameters |
| MVP document store and routes | `apps/api/src/lib/{store,seeds,profiles}.ts`, `routes/{conversations,safety,profiles,onboarding,waitlist,matches,admin}.ts` | one JSON file | read, await, write of the whole document, in every handler; truncation before the write; a read error taken for absence |
| Moderation and matching | `apps/api/src/services/{moderation,matching}.ts` | none | only who may be shown to whom is in a property |
| Profile heuristics | `apps/api/src/services/ai/*.ts` | none | pure wording |
| Signal settings and gates | `services/signal/settings.ts`, `app.ts`, `server.ts`, Python `app/settings.py` | the environment | fail-closed combinations of flags |
| Managed audio intake | `audio/*.py` | temporary files | deletion on every path; reachable from no route |
| Semantic loader, benchmarks, shared contracts, command wrapper, governance scripts | `semantic/*.py`, `privacy/benchmark.py`, `packages/shared`, `scripts/` | caches, child processes | start-up checks |

How they interact. The draft page sends prepare, continue and clear to the API and
never talks to Python. A prepare invalidates whatever review its subject had,
asks the Python service to minimise the draft and hold it under a private nonce,
and stores a session that binds the nonce to the subject, the consent record and
the admission snapshot; its random token goes back to the page. A continue claims
the session by that token, has Python lease and analyse the text, looks again at
everything that may have changed, and consumes the session in `finally`. A
withdrawal of consent reaches the API through a synchronous listener that
invalidates the subject's session; an invalidation, a replacement and an expiry
fire the session's AbortController, which a continue in flight sees. Clears of
Python sessions are sent and forgotten. What Python does with one text between
those steps is the text pipeline, which the v1 adapter enters with a tracked
fixture instead of a draft. The other pages of the client call the MVP routes and
hand each other what a link names; those routes share nothing with the signal
routes but the process: they meet in the JSON file.

What makes each part correct, in short:

- session store: one review per subject, limits that hold through replacement, a
  token that opens once, a timer for whatever is left, the nonce handed back to
  whoever ends a session;
- routes: nothing released after a withdrawal, no review and no private text
  without an owner, an answer to every request;
- Python store: one analysis per nonce, a result only while the lease is held,
  every text forgotten;
- text pipeline: every identifier found is replaced and nothing else is; no text
  with a residual is shown or analysed, and the receipt is about the text shown; the
  cues are the strongest ones, and none rests on quoted wording;
- pages: what a page holds or shows belongs to what is selected on it; a link opens
  what it names; what the user left with the client is kept;
- document store: a document that is some handler's whole document, a block that
  holds.

## 2. Modules

| Module | Models | Uses |
|---|---|---|
| `T1Nonces` | the private nonces, which both stores share | |
| `T1SessionOps` | the methods of `T1EphemeralSessionStore` as operators | extends `T1Nonces` |
| `T1SessionStore` | the store as a state machine, with its timer, its clock and a record that is corrupted | extends `T1SessionOps` |
| `ReviewTokens` | what the store promises of tokens: one open token per subject, and none opens twice | |
| `T1PythonOps`, `T1PythonStore` | the Python store's critical sections as operators; workers and timer threads around them | the operators extend `T1Nonces` |
| `T1Protocol` | the handlers of the API over both stores, consent, admission and a network | extends `T1SessionOps` and `T1PythonOps` |
| `T1ReviewPage` | reducer, refs, timer, React's renders, the calls in flight and an API that answers them | |
| `SpanMerge` | order, merge step and replacement of identifier spans | |
| `TextOps` | patterns, normalisation, segments, language tags, residuals, receipt | extends `SpanMerge` |
| `CueOps` | the cue rules, quotations, selection | extends `TextOps` |
| `TextPipeline` | one text from its arrival to the response, of a draft or of a fixture | extends `CueOps` |
| `WebRoutes` | routes of a build, the mounted page | |
| `SignalReview` | the fixture page, its request, the v1 adapter and its rate limit | extends `WebRoutes` |
| `ChatPage`, `SafetyPage`, `MatchesPage` | the pages that share conversations, blocks and links | each extends the one before |
| `ProfileForms` | onboarding and profile | extends `WebRoutes` |
| `WebClient` | navigation over all of these; its properties | extends them |
| `LocalStore` | the document, its file and the handlers that rewrite it | |
| `T1Stores_proofs` | what each operation of the two stores does to a store: lemmas only | extends both `Ops` modules |
| the other `*_proofs` | the theorems (section 5) | extend the module they are about; the T1 ones also `T1Stores_proofs` |

Each state machine has an `MC` module that extends it for TLC, with the symmetry
sets and the values a configuration cannot spell. Definitions marked *Faulty* in
a comment are plausible bugs of the definition that follows them; no action uses
them. They are there to show that each property can fail (section 6).

### T1SessionStore

`store` is the object: `sessions` and `active` are the Maps `sessions` and
`activeBySubject`, `tombstones` the third Map, `total` is
`totalMinimizedTextBytes`, `timer` the reading the one `expiryTimer` is due at,
`aborted` the tokens whose AbortController has fired.
A token stands for the random token and its keyed hash; the integrity HMAC is the
flag `intact`, which `Corrupt` clears. Each public method is an action, because
each is synchronous. What a method does first, a sweep, and last, a re-arm of the
timer, is part of its operator; the one path that removes without re-arming (a
claim that finds the seal broken) is kept as it is. `remaining` is `expiresAtMs`
minus the wall clock, an input: it may be 0, inside or far beyond the TTL,
whatever the monotonic clock says. A Node timer may fire `EarlyBy` too soon.

### T1PythonStore

Every method that takes the lock is one step, and so is a timer callback once it
has the lock; between a timer's start and that step others run (`waiting`).
`strays` are timers that were started and lost their place in `_timer`: two of
them with the same deadline are one element, which differs only in how often an
idempotent purge runs. An analysis is a worker between `BeginReview` and
`FinishReview`; its last revocation check reads an event without the lock. The
intermediate checks that pass change nothing and are left out; one that fails is
`RefuseReview`.

### T1Protocol

A handler is a record `req[r]` whose field `at` names the await it waits on. It is
cut at each await another actor can use: the consent reads, the private call's
headers, the reading of the body. The awaits of best-effort clears and of the
admission state are merged with the step that follows. That is sound because between
the two the handler neither reads nor writes anything shared. `prepare_call` and
`continue_call` end with headers, and from then on the handler has no timer and no
abort listener, as in `callPrivate`. `net` is a set of messages: any order; with
`Lossy`, also loss, abandoned calls that still arrive, expiry in either store and a
restart of Python. On any network the body of an answer may be refused: it breaks
off, fails the schema, or names another admission snapshot. Prepare then answers 503
before it has taken note of the nonce; `unaccepted`, a history variable, keeps the
nonces it forgot in this way. And the Python service may refuse a call before it
leases, or after, when the snapshots differ. Time is abstracted to "may expire now":
the clocks are the two store modules' subject. `epoch` and `origin` are history
variables that record which withdrawals came after a review's prepare began;
`revision` is the code's own counter, one for all subjects.

### T1ReviewPage

React applies a dispatch to the reducer at the next render, while the handlers of
the user's events close over the state of the last one. `page` is the state with
every dispatch applied, `view` the one last rendered. A user's event applies to
both, since React renders what it dispatches before the next event. What answers and
the timer dispatch is in React 18's default lane, which waits behind such events: it
applies to `page`, and `Render` catches up at any time. Any number of events may
come before it, each made on a `view` that does not know it. `behind`, a history
variable, says that the last preview was asked for on a view that was not the page
as it was. Such requests are what makes this page hard: the call goes out with what
the view shows, and the reducer may refuse it, because an expiry has taken the
confirmation away. Support view and language are one `choice`. An aborted fetch
never settles with an answer. An answer whose body was read settles in the order in
which it arrived.

### SpanMerge, TextOps, CueOps, TextPipeline

A text is a sequence of cells; a cell stands for a word, a mark, a blank, an inline
language tag or a piece of an identifier, and a placeholder is one cell, its label.
An expression of `patterns.py` is a record: the cells it may not stand behind or
before (its look-arounds and word boundaries), what leads up to the group, and the
forms the group may have. Matches are those of `finditer`: from left to right, the
longest form first, none inside the last one; so a match may be hidden by another
and appear when that one is replaced. The residual expressions are such records too,
and search the text with its placeholders deleted, whose sides then touch
(`Surface`). NFKC is the function `Fold` on the cells it changes. Positions are
Python's, and a slice past the end of a text is cut short as Python cuts it. What a
test detector returns for a segment is any set of spans out of `Detected`, misplaced
and overlong ones included. `_merge`'s loop is one step per span (`MergeOne`), since
its state between two turns is what the invariant is about. A v1 text enters by
`Attest`, a T1 text by the detector; T1's preview waits in `prepared` for the user.
The cue registry is a table of definitions with their rules, preconditions and
priorities; the rules themselves are `CueOps`'s. Quotations are found as
`QUOTED.sub` finds them: three kinds of marks, none within another quotation or
across a line, and a contraction's apostrophe ends one like any other. Offsets of a
cue count characters: a placeholder is as wide as its label.

### WebRoutes, SignalReview, ChatPage, SafetyPage, MatchesPage, ProfileForms, WebClient

One page is mounted at a time and `None` stands for a page that is not. A page's
variable holds what its `useState` and refs hold; a handler is one action up to
its request, and the answer to the request is another. Every event is rendered
before the next. Calls of the chat page are a list, because nothing but their
order of sending distinguishes them, and any of them may be answered next: then
the answer is applied to what the page shows by then, as the code does. An unmounted
page's answers are dropped (`cancelled`, or React ignores them), but the writes it
sent still reach the API (`writes`). History variables say on which terms a page
owes something: `order` (its calls were answered in their order), `whole` (none
failed and nobody else wrote), `opened` (the peer a link named, until the user
selects another thread or writes into one, the first list is answered after the
link's own, or the link's call fails), `mixed` (the user brought a person
and a conversation together), `cut` (a page was left before it had restored the
marks) and `alone` (one save at a time). The draft page is a route here and a
specification of its own, `T1ReviewPage`.

### LocalStore

`file` holds a whole document or one that does not parse. A handler goes through
`ensure`, `read`, `open` (truncate) and `write`; what it computes in between is
merged with the read. A write over a longer document that another handler has
written since the truncation leaves that document's end behind. Lengths are
numbers of records. `blocks` and `kept` are history: what was answered with 201.
`calm` is history too: it turns false when two requests overlap or when a fault
costs the file. `Reads ... "profile"` covers PUT /profiles, `"onboarding"` POST
/onboarding, and so on; read-only listings other than matches are left out.
`Document` says what the types of a file promise; the seed bundle is assumed to be
such a document (`SeedAssumption`), which TLC evaluates for the bundle it is given.

## 3. Runs

Between them the passing runs of a module fire each of its actions and each
disjunct of its next-state relation. Sizes are distinct states.

| Run | Instance | What it shows |
|---|---|---|
| `session_store` | 3 subjects, 3 tokens, 2 sessions, 3 bytes, TTL 2, clock 0..3; symmetric; 40k | `OneReviewPerSubject`, `WithinCapacity`, `AbortMeansRemoved`, `TimerCovers`; `NeverExtended` (no wall clock prolongs a session), `OnlyOwnerEndsReview` (no eviction by others, no loss by a refused create), `EndedNonceHandedBack`; `ImplementsReviewTokens` (refinement) |
| `session_expiry` | 2 subjects, 2 tokens, no symmetry; 9k | `EverySessionEnds` with no request at all |
| `python_store` | 3 nonces, 2 workers, 2 sessions, 3 bytes, TTL 2, clock 0..3, no symmetry; 71k | `TextWithinLimits`, `ExpiryCovered`, `LeasedOnce`, `PassedMeansHeld`; and `EveryTextForgotten`, also under an analysis that hangs |
| `protocol` | 1 subject, 2 requests, 2 tokens, 2 nonces, 1 withdrawal, a lossless network; 336k | `ExclusiveContinue`, `NoOrphanText` |
| `protocol_lossy` | 2 subjects, 2 requests, 1 token, 1 nonce, loss, expiry and restarts; 641k | `NoOrphanReview`, `NoReleaseAfterWithdrawal` |
| `protocol_answers` | 1 request, 2 consent versions, 2 withdrawals; 58k | `EveryRequestAnswered`, if bodies end |
| `protocol_stalled_body` | the same without that assumption | a violation: see finding 1 |
| `review_page` | 3 tokens, 2 choices, 8 events of the user, any number of them before a render; 275k | `HoldsWhatItShows`, `NoTokenForgotten`, `ShownForChoice`, `RestsUntilTheUserActs`; `TokenLetGo` and `BusyEnds` |
| `review_page_clear` | 2 tokens, 1 choice | a violation: see finding 2 |
| `text_pipeline` | every text of up to 3 or 4 cells over six alphabets (identifiers with names, folding and tags; pieces of identifiers that stand against one another; typed placeholders; the marks and markers of the rules; quotations of three kinds), a few of 5, and with them every detector answer; 92k | `MergeSound` at each turn of the loop, `RedactsExactly`, `OnlyMinimised`, `CuesWellChosen`, `QuotesDoNotCount` |
| `web_client` | 2 peers, 3 fixtures, 2 profiles, 2 fields of 2 values, window 3 with 2 requests; 478k | `ShownAsSelected`, `RateHolds`, `ThreadShown`, `LinksKept`, `KeptAsShown`; `LoadingEnds` |
| `local_store` | 3 users, 2 requests of any kind, crashes, failing reads; symmetric; 145k | `FileConsistent` under all of that; `AcknowledgedKept` and `CalmBlockRespected` while requests wait for one another and no fault costs the file |

Why the bounds are enough. A limit is met by one actor more than it admits, so
three subjects (or nonces) against two sessions, and texts of one and two bytes
against three, reach both limits of either store in both orders. The TTL is two
ticks: one session may be half way when another starts, and the clock runs past
the last creation by a tick at least, with no creation that could not expire. Two
requests in flight are what an interleaving needs; a third adds no new pair, and
the states a handler shares with others are the two stores, consent and admission.
Two tokens let a review be replaced once, and a token is never drawn again; under
loss there is one token, and with it one review, which either subject may have; the
displacement of a review by its owner's next one is left to `protocol` and the proof. A
withdrawal and a new grant with the same version is the case that the withdrawal
revision is there for, and one withdrawal gives it. On the draft page, three
tokens and eight events are a review that is prepared, continued or abandoned,
then another while answers for the first are still out. In the document store, two
requests give each pair of handlers and all the orders of their awaits; block then
message, block then conversation, block then matches are pairs.

In a text, three or four cells let two patterns and a detector's span overlap, nest,
touch or stay apart, with a replacement before and after. Among them are a postcode
that is one only when the handle before it is replaced, and digits that become a
telephone number when the placeholder between them goes, or across two segments. A
quotation needs its two marks, what is in it and a word outside; two that cross,
four marks. The thresholds of the rules are scaled down with the texts, so that each
is met and missed. Everything about the merge for longer texts is in the proof.

In the web client, two peers are one that a link names and one that the user
selects; `MaxCalls` 2 is an answer that overtakes another, and `MaxSent` 1 a
message that is or is not in a thread. A tour is a set of pages that share
something, and a visit keeps to one; pages of different tours have nothing in
common but the route. Further bounds there: marks on matches are made in the tours
without the chat, one report is under way at a time, two saves at a time, and the
fixture page is left only while the limiter is idle. The clock of the rate limit
only goes forward: a wall clock that is set back opens no window before its time,
it lengthens the one it is in.

Bounded by guards: `MaxTime`, `PyMaxTime`, `MaxVersion`, `MaxRevision`
(withdrawals; on the page, events of the user), `MaxCalls`, `MaxSent`,
`MaxSaves`. The draft page's runs set CHECK_DEADLOCK FALSE: when the page is left
and every call has settled, or when its events are used up, nothing is left to
happen. All other runs check deadlock.

## 4. Fairness

- Session store: time passes (`Tick`), and Node gets round to a due timer
  (`TimerFire`). No request is assumed.
- Python store: time passes, a due `threading.Timer` starts its thread, and the
  thread gets the lock. Workers are not fair: an analysis may hang.
- Protocol: Fastify resumes a handler whose promise is settled; a call that waits
  for headers ends by its timeout or its signal; the Python service serves what
  reaches it. Guards are written out where ENABLED would have TLC carry out a
  whole store operation to learn that it can. `BodiesEnd` (a body that began
  arrives or fails) is a separate conjunct, because no code sees to it.
- Draft page: the browser renders, runs the timer and settles what has arrived.
  `BusyEnds` has its further assumption (calls are answered or fail) as its
  premise; `TokenLetGo` does without.
- Web client: the API receives what was sent, the adapter's timer fires, and the
  browser settles what was answered (`Receive`, `Timeout`, `Settle`). The private
  service is not fair: it may never answer, and a body may begin and never end.
- Document store and text pipeline: no liveness is stated. In the first nothing
  waits for another request; the second is a bounded sequence of calls.

## 5. Proofs

The theorems hold for any number of subjects, tokens, nonces, workers, requests,
users and peers and for any limits, under the assumptions on constants that the modules
name; TLC evaluates those on each run. Sets of users and tokens may be infinite;
what is stored is finite by proof.

| Module | Theorems | Property |
|---|---|---|
| `T1SessionStore_proofs` | `TypeCorrect`, `SingleReview`, `CapacityHolds`, `AbortIsRemoval`, `TimerSuffices` | `TypeOK`, `OneReviewPerSubject`, `WithinCapacity`, `AbortMeansRemoved`, `TimerCovers` |
| | `NothingExtends`, `OnlyOwnerEnds`, `NonceHandedBack`, `TokensRefined` | `NeverExtended`, `OnlyOwnerEndsReview`, `EndedNonceHandedBack`, `ImplementsReviewTokens` |
| `T1PythonStore_proofs` | `LimitsHold`, `ExpiryAlwaysCovered`, `OneLease`, `PassesOnlyWhatIsHeld` | `TextWithinLimits`, `ExpiryCovered`, `LeasedOnce`, `PassedMeansHeld` |
| `T1Protocol_proofs` | `TypeCorrect`, `ContinueIsExclusive`, `NoReviewOrphaned`, `WithdrawalStopsRelease`, `NoTextOrphaned` | `TypeOK`, `ExclusiveContinue`, `NoOrphanReview`, `NoReleaseAfterWithdrawal`, `NoOrphanText` (the last assumes `~Lossy`) |
| `TextPipeline_proofs` | `MergeIsSound`, `ReplacementIsExact`, `ShownTextIsMinimised`, `CuesAreWellChosen`, `QuotedWordingIgnored` | `MergeSound`, `RedactsExactly`, `OnlyMinimised`, `CuesWellChosen`, `QuotesDoNotCount` |
| `T1ReviewPage_proofs` | `TokenIsShown`, `EveryTokenAccountedFor`, `NothingStaleShown`, `RestIsUndisturbed` | `HoldsWhatItShows`, `NoTokenForgotten`, `ShownForChoice`, `RestsUntilTheUserActs` |
| `WebClient_proofs` | `WebTypeCorrect`, `ReviewShownAsSelected`, `TwiceTheRateAtMost`, `SelectedThreadShown`, `LinksOpenTheirOwn`, `LeftIsKept` | `WebTypeOK`, `ShownAsSelected`, `RateHolds`, `ThreadShown`, `LinksKept`, `KeptAsShown` |
| `LocalStore_proofs` | `EveryDocumentConsistent`, `NothingAcknowledgedIsLost`, `BlocksRespected` | `FileConsistent`, `AcknowledgedKept`, `CalmBlockRespected` |

### Session store

Assumed are `LimitsAssumption` (the constructor's range checks; `null` is not a
nonce) and `InputsAssumption` (inputs are integers).

Each invariant alone is not inductive. `WithinCapacity` after a
replacement needs the pointer of `active` to name a session that exists, or the
count before would be off by one; that is `OneReviewPerSubject`. The byte counter
is subtracted from with a clamp at zero, so that its equality with what is stored
needs `BytesAccounted` before the step, and the lemma that bytes of disjoint sets
add up. `TimerCovers` is disturbed by one path only: a claim that finds the seal broken
removes a session, writes a tombstone, and does not re-arm. The timer in place is
no later than the other deadlines, but the new tombstone is a deadline too, one
TTL from now. So the invariant carries `DeadlinesNear`: no deadline is more than
one TTL away, and therefore the armed timer, which covers the removed session's
own deadline, is not later than the tombstone. The conjunction is `Settled` (shape,
finiteness, the two Maps, bytes, limits, aborts, near deadlines), with the timer
it is `Ready`, and `IInv` adds the clock and the history.

The lemmas follow the code: what `removeByHash` leaves (`RemoveAllFields`,
`RemoveAllSettled`, `RemoveAllArmed`), what re-arming and sweeping give
(`ScheduleExpirySettled`, `SweepReady`), one lemma per public method, then
`StepIInv` with one step per action.

The action properties and the refinement need more than the invariant of one
state. `T1SessionStore_proofs` shows first that each step is one of four kinds
(`StepKinds`): it *ends* sessions of those that are live, each of them rightly; it
*claims* one, for the first time; it *issues* one; or it *stays*, while time passes
or a seal breaks. Everything else follows from the kinds: that deadlines are fixed
when a session is issued, that a live session ends by its owner, by the analysis
that holds its token, or at shutdown, that its nonce is in the reply of whoever
ends it; and, with the invariant `GrantsTrue` (the history of grants agrees with
the records' `claimed`), that each step maps to a step or a stutter of `ReviewTokens`.

### Python store

`PySettled` is the shape of the two dicts and of what is due, with leases that
exclude one another, finiteness, the byte counter and the limits; `PyReady` adds
`PyTimerArmed`. Each critical section keeps it (`Keeps`), whatever was started or
left waiting before, and says what it adds (`Grows`) or leases (`Leases`). The
invariant of a run adds two facts about history and threads: a nonce is leased
only if it was created, and once (`LeasesCounted`); a worker whose check may pass
has a lease in the store or an event that is set (`JobsTracked`). The byte counter of
this store has no clamp: that it never goes below zero is part of what is proved,
under a lease that is revoked and finished in either order. That a
set of naturals has a least element, which both stores' timers rest on, is
`MinOfNaturals` of `T1Stores_proofs`.

### Protocol

The protocol's operations on a store are the stores' own operators at time 0, so
its proofs begin with the lemmas of `T1Stores_proofs` and never open an operator:
one lemma per operation (`Consumed`, `Cleared`, `Invalidated`, `ClaimedOnce`,
`CreatedOnce`) says which reviews are left and what a caller is told. Nothing is
assumed of the number of subjects, requests, tokens or nonces, of the limits, or
of the network: all but `NoTextOrphaned` hold with loss, expiry and restarts.

The invariant `IInv` joins six parts, of which none is inductive alone.

- `Typed`: both stores are as their own proofs have them (`Settled`,
  `PySettled`), a token whose signal has not fired since it was issued is stored.
- `RequestsSound`: a prepare request whose captured revision still is the current
  one began in its subject's present epoch; and if it has since read an active
  consent, that consent is active now. The revision counts everybody's
  withdrawals, so it is compared, not the epoch: an equal revision means that no
  epoch moved. This is why a grant with an equal version deceives nobody.
- `PreparedAlone`: the token that a prepare request holds is its own, carries its
  subject and epoch as origin, and is not known to anyone.
- `ClaimedAlone`: a token that a continue request works on was given to its
  subject, is worked on by no other, and if the review is stored still, its record
  says that it is claimed, so no second claim succeeds.
- `StoredSound`: a stored review has an active consent and belongs to its
  subject's present epoch, for a withdrawal takes all the subject's reviews in the
  step that ends the epoch; and nothing of it has been released.
- `NoOrphanReview`, the property itself.

`NoReleaseAfterWithdrawal` then follows by cases. A token goes out in
`PrepareRelease`, after the revision was compared: `RequestsSound`. An analysis
goes out in `ContinueRelease`, if the signal has not fired: the review is stored
still, hence `StoredSound`. No comparison of consent records is needed in the
second case; the check on the record read last is a second line of defence.
`Moves` lists what a step of one request may do to itself, the store, `known` and
`released`, and `MoveStep` shows once that such a step keeps `IInv`; what remains
for each handler step is that it moves in this way.

`NoOrphanText` needs a second invariant, `TextInv`, on top of `IInv`. `Accounted`:
for each request one thing at most is pending (a call that is awaited, an analysis
that will be answered, or the answer), and none unless the request is at a
call; so an answer is never given twice, and none comes for a request that has
gone on. `NoncesAgree`: a continue request carries the nonce of the
review it works on, so that what it clears in `finally` is that review's text.
`TextMoves`, `AmbientMoves` and `Serves` are the kinds of steps: a request's,
nobody's, and the Python service's. Left out are the texts in
`unaccepted`: the handler refuses the answer of a prepare before it stores the nonce
(lines 228-231), so that nobody can clear the text, and only the Python store's
deadline ends it. With a lossy network the property is false, and has to
be: clears are sent once, and what is lost stays until the Python store forgets it
(`EveryTextForgotten`).

### Draft page

Assumed is `PageAssumption`: `None` is no token and no preview, and the default
choice is a choice. Any number of requests may be in flight, and any number of
events may come before a render. The invariant `IInv` says that all calls are
aborted but the last (`OneCurrent`), and that this one, if it has arrived, is the
last that has (`InOrder`). What its answer meets is `Awaited`: a page that waits for
a preparation shows that it does, and holds no token; a page that waits for an
analysis shows the preview whose token it holds; unless the reducer refused the
request, because the user made it on an older render and the review had expired by
then. A refused continuation changes nothing. A refused preparation (`Refused`: the
page is an unconfirmed draft whose revision is behind the request's) leaves the ref
with a token that the page does not show. That is the one exception of
`HoldsWhatItShows`, and it lasts until the next edit, submit or clear, or until the
page is left; TLC finds the order (an expiry, an edit and a submit before its
render) if the exception is dropped. `ShownForChoice` is about previews that were
asked for on the page as it was, for the same reason: between an edit, the
confirmation taken away and given again, and a submit, all before the render of an
expiry, the reducer takes the preview for another choice. `NothingToLose` is about
the line that empties `activeTokenRef` for any answer, late ones too: an aborted
analysis can arrive before another preparation only, so that the ref is empty
already. `Lagging` says what the user may see of a page that has moved on. One lemma
per reducer action and one per handler make up `StepIInv`.

### Web client

Assumed are `WebAssumption` (`None` is nobody and no page's state, the seeds' threads
are of peers, candidates are finitely many) and `RateAssumption`. Nothing bounds the
peers, the fixtures, the fields, the requests in flight or the messages sent. The
invariant `IInv` has a part for each page, all of
which hold while the others are used; navigation is shown once to leave or to open
each of them in order.

- `SignalInv`: what the fixture page shows is for what is selected; a page that loads
  has its one request under way, for the present selection and with the reducer's
  revision still the request's (`s.current`), so that the answer is neither for
  something else nor refused; and task and fixture agree as the schema of the request
  wants, which three branches of the reducer each restore for themselves.
- `RateOK`: `passed[k]` is what was let pass from `k` ticks ago until now. Within the
  window that is at most what the counter says, and at most the maximum; from before the
  window at most the maximum more, because there was one window before it at most in that
  time. So the bound is the sum over two windows, for any length of a window.
- `ChatInv`: an answer is not compared with the selection, so that what is shown depends
  on the requests still in flight. `ThreadAsked` says that either the page shows the
  selected thread, or nothing, and every request for messages in flight asks for it, or
  that one from the effect is under way and all that come after it ask for the selected
  thread: answered in order, the last one decides. `ThreadCurrent` says the same of its being
  up to date, where a send or a link in flight stands for the request it will
  cause (`Promises`). Both rest on two facts about lists: a list that arrives contains
  every conversation that is selected or was created before it (`ListOK`: lists only
  grow, as the API never deletes one), and until the first list has arrived nothing
  is selected (`FirstList`). `LinkOpens` does
  not ask for order: every link's call and every promise in flight is for the peer the
  link named, and that one is selected or will be. A first list that is answered after
  the link's own ends what the page owes (`ListOvertaken`). `Shifts` describes the
  queue after its first call is answered.
- `SafetyInv`, `ReportInv`: a conversation that the page suggests is with the person
  it lists it for (`Rightful`); the pair is chosen apart by the user only (`mixed`).
- `MarksInv`: before the marks are restored the storage is empty and `restoring`, which
  was read before the effects wrote, holds them; hence leaving then loses them, and
  at no other time (`cut`).
- `FormInv`: while saves wait for one another, there is one at most; once it is served its
  answer is what is stored, and a page that says "saved" waits for none. A save of the
  onboarding that the page still waits for has every field, which the merge keeps.

That each part had to be found shows that the properties are none of them inductive:
`ThreadShown`, for example, says nothing of a page that waits.

### Text pipeline

`MergeInv` says that the spans not yet taken come after those taken in the order
of `_merge` (start, longer first, category), and that the last merged span is the
one that ends last. So a span that overlaps a merged one overlaps the last one, and
the comparison with that one alone is enough. It holds for spans at any places,
negative ones and ones past the end included.

`CuesWellChosen` has its own invariant on top, `TextInv`: what is still to be cut,
replaced or joined is text, no span lies before the text (`Within`), and a call
that has ended holds what `Outcome` gives (`Answered`). On it rest three arguments.

- The order. `Outranks` orders cues strictly and totally, because ids, and so their
  ranks, are unique. As many places as cues and no two cues at the same one: each
  place is taken (`PlaceTaken`, by the library's theorem on injections), so the
  sorted list is one, its first `MAX_CUES` are the strongest, and none comes twice.
- The ranges. An offset is the number of characters before it (`OffsetCounts`):
  the recursion behind `SumFunctionOnSet` counts them, by an induction on the size of a
  set that is proved from the least number at which it would fail (`UpTo`), not
  taken from the library, whose induction theorems the provers cannot instantiate.
  Hence a range is never empty and ends within its text, and a response can only
  fail where `SanitizedOffset`'s bound is smaller than the text.
- The checks on the response. A receipt's total is the sum of its counts, ids
  differ, a text with few words has no cue and a repair is the first cue's: the
  checks of `AnalysisResponse` and `_validate_output` never fire (`OutcomePasses`).

`RedactsExactly` compares what `_replace` makes of the merged spans with a
definition that knows neither `_merge` nor `_replace`: `Redacted` goes through the
text place by place, puts the label of a group where the group begins, nothing
where a span covers the place, and the text's cell elsewhere. `MergeSound` does not
give that: two lists of merged spans with the same places may be cut at different
seams. `GroupInv` says that each merged span is one group: every span taken lies in
one (`Nested`), no place strictly inside is a seam between two (`Connected`), and
its category is that of the span the sort puts first at its start (`Headed`). The
step that needs all three is the one that lengthens the last merged span. That both
constructions agree is shown by joining the text place by place (`JoinsCells`): the
places of a gap add a slice (`CopiesSlice`), those of a group one placeholder
(`GroupJoins`), and so `_replace`'s parts, span by span, add up to the same. It holds
for any set of spans; of the patterns it needs only that they give spans.

`OnlyMinimised` joins three invariants. `CleanInv`: a text that is shown or analysed
has passed the residual check as it is, with its placeholders deleted, and nothing
changes it between the check and the release. `TextInv`, as above. `ShownInv`: unless
somebody has typed a placeholder,
the segments still to come hold none and the counter has, for every label, how
often it occurs in the output (`NextCounts`: one placeholder per merged span, none
from a gap, none from the newline). The receipt adds the counts of the labels of a
coarse category up; as the categories part the labels, that is the number of
placeholders of the category in the text (`SumOfClasses`, `ReceiptShows`). What the
property does not say is as deliberate. `minimize` looks for patterns once, before it
replaces. A match that only the replacement makes is left, unless it is one of the five
high-certainty residuals: `12345` behind `@` and 64 word characters is no postcode until
the handle before it is replaced, and no residual ever. Only the residual check looks at
the whole, with the segments joined. And a user may type a placeholder's own
characters, which the receipt does not count.

`QuotesDoNotCount` compares the released text's cues with those of the same text in
which quoted markers are plain words. Marks stay where they are, so the same cells
are quoted (`UnmarkedQuotes`); hence the same unquoted markers are found
(`UnmarkedFound`), and the counts of words, questions and commas are as they were
(`UnmarkedCounts`), for those do not ask whether a word is quoted. Every rule of the
registry is one of the engine's handlers, and none looks at anything else
(`UnmarkedAnswers`).

Assumed are: texts and labels are strings; expressions name known categories, their
leads and forms are sequences of strings and no form is empty; a priority is between
0 and 100, ids are unique and none is "none", every rule is one of `RULE_HANDLERS`,
and the registry has one cue for either answer on the time window
(`validate_registry` sees to the first three, line 128 of `cues/registry.py` to the
rules, `configs/cue_registry_v1.yml` lines 154 and 167 to the last); a placeholder
is not empty, and as a cell it is neither a mark nor a marker nor a word or
contraction: it stands in brackets, and the rules' expressions match words. Nothing
is assumed of the order of the registry, the length of texts, the bounds, the
expressions, or what a detector finds.

### Document store

Assumed are `LocalAssumption` (ids that `createId` makes are not ids of users) and
`SeedAssumption`. The invariant `StoreInv` says that the file and what every
handler holds in its hands are good documents, and that a request's id is in none
of them before that request has put it there (`Fresh`): without it, a flag could
name a message that is not held for review. One lemma per route shows that it saves
an extension of what it read; so however reads and writes interleave, each
document that is written whole is good. `EveryDocumentConsistent` needs no
assumption on crashes and failing reads.

The other two hold while requests wait for one another (`calm`). `CalmStore` says
that one request at most is in hand, that the file parses unless that one is
writing, and that the document in the file, or in the writer's hands, holds all
that was answered. A message is written only if its conversation was not blocked in
the document it was read from; a block on record blocks the pair's conversation
(`Sound`); so a message written after a block was answered is impossible
(`BlocksRespected`). Without `calm` both fail, and TLC shows how: the request that
overlaps writes back what it read.

### Only model-checked

Liveness (`EverySessionEnds`, `EveryTextForgotten`, `EveryRequestAnswered`,
`TokenLetGo`, `BusyEnds`, `LoadingEnds`) and anything else with ENABLED, which the
prover does not handle. Every invariant, action property and refinement of a passing
run is proved. The parts of the text pipeline's invariants that quantify over finite
sets (`Groups`, `ShownInv`) were model-checked over `text_pipeline`'s states before
they were proved.

## 6. How the properties are shown to bite

For every property of a passing run, `PROJECT.json` names a definition and a faulty
form of it, a bug that could have been written at those lines: a counter that is
not lowered, a timer that is not re-armed, a `finally` that clears one of the two
stores, a revision that is not compared. With that form in place, TLC finds the
property violated in the same configuration.

## 7. Findings

1. `protocol_stalled_body`, `AbortEndsContinue`. `callPrivate` releases the timer and
   the abort listener as soon as the headers are in. A clear, withdrawal or expiry
   while the body is being read does not end the transport, and a body that never
   ends keeps the request open. `docs/architecture/SIGNAL_ENGINE_MODULARIZATION.md`
   line 9 says that clear "aborts Fastify transport and suppresses late release".
   The second half holds (`NoReleaseAfterWithdrawal`, `ExclusiveContinue`).
2. `review_page_clear`, `ClearAsksServer`. A clear while the prepare call is in
   flight knows no token. The review that the call creates is not cleared, only
   expires, although `t1UserDraftReviewModel.ts` line 14 tells the user that the
   API is asked to invalidate it.

Two remarks that are no disagreements of code and documentation. A request that
read the document before a block was stored writes it back without the block:
`CalmBlockRespected` holds only because of `calm`. And under React's StrictMode, in
development only, effects run twice on mount; the matches page would then write its
empty first state over the marks before it has read them (`MountEffectsTwice`, a
faulty form of the mount, breaks `KeptAsShown`). A production build mounts once.

## 8. What is not modelled

- Cryptography, schemas, headers, body sizes and the wording of answers. A request
  that fails validation changes nothing and is left out. Authentication is a
  subject that comes with the request. The rate limit of the T1 routes is that of
  the v1 adapter, which is modelled.
- The admin, listing and seed-summary routes that only read.
- Matching scores, prompts and the profile heuristics: pure, without state, and
  unit tested.
- The regular expressions themselves: a table of expressions over cells, with their
  look-arounds, groups and greed, stands for them. Alternatives are tried by length and
  a match is not backtracked into; what they match in real text is a matter of tests.
- Settings gates: the environment is parsed before anything runs. Their effect on
  the client's routes is in `WebRoutes`.
- Audio intake: no route reaches it. Semantic loader and benchmarks: disabled in
  every configuration. Governance scripts and the command wrapper: tools of the
  build.
- Shared contracts, but for the allowlist of the fixture request: the other schemas
  are in the inputs that the models enumerate.
- In `T1Protocol`, clocks; in `LocalStore`, the sizes of records; on the draft page,
  the clock of the expiry (the timer may fire at any time while a preview is
  rendered); on the other pages, focus, markup, summaries and the match context
  beside a thread.

## 9. Plan

Done: the session store with its proofs, action properties and refinement; the
Python store and its proofs; the protocol and its proofs; the draft page and its
proofs; the text pipeline, the web client and their proofs;
the document store and its proofs.

What would come next:

1. `AudioIntake`, once a route reaches it: the managed temporary file and its
   deletion on each path.
2. `SettingsGates`: which combinations of flags start what, on both sides.
