------------------------------ MODULE SignalReview -----------------------------
(***************************************************************************)
(* The review of a tracked fixture: the page with its reducer, the v1      *)
(* adapter of the API that serves it, and the adapter's rate limit.  The   *)
(* reducer's revision is compared with that of the last request only, so   *)
(* "current" says whether the two are equal.  An aborted request may still *)
(* reach the adapter: OtherRequest stands for it.                          *)
(***************************************************************************)
EXTENDS Integers, FiniteSetsExt, Functions, WebRoutes

CONSTANTS
    Fixture, Excerpt, DefaultFixture,     \* Excerpt is wording_gb_repair
    Profile, DefaultProfile,
    rateLimitMax, rateLimitWindow         \* rateLimitWindow in ticks of the clock

ASSUME RateAssumption == rateLimitMax \in Nat \ {0} /\ rateLimitWindow \in Nat \ {0}

VARIABLES
    signal,            \* the page's state, None if it is not mounted
    call,              \* its request under way, None if there is none
    limiter            \* createGlobalMemoryRateLimit's closure, and what it let pass of late

signalVars == <<signal, call, limiter>>

Asked == [fixture : Fixture, task : {"draft", "excerpt"}, profile : Profile]

SignalState == [phase : {"setup", "loading", "result", "error"}, fixture : Fixture,
                task : {"draft", "excerpt"}, profile : Profile, confirmed : BOOLEAN,
                analysis : Asked \cup {None}, repair : {"none", "offered", "edited"},
                current : BOOLEAN]

Reviewing == [at : {"sent", "fetching", "reading", "refused"}, ask : Asked]
               \cup [at : {"released"}, ask : Asked, repair : BOOLEAN]

--------------------------------------------------------------------------------
(***************************************************************************)
(* The reducer.                                                            *)
(***************************************************************************)

InitialSignal == [phase |-> "setup", fixture |-> DefaultFixture, task |-> "draft",
                  profile |-> DefaultProfile, confirmed |-> FALSE,
                  analysis |-> None, repair |-> "none", current |-> FALSE]

Reconsidered(s) == [s EXCEPT !.phase = "setup", !.confirmed = FALSE, !.analysis = None,
                             !.repair = "none", !.current = FALSE]

SelectFixture(s, f) ==
    [Reconsidered(s) EXCEPT !.fixture = f, !.task = IF f = Excerpt THEN "excerpt" ELSE "draft"]

SelectTask(s, t) ==
    [Reconsidered(s) EXCEPT !.task = t,
                            !.fixture = IF t = "excerpt" THEN Excerpt
                                        ELSE IF s.fixture = Excerpt THEN DefaultFixture ELSE s.fixture]

\* Faulty: the result for the former support view stays.
SelectProfileKeeping(s, p) == [s EXCEPT !.profile = p, !.confirmed = FALSE]

SelectProfile(s, p) == [Reconsidered(s) EXCEPT !.profile = p]

ConfirmReview(s, yes) ==
    IF s.phase = "loading" THEN [s EXCEPT !.confirmed = yes, !.phase = "setup", !.current = FALSE]
    ELSE [s EXCEPT !.confirmed = yes]

Start(s) == IF ~s.confirmed THEN s
            ELSE [s EXCEPT !.phase = "loading", !.analysis = None, !.current = TRUE]

Succeed(s, analysis) ==
    IF ~s.current THEN s
    ELSE [s EXCEPT !.phase = "result", !.analysis = analysis.ask,
                   !.repair = IF analysis.repair THEN "offered" ELSE "none"]

Failed(s) == IF ~s.current THEN s
             ELSE [s EXCEPT !.phase = "error", !.analysis = None, !.repair = "none"]

--------------------------------------------------------------------------------
(***************************************************************************)
(* The page.  A select and the check box are disabled while it loads, and  *)
(* every event is rendered before the next one.                            *)
(***************************************************************************)

Ask(s) == [fixture |-> s.fixture, task |-> s.task, profile |-> s.profile]

Choose ==
    /\ route = "signal" /\ signal.phase # "loading"
    /\ \/ \E f \in Fixture \ {signal.fixture} : signal' = SelectFixture(signal, f)
       \/ \E t \in {"draft", "excerpt"} \ {signal.task} : signal' = SelectTask(signal, t)
       \/ \E p \in Profile \ {signal.profile} : signal' = SelectProfile(signal, p)
       \/ \E yes \in BOOLEAN \ {signal.confirmed} : signal' = ConfirmReview(signal, yes)
    /\ UNCHANGED <<call, limiter>>

EditRepair ==
    /\ route = "signal" /\ signal.phase = "result" /\ signal.repair # "none"
    /\ signal' = [signal EXCEPT !.repair = "edited"]
    /\ UNCHANGED <<call, limiter>>

\* A request under way would be aborted: its place is taken.
HandleSubmit ==
    /\ route = "signal" /\ signal.confirmed /\ signal.phase # "loading"
    /\ signal' = Start(signal)
    /\ call' = [at |-> "sent", ask |-> Ask(signal)]
    /\ UNCHANGED limiter

ClearSession ==
    /\ route = "signal"
    /\ signal' = InitialSignal
    /\ call' = None
    /\ UNCHANGED limiter

\* The promise settles, with an analysis or with an error.
Settle ==
    /\ call # None /\ call.at \in {"released", "refused"}
    /\ signal' = IF call.at = "released" THEN Succeed(signal, call) ELSE Failed(signal)
    /\ call' = None
    /\ UNCHANGED limiter

--------------------------------------------------------------------------------
(***************************************************************************)
(* The adapter.                                                            *)
(***************************************************************************)

\* limiter.passed[k] is what was let pass from k ticks ago until now.
IdleLimiter == [age |-> rateLimitWindow, count |-> 0, passed |-> [k \in 0..rateLimitWindow - 1 |-> 0]]

Passed(passed, count) ==
    IF count <= rateLimitMax THEN [k \in DOMAIN passed |-> passed[k] + 1] ELSE passed

\* Faulty: the count starts again, the window does not.
CountedUnrestarted(l) ==
    LET count == IF l.age >= rateLimitWindow THEN 1 ELSE Min({l.count, rateLimitMax}) + 1
    IN  [l EXCEPT !.count = count,
                  !.passed = Passed(@, count)]

\* One request: refused ones count as well.  Beyond the maximum the count no
\* longer matters, and is kept at one above it.
Counted(l) ==
    LET over  == l.age >= rateLimitWindow
        count == IF over THEN 1 ELSE Min({l.count, rateLimitMax}) + 1
    IN  [l EXCEPT !.age = IF over THEN 0 ELSE @,
                  !.count = count,
                  !.passed = Passed(@, count)]

\* A window that is over is as good as any other.
Tick ==
    /\ route = "signal" /\ limiter # IdleLimiter
    /\ limiter' = [age    |-> Min({limiter.age + 1, rateLimitWindow}),
                   count  |-> IF limiter.age + 1 >= rateLimitWindow THEN 0 ELSE limiter.count,
                   passed |-> [k \in DOMAIN limiter.passed |-> IF k = 0 THEN 0 ELSE limiter.passed[k - 1]]]
    /\ UNCHANGED <<signal, call>>

OtherRequest ==
    /\ route = "signal"
    /\ limiter' = Counted(limiter)
    /\ UNCHANGED <<signal, call>>

\* CommunicationAnalysisRequestSchema: the fixture is allowlisted for the task.
Allowlisted(ask) == ask.task = IF ask.fixture = Excerpt THEN "excerpt" ELSE "draft"

Reach(at) == call' = [call EXCEPT !.at = at]

\* 429, 400, or the upstream request with its timer.
Receive ==
    /\ call # None /\ call.at = "sent"
    /\ limiter' = Counted(limiter)
    /\ Reach(IF limiter'.count <= rateLimitMax /\ Allowlisted(call.ask) THEN "fetching" ELSE "refused")
    /\ UNCHANGED signal

\* The private service answers, with an error or with a body to read.
UpstreamHeaders ==
    /\ call # None /\ call.at = "fetching"
    /\ Reach("reading") \/ Reach("refused")
    /\ UNCHANGED <<signal, limiter>>

\* The body is too long, is not what the schema says, or is passed on.
UpstreamBody ==
    /\ call # None /\ call.at = "reading"
    /\ \/ Reach("refused")
       \/ \E repair \in BOOLEAN : call' = [at |-> "released", ask |-> call.ask, repair |-> repair]
    /\ UNCHANGED <<signal, limiter>>

\* Faulty: the timer ends with the response headers.
TimeoutOfHeaders ==
    /\ call # None /\ call.at = "fetching"
    /\ Reach("refused")
    /\ UNCHANGED <<signal, limiter>>

\* The timer aborts the fetch and the reading of its body alike.
Timeout ==
    /\ call # None /\ call.at \in {"fetching", "reading"}
    /\ Reach("refused")
    /\ UNCHANGED <<signal, limiter>>

SignalNext == Choose \/ EditRepair \/ HandleSubmit \/ ClearSession \/ Settle
                \/ Tick \/ OtherRequest \/ Receive \/ UpstreamHeaders \/ UpstreamBody \/ Timeout

MountSignal == signal' = InitialSignal

\* Leaving aborts the request.  A visit lasts until the rate limit is idle: a
\* bound, for the limiter takes its steps with or without the page.
UnmountSignal == limiter = IdleLimiter /\ signal' = None /\ call' = None
================================================================================
