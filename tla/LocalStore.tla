----------------------------- MODULE LocalStore -----------------------------
(***************************************************************************)
(* The MVP's JSON document store and the Fastify handlers that read the    *)
(* whole document, change it and write the whole document back.  Every     *)
(* handler runs on one event loop and lets the others run at its awaits:   *)
(* between reading and writing, and between the truncation of the file and *)
(* the write that follows it.                                              *)
(*                                                                         *)
(* What a handler computes from the document it read is merged with the    *)
(* read, for it touches nothing else.  A record's text is left out; its id *)
(* is the request that created it.  All records have the same length in    *)
(* the file, so that the document's length is their number.                *)
(***************************************************************************)
EXTENDS Naturals, FiniteSets, Functions

CONSTANTS
  User,     \* ids of users, registered or not
  Field,    \* the profile fields onboarding requires
  Request,  \* the requests that arrive
  Kinds,    \* the routes they go to
  Seed,     \* the document of data/seeds/berlin_seed_bundle.json
  Faults    \* what may fail: "crash" the process, "read" a read of the file

\* createId and the bundle give records ids that no user has.
ASSUME LocalAssumption == Faults \subseteq {"crash", "read"} /\ User \cap Request = {}

VARIABLES
  file,    \* the file: is it there, does it parse, to what, and how long is it
  job,     \* per request, how far its handler is
  blocks,  \* pairs of users whose block was answered with 201
  kept,    \* records answered with 201
  calm     \* no two requests have overlapped and no fault has cost the file

vars == <<file, job, blocks, kept, calm>>

EmptyData == [users |-> {}, active |-> {}, profiles |-> [u \in {} |-> {}], conversations |-> {},
              messages |-> {}, reports |-> {}, leads |-> {}, flags |-> {}]

Length(d) == Cardinality(d.users) + Cardinality(DOMAIN d.profiles)
               + Cardinality(d.conversations) + Cardinality(d.messages)
               + Cardinality(d.reports) + Cardinality(d.leads) + Cardinality(d.flags)

Whole(d) == [parses |-> TRUE, data |-> d, length |-> Length(d)]
Garbled(length) == [parses |-> FALSE, data |-> EmptyData, length |-> length]

(***************************************************************************)
(* Documents.                                                              *)
(***************************************************************************)

BlockedPair(d, u, v) == \E r \in d.reports : r.block /\ {r.reporter, r.target} = {u, v}

Known(d) == /\ d.active \subseteq d.users /\ DOMAIN d.profiles \subseteq d.users
            /\ d.profiles \in [DOMAIN d.profiles -> SUBSET Field]
            /\ \A c \in d.conversations : c.pair \subseteq d.users /\ Cardinality(c.pair) = 2
            /\ \A m \in d.messages : \E c \in d.conversations :
                 c.id = m.conversation /\ m.sender \in c.pair

Sound(d) == /\ \A c, e \in d.conversations : c.pair = e.pair => c = e
            /\ \A c \in d.conversations : \A u, v \in c.pair :
                 u # v /\ BlockedPair(d, u, v) => c.blocked
            /\ \A m \in d.messages : m.review <=> \E f \in d.flags : f.target = m.id
            /\ \A u \in d.active : u \in DOMAIN d.profiles /\ d.profiles[u] = Field

RecordIds(d) == {c.id : c \in d.conversations} \cup {m.id : m \in d.messages}
                  \cup {r.id : r \in d.reports} \cup d.leads

\* What the types of the file promise.
Document(d) ==
  /\ d = [users |-> d.users, active |-> d.active, profiles |-> d.profiles,
          conversations |-> d.conversations, messages |-> d.messages,
          reports |-> d.reports, leads |-> d.leads, flags |-> d.flags]
  /\ IsFiniteSet(d.users) /\ IsFiniteSet(d.leads) /\ IsFiniteSet(d.flags)
  /\ IsFiniteSet(d.messages) /\ IsFiniteSet(d.reports) /\ IsFiniteSet(d.conversations)
  /\ \A c \in d.conversations : c = [id |-> c.id, pair |-> c.pair, blocked |-> c.blocked]

\* The bundle is a document as the handlers leave them, with ids of its own.
ASSUME SeedAssumption ==
  /\ Document(Seed) /\ Known(Seed) /\ Sound(Seed)
  /\ (RecordIds(Seed) \cup {f.target : f \in Seed.flags}) \cap Request = {}
  /\ \A c, e \in Seed.conversations : c.id = e.id => c = e
  /\ {m.id : m \in Seed.messages} \cap User = {}

\* What a client may ask for.
Requests ==
  [kind : {"conversation"}, from : User, to : User]
    \cup [kind : {"message"}, from : User, conversation : Request \cup {"seeded"}, offends : BOOLEAN]
    \cup [kind : {"report"}, from : User, to : User, block : BOOLEAN]
    \cup [kind : {"profile"}, from : User, fields : SUBSET Field]
    \cup [kind : {"onboarding", "matches"}, from : User]
    \cup [kind : {"waitlist", "seeds"}]

New == [at |-> "new"]
Answered == [at |-> "answered"]

\* buildApp has made sure that there is a file.
Init == /\ file \in {Whole(EmptyData), Whole(Seed)}
        /\ job = [q \in Request |-> New]
        /\ blocks = {}
        /\ kept = {}
        /\ calm = TRUE

(***************************************************************************)
(* lib/store.ts                                                            *)
(***************************************************************************)

\* A handler begins: load-seeds reads the bundle and writes at once, the others
\* make sure that there is a file.  (barred is what was blocked by then.)
Start(q, ask) ==
  /\ job[q] = New
  /\ ask.kind \in Kinds
  /\ job' = [job EXCEPT ![q] =
               [at |-> IF ask.kind = "seeds" THEN "open" ELSE "ensure", ask |-> ask,
                data |-> IF ask.kind = "seeds" THEN Seed ELSE EmptyData,
                repairs |-> FALSE, barred |-> blocks]]
  /\ calm' = (calm /\ \A other \in Request : job[other] \in {New, Answered})
  /\ UNCHANGED <<file, blocks, kept>>

\* ensureStoreFile: what it reads is not parsed, and any failure to read counts
\* as the file's absence: an empty document is written.
EnsureFile(q) ==
  /\ job[q].at = "ensure"
  /\ \/ job' = [job EXCEPT ![q].at = "read"] /\ UNCHANGED calm
     \/ /\ "read" \in Faults
        /\ job' = [job EXCEPT ![q].at = "open", ![q].repairs = TRUE]
        /\ calm' = FALSE
  /\ UNCHANGED <<file, blocks, kept>>

\* readFile or JSON.parse rejects: 500.
ReadFails(q) ==
  /\ job[q].at = "read"
  /\ ~file.parses \/ "read" \in Faults
  /\ job' = [job EXCEPT ![q] = Answered]
  /\ UNCHANGED <<file, blocks, kept, calm>>

\* writeFile opens the file, which truncates it.  What loading the seeds
\* discards is owed to nobody any more.
OpenFile(q) ==
  /\ job[q].at = "open"
  /\ file' = Garbled(0)
  /\ job' = [job EXCEPT ![q].at = "write"]
  /\ IF job[q].ask.kind = "seeds" /\ ~job[q].repairs
     THEN blocks' = {} /\ kept' = {}
     ELSE UNCHANGED <<blocks, kept>>
  /\ UNCHANGED calm

Creates == {"conversation", "message", "report", "waitlist"}
BlockOf(ask) == IF ask.kind = "report" /\ ask.block THEN {{ask.from, ask.to}} ELSE {}

\* The document is written from the file's start.  If another handler wrote a
\* longer one since the truncation, the rest of that is left behind it.
WriteFile(q) ==
  /\ job[q].at = "write"
  /\ file' = IF Length(job[q].data) >= file.length
             THEN Whole(job[q].data) ELSE Garbled(file.length)
  /\ IF job[q].repairs
     THEN /\ job' = [job EXCEPT ![q].at = "read", ![q].repairs = FALSE]
          /\ UNCHANGED <<blocks, kept>>
     ELSE /\ job' = [job EXCEPT ![q] = Answered]
          /\ blocks' = blocks \cup BlockOf(job[q].ask)
          /\ kept' = kept \cup {c \in {q} : job[q].ask.kind \in Creates}
  /\ UNCHANGED calm

(***************************************************************************)
(* The routes, each with the document it has just read.                    *)
(***************************************************************************)

Reads(q, kind) == job[q].at = "read" /\ file.parses /\ job[q].ask.kind = kind

\* The handler answers at once, or goes on to write the new document.
Answer(q) == job' = [job EXCEPT ![q] = Answered] /\ UNCHANGED <<file, blocks, kept, calm>>
Save(q, d) == job' = [job EXCEPT ![q].at = "open", ![q].data = d] /\ UNCHANGED <<file, blocks, kept, calm>>

\* Faulty: a second conversation of two users is created.
CreateConversationAgain(q) ==
  LET d == file.data
      u == job[q].ask.from
      v == job[q].ask.to
  IN  /\ Reads(q, "conversation")
      /\ IF u = v \/ ~({u, v} \subseteq d.users) \/ BlockedPair(d, u, v)
         THEN Answer(q)
         ELSE Save(q, [d EXCEPT !.conversations =
                         @ \cup {[id |-> q, pair |-> {u, v}, blocked |-> FALSE]}])

CreateConversation(q) ==
  LET d == file.data
      u == job[q].ask.from
      v == job[q].ask.to
  IN  /\ Reads(q, "conversation")
      /\ IF \/ u = v
            \/ ~({u, v} \subseteq d.users)
            \/ BlockedPair(d, u, v)
            \/ \E c \in d.conversations : {u, v} \subseteq c.pair
         THEN Answer(q)
         ELSE Save(q, [d EXCEPT !.conversations =
                         @ \cup {[id |-> q, pair |-> {u, v}, blocked |-> FALSE]}])

\* Faulty: a block that is on record does not stop a message.
MayPostBlocked(d, ask) ==
  \E c \in d.conversations : c.id = ask.conversation /\ ask.from \in c.pair

MayPost(d, ask) ==
  \E c \in d.conversations : c.id = ask.conversation /\ ask.from \in c.pair /\ ~c.blocked

\* A message that matches a moderation pattern is stored for review, with a flag.
SendMessage(q) ==
  LET d == file.data
      ask == job[q].ask
  IN  /\ Reads(q, "message")
      /\ IF MayPost(d, ask)
         THEN Save(q, [d EXCEPT
                !.messages = @ \cup {[id |-> q, conversation |-> ask.conversation,
                                      sender |-> ask.from, review |-> ask.offends]},
                !.flags = @ \cup {[id |-> q, target |-> q] : x \in {y \in {q} : ask.offends}}])
         ELSE Answer(q)

\* Users are not looked up: a report is stored whoever it names.
SubmitReport(q) ==
  LET d == file.data
      ask == job[q].ask
      silenced(c) == ask.block /\ {ask.from, ask.to} \subseteq c.pair
  IN  /\ Reads(q, "report")
      /\ Save(q, [d EXCEPT
           !.reports = @ \cup {[id |-> q, reporter |-> ask.from, target |-> ask.to,
                                block |-> ask.block]},
           !.flags = @ \cup {[id |-> q, target |-> ask.to]},
           !.conversations = {IF silenced(c) THEN [c EXCEPT !.blocked = TRUE] ELSE c : c \in @}])

\* buildStoredProfile: fields that the input leaves out keep their value.
Merged(d, u, fields) ==
  [v \in DOMAIN d.profiles \cup {u} |->
     IF v # u THEN d.profiles[v]
     ELSE fields \cup (IF u \in DOMAIN d.profiles THEN d.profiles[u] ELSE {})]

PutProfile(q) ==
  LET d == file.data
      u == job[q].ask.from
      profiles == Merged(d, u, job[q].ask.fields)
  IN  /\ Reads(q, "profile")
      /\ IF u \in d.users
         THEN Save(q, [d EXCEPT !.profiles = profiles,
                                !.active = IF profiles[u] = Field THEN @ \cup {u} ELSE @])
         ELSE Answer(q)

\* The request's schema requires every field; the account is active afterwards.
SubmitOnboarding(q) ==
  LET d == file.data
      u == job[q].ask.from
  IN  /\ Reads(q, "onboarding")
      /\ IF u \in d.users
         THEN Save(q, [d EXCEPT !.profiles = Merged(d, u, Field), !.active = @ \cup {u}])
         ELSE Answer(q)

\* Faulty: the new lead takes the place of the others.
JoinWaitlistAlone(q) ==
  /\ Reads(q, "waitlist")
  /\ Save(q, [file.data EXCEPT !.leads = {q}])

JoinWaitlist(q) ==
  /\ Reads(q, "waitlist")
  /\ Save(q, [file.data EXCEPT !.leads = @ \cup {q}])

\* Whom GET /matches may show: nobody without onboarding, and no blocked pair.
Candidates(d, u) ==
  IF u \in DOMAIN d.profiles /\ d.profiles[u] = Field
  THEN {v \in DOMAIN d.profiles \ {u} : d.profiles[v] = Field /\ ~BlockedPair(d, u, v)}
  ELSE {}

ListMatches(q) == Reads(q, "matches") /\ Answer(q)

\* The process dies: nobody is answered any more, and the file is as it is.
Crash == /\ "crash" \in Faults
         /\ calm' = (calm /\ \A q \in Request : job[q].at # "write")
         /\ job' = [q \in Request |-> IF job[q] = New THEN New ELSE Answered]
         /\ UNCHANGED <<file, blocks, kept>>

\* All requests that will ever arrive are answered.
Finished == (\A q \in Request : job[q] = Answered) /\ UNCHANGED vars

Handle(q) == \/ EnsureFile(q) \/ ReadFails(q) \/ OpenFile(q) \/ WriteFile(q)
             \/ CreateConversation(q) \/ SendMessage(q) \/ SubmitReport(q)
             \/ PutProfile(q) \/ SubmitOnboarding(q) \/ JoinWaitlist(q) \/ ListMatches(q)

Next == \/ \E q \in Request, ask \in Requests : Start(q, ask)
        \/ \E q \in Request : Handle(q)
        \/ Crash
        \/ Finished

Spec == Init /\ [][Next]_vars

(***************************************************************************)
(* Properties.                                                             *)
(***************************************************************************)

\* The document refers to nothing it does not hold, and the handlers are where
\* a handler can be.
TypeOK == /\ file \in {Whole(file.data), Garbled(file.length)} /\ Known(file.data)
          /\ \A q \in Request :
               job[q].at \in {"new", "ensure", "read", "open", "write", "answered"}

\* The rules that no single record shows: two users have one conversation; a
\* conversation of a blocked pair is blocked; a message is held for review if
\* and only if it is flagged; an active account has its whole profile.  Whatever
\* updates are lost, the file is some handler's whole document, so these hold
\* for every interleaving and every crash (conversations.ts 128-131, 185-200;
\* safety.ts 41-56; onboarding.ts 30-37).
FileConsistent == TypeOK /\ Sound(file.data)

\* A block that was answered before q arrived holds for q: no message goes into
\* the pair's conversation, none is opened, and neither is shown to the other.
Respects(q) ==
  LET ask == job[q].ask
      writes(kind) == job[q].at = "write" /\ job'[q].at = "answered" /\ ask.kind = kind
  IN  /\ writes("message") /\ file'.parses
         => \A c \in file'.data.conversations :
              c.id = ask.conversation => c.pair \notin job[q].barred
      /\ writes("conversation") => {ask.from, ask.to} \notin job[q].barred
      /\ Reads(q, "matches") /\ job'[q].at = "answered"
         => \A v \in Candidates(file.data, ask.from) : {ask.from, v} \notin job[q].barred

\* "Blocks must be respected immediately" (SAFETY_PRINCIPLES.md 30-31;
\* mvp.test.ts 137-147): they are as long as each request waits for the one
\* before it, whatever the order of the requests, and across a crash that does
\* not strike between the truncation of the file and its write.  Without "calm"
\* this fails: a request that read the file before the block writes it back.
CalmBlockRespected == [][calm' => \A q \in Request : Respects(q)]_vars

Quiet == \A q \in Request : job[q].at # "write"

\* On the same terms the file parses whenever it is not being written, and
\* holds every record that was answered with 201 since the seeds were loaded
\* ("local persistence is durable across sessions", audit/day2_build_report.md
\* 29).
AcknowledgedKept == calm /\ Quiet => file.parses /\ kept \subseteq RecordIds(file.data)
=============================================================================
