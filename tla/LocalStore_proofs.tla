---------------------------- MODULE LocalStore_proofs ----------------------------
(***************************************************************************)
(* Proofs about the document store, for any number of users and requests,  *)
(* any seeds, and every interleaving and fault.                            *)
(***************************************************************************)
EXTENDS LocalStore, FiniteSetTheorems, TLAPS

(***************************************************************************)
(* Documents that the handlers can meet, and what each handler makes of    *)
(* one.  OwnIds is the strengthening: no request's id is in a document     *)
(* before that request has made it, so that an id names one record.        *)
(***************************************************************************)

OwnIds(d) == /\ \A c, e \in d.conversations : c.id = e.id => c = e
             /\ \A m \in d.messages : m.id \notin User

Good(d) == Document(d) /\ Known(d) /\ Sound(d) /\ OwnIds(d)

Mentions(d) == RecordIds(d) \cup {f.target : f \in d.flags}

\* new is what request q may make of d: it mentions nothing else that is new,
\* loses no record and no block.
Extends(d, q, new) ==
  /\ Good(new)
  /\ Mentions(new) \subseteq Mentions(d) \cup {q} \cup User
  /\ RecordIds(d) \subseteq RecordIds(new)
  /\ d.reports \subseteq new.reports

\* The empty document is good and mentions nobody.
LEMMA EmptyIsGood == Good(EmptyData) /\ Mentions(EmptyData) = {}
<1> DEFINE d == EmptyData
<1>1. /\ d.users = {} /\ d.active = {} /\ d.profiles = [u \in {} |-> {}] /\ d.conversations = {}
      /\ d.messages = {} /\ d.reports = {} /\ d.leads = {} /\ d.flags = {}
      /\ d = [users |-> d.users, active |-> d.active, profiles |-> d.profiles,
              conversations |-> d.conversations, messages |-> d.messages,
              reports |-> d.reports, leads |-> d.leads, flags |-> d.flags]
  BY DEF EmptyData
<1> HIDE DEF d
<1>2. Document(d)
  BY <1>1, FS_EmptySet DEF Document
<1>3. Known(d) /\ Sound(d) /\ OwnIds(d) /\ Mentions(d) = {}
  BY <1>1 DEF Known, Sound, OwnIds, Mentions, RecordIds
<1> QED BY <1>2, <1>3 DEF Good, d

\* So is the bundle, which mentions no request.
LEMMA SeedIsGood == Good(Seed) /\ Mentions(Seed) \cap Request = {}
BY SeedAssumption DEF Good, OwnIds, Mentions

\* A document's length is a number.
LEMMA LengthIsNatural ==
  ASSUME NEW d, Good(d)
  PROVE  Length(d) \in Nat
<1>1. IsFiniteSet(DOMAIN d.profiles)
  BY FS_Subset DEF Good, Document, Known
<1> QED BY <1>1, FS_CardinalityType DEF Good, Document, Length

\* A conversation of two users who have none, with no block between them.
LEMMA ConversationExtends ==
  ASSUME NEW d, Good(d), NEW q \in Request, q \notin Mentions(d), NEW u, NEW v,
         u # v, {u, v} \subseteq d.users, ~BlockedPair(d, u, v),
         \A c \in d.conversations : ~({u, v} \subseteq c.pair)
  PROVE  LET new == [d EXCEPT !.conversations =
                       @ \cup {[id |-> q, pair |-> {u, v}, blocked |-> FALSE]}]
         IN  Extends(d, q, new) /\ q \in RecordIds(new) /\ new.reports = d.reports
<1> DEFINE added == [id |-> q, pair |-> {u, v}, blocked |-> FALSE]
           more  == d.conversations \cup {added}
           new   == [d EXCEPT !.conversations = @ \cup {added}]
<1>1. added = [id |-> added.id, pair |-> added.pair, blocked |-> added.blocked]
        /\ added.id = q /\ added.pair = {u, v} /\ added.blocked = FALSE
  OBVIOUS
<1> HIDE DEF added
<1>2. new = [users |-> d.users, active |-> d.active, profiles |-> d.profiles,
             conversations |-> more, messages |-> d.messages, reports |-> d.reports,
             leads |-> d.leads, flags |-> d.flags]
  <2>1. new = [d EXCEPT !.conversations = more]
    BY DEF Good, Document
  <2> HIDE DEF new, more
  <2> QED BY <2>1 DEF Good, Document
<1> HIDE DEF new
<1>3. Document(new)
  <2>1. IsFiniteSet(more)
    BY FS_AddElement DEF Good, Document
  <2> QED BY <1>1, <1>2, <2>1 DEF Good, Document
<1>4. Known(new)
  <2>1. Cardinality(added.pair) = 2
    <3>1. IsFiniteSet({u}) /\ Cardinality({u}) = 1
      BY FS_Singleton
    <3>2. Cardinality({u} \cup {v}) = Cardinality({u}) + 1
      BY <3>1, FS_AddElement
    <3>3. {u} \cup {v} = {u, v}
      OBVIOUS
    <3>4. added.pair = {u} \cup {v}
      BY <1>1, <3>3
    <3>5. Cardinality(added.pair) = 1 + 1
      BY <3>1, <3>2, <3>4
    <3> QED BY <3>5
  <2> QED BY <1>1, <1>2, <2>1 DEF Good, Known
<1>5. Sound(new)
  <2>1. \A c, e \in more : c.pair = e.pair => c = e
    BY <1>1 DEF Good, Sound
  <2>2. \A c \in more : \A x, y \in c.pair : x # y /\ BlockedPair(d, x, y) => c.blocked
    <3>1. \A x, y \in {u, v} : x # y => {x, y} = {u, v}
      OBVIOUS
    <3> QED BY <1>1, <3>1 DEF Good, Sound, BlockedPair
  <2>3. \A x, y : BlockedPair(new, x, y) <=> BlockedPair(d, x, y)
    BY <1>2 DEF BlockedPair
  <2> QED BY <1>2, <2>1, <2>2, <2>3 DEF Good, Sound
<1>6. OwnIds(new)
  BY <1>1, <1>2 DEF Good, OwnIds, Mentions, RecordIds
<1>7. Mentions(new) \subseteq Mentions(d) \cup {q} /\ q \in RecordIds(new)
        /\ RecordIds(d) \subseteq RecordIds(new)
  BY <1>1, <1>2 DEF Mentions, RecordIds
<1> QED BY <1>2, <1>3, <1>4, <1>5, <1>6, <1>7 DEF Extends, Good, new, added

\* The flag of a message that is held for review.
Raised(q, ask) == {[id |-> q, target |-> q] : x \in {y \in {q} : ask.offends}}

\* The document with a message.
Posted(d, q, ask) ==
  [d EXCEPT !.messages = @ \cup {[id |-> q, conversation |-> ask.conversation,
                                  sender |-> ask.from, review |-> ask.offends]},
            !.flags = @ \cup Raised(q, ask)]

\* A message into a conversation its author may post to.
LEMMA MessageExtends ==
  ASSUME NEW d, Good(d), NEW q \in Request, q \notin Mentions(d), NEW ask,
         ask.offends \in BOOLEAN, MayPost(d, ask)
  PROVE  /\ Extends(d, q, Posted(d, q, ask)) /\ q \in RecordIds(Posted(d, q, ask))
         /\ Posted(d, q, ask).conversations = d.conversations
<1> DEFINE sent   == [id |-> q, conversation |-> ask.conversation,
                      sender |-> ask.from, review |-> ask.offends]
           raised == Raised(q, ask)
           more   == d.messages \cup {sent}
           noted  == d.flags \cup raised
           new    == Posted(d, q, ask)
<1>1. /\ sent.id = q /\ sent.conversation = ask.conversation /\ sent.sender = ask.from
      /\ sent.review = ask.offends
  OBVIOUS
<1>2. /\ IsFiniteSet(raised) /\ \A f \in raised : f.target = q
      /\ raised # {} <=> ask.offends
  <2>1. raised \subseteq {[id |-> q, target |-> q]}
    BY DEF Raised
  <2>2. IsFiniteSet({[id |-> q, target |-> q]})
    BY FS_Singleton
  <2>3. IsFiniteSet(raised)
    BY <2>1, <2>2, FS_Subset
  <2>4. \A f \in raised : f.target = q
    BY DEF Raised
  <2>5. raised # {} <=> ask.offends
    BY DEF Raised
  <2> QED BY <2>3, <2>4, <2>5
<1> HIDE DEF sent, raised
<1>3. new = [users |-> d.users, active |-> d.active, profiles |-> d.profiles,
             conversations |-> d.conversations, messages |-> more, reports |-> d.reports,
             leads |-> d.leads, flags |-> noted]
  <2>1. new = [d EXCEPT !.messages = more, !.flags = noted]
    BY DEF Good, Document, Posted, sent, raised
  <2> HIDE DEF new, more, noted
  <2> QED BY <2>1 DEF Good, Document
<1> HIDE DEF new
<1>4. Document(new)
  <2>1. IsFiniteSet(more) /\ IsFiniteSet(noted)
    BY <1>2, FS_AddElement, FS_Union DEF Good, Document
  <2> HIDE DEF more, noted
  <2> QED BY <1>3, <2>1 DEF Good, Document
<1>5. Known(new)
  <2>1. \E c \in d.conversations : c.id = sent.conversation /\ sent.sender \in c.pair
    BY <1>1 DEF MayPost
  <2> QED BY <1>3, <2>1 DEF Good, Known
<1>6. Sound(new)
  <2>1. ASSUME NEW m \in more PROVE m.review <=> \E f \in noted : f.target = m.id
    <3>1. CASE m = sent
      <4>1. \A f \in d.flags : f.target # q
        BY DEF Mentions
      <4> QED BY <1>1, <1>2, <3>1, <4>1
    <3>2. CASE m \in d.messages
      <4>1. m.id # q
        BY <3>2 DEF Mentions, RecordIds
      <4>2. m.review <=> \E f \in d.flags : f.target = m.id
        BY <3>2 DEF Good, Sound
      <4> QED BY <1>2, <4>1, <4>2
    <3> QED BY <3>1, <3>2
  <2>2. \A x, y : BlockedPair(new, x, y) <=> BlockedPair(d, x, y)
    BY <1>3 DEF BlockedPair
  <2> HIDE DEF more, noted
  <2> QED BY <1>3, <2>1, <2>2 DEF Good, Sound
<1>7. OwnIds(new)
  BY <1>1, <1>3, LocalAssumption DEF Good, OwnIds
<1>8. /\ Mentions(new) \subseteq Mentions(d) \cup {q} /\ q \in RecordIds(new)
      /\ RecordIds(d) \subseteq RecordIds(new)
  BY <1>1, <1>2, <1>3 DEF Mentions, RecordIds
<1>9. Extends(d, q, new)
  BY <1>3, <1>4, <1>5, <1>6, <1>7, <1>8 DEF Extends, Good
<1> QED BY <1>3, <1>8, <1>9 DEF new

\* A report of anybody, which blocks the conversations it is about.
LEMMA ReportExtends ==
  ASSUME NEW d, Good(d), NEW q \in Request, NEW ask, ask.from \in User, ask.to \in User
  PROVE  LET silenced(c) == ask.block /\ {ask.from, ask.to} \subseteq c.pair
             new == [d EXCEPT
               !.reports = @ \cup {[id |-> q, reporter |-> ask.from, target |-> ask.to,
                                    block |-> ask.block]},
               !.flags = @ \cup {[id |-> q, target |-> ask.to]},
               !.conversations = {IF silenced(c) THEN [c EXCEPT !.blocked = TRUE] ELSE c : c \in @}]
         IN  /\ Extends(d, q, new) /\ q \in RecordIds(new)
             /\ ask.block => BlockedPair(new, ask.from, ask.to)
<1> DEFINE u == ask.from
           v == ask.to
           filed == [id |-> q, reporter |-> u, target |-> v, block |-> ask.block]
           flag  == [id |-> q, target |-> v]
           silenced(c) == ask.block /\ {u, v} \subseteq c.pair
           After(c) == IF silenced(c) THEN [c EXCEPT !.blocked = TRUE] ELSE c
           more  == d.reports \cup {filed}
           noted == d.flags \cup {flag}
           talks == {After(c) : c \in d.conversations}
           new   == [d EXCEPT !.reports = @ \cup {filed}, !.flags = @ \cup {flag},
                              !.conversations = {After(c) : c \in @}]
<1>1. /\ filed.id = q /\ filed.block = ask.block /\ {filed.reporter, filed.target} = {u, v}
      /\ flag.target = v
  OBVIOUS
<1>2. \A c \in d.conversations :
        /\ After(c).id = c.id /\ After(c).pair = c.pair
        /\ After(c) = [id |-> After(c).id, pair |-> After(c).pair, blocked |-> After(c).blocked]
        /\ silenced(c) => After(c).blocked
        /\ c.blocked => After(c).blocked
        /\ ~silenced(c) => After(c) = c
  <2> SUFFICES ASSUME NEW c \in d.conversations
               PROVE  /\ After(c).id = c.id /\ After(c).pair = c.pair
                      /\ After(c) = [id |-> After(c).id, pair |-> After(c).pair,
                                     blocked |-> After(c).blocked]
                      /\ silenced(c) => After(c).blocked
                      /\ c.blocked => After(c).blocked
                      /\ ~silenced(c) => After(c) = c
    OBVIOUS
  <2>1. c = [id |-> c.id, pair |-> c.pair, blocked |-> c.blocked]
    BY DEF Good, Document
  <2>2. CASE silenced(c)
    <3>1. After(c) = [id |-> c.id, pair |-> c.pair, blocked |-> TRUE]
      BY <2>1, <2>2
    <3> QED BY <2>2, <3>1
  <2>3. CASE ~silenced(c)
    BY <2>1, <2>3
  <2> QED BY <2>2, <2>3
<1>a. \A c : silenced(c) <=> ask.block /\ {u, v} \subseteq c.pair
  OBVIOUS
<1> HIDE DEF filed, flag, After, silenced
<1>3. new = [users |-> d.users, active |-> d.active, profiles |-> d.profiles,
             conversations |-> talks, messages |-> d.messages, reports |-> more,
             leads |-> d.leads, flags |-> noted]
  <2>1. new = [d EXCEPT !.reports = more, !.flags = noted, !.conversations = talks]
    BY DEF Good, Document
  <2> HIDE DEF new, more, noted, talks
  <2> QED BY <2>1 DEF Good, Document
<1> HIDE DEF new
<1>4. Document(new)
  <2>1. IsFiniteSet(more) /\ IsFiniteSet(noted)
    BY FS_AddElement DEF Good, Document
  <2>2. IsFiniteSet(talks)
    <3> DEFINE after == [c \in d.conversations |-> After(c)]
    <3>1. after \in Surjection(d.conversations, talks)
      BY DEF Surjection
    <3>2. IsFiniteSet(d.conversations)
      BY DEF Good, Document
    <3> HIDE DEF after, talks
    <3> QED BY <3>1, <3>2, FS_Surjection
  <2>3. \A c \in talks : c = [id |-> c.id, pair |-> c.pair, blocked |-> c.blocked]
    BY <1>2
  <2> HIDE DEF more, noted, talks
  <2> QED BY <1>3, <2>1, <2>2, <2>3 DEF Good, Document
<1>5. Known(new)
  <2>1. \A c \in talks : c.pair \subseteq d.users /\ Cardinality(c.pair) = 2
    BY <1>2 DEF Good, Known
  <2>2. \A m \in d.messages : \E c \in talks : c.id = m.conversation /\ m.sender \in c.pair
    BY <1>2 DEF Good, Known
  <2> HIDE DEF talks
  <2> QED BY <1>3, <2>1, <2>2 DEF Good, Known
<1>6. Sound(new)
  <2>1. \A c, e \in talks : c.pair = e.pair => c = e
    BY <1>2 DEF Good, Sound
  <2>2. ASSUME NEW c \in d.conversations, NEW x \in c.pair, NEW y \in c.pair,
               x # y, BlockedPair(new, x, y)
        PROVE  After(c).blocked
    <3>1. BlockedPair(d, x, y) \/ (ask.block /\ {u, v} = {x, y})
      BY <1>1, <1>3, <2>2 DEF BlockedPair
    <3>2. CASE BlockedPair(d, x, y)
      BY <1>2, <2>2, <3>2 DEF Good, Sound
    <3>3. CASE ask.block /\ {u, v} = {x, y}
      BY <1>2, <1>a, <3>3
    <3> QED BY <3>1, <3>2, <3>3
  <2>3. \A m \in d.messages : m.review <=> \E f \in noted : f.target = m.id
    BY <1>1 DEF Good, Sound, OwnIds
  <2>4. \A c \in talks : \A x, y \in c.pair : x # y /\ BlockedPair(new, x, y) => c.blocked
    BY <1>2, <2>2
  <2> HIDE DEF talks, noted, more
  <2> QED BY <1>3, <2>1, <2>3, <2>4 DEF Good, Sound
<1>7. OwnIds(new)
  BY <1>2, <1>3 DEF Good, OwnIds
<1>8. /\ Mentions(new) \subseteq Mentions(d) \cup {q} \cup User /\ q \in RecordIds(new)
      /\ RecordIds(d) \subseteq RecordIds(new) /\ d.reports \subseteq new.reports
  <2>1. {c.id : c \in talks} = {c.id : c \in d.conversations}
    BY <1>2
  <2> HIDE DEF talks
  <2> QED BY <1>1, <1>3, <2>1 DEF Mentions, RecordIds
<1>9. ask.block => BlockedPair(new, ask.from, ask.to)
  BY <1>1, <1>3 DEF BlockedPair
<1>10. Extends(d, q, new)
  BY <1>4, <1>5, <1>6, <1>7, <1>8 DEF Extends, Good
<1> QED BY <1>8, <1>9, <1>10 DEF new, filed, flag, After, silenced

\* PUT /profiles, and POST /onboarding, which requires every field.
LEMMA ProfileExtends ==
  ASSUME NEW d, Good(d), NEW q \in Request, NEW u \in d.users, NEW fields \in SUBSET Field,
         NEW ready \in SUBSET {u}, ready # {} => Merged(d, u, fields)[u] = Field
  PROVE  LET new == [d EXCEPT !.profiles = Merged(d, u, fields), !.active = @ \cup ready]
         IN  Extends(d, q, new) /\ new.conversations = d.conversations
<1> DEFINE merged == Merged(d, u, fields)
           more   == d.active \cup ready
           new    == [d EXCEPT !.profiles = merged, !.active = @ \cup ready]
<1>1. /\ DOMAIN merged = DOMAIN d.profiles \cup {u}
      /\ \A v \in DOMAIN d.profiles : v # u => merged[v] = d.profiles[v]
      /\ merged \in [DOMAIN merged -> SUBSET Field]
      /\ u \in DOMAIN d.profiles => d.profiles[u] \subseteq merged[u]
      /\ ready # {} => merged[u] = Field
  BY DEF Merged, Good, Known
<1> HIDE DEF merged
<1>2. new = [users |-> d.users, active |-> more, profiles |-> merged,
             conversations |-> d.conversations, messages |-> d.messages, reports |-> d.reports,
             leads |-> d.leads, flags |-> d.flags]
  <2>1. new = [d EXCEPT !.profiles = merged, !.active = more]
    BY DEF Good, Document
  <2> HIDE DEF new, more
  <2> QED BY <2>1 DEF Good, Document
<1> HIDE DEF new
<1>3. Document(new)
  BY <1>2 DEF Good, Document
<1>4. Known(new)
  BY <1>1, <1>2 DEF Good, Known
<1>5. Sound(new)
  <2>1. ASSUME NEW v \in more PROVE v \in DOMAIN merged /\ merged[v] = Field
    <3>1. CASE v \in d.active
      <4>1. v \in DOMAIN d.profiles /\ d.profiles[v] = Field
        BY <3>1 DEF Good, Sound
      <4>2. merged[v] \in SUBSET Field /\ d.profiles[v] \subseteq merged[v]
        BY <1>1, <4>1
      <4> QED BY <1>1, <4>1, <4>2
    <3>2. CASE v \in ready
      BY <1>1, <3>2
    <3> QED BY <3>1, <3>2
  <2>2. \A x, y : BlockedPair(new, x, y) <=> BlockedPair(d, x, y)
    BY <1>2 DEF BlockedPair
  <2> HIDE DEF more
  <2> QED BY <1>2, <2>1, <2>2 DEF Good, Sound
<1>6. OwnIds(new) /\ Mentions(new) = Mentions(d) /\ RecordIds(new) = RecordIds(d)
  BY <1>2 DEF Good, OwnIds, Mentions, RecordIds
<1> QED BY <1>2, <1>3, <1>4, <1>5, <1>6 DEF Extends, Good, new, merged

\* One more lead.
LEMMA WaitlistExtends ==
  ASSUME NEW d, Good(d), NEW q \in Request
  PROVE  LET new == [d EXCEPT !.leads = @ \cup {q}]
         IN  Extends(d, q, new) /\ q \in RecordIds(new)
<1> DEFINE more == d.leads \cup {q}
           new  == [d EXCEPT !.leads = @ \cup {q}]
<1>1. new = [users |-> d.users, active |-> d.active, profiles |-> d.profiles,
             conversations |-> d.conversations, messages |-> d.messages, reports |-> d.reports,
             leads |-> more, flags |-> d.flags]
  <2>1. new = [d EXCEPT !.leads = more]
    BY DEF Good, Document
  <2> HIDE DEF new, more
  <2> QED BY <2>1 DEF Good, Document
<1> HIDE DEF new
<1>2. Document(new)
  <2>1. IsFiniteSet(more)
    BY FS_AddElement DEF Good, Document
  <2> HIDE DEF more
  <2> QED BY <1>1, <2>1 DEF Good, Document
<1>3. Known(new) /\ Sound(new) /\ OwnIds(new)
  <2>1. \A x, y : BlockedPair(new, x, y) <=> BlockedPair(d, x, y)
    BY <1>1 DEF BlockedPair
  <2> QED BY <1>1, <2>1 DEF Good, Known, Sound, OwnIds
<1>4. /\ Mentions(new) \subseteq Mentions(d) \cup {q} /\ q \in RecordIds(new)
      /\ RecordIds(d) \subseteq RecordIds(new)
  BY <1>1 DEF Mentions, RecordIds
<1> QED BY <1>1, <1>2, <1>3, <1>4 DEF Extends, Good, new

(***************************************************************************)
(* The invariant of every run.                                             *)
(***************************************************************************)

InHand(q) == job[q].at \in {"ensure", "read", "open", "write"}
Holding(q) == job[q].at \in {"open", "write"} /\ ~job[q].repairs

\* What a handler on its way to the file has made sure of.
Carries(q) ==
  LET ask == job[q].ask
      d   == job[q].data
  IN  /\ ask.kind \in Creates => q \in RecordIds(d)
      /\ ask.kind = "message" =>
           \A c \in d.conversations : c.id = ask.conversation => ~c.blocked
      /\ ask.kind = "conversation" => ~BlockedPair(d, ask.from, ask.to)
      /\ ask.kind = "report" /\ ask.block => BlockedPair(d, ask.from, ask.to)

JobShape(q) ==
  \/ job[q] \in {New, Answered}
  \/ /\ job[q] = [at |-> job[q].at, ask |-> job[q].ask, data |-> job[q].data,
                  repairs |-> job[q].repairs, barred |-> job[q].barred]
     /\ InHand(q) /\ job[q].ask \in Requests /\ job[q].repairs \in BOOLEAN
     /\ Good(job[q].data)
     /\ job[q].repairs => job[q].data = EmptyData /\ job[q].at \in {"open", "write"}
     /\ job[q].at = "ensure" => job[q].data = EmptyData
     /\ Holding(q) => Carries(q)

FileShape == /\ file \in {Whole(file.data), Garbled(file.length)}
             /\ Good(file.data) /\ file.length \in Nat

\* A request's id is in no document but its own until it is answered.
Fresh == \A q \in Request : job[q] # Answered =>
           /\ q \notin Mentions(file.data)
           /\ \A p \in Request \ {q} : InHand(p) => q \notin Mentions(job[p].data)

StoreInv == /\ job = [q \in Request |-> job[q]]
            /\ \A q \in Request : JobShape(q)
            /\ FileShape
            /\ Fresh

\* What kind of record a request is.
LEMMA AskTyped ==
  ASSUME NEW ask \in Requests
  PROVE  /\ ask.kind \in {"conversation", "report"} => ask.from \in User /\ ask.to \in User
         /\ ask.kind = "message" => ask.offends \in BOOLEAN
         /\ ask.kind = "profile" => ask.fields \in SUBSET Field
BY DEF Requests

\* The other requests do not notice a step of q, if what it leaves in the file
\* is of requests that are answered.
LEMMA OthersKept ==
  ASSUME StoreInv, NEW q \in Request, NEW j, job' = [job EXCEPT ![q] = j], JobShape(q)',
         FileShape', \A p \in Request : job'[p] # Answered => p \notin Mentions(file'.data),
         job[q] # Answered,
         \/ j = Answered
         \/ Mentions(job'[q].data) \subseteq Mentions(file.data) \cup {q} \cup User
         \/ Mentions(job'[q].data) \cap Request = {}
         \/ InHand(q) /\ job'[q].data = job[q].data
  PROVE  StoreInv'
<1>1. /\ DOMAIN job = Request /\ job'[q] = j /\ DOMAIN job' = Request
      /\ \A p \in Request \ {q} : job'[p] = job[p]
      /\ job' = [p \in Request |-> job'[p]]
  BY DEF StoreInv
<1>2. \A p \in Request : JobShape(p)'
  <2>1. \A p \in Request \ {q} : JobShape(p)'
    BY <1>1 DEF StoreInv, JobShape, InHand, Holding, Carries
  <2> QED BY <2>1
<1>3. Fresh'
  <2> SUFFICES ASSUME NEW p \in Request, job'[p] # Answered
               PROVE  \A r \in Request \ {p} : InHand(r)' => p \notin Mentions(job'[r].data)
    BY DEF Fresh
  <2>1. job[p] # Answered /\ p \notin User
    BY <1>1, LocalAssumption
  <2>2. p \notin Mentions(file.data)
    BY <2>1 DEF StoreInv, Fresh
  <2>3. ASSUME NEW r \in Request \ {p}, InHand(r)' PROVE p \notin Mentions(job'[r].data)
    <3>1. CASE r # q
      BY <1>1, <2>1, <2>3, <3>1 DEF StoreInv, Fresh, InHand
    <3>2. CASE r = q
      <4>1. job'[q] # Answered
        BY <2>3, <3>2 DEF InHand, Answered
      <4>2. InHand(q) /\ job'[q].data = job[q].data => p \notin Mentions(job'[q].data)
        BY <2>1, <2>3, <3>2 DEF StoreInv, Fresh
      <4> QED BY <1>1, <2>1, <2>2, <2>3, <3>2, <4>1, <4>2
    <3> QED BY <3>1, <3>2
  <2> QED BY <2>3
<1> QED BY <1>1, <1>2, <1>3 DEF StoreInv

\* So it is when the file stays as it is.
LEMMA FileKept ==
  ASSUME StoreInv, NEW q \in Request, NEW j, job' = [job EXCEPT ![q] = j], file' = file,
         job[q] # Answered
  PROVE  FileShape' /\ \A p \in Request : job'[p] # Answered => p \notin Mentions(file'.data)
<1>1. FileShape'
  BY DEF StoreInv, FileShape
<1>2. \A p \in Request : job'[p] # Answered => job[p] # Answered
  BY DEF StoreInv
<1> QED BY <1>1, <1>2 DEF StoreInv, Fresh

\* A handler answers without writing.
LEMMA AnswerKeeps ==
  ASSUME StoreInv, NEW q \in Request, job' = [job EXCEPT ![q] = Answered], file' = file
  PROVE  StoreInv'
<1>1. CASE job[q] = Answered
  <2>1. job' = job
    BY <1>1 DEF StoreInv
  <2> QED BY <2>1 DEF StoreInv, JobShape, InHand, Holding, Carries, FileShape, Fresh
<1>2. CASE job[q] # Answered
  <2>1. JobShape(q)'
    BY DEF JobShape, StoreInv
  <2> QED BY <1>2, <2>1, FileKept, OthersKept
<1> QED BY <1>1, <1>2

\* A handler's record after a step of its own.
LEMMA Moved ==
  ASSUME NEW r, NEW a, NEW d, NEW b,
         r = [at |-> r.at, ask |-> r.ask, data |-> r.data, repairs |-> r.repairs,
              barred |-> r.barred]
  PROVE  /\ [r EXCEPT !.at = a] = [at |-> a, ask |-> r.ask, data |-> r.data,
                                   repairs |-> r.repairs, barred |-> r.barred]
         /\ [r EXCEPT !.at = a, !.data = d] = [at |-> a, ask |-> r.ask, data |-> d,
                                   repairs |-> r.repairs, barred |-> r.barred]
         /\ [r EXCEPT !.at = a, !.repairs = b] = [at |-> a, ask |-> r.ask, data |-> r.data,
                                   repairs |-> b, barred |-> r.barred]
<1>1. [r EXCEPT !.at = a] = [at |-> a, ask |-> r.ask, data |-> r.data,
                             repairs |-> r.repairs, barred |-> r.barred]
  OBVIOUS
<1>2. PICK x : x = [r EXCEPT !.at = a]
  OBVIOUS
<1>3. x = [at |-> a, ask |-> r.ask, data |-> r.data, repairs |-> r.repairs,
           barred |-> r.barred]
  BY <1>1, <1>2
<1>4. /\ [r EXCEPT !.at = a, !.data = d] = [x EXCEPT !.data = d]
      /\ [r EXCEPT !.at = a, !.repairs = b] = [x EXCEPT !.repairs = b]
  BY <1>2
<1>5. [r EXCEPT !.at = a, !.data = d] = [at |-> a, ask |-> r.ask, data |-> d,
                             repairs |-> r.repairs, barred |-> r.barred]
  BY <1>3, <1>4
<1>6. [r EXCEPT !.at = a, !.repairs = b] = [at |-> a, ask |-> r.ask, data |-> r.data,
                             repairs |-> b, barred |-> r.barred]
  BY <1>3, <1>4
<1> QED BY <1>1, <1>5, <1>6

\* A route saves d: what every save has made sure of.
Stored(q, d) ==
  LET ask == job[q].ask
  IN  /\ job[q].at = "read" /\ file.parses /\ Save(q, d)
      /\ Extends(file.data, q, d)
      /\ ask.kind \in Creates => q \in RecordIds(d)
      /\ ask.kind = "message" =>
           \A c \in d.conversations : c.id = ask.conversation => ~c.blocked
      /\ ask.kind = "conversation" => ~BlockedPair(d, ask.from, ask.to)
      /\ ask.kind = "report" /\ ask.block => BlockedPair(d, ask.from, ask.to)

\* A route answers at once, or saves.
RouteStep(q) == \/ job[q].at = "read" /\ file.parses /\ Answer(q)
                \/ \E d : Stored(q, d)

\* A handler saves what it made of the document.
LEMMA SaveKeeps ==
  ASSUME StoreInv, NEW q \in Request, NEW d, Stored(q, d)
  PROVE  StoreInv'
<1> DEFINE r == job[q]
           j == [r EXCEPT !.at = "open", !.data = d]
<1>1. /\ r.at = "read" /\ file' = file
      /\ job' = [job EXCEPT ![q] = j]
  BY DEF Stored, Save
<1>2. /\ r = [at |-> r.at, ask |-> r.ask, data |-> r.data, repairs |-> r.repairs,
              barred |-> r.barred]
      /\ r.ask \in Requests /\ ~r.repairs /\ r.repairs \in BOOLEAN /\ r # Answered
  BY <1>1 DEF StoreInv, JobShape, New, Answered
<1>3. j = [at |-> "open", ask |-> r.ask, data |-> d, repairs |-> r.repairs,
           barred |-> r.barred]
  <2> HIDE DEF r
  <2> QED BY <1>2, Moved
<1>4. job'[q] = j
  BY <1>1 DEF StoreInv
<1> HIDE DEF j
<1>5. /\ job'[q] = [at |-> job'[q].at, ask |-> job'[q].ask, data |-> job'[q].data,
                    repairs |-> job'[q].repairs, barred |-> job'[q].barred]
      /\ job'[q].at = "open" /\ job'[q].ask = r.ask /\ job'[q].data = d
      /\ job'[q].repairs = r.repairs
  BY <1>3, <1>4
<1>6. JobShape(q)'
  <2>1. InHand(q)'
    BY <1>5 DEF InHand
  <2>2. Carries(q)'
    BY <1>1, <1>5 DEF Carries, Stored
  <2> QED BY <1>2, <1>5, <2>1, <2>2 DEF JobShape, Extends, Stored
<1>7. Mentions(job'[q].data) \subseteq Mentions(file.data) \cup {q} \cup User
  BY <1>5 DEF Extends, Stored
<1> QED BY <1>1, <1>2, <1>6, <1>7, FileKept, OthersKept

\* A route keeps it.
LEMMA RouteKeeps ==
  ASSUME StoreInv, NEW q \in Request, RouteStep(q)
  PROVE  StoreInv'
BY SaveKeeps, AnswerKeeps DEF RouteStep, Answer

(***************************************************************************)
(* The routes answer, or save a good document.                             *)
(***************************************************************************)

\* A handler that reads has a good document, without a record of its own.
LEMMA ReadsGood ==
  ASSUME StoreInv, NEW q \in Request, NEW kind, Reads(q, kind)
  PROVE  /\ Good(file.data) /\ q \notin Mentions(file.data)
         /\ job[q].ask \in Requests /\ job[q].ask.kind = kind
<1>1. job[q].at = "read" /\ job[q].ask.kind = kind /\ job[q] # Answered /\ job[q] # New
  BY DEF Reads, Answered, New
<1> QED BY <1>1 DEF StoreInv, JobShape, FileShape, Fresh

\* POST /conversations.
LEMMA CreateConversationStep ==
  ASSUME StoreInv, NEW q \in Request, CreateConversation(q)
  PROVE  RouteStep(q)
<1> DEFINE d   == file.data
           u   == job[q].ask.from
           v   == job[q].ask.to
           new == [d EXCEPT !.conversations =
                     @ \cup {[id |-> q, pair |-> {u, v}, blocked |-> FALSE]}]
           refused == \/ u = v
                      \/ ~({u, v} \subseteq d.users)
                      \/ BlockedPair(d, u, v)
                      \/ \E c \in d.conversations : {u, v} \subseteq c.pair
<1>1. Reads(q, "conversation") /\ (IF refused THEN Answer(q) ELSE Save(q, new))
  BY DEF CreateConversation
<1>2. Good(d) /\ q \notin Mentions(d)
  BY <1>1, ReadsGood
<1>3. CASE refused
  BY <1>1, <1>3 DEF RouteStep, Reads
<1>4. CASE ~refused
  <2>1. Extends(d, q, new) /\ q \in RecordIds(new) /\ new.reports = d.reports
    <3>1. u # v /\ {u, v} \subseteq d.users /\ ~BlockedPair(d, u, v)
            /\ \A c \in d.conversations : ~({u, v} \subseteq c.pair)
      BY <1>4
    <3> HIDE DEF d, u, v, new, refused
    <3> QED BY <1>2, <3>1, ConversationExtends DEF new
  <2>2. ~BlockedPair(new, u, v)
    BY <1>4, <2>1 DEF BlockedPair
  <2>3. Save(q, new)
    BY <1>1, <1>4
  <2> HIDE DEF new, refused
  <2> QED BY <1>1, <2>1, <2>2, <2>3 DEF RouteStep, Stored, Reads, Creates
<1> QED BY <1>3, <1>4

\* POST /messages: its conversation, the only one with its id, is not blocked.
LEMMA SendMessageStep ==
  ASSUME StoreInv, NEW q \in Request, SendMessage(q)
  PROVE  RouteStep(q)
<1> DEFINE d   == file.data
           ask == job[q].ask
           new == Posted(d, q, ask)
<1>1. Reads(q, "message") /\ (IF MayPost(d, ask) THEN Save(q, new) ELSE Answer(q))
  BY DEF SendMessage, Raised, Posted
<1>2. Good(d) /\ q \notin Mentions(d) /\ ask.offends \in BOOLEAN
  BY <1>1, ReadsGood, AskTyped
<1>3. CASE ~MayPost(d, ask)
  BY <1>1, <1>3 DEF RouteStep, Reads
<1>4. CASE MayPost(d, ask)
  <2>1. /\ Extends(d, q, new) /\ q \in RecordIds(new)
        /\ new.conversations = d.conversations
    <3> HIDE DEF d, ask
    <3> QED BY <1>2, <1>4, MessageExtends
  <2>2. \A c \in new.conversations : c.id = ask.conversation => ~c.blocked
    BY <1>2, <1>4, <2>1 DEF MayPost, Good, OwnIds
  <2>3. Save(q, new)
    BY <1>1, <1>4
  <2> HIDE DEF new
  <2> QED BY <1>1, <2>1, <2>2, <2>3 DEF RouteStep, Stored, Reads, Creates
<1> QED BY <1>3, <1>4

\* POST /safety/reports: a block it asks for is on record.
LEMMA SubmitReportStep ==
  ASSUME StoreInv, NEW q \in Request, SubmitReport(q)
  PROVE  RouteStep(q)
<1> DEFINE d   == file.data
           ask == job[q].ask
           silenced(c) == ask.block /\ {ask.from, ask.to} \subseteq c.pair
           new == [d EXCEPT
               !.reports = @ \cup {[id |-> q, reporter |-> ask.from, target |-> ask.to,
                                    block |-> ask.block]},
               !.flags = @ \cup {[id |-> q, target |-> ask.to]},
               !.conversations = {IF silenced(c) THEN [c EXCEPT !.blocked = TRUE] ELSE c : c \in @}]
<1>1. Reads(q, "report") /\ Save(q, new)
  BY DEF SubmitReport
<1>2. Good(d) /\ ask.from \in User /\ ask.to \in User
  BY <1>1, ReadsGood, AskTyped
<1>3. /\ Extends(d, q, new) /\ q \in RecordIds(new)
      /\ ask.block => BlockedPair(new, ask.from, ask.to)
  <2> HIDE DEF d, ask
  <2> QED BY <1>2, ReportExtends
<1> HIDE DEF new
<1> QED BY <1>1, <1>3 DEF RouteStep, Stored, Reads, Creates

\* PUT /profiles: who is active has the whole profile.
LEMMA PutProfileStep ==
  ASSUME StoreInv, NEW q \in Request, PutProfile(q)
  PROVE  RouteStep(q)
<1> DEFINE d == file.data
           u == job[q].ask.from
           fields   == job[q].ask.fields
           profiles == Merged(d, u, fields)
           new == [d EXCEPT !.profiles = profiles,
                            !.active = IF profiles[u] = Field THEN @ \cup {u} ELSE @]
<1>1. Reads(q, "profile") /\ (IF u \in d.users THEN Save(q, new) ELSE Answer(q))
  BY DEF PutProfile
<1>2. Good(d) /\ fields \in SUBSET Field
  BY <1>1, ReadsGood, AskTyped
<1>3. CASE u \notin d.users
  BY <1>1, <1>3 DEF RouteStep, Reads
<1>4. CASE u \in d.users
  <2> DEFINE ready == {w \in {u} : profiles[w] = Field}
  <2>1. new = [d EXCEPT !.profiles = profiles, !.active = @ \cup ready]
    <3>1. (IF profiles[u] = Field THEN d.active \cup {u} ELSE d.active) = d.active \cup ready
      OBVIOUS
    <3> QED BY <3>1
  <2>2. Extends(d, q, new)
    <3>1. ready \in SUBSET {u} /\ (ready # {} => profiles[u] = Field)
      OBVIOUS
    <3> HIDE DEF d, u, fields, ready, new
    <3> QED BY <1>2, <1>4, <2>1, <3>1, ProfileExtends
  <2>3. Save(q, new)
    BY <1>1, <1>4
  <2> HIDE DEF new
  <2> QED BY <1>1, <2>2, <2>3 DEF RouteStep, Stored, Reads, Creates
<1> QED BY <1>3, <1>4

\* POST /onboarding.
LEMMA SubmitOnboardingStep ==
  ASSUME StoreInv, NEW q \in Request, SubmitOnboarding(q)
  PROVE  RouteStep(q)
<1> DEFINE d == file.data
           u == job[q].ask.from
           new == [d EXCEPT !.profiles = Merged(d, u, Field), !.active = @ \cup {u}]
<1>1. Reads(q, "onboarding") /\ (IF u \in d.users THEN Save(q, new) ELSE Answer(q))
  BY DEF SubmitOnboarding
<1>2. Good(d)
  BY <1>1, ReadsGood
<1>3. CASE u \notin d.users
  BY <1>1, <1>3 DEF RouteStep, Reads
<1>4. CASE u \in d.users
  <2>1. Extends(d, q, new)
    <3>1. Merged(d, u, Field)[u] = Field
      <4>1. u \in DOMAIN d.profiles => d.profiles[u] \subseteq Field
        BY <1>2 DEF Good, Known
      <4>2. Merged(d, u, Field)[u]
              = Field \cup (IF u \in DOMAIN d.profiles THEN d.profiles[u] ELSE {})
        BY DEF Merged
      <4> QED BY <4>1, <4>2
    <3> HIDE DEF d, u, new
    <3> QED BY <1>2, <1>4, <3>1, ProfileExtends DEF new
  <2>2. Save(q, new)
    BY <1>1, <1>4
  <2> HIDE DEF new
  <2> QED BY <1>1, <2>1, <2>2 DEF RouteStep, Stored, Reads, Creates
<1> QED BY <1>3, <1>4

\* POST /waitlist/leads.
LEMMA JoinWaitlistStep ==
  ASSUME StoreInv, NEW q \in Request, JoinWaitlist(q)
  PROVE  RouteStep(q)
<1> DEFINE new == [file.data EXCEPT !.leads = @ \cup {q}]
<1>1. Reads(q, "waitlist") /\ Save(q, new)
  BY DEF JoinWaitlist
<1>2. Good(file.data)
  BY <1>1, ReadsGood
<1>3. Extends(file.data, q, new) /\ q \in RecordIds(new)
  BY <1>2, WaitlistExtends
<1> HIDE DEF new
<1> QED BY <1>1, <1>3 DEF RouteStep, Stored, Reads, Creates

\* GET /matches.
LEMMA ListMatchesStep ==
  ASSUME NEW q \in Request, ListMatches(q)
  PROVE  RouteStep(q)
BY DEF ListMatches, RouteStep, Reads

(***************************************************************************)
(* The store's own steps keep it.                                          *)
(***************************************************************************)

\* A handler begins with the bundle or with nothing in its hands.
LEMMA StartKeeps ==
  ASSUME StoreInv, NEW q \in Request, NEW ask \in Requests, Start(q, ask)
  PROVE  StoreInv'
<1> DEFINE j == [at |-> IF ask.kind = "seeds" THEN "open" ELSE "ensure", ask |-> ask,
                 data |-> IF ask.kind = "seeds" THEN Seed ELSE EmptyData,
                 repairs |-> FALSE, barred |-> blocks]
<1>1. job[q] = New /\ job' = [job EXCEPT ![q] = j] /\ file' = file
  BY DEF Start
<1>2. job'[q] = j /\ job[q] # Answered
  BY <1>1 DEF StoreInv, New, Answered
<1>3. /\ j = [at |-> j.at, ask |-> j.ask, data |-> j.data, repairs |-> j.repairs,
              barred |-> j.barred]
      /\ j.at \in {"open", "ensure"}
      /\ j.at = "open" => ask.kind = "seeds"
      /\ j.ask = ask /\ j.repairs = FALSE
      /\ ask.kind = "seeds" => j.data = Seed /\ j.at = "open"
      /\ ask.kind # "seeds" => j.data = EmptyData
  OBVIOUS
<1> HIDE DEF j
<1>4. Good(j.data) /\ Mentions(j.data) \cap Request = {}
  BY <1>3, SeedIsGood, EmptyIsGood
<1>5. JobShape(q)'
  <2>1. InHand(q)'
    BY <1>2, <1>3 DEF InHand
  <2>2. Holding(q)' => Carries(q)'
    BY <1>2, <1>3 DEF Holding, Carries, Creates
  <2> QED BY <1>2, <1>3, <1>4, <2>1, <2>2 DEF JobShape
<1> QED BY <1>1, <1>2, <1>4, <1>5, FileKept, OthersKept

\* A request in hand.
LEMMA InHandShape ==
  ASSUME StoreInv, NEW q \in Request, InHand(q)
  PROVE  /\ job[q] = [at |-> job[q].at, ask |-> job[q].ask, data |-> job[q].data,
                      repairs |-> job[q].repairs, barred |-> job[q].barred]
         /\ job[q].ask \in Requests /\ job[q].repairs \in BOOLEAN /\ Good(job[q].data)
         /\ job[q].repairs => job[q].data = EmptyData /\ job[q].at \in {"open", "write"}
         /\ Holding(q) => Carries(q)
         /\ job[q].at = "ensure" => job[q].data = EmptyData
         /\ job[q] \notin {New, Answered}
<1>1. job[q] \notin {New, Answered}
  BY DEF InHand, New, Answered
<1> QED BY <1>1 DEF StoreInv, JobShape

\* ensureStoreFile reads on, or sets out to write an empty document.
LEMMA EnsureFileKeeps ==
  ASSUME StoreInv, NEW q \in Request, EnsureFile(q)
  PROVE  StoreInv'
<1> DEFINE r == job[q]
<1>1. /\ r.at = "ensure" /\ InHand(q) /\ file' = file
      /\ \/ job' = [job EXCEPT ![q] = [r EXCEPT !.at = "read"]]
         \/ job' = [job EXCEPT ![q] = [r EXCEPT !.at = "open", !.repairs = TRUE]]
  BY DEF EnsureFile, InHand
<1>2. /\ r = [at |-> r.at, ask |-> r.ask, data |-> r.data, repairs |-> r.repairs,
              barred |-> r.barred]
      /\ r.ask \in Requests /\ r.repairs = FALSE /\ r.data = EmptyData /\ Good(r.data)
      /\ r # Answered
  BY <1>1, InHandShape
<1>3. PICK j : /\ job' = [job EXCEPT ![q] = j]
               /\ \/ j = [at |-> "read", ask |-> r.ask, data |-> r.data,
                          repairs |-> FALSE, barred |-> r.barred]
                  \/ j = [at |-> "open", ask |-> r.ask, data |-> r.data,
                          repairs |-> TRUE, barred |-> r.barred]
  <2>1. /\ [r EXCEPT !.at = "read"] = [at |-> "read", ask |-> r.ask, data |-> r.data,
                          repairs |-> r.repairs, barred |-> r.barred]
        /\ [r EXCEPT !.at = "open", !.repairs = TRUE]
             = [at |-> "open", ask |-> r.ask, data |-> r.data,
                repairs |-> TRUE, barred |-> r.barred]
    <3> HIDE DEF r
    <3> QED BY <1>2, Moved
  <2>2. r.repairs = FALSE
    BY <1>2
  <2> QED BY <1>1, <2>1, <2>2
<1>4. /\ job'[q] = j
      /\ j = [at |-> j.at, ask |-> j.ask, data |-> j.data, repairs |-> j.repairs,
              barred |-> j.barred]
      /\ j.at \in {"read", "open"} /\ j.ask = r.ask /\ j.data = r.data
      /\ j.repairs \in BOOLEAN
      /\ j.repairs <=> j.at = "open"
  <2>1. job'[q] = j
    BY <1>3 DEF StoreInv
  <2>2. CASE j = [at |-> "read", ask |-> r.ask, data |-> r.data, repairs |-> FALSE,
                  barred |-> r.barred]
    BY <2>1, <2>2
  <2>3. CASE j = [at |-> "open", ask |-> r.ask, data |-> r.data, repairs |-> TRUE,
                  barred |-> r.barred]
    BY <2>1, <2>3
  <2> QED BY <1>3, <2>2, <2>3
<1>5. JobShape(q)'
  BY <1>2, <1>4 DEF JobShape, InHand, Holding
<1> QED BY <1>1, <1>2, <1>3, <1>4, <1>5, FileKept, OthersKept

\* The truncated file holds no document.
LEMMA OpenFileKeeps ==
  ASSUME StoreInv, NEW q \in Request, OpenFile(q)
  PROVE  StoreInv'
<1> DEFINE r == job[q]
           j == [r EXCEPT !.at = "write"]
<1>1. /\ r.at = "open" /\ InHand(q) /\ file' = Garbled(0)
      /\ job' = [job EXCEPT ![q] = j]
  BY DEF OpenFile, InHand
<1>2. /\ r = [at |-> r.at, ask |-> r.ask, data |-> r.data, repairs |-> r.repairs,
              barred |-> r.barred]
      /\ r.ask \in Requests /\ r.repairs \in BOOLEAN /\ Good(r.data) /\ r # Answered
      /\ r.repairs => r.data = EmptyData
      /\ Holding(q) => Carries(q)
  BY <1>1, InHandShape
<1>3. j = [at |-> "write", ask |-> r.ask, data |-> r.data, repairs |-> r.repairs,
           barred |-> r.barred]
  <2> HIDE DEF r
  <2> QED BY <1>2, Moved
<1>4. job'[q] = j
  BY <1>1 DEF StoreInv
<1> HIDE DEF j
<1>5. /\ job'[q] = [at |-> job'[q].at, ask |-> job'[q].ask, data |-> job'[q].data,
                    repairs |-> job'[q].repairs, barred |-> job'[q].barred]
      /\ job'[q].at = "write" /\ job'[q].ask = r.ask /\ job'[q].data = r.data
      /\ job'[q].repairs = r.repairs
  BY <1>3, <1>4
<1>6. JobShape(q)'
  <2>1. InHand(q)'
    BY <1>5 DEF InHand
  <2>2. Holding(q)' => Carries(q)'
    BY <1>1, <1>2, <1>5 DEF Holding, Carries
  <2> QED BY <1>2, <1>5, <2>1, <2>2 DEF JobShape
<1>7. FileShape' /\ Mentions(file'.data) = {}
  <2>1. file'.data = EmptyData /\ file'.length = 0
    BY <1>1 DEF Garbled
  <2> QED BY <1>1, <2>1, EmptyIsGood DEF FileShape
<1> QED BY <1>1, <1>2, <1>5, <1>6, <1>7, OthersKept

\* The file is the writer's whole document, or none.
LEMMA WriteFileKeeps ==
  ASSUME StoreInv, NEW q \in Request, WriteFile(q)
  PROVE  StoreInv'
<1> DEFINE r == job[q]
<1>1. /\ r.at = "write" /\ InHand(q)
      /\ file' = IF Length(r.data) >= file.length THEN Whole(r.data) ELSE Garbled(file.length)
      /\ r.repairs => job' = [job EXCEPT ![q] = [r EXCEPT !.at = "read", !.repairs = FALSE]]
      /\ ~r.repairs => job' = [job EXCEPT ![q] = Answered]
  BY DEF WriteFile, InHand
<1>2. /\ r = [at |-> r.at, ask |-> r.ask, data |-> r.data, repairs |-> r.repairs,
              barred |-> r.barred]
      /\ r.ask \in Requests /\ r.repairs \in BOOLEAN /\ Good(r.data) /\ r # Answered
      /\ r.repairs => r.data = EmptyData
  BY <1>1, InHandShape
<1>3. PICK j : /\ job' = [job EXCEPT ![q] = j]
               /\ ~r.repairs => j = Answered
               /\ r.repairs => j = [at |-> "read", ask |-> r.ask, data |-> r.data,
                                    repairs |-> FALSE, barred |-> r.barred]
  <2>1. [r EXCEPT !.at = "read", !.repairs = FALSE]
          = [at |-> "read", ask |-> r.ask, data |-> r.data,
             repairs |-> FALSE, barred |-> r.barred]
    <3> HIDE DEF r
    <3> QED BY <1>2, Moved
  <2> QED BY <1>1, <2>1
<1>4. job'[q] = j /\ \A p \in Request \ {q} : job'[p] = job[p]
  BY <1>3 DEF StoreInv
<1>5. JobShape(q)'
  <2>1. CASE ~r.repairs
    BY <1>3, <1>4, <2>1 DEF JobShape
  <2>2. CASE r.repairs
    <3>1. /\ job'[q] = [at |-> job'[q].at, ask |-> job'[q].ask, data |-> job'[q].data,
                        repairs |-> job'[q].repairs, barred |-> job'[q].barred]
          /\ job'[q].at = "read" /\ job'[q].ask = r.ask /\ job'[q].data = r.data
          /\ job'[q].repairs = FALSE
      BY <1>3, <1>4, <2>2
    <3> QED BY <1>2, <3>1 DEF JobShape, InHand, Holding
  <2> QED BY <2>1, <2>2
<1>6. FileShape' /\ Mentions(file'.data) \subseteq Mentions(r.data)
  <2>1. CASE file' = Whole(r.data)
    BY <1>2, <2>1, LengthIsNatural DEF FileShape, Whole
  <2>2. CASE file' = Garbled(file.length)
    <3>1. file'.data = EmptyData /\ file'.length = file.length
      BY <2>2 DEF Garbled
    <3> QED BY <2>2, <3>1, EmptyIsGood DEF FileShape, StoreInv
  <2> QED BY <1>1, <2>1, <2>2
<1>7. ASSUME NEW p \in Request, job'[p] # Answered PROVE p \notin Mentions(file'.data)
  <2>1. CASE p = q
    BY <1>2, <1>3, <1>4, <1>6, <1>7, <2>1, EmptyIsGood
  <2>2. CASE p # q
    BY <1>1, <1>4, <1>6, <1>7, <2>2 DEF StoreInv, Fresh
  <2> QED BY <2>1, <2>2
<1>8. j = Answered \/ (InHand(q) /\ job'[q].data = job[q].data)
  BY <1>1, <1>2, <1>3, <1>4
<1> QED BY <1>2, <1>3, <1>5, <1>6, <1>7, <1>8, OthersKept

\* A crash leaves the file as it is.
LEMMA CrashKeeps ==
  ASSUME StoreInv, Crash
  PROVE  StoreInv'
<1>1. /\ job' = [q \in Request |-> IF job[q] = New THEN New ELSE Answered]
      /\ file' = file
  BY DEF Crash
<1>2. \A q \in Request : job'[q] \in {New, Answered}
  BY <1>1
<1>3. \A q \in Request : JobShape(q)'
  BY <1>2 DEF JobShape
<1>4. \A q \in Request : ~InHand(q)'
  BY <1>2 DEF InHand, New, Answered
<1>5. Fresh'
  <2>1. \A q \in Request : job'[q] # Answered => job[q] # Answered
    BY <1>1 DEF New, Answered
  <2> QED BY <1>1, <1>4, <2>1 DEF StoreInv, Fresh
<1> QED BY <1>1, <1>3, <1>5 DEF StoreInv, FileShape

(***************************************************************************)
(* Every run keeps it.                                                     *)
(***************************************************************************)

\* It holds when the API starts.
LEMMA InitHolds == Init => StoreInv
<1> SUFFICES ASSUME Init PROVE StoreInv
  OBVIOUS
<1>1. \A q \in Request : job[q] = New
  BY DEF Init
<1>2. \A q \in Request : JobShape(q) /\ ~InHand(q)
  BY <1>1 DEF JobShape, InHand, New
<1>3. FileShape /\ Mentions(file.data) \cap Request = {}
  <2>1. PICK d : d \in {EmptyData, Seed} /\ file = Whole(d)
    BY DEF Init
  <2>2. Good(d) /\ Mentions(d) \cap Request = {}
    BY <2>1, EmptyIsGood, SeedIsGood
  <2> QED BY <2>1, <2>2, LengthIsNatural DEF FileShape, Whole
<1>4. Fresh
  BY <1>2, <1>3 DEF Fresh
<1> QED BY <1>2, <1>3, <1>4 DEF Init, StoreInv

\* Every step keeps it.
LEMMA NextKeeps == StoreInv /\ [Next]_vars => StoreInv'
<1> SUFFICES ASSUME StoreInv, [Next]_vars PROVE StoreInv'
  OBVIOUS
<1>1. ASSUME NEW q \in Request, NEW ask \in Requests, Start(q, ask) PROVE StoreInv'
  BY <1>1, StartKeeps
<1>2. ASSUME NEW q \in Request, EnsureFile(q) PROVE StoreInv'
  BY <1>2, EnsureFileKeeps
<1>3. ASSUME NEW q \in Request, ReadFails(q) PROVE StoreInv'
  BY <1>3, AnswerKeeps DEF ReadFails
<1>4. ASSUME NEW q \in Request, OpenFile(q) PROVE StoreInv'
  BY <1>4, OpenFileKeeps
<1>5. ASSUME NEW q \in Request, WriteFile(q) PROVE StoreInv'
  BY <1>5, WriteFileKeeps
<1>6. ASSUME NEW q \in Request, CreateConversation(q) PROVE StoreInv'
  BY <1>6, CreateConversationStep, RouteKeeps
<1>7. ASSUME NEW q \in Request, SendMessage(q) PROVE StoreInv'
  BY <1>7, SendMessageStep, RouteKeeps
<1>8. ASSUME NEW q \in Request, SubmitReport(q) PROVE StoreInv'
  BY <1>8, SubmitReportStep, RouteKeeps
<1>9. ASSUME NEW q \in Request, PutProfile(q) PROVE StoreInv'
  BY <1>9, PutProfileStep, RouteKeeps
<1>10. ASSUME NEW q \in Request, SubmitOnboarding(q) PROVE StoreInv'
  BY <1>10, SubmitOnboardingStep, RouteKeeps
<1>11. ASSUME NEW q \in Request, JoinWaitlist(q) PROVE StoreInv'
  BY <1>11, JoinWaitlistStep, RouteKeeps
<1>12. ASSUME NEW q \in Request, ListMatches(q) PROVE StoreInv'
  BY <1>12, ListMatchesStep, RouteKeeps
<1>13. CASE Crash
  BY <1>13, CrashKeeps
<1>14. CASE UNCHANGED vars
  BY <1>14 DEF vars, StoreInv, JobShape, InHand, Holding, Carries, FileShape, Fresh
<1> QED BY <1>1, <1>2, <1>3, <1>4, <1>5, <1>6, <1>7, <1>8, <1>9, <1>10, <1>11, <1>12, <1>13,
           <1>14 DEF Next, Handle, Finished

\* It holds in every run.
LEMMA StoreInvHolds == Spec => []StoreInv
<1> QED BY InitHolds, NextKeeps, PTL DEF Spec

\* For any users, requests, seeds and faults, and however the handlers'
\* unlocked reads and writes of the file interleave: a file that parses is a
\* consistent document (one conversation per pair, blocked if a block of the
\* pair is on record; a message held for review if and only if it is flagged;
\* an active account with its whole profile).
THEOREM EveryDocumentConsistent == Spec => []FileConsistent
<1>1. StoreInv => FileConsistent
  <2> SUFFICES ASSUME StoreInv PROVE FileConsistent
    OBVIOUS
  <2>1. \A q \in Request :
          job[q].at \in {"new", "ensure", "read", "open", "write", "answered"}
    BY DEF StoreInv, JobShape, InHand, New, Answered
  <2> QED BY <2>1 DEF StoreInv, FileShape, Good, FileConsistent, TypeOK
<1> QED BY <1>1, StoreInvHolds, PTL

(***************************************************************************)
(* While the runs are calm.                                                *)
(***************************************************************************)

\* What was answered with 201 is in d.
Recorded(d) == /\ kept \subseteq RecordIds(d)
               /\ \A b \in blocks : \E r \in d.reports : r.block /\ {r.reporter, r.target} = b

CalmJob(q) ==
  /\ ~job[q].repairs
  /\ job[q].at = "open" /\ job[q].ask.kind # "seeds" => Recorded(job[q].data)
  /\ job[q].at = "write" => Recorded(job[q].data) /\ file = Garbled(0)
  /\ job[q].ask.kind # "seeds" => job[q].barred \subseteq blocks

CalmStore == /\ \A p, q \in Request : InHand(p) /\ InHand(q) => p = q
             /\ \A q \in Request : InHand(q) => CalmJob(q)
             /\ Quiet => file.parses /\ Recorded(file.data)

CalmInv == calm => CalmStore

\* In the calm, a step of q has no other request to mind.
LEMMA OnlyOne ==
  ASSUME StoreInv, CalmStore, NEW q \in Request, NEW j, job' = [job EXCEPT ![q] = j],
         InHand(q)
  PROVE  /\ job'[q] = j
         /\ \A p \in Request : InHand(p)' => p = q
         /\ Quiet' <=> j.at # "write"
         /\ job[q].at # "write" => Quiet
<1>1. job'[q] = j /\ \A p \in Request \ {q} : job'[p] = job[p]
  BY DEF StoreInv
<1>2. \A p \in Request \ {q} : ~InHand(p)
  BY DEF CalmStore
<1>3. \A p \in Request \ {q} : job[p].at # "write"
  BY <1>2 DEF InHand
<1> QED BY <1>1, <1>2, <1>3 DEF InHand, Quiet

\* A handler that answers leaves the calm as it was.
LEMMA AnswerCalm ==
  ASSUME StoreInv, CalmStore, NEW q \in Request, job[q].at = "read",
         job' = [job EXCEPT ![q] = Answered], UNCHANGED <<file, blocks, kept>>
  PROVE  CalmStore'
<1>1. InHand(q) /\ Answered.at = "answered"
  BY DEF InHand, Answered
<1>2. /\ job'[q] = Answered /\ \A p \in Request : InHand(p)' => p = q
      /\ Quiet' /\ Quiet
  BY <1>1, OnlyOne
<1>3. ~InHand(q)'
  BY <1>1, <1>2 DEF InHand
<1> QED BY <1>2, <1>3 DEF CalmStore, Recorded

\* What extends a document holds what that held.
LEMMA ExtendsRecorded ==
  ASSUME NEW d, NEW q, NEW new, Extends(d, q, new), Recorded(d)
  PROVE  Recorded(new)
BY DEF Extends, Recorded

\* What a route saves holds all that was answered.
LEMMA SaveCalm ==
  ASSUME StoreInv, CalmStore, NEW q \in Request, NEW d, Stored(q, d)
  PROVE  CalmStore'
<1> DEFINE r == job[q]
           j == [r EXCEPT !.at = "open", !.data = d]
<1>1. /\ r.at = "read" /\ InHand(q) /\ UNCHANGED <<file, blocks, kept>>
      /\ job' = [job EXCEPT ![q] = j]
  BY DEF Stored, Save, InHand
<1>2. r = [at |-> r.at, ask |-> r.ask, data |-> r.data, repairs |-> r.repairs,
           barred |-> r.barred]
  BY <1>1, InHandShape
<1>3. j = [at |-> "open", ask |-> r.ask, data |-> d, repairs |-> r.repairs,
           barred |-> r.barred]
  <2> HIDE DEF r
  <2> QED BY <1>2, Moved
<1> HIDE DEF j
<1>4. /\ j.at = "open" /\ j.ask = r.ask /\ j.data = d /\ j.repairs = r.repairs
      /\ j.barred = r.barred
  BY <1>3
<1>5. /\ job'[q] = j /\ \A p \in Request : InHand(p)' => p = q
      /\ Quiet' /\ Quiet
  BY <1>1, <1>4, OnlyOne
<1>6. Recorded(file.data) /\ Recorded(file.data)' /\ file'.parses
  BY <1>1, <1>5 DEF CalmStore, Recorded
<1>7. Recorded(d)
  BY <1>6, ExtendsRecorded DEF Stored
<1>8. CalmJob(q)'
  BY <1>1, <1>4, <1>5, <1>7 DEF CalmStore, CalmJob, Recorded
<1> QED BY <1>5, <1>6, <1>8 DEF CalmStore

\* A route keeps the calm.
LEMMA RouteCalm ==
  ASSUME StoreInv, CalmStore, NEW q \in Request, RouteStep(q)
  PROVE  CalmStore'
BY SaveCalm, AnswerCalm DEF RouteStep, Answer

\* A request that begins in the calm is the only one in hand.
LEMMA StartCalm ==
  ASSUME StoreInv, CalmStore, NEW q \in Request, NEW ask \in Requests, Start(q, ask), calm'
  PROVE  CalmStore'
<1> DEFINE j == [at |-> IF ask.kind = "seeds" THEN "open" ELSE "ensure", ask |-> ask,
                 data |-> IF ask.kind = "seeds" THEN Seed ELSE EmptyData,
                 repairs |-> FALSE, barred |-> blocks]
<1>1. /\ job[q] = New /\ job' = [job EXCEPT ![q] = j] /\ UNCHANGED <<file, blocks, kept>>
      /\ \A p \in Request : job[p] \in {New, Answered}
  BY DEF Start
<1>2. /\ job'[q] = j /\ \A p \in Request \ {q} : job'[p] = job[p]
  BY <1>1 DEF StoreInv
<1>3. /\ j.at \in {"open", "ensure"} /\ j.ask = ask /\ j.repairs = FALSE /\ j.barred = blocks
      /\ j.at = "open" => ask.kind = "seeds"
  OBVIOUS
<1> HIDE DEF j
<1>4. /\ \A p \in Request : ~InHand(p) /\ job[p].at # "write"
      /\ \A p \in Request : InHand(p)' => p = q
      /\ Quiet /\ Quiet'
  BY <1>1, <1>2, <1>3 DEF InHand, New, Answered, Quiet
<1>5. CalmJob(q)'
  BY <1>1, <1>2, <1>3 DEF CalmJob
<1> QED BY <1>1, <1>4, <1>5 DEF CalmStore, Recorded

\* In the calm the file is found.
LEMMA EnsureFileCalm ==
  ASSUME StoreInv, CalmStore, NEW q \in Request, EnsureFile(q), calm'
  PROVE  CalmStore'
<1> DEFINE r == job[q]
           j == [r EXCEPT !.at = "read"]
<1>1. /\ r.at = "ensure" /\ InHand(q) /\ UNCHANGED <<file, blocks, kept>>
      /\ job' = [job EXCEPT ![q] = j]
  BY DEF EnsureFile, InHand
<1>2. r = [at |-> r.at, ask |-> r.ask, data |-> r.data, repairs |-> r.repairs,
           barred |-> r.barred]
  BY <1>1, InHandShape
<1>3. j = [at |-> "read", ask |-> r.ask, data |-> r.data, repairs |-> r.repairs,
           barred |-> r.barred]
  <2> HIDE DEF r
  <2> QED BY <1>2, Moved
<1> HIDE DEF j
<1>4. /\ j.at = "read" /\ j.ask = r.ask /\ j.repairs = r.repairs /\ j.barred = r.barred
  BY <1>3
<1>5. /\ job'[q] = j /\ \A p \in Request : InHand(p)' => p = q
      /\ Quiet' /\ Quiet
  BY <1>1, <1>4, OnlyOne
<1>6. CalmJob(q)'
  BY <1>1, <1>4, <1>5 DEF CalmStore, CalmJob
<1> QED BY <1>1, <1>5, <1>6 DEF CalmStore, Recorded

\* Who truncates the file holds all that was answered; the seeds owe nothing.
LEMMA OpenFileCalm ==
  ASSUME StoreInv, CalmStore, NEW q \in Request, OpenFile(q)
  PROVE  CalmStore'
<1> DEFINE r == job[q]
           j == [r EXCEPT !.at = "write"]
<1>1. /\ r.at = "open" /\ InHand(q) /\ file' = Garbled(0)
      /\ job' = [job EXCEPT ![q] = j]
      /\ IF r.ask.kind = "seeds" /\ ~r.repairs
         THEN blocks' = {} /\ kept' = {} ELSE UNCHANGED <<blocks, kept>>
  BY DEF OpenFile, InHand
<1>2. r = [at |-> r.at, ask |-> r.ask, data |-> r.data, repairs |-> r.repairs,
           barred |-> r.barred]
  BY <1>1, InHandShape
<1>3. j = [at |-> "write", ask |-> r.ask, data |-> r.data, repairs |-> r.repairs,
           barred |-> r.barred]
  <2> HIDE DEF r
  <2> QED BY <1>2, Moved
<1> HIDE DEF j
<1>4. /\ j.at = "write" /\ j.ask = r.ask /\ j.data = r.data /\ j.repairs = r.repairs
      /\ j.barred = r.barred
  BY <1>3
<1>5. /\ job'[q] = j /\ \A p \in Request : InHand(p)' => p = q
      /\ ~Quiet'
  BY <1>1, <1>4, OnlyOne
<1>6. CalmJob(q)
  BY <1>1 DEF CalmStore
<1>7. CalmJob(q)'
  <2>1. CASE r.ask.kind = "seeds"
    BY <1>1, <1>4, <1>5, <1>6, <2>1 DEF CalmJob, Recorded
  <2>2. CASE r.ask.kind # "seeds"
    BY <1>1, <1>4, <1>5, <1>6, <2>2 DEF CalmJob, Recorded
  <2> QED BY <2>1, <2>2
<1> QED BY <1>5, <1>7 DEF CalmStore

\* In the calm, the file is what its writer brings.
LEMMA WritesWhole ==
  ASSUME StoreInv, CalmStore, NEW q \in Request, WriteFile(q)
  PROVE  /\ file' = Whole(job[q].data) /\ Good(job[q].data) /\ Recorded(job[q].data)
         /\ Carries(q) /\ ~job[q].repairs /\ CalmJob(q)
<1>1. job[q].at = "write" /\ InHand(q)
  BY DEF WriteFile, InHand
<1>2. CalmJob(q) /\ ~job[q].repairs /\ Recorded(job[q].data) /\ file = Garbled(0)
  BY <1>1 DEF CalmStore, CalmJob
<1>3. Good(job[q].data) /\ Carries(q)
  BY <1>1, <1>2, InHandShape DEF Holding
<1>4. Length(job[q].data) >= file.length
  BY <1>2, <1>3, LengthIsNatural DEF Garbled
<1> QED BY <1>2, <1>3, <1>4 DEF WriteFile

\* What is written holds what was answered before, and what is answered now.
LEMMA WriteFileCalm ==
  ASSUME StoreInv, CalmStore, NEW q \in Request, WriteFile(q)
  PROVE  CalmStore'
<1> DEFINE r == job[q]
<1>1. /\ r.at = "write" /\ InHand(q)
      /\ ~r.repairs => /\ job' = [job EXCEPT ![q] = Answered]
                       /\ blocks' = blocks \cup BlockOf(r.ask)
                       /\ kept' = kept \cup {c \in {q} : r.ask.kind \in Creates}
  BY DEF WriteFile, InHand
<1>2. /\ file' = Whole(r.data) /\ Recorded(r.data) /\ Carries(q) /\ ~r.repairs
  BY WritesWhole
<1>3. Answered.at = "answered"
  BY DEF Answered
<1>4. /\ job'[q] = Answered /\ \A p \in Request : InHand(p)' => p = q
  BY <1>1, <1>2, OnlyOne
<1>5. ~InHand(q)'
  BY <1>3, <1>4 DEF InHand
<1>6. file'.parses /\ file'.data = r.data
  BY <1>2 DEF Whole
<1>7. kept' \subseteq RecordIds(r.data)
  BY <1>1, <1>2 DEF Recorded, Carries
<1>8. \A b \in blocks' : \E x \in r.data.reports : x.block /\ {x.reporter, x.target} = b
  <2>1. \A b \in BlockOf(r.ask) : \E x \in r.data.reports : x.block /\ {x.reporter, x.target} = b
    BY <1>2 DEF BlockOf, Carries, BlockedPair
  <2> QED BY <1>1, <1>2, <2>1 DEF Recorded
<1>9. Recorded(file.data)'
  BY <1>6, <1>7, <1>8 DEF Recorded
<1> QED BY <1>4, <1>5, <1>6, <1>9 DEF CalmStore

\* A crash in the calm finds no writer.
LEMMA CrashCalm ==
  ASSUME StoreInv, CalmStore, Crash, calm'
  PROVE  CalmStore'
<1>1. /\ job' = [q \in Request |-> IF job[q] = New THEN New ELSE Answered]
      /\ UNCHANGED <<file, blocks, kept>> /\ \A q \in Request : job[q].at # "write"
  BY DEF Crash
<1>2. \A q \in Request : ~InHand(q)'
  BY <1>1 DEF InHand, New, Answered
<1> QED BY <1>1, <1>2 DEF CalmStore, Recorded, Quiet

\* Every step keeps what the calm promises.
LEMMA CalmInvStep == StoreInv /\ CalmInv /\ [Next]_vars => CalmInv'
<1> SUFFICES ASSUME StoreInv, CalmInv, [Next]_vars, calm' PROVE CalmStore'
  BY DEF CalmInv
<1>0. CASE UNCHANGED vars
  BY <1>0 DEF vars, CalmInv, CalmStore, CalmJob, Recorded, InHand, Quiet
<1> SUFFICES ASSUME Next PROVE CalmStore'
  BY <1>0
<1>1. calm
  BY DEF Next, Handle, Start, EnsureFile, ReadFails, OpenFile, WriteFile, CreateConversation,
         SendMessage, SubmitReport, PutProfile, SubmitOnboarding, JoinWaitlist, ListMatches,
         Answer, Save, Crash, Finished, vars
<1>2. CalmStore
  BY <1>1 DEF CalmInv
<1>3. ASSUME NEW q \in Request, NEW ask \in Requests, Start(q, ask) PROVE CalmStore'
  BY <1>2, <1>3, StartCalm
<1>4. ASSUME NEW q \in Request, EnsureFile(q) PROVE CalmStore'
  BY <1>2, <1>4, EnsureFileCalm
<1>5. ASSUME NEW q \in Request, ReadFails(q) PROVE CalmStore'
  BY <1>2, <1>5, AnswerCalm DEF ReadFails
<1>6. ASSUME NEW q \in Request, OpenFile(q) PROVE CalmStore'
  BY <1>2, <1>6, OpenFileCalm
<1>7. ASSUME NEW q \in Request, WriteFile(q) PROVE CalmStore'
  BY <1>2, <1>7, WriteFileCalm
<1>8. ASSUME NEW q \in Request,
             \/ CreateConversation(q) \/ SendMessage(q) \/ SubmitReport(q) \/ PutProfile(q)
             \/ SubmitOnboarding(q) \/ JoinWaitlist(q) \/ ListMatches(q)
      PROVE  CalmStore'
  BY <1>2, <1>8, RouteCalm, CreateConversationStep, SendMessageStep, SubmitReportStep,
     PutProfileStep, SubmitOnboardingStep, JoinWaitlistStep, ListMatchesStep
<1>9. CASE Crash
  BY <1>2, <1>9, CrashCalm
<1>10. CASE Finished
  BY <1>0, <1>10 DEF Finished
<1> QED BY <1>3, <1>4, <1>5, <1>6, <1>7, <1>8, <1>9, <1>10 DEF Next, Handle

\* It is promised when the API starts.
LEMMA CalmInvInit == Init => CalmInv
<1> SUFFICES ASSUME Init PROVE CalmStore
  BY DEF CalmInv
<1>1. \A q \in Request : ~InHand(q)
  BY DEF Init, InHand, New
<1>2. file.parses /\ kept = {} /\ blocks = {}
  BY DEF Init, Whole
<1> QED BY <1>1, <1>2 DEF CalmStore, Recorded

\* It is kept in every run.
LEMMA CalmInvHolds == Spec => []CalmInv
<1> QED BY StoreInvHolds, CalmInvInit, CalmInvStep, PTL DEF Spec

\* As long as no two requests overlap and no fault costs the file, the file
\* parses whenever it is not being written, and holds every record that was
\* answered with 201 since the seeds were loaded.
THEOREM NothingAcknowledgedIsLost == Spec => []AcknowledgedKept
<1>1. CalmInv => AcknowledgedKept
  BY DEF CalmInv, CalmStore, Recorded, AcknowledgedKept
<1> QED BY <1>1, CalmInvHolds, PTL

\* A recorded block of a pair blocks the pair's conversations.
LEMMA PairIsBlocked ==
  ASSUME NEW d, Good(d), Recorded(d), NEW c \in d.conversations, c.pair \in blocks
  PROVE  c.blocked
<1>1. PICK r \in d.reports : r.block /\ {r.reporter, r.target} = c.pair
  BY DEF Recorded
<1>2. r.reporter # r.target
  <2> SUFFICES ASSUME r.reporter = r.target PROVE FALSE
    OBVIOUS
  <2>1. c.pair = {r.reporter}
    BY <1>1
  <2>2. Cardinality(c.pair) = 1
    BY <2>1, FS_Singleton
  <2>3. Cardinality(c.pair) = 2
    BY DEF Good, Known
  <2> QED BY <2>2, <2>3
<1>3. BlockedPair(d, r.reporter, r.target)
  BY <1>1 DEF BlockedPair
<1>4. r.reporter \in c.pair /\ r.target \in c.pair
  BY <1>1
<1> QED BY <1>2, <1>3, <1>4 DEF Good, Sound

\* A step of a request that is not writing leaves those alone that are.
LEMMA WriterUntouched ==
  ASSUME StoreInv, NEW q \in Request, job[q].at = "write", NEW p \in Request, NEW j,
         job[p].at # "write", job' = [job EXCEPT ![p] = j]
  PROVE  job'[q].at = "write"
BY DEF StoreInv

\* Only its own write answers a request that is writing, or a crash that costs
\* the calm.
LEMMA WriterIsAlone ==
  ASSUME StoreInv, NEW q \in Request, job[q].at = "write", job'[q].at = "answered",
         [Next]_vars, calm'
  PROVE  WriteFile(q)
<1>1. ~UNCHANGED vars
  BY DEF vars
<1>2. ASSUME NEW p \in Request, NEW ask \in Requests, Start(p, ask) PROVE FALSE
  <2>1. job[p].at # "write"
    BY <1>2 DEF Start, New
  <2> QED BY <1>2, <2>1, WriterUntouched DEF Start
<1>3. ASSUME NEW p \in Request, EnsureFile(p) PROVE FALSE
  <2>1. job[p].at # "write" /\ job' = [job EXCEPT ![p].at = "read"]
    BY <1>3 DEF EnsureFile
  <2> QED BY <2>1, WriterUntouched
<1>4. ASSUME NEW p \in Request, ReadFails(p) PROVE FALSE
  BY <1>4, WriterUntouched DEF ReadFails
<1>5. ASSUME NEW p \in Request, OpenFile(p) PROVE FALSE
  BY <1>5, WriterUntouched DEF OpenFile
<1>6. ASSUME NEW p \in Request, RouteStep(p) PROVE FALSE
  <2>1. CASE job[p].at = "read" /\ Answer(p)
    BY <2>1, WriterUntouched DEF Answer
  <2>2. ASSUME NEW d, Stored(p, d) PROVE FALSE
    <3>1. job[p].at = "read" /\ job' = [job EXCEPT ![p].at = "open", ![p].data = d]
      BY <2>2 DEF Stored, Save
    <3>2. PICK j : job' = [job EXCEPT ![p] = j]
      BY <3>1
    <3> QED BY <3>1, <3>2, WriterUntouched
  <2> QED BY <1>6, <2>1, <2>2 DEF RouteStep
<1>7. ASSUME NEW p \in Request, WriteFile(p), p # q PROVE FALSE
  <2>1. \E j : job' = [job EXCEPT ![p] = j]
    BY <1>7 DEF WriteFile
  <2>2. job'[q] = job[q]
    BY <1>7, <2>1 DEF StoreInv
  <2> QED BY <2>2
<1>8. ~Crash /\ ~Finished
  BY <1>1 DEF Crash, Finished
<1>9. ASSUME NEW p \in Request,
             \/ CreateConversation(p) \/ SendMessage(p) \/ SubmitReport(p) \/ PutProfile(p)
             \/ SubmitOnboarding(p) \/ JoinWaitlist(p) \/ ListMatches(p)
      PROVE  FALSE
  BY <1>6, <1>9, CreateConversationStep, SendMessageStep, SubmitReportStep,
     PutProfileStep, SubmitOnboardingStep, JoinWaitlistStep, ListMatchesStep
<1> QED BY <1>1, <1>2, <1>3, <1>4, <1>5, <1>7, <1>8, <1>9 DEF Next, Handle

\* Blocks must be respected immediately (SAFETY_PRINCIPLES.md 30-31): as long
\* as no two requests overlap and no fault costs the file, a block answered
\* before a request arrived keeps that request from sending a message into the
\* pair's conversation, from opening one, and from showing one to the other.
THEOREM BlocksRespected == Spec => CalmBlockRespected
<1>1. StoreInv /\ CalmInv /\ [Next]_vars => (calm' => \A q \in Request : Respects(q))
  <2> SUFFICES ASSUME StoreInv, CalmInv, [Next]_vars, calm', NEW q \in Request
               PROVE  Respects(q)
    OBVIOUS
  <2> DEFINE ask == job[q].ask
  <2>1. calm
    BY DEF Next, Handle, Start, EnsureFile, ReadFails, OpenFile, WriteFile, CreateConversation,
           SendMessage, SubmitReport, PutProfile, SubmitOnboarding, JoinWaitlist, ListMatches,
           Answer, Save, Crash, Finished, vars
  <2>2. CalmStore
    BY <2>1 DEF CalmInv
  <2>3. ASSUME job[q].at = "write", job'[q].at = "answered" PROVE WriteFile(q)
    BY <2>1, <2>3, WriterIsAlone DEF vars, CalmInv
  <2>4. ASSUME job[q].at = "write", job'[q].at = "answered", ask.kind = "message", file'.parses,
               NEW c \in file'.data.conversations, c.id = ask.conversation
        PROVE  c.pair \notin job[q].barred
    <3>1. /\ file' = Whole(job[q].data) /\ Good(job[q].data) /\ Recorded(job[q].data)
          /\ Carries(q) /\ CalmJob(q)
      BY <2>2, <2>3, <2>4, WritesWhole
    <3>2. c \in job[q].data.conversations /\ ~c.blocked
      BY <2>4, <3>1 DEF Whole, Carries
    <3>3. c.pair \notin blocks
      BY <3>1, <3>2, PairIsBlocked
    <3> QED BY <2>4, <3>1, <3>3 DEF CalmJob
  <2>5. ASSUME job[q].at = "write", job'[q].at = "answered", ask.kind = "conversation"
        PROVE  {ask.from, ask.to} \notin job[q].barred
    <3>1. Recorded(job[q].data) /\ Carries(q) /\ CalmJob(q)
      BY <2>2, <2>3, <2>5, WritesWhole
    <3>2. {ask.from, ask.to} \notin blocks
      BY <2>5, <3>1 DEF Carries, Recorded, BlockedPair
    <3> QED BY <2>5, <3>1, <3>2 DEF CalmJob
  <2>6. ASSUME Reads(q, "matches"), NEW v \in Candidates(file.data, ask.from)
        PROVE  {ask.from, v} \notin job[q].barred
    <3>1. job[q].at = "read" /\ InHand(q) /\ ask.kind = "matches"
      BY <2>6 DEF Reads, InHand
    <3>2. Recorded(file.data)
      <4>1. Quiet
        BY <2>2, <3>1 DEF CalmStore, Quiet, InHand
      <4> QED BY <2>2, <4>1 DEF CalmStore
    <3>3. ~BlockedPair(file.data, ask.from, v)
      BY <2>6 DEF Candidates
    <3>4. job[q].barred \subseteq blocks
      BY <2>2, <3>1 DEF CalmStore, CalmJob
    <3> QED BY <3>2, <3>3, <3>4 DEF Recorded, BlockedPair
  <2> QED BY <2>4, <2>5, <2>6 DEF Respects
<1> QED BY <1>1, StoreInvHolds, CalmInvHolds, PTL DEF Spec, CalmBlockRespected

================================================================================
