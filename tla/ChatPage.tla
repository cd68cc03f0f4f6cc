-------------------------------- MODULE ChatPage -------------------------------
(***************************************************************************)
(* The chat page and the part of the document store it works on.  Its      *)
(* requests are neither numbered nor aborted: each is answered in its own  *)
(* time, and its answer is applied to whatever the page shows by then.     *)
(***************************************************************************)
EXTENDS Naturals, SequencesExt, WebRoutes

CONSTANTS
    MaxCalls,          \* requests of the page at a time
    MaxSent            \* messages to one peer

VARIABLES
    chat,              \* the page's state, None if it is not mounted
    calls,             \* its requests under way, in the order they were sent
    writes,            \* writes that no page waits for any more
    server             \* [threads, sent, blocked]

chatVars == <<chat, calls, writes, server>>

ChatState == [list : Seq(Peer), barred : SUBSET Peer, selected : Peer \cup {None},
              messages : [of : Peer, count : Nat] \cup {None}, typed : BOOLEAN,
              opened : Peer \cup {None}, order : BOOLEAN, whole : BOOLEAN]

\* "order": its calls were answered in their order.  "whole": none failed, and
\* nothing was written by anyone else.  "opened": the peer whose thread a link
\* opens, until the user chooses another one, or writes in one, or the first list
\* arrives when the link's own has been there already.
EmptyChat == [list |-> <<>>, barred |-> {}, selected |-> None, messages |-> None, typed |-> FALSE,
              opened |-> None, order |-> TRUE, whole |-> TRUE]

Request(kind, peer, then) == [at |-> "sent", kind |-> kind, peer |-> peer, then |-> then]

MessagesOf(peer) == Request("messages", peer, "effect")

\* The effects of mounting: the list, and the conversation a link names.
MountChat(candidate) ==
    /\ chat' = [EmptyChat EXCEPT !.opened = candidate]
    /\ calls' = <<Request("list", None, "mount")>>
                  \o IF candidate = None THEN <<>> ELSE <<Request("create", candidate, "open")>>

\* Answers to a page that is gone are dropped, its writes are not.
UnmountChat ==
    /\ chat' = None /\ calls' = <<>>
    /\ writes' = writes \cup {[kind |-> calls[k].kind, peer |-> calls[k].peer] :
                                k \in {k \in DOMAIN calls : calls[k].at = "sent" /\ calls[k].kind \in {"create", "send"}}}

--------------------------------------------------------------------------------
(***************************************************************************)
(* The user.                                                               *)
(***************************************************************************)

\* setSelectedConversationId, with the effect on the selection.
Selecting(c, peer) ==
    IF peer = c.selected THEN c
    ELSE [c EXCEPT !.selected = peer, !.messages = IF peer = None THEN None ELSE @]
Effect(c, peer) == IF peer = c.selected \/ peer = None THEN <<>> ELSE <<MessagesOf(peer)>>

SelectThread ==
    /\ route = "chat" /\ Len(calls) < MaxCalls
    /\ \E peer \in Range(chat.list) :
         /\ chat' = [Selecting(chat, peer) EXCEPT !.opened = None]
         /\ calls' = calls \o Effect(chat, peer)
    /\ UNCHANGED <<writes, server>>

TypeMessage ==
    /\ route = "chat" /\ chat.selected # None /\ ~chat.typed
    /\ chat' = [chat EXCEPT !.typed = TRUE]
    /\ UNCHANGED <<calls, writes, server>>

Sending(peer) == Cardinality({k \in DOMAIN calls : calls[k].kind = "send" /\ calls[k].peer = peer /\ calls[k].at = "sent"})
                   + Cardinality({w \in writes : w = [kind |-> "send", peer |-> peer]})

\* The button is not disabled while a message is being sent.
HandleSendMessage ==
    /\ route = "chat" /\ Len(calls) < MaxCalls
    /\ chat.selected # None /\ chat.typed /\ chat.selected \notin chat.barred
    /\ server.sent[chat.selected] + Sending(chat.selected) < MaxSent
    /\ calls' = Append(calls, Request("send", chat.selected, "tail"))
    /\ chat' = [chat EXCEPT !.opened = IF @ = chat.selected THEN @ ELSE None]
    /\ UNCHANGED <<writes, server>>

--------------------------------------------------------------------------------
(***************************************************************************)
(* The answers.                                                            *)
(***************************************************************************)

\* Faulty: the list falls back on its first conversation every time.
NextSelectedFirst(list, preserve) == IF list = <<>> THEN None ELSE Head(list)

NextSelected(list, preserve) ==
    IF preserve \in Range(list) THEN preserve ELSE IF list = <<>> THEN None ELSE Head(list)

\* refreshConversations and what its caller does next.  The messages after a
\* send are asked for before the effect on a changed selection runs.
ListArrives(c, call) ==
    LET next == NextSelected(call.list, call.peer)
        tail == IF call.then = "tail" THEN <<Request("messages", call.peer, "tail")>> ELSE <<>>
    IN  [page  |-> [Selecting(c, next) EXCEPT !.list = call.list, !.barred = call.barred],
         calls |-> tail \o Effect(c, next)]

Arrives(c, call) ==
    CASE call.kind = "list" -> ListArrives(c, call)
      [] call.kind = "create" -> [page |-> c, calls |-> <<Request("list", call.peer, "open")>>]
      [] call.kind = "send" -> [page  |-> [c EXCEPT !.typed = FALSE],
                                calls |-> <<Request("list", call.peer, "tail")>>]
      [] call.kind = "messages" -> [page |-> [c EXCEPT !.messages = [of |-> call.peer, count |-> call.count]],
                                    calls |-> <<>>]

\* Faulty: the messages of the former thread stay.
FailsKeeping(c, call) == [c EXCEPT !.whole = FALSE, !.opened = IF call.then = "open" THEN None ELSE @]

\* A failure is shown; only the effect's own request also empties the thread.
Fails(c, call) == [c EXCEPT !.whole = FALSE,
                            !.messages = IF call.then = "effect" THEN None ELSE @,
                            !.opened = IF call.then = "open" THEN None ELSE @]

ChatSettles ==
    /\ \E k \in DOMAIN calls :
         LET late(c) == [c EXCEPT !.order = @ /\ k = 1]
             rest == RemoveAt(calls, k)
             after == Arrives(chat, calls[k])
             overtaken == calls[k].then = "mount" /\ ~\E j \in DOMAIN rest : rest[j].then = "open"
         IN  \/ /\ calls[k].at = "served"
                /\ chat' = [late(after.page) EXCEPT !.opened = IF overtaken THEN None ELSE @]
                /\ calls' = rest \o after.calls
             \/ /\ chat' = late(Fails(chat, calls[k]))
                /\ calls' = rest
    /\ UNCHANGED <<writes, server>>

--------------------------------------------------------------------------------
(***************************************************************************)
(* The API: conversations.ts, most recent conversation first.              *)
(***************************************************************************)

ToFront(threads, peer) == <<peer>> \o RemoveFirst(threads, peer)

Created(s, peer) == IF peer \in s.blocked \cup Range(s.threads) THEN s
                    ELSE [s EXCEPT !.threads = <<peer>> \o @]
Sent(s, peer) == IF peer \in s.blocked THEN s
                 ELSE [s EXCEPT !.threads = ToFront(@, peer), !.sent[peer] = @ + 1]

Refused(call) == call.kind \in {"create", "send"} /\ call.peer \in server.blocked

Written(s, w) == CASE w.kind = "create" -> Created(s, w.peer)
                   [] w.kind = "send"   -> Sent(s, w.peer)
                   [] OTHER             -> s

Answer(call) ==
    CASE call.kind = "list"     -> [at |-> "served", kind |-> "list", peer |-> call.peer, then |-> call.then,
                                    list |-> server.threads, barred |-> server.blocked]
      [] call.kind = "messages" -> [at |-> "served", kind |-> "messages", peer |-> call.peer, then |-> call.then,
                                    count |-> server.sent[call.peer]]
      [] OTHER                  -> [call EXCEPT !.at = IF Refused(call) THEN "refused" ELSE "served"]

ChatServed ==
    /\ \E k \in DOMAIN calls :
         /\ calls[k].at = "sent"
         /\ calls' = [calls EXCEPT ![k] = Answer(calls[k])]
         /\ server' = Written(server, calls[k])
    /\ UNCHANGED <<chat, writes>>

\* A write that nobody waits for is carried out, or never was received.
WriteServed ==
    /\ \E w \in writes : writes' = writes \ {w} /\ server' \in {server, Written(server, w)}
    /\ chat' = IF chat = None THEN None ELSE [chat EXCEPT !.whole = @ /\ server' = server]
    /\ UNCHANGED calls

ChatNext == SelectThread \/ TypeMessage \/ HandleSendMessage \/ ChatSettles \/ ChatServed \/ WriteServed
================================================================================
