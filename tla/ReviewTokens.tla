---------------------------- MODULE ReviewTokens ----------------------------
(***************************************************************************)
(* What the session store promises of its tokens, with no clock, no bytes  *)
(* and no timer: a token is issued once, is open for one owner who holds   *)
(* no other, is granted at most once, and once ended never opens again.    *)
(* Tokens may end at any time: by expiry, by removal, by replacement.      *)
(***************************************************************************)
EXTENDS Naturals, Functions

CONSTANTS Subject, Token

VARIABLES
  issued,  \* tokens handed out so far
  holder,  \* the open tokens, each with its owner
  grants   \* how often each token was granted a continuation

tokenVars == <<issued, holder, grants>>

Open == DOMAIN holder

Init == /\ issued = {}
        /\ holder = [t \in {} |-> 0]
        /\ grants = [t \in Token |-> 0]

\* Any of the open tokens end, and no token is granted or issued.
End == /\ \E T \in SUBSET Open : holder' = Restrict(holder, Open \ T)
       /\ UNCHANGED <<issued, grants>>

\* A fresh token opens for s; whatever s still held ends in the same step.
Issue(t, s) ==
  /\ t \notin issued
  /\ \E T \in SUBSET Open :
       /\ \A u \in Open \ T : holder[u] # s
       /\ holder' = [u \in (Open \ T) \cup {t} |-> IF u = t THEN s ELSE holder[u]]
  /\ issued' = issued \cup {t}
  /\ UNCHANGED grants

\* The first and only grant of an open token; other tokens may end with it.
Grant(t) ==
  /\ t \in Open
  /\ grants[t] = 0
  /\ grants' = [grants EXCEPT ![t] = 1]
  /\ \E T \in SUBSET (Open \ {t}) : holder' = Restrict(holder, Open \ T)
  /\ UNCHANGED issued

Next == \/ End
        \/ \E t \in Token, s \in Subject : Issue(t, s)
        \/ \E t \in Token : Grant(t)

TokenSpec == Init /\ [][Next]_tokenVars
=============================================================================
