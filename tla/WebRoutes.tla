------------------------------- MODULE WebRoutes -------------------------------
(***************************************************************************)
(* The web client's routes.  One page is mounted at a time; a page keeps   *)
(* its state only while it is mounted.                                     *)
(***************************************************************************)
CONSTANTS
    None,              \* absent: undefined, null, "", a page that is not mounted
    Peer               \* the other users, and the conversation with each of them

VARIABLES
    route,             \* the page that is mounted
    tour               \* the pages this visit keeps to (a bound; see WebClient)

SignalUiEnabled(flag, dev) == dev /\ flag = "true"

T1UiEnabled(flag, t1Flag, dev) == dev /\ flag = "true" /\ t1Flag = "true"

\* The routes of a build: any other path leads to the overview.
Offered(flag, t1Flag, dev) ==
    {"overview", "onboarding", "profile", "matches", "chat", "safety"}
        \cup {page \in {"signal"} : SignalUiEnabled(flag, dev)}
        \cup {page \in {"draft"} : T1UiEnabled(flag, t1Flag, dev)}
================================================================================
