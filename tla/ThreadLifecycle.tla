--------------------------- MODULE ThreadLifecycle ---------------------------
(***************************************************************************)
(* What the thread module promises of its records, whoever looks: a thread *)
(* appears in all_threads() once, leaves it before it is seen as ended,    *)
(* and a wait is answered "ended" only after that                          *)
(* (src/include/dross/thread/thread.h, src/src/thread/thread.cpp).         *)
(***************************************************************************)
CONSTANTS Records, Callers

VARIABLES
    listed,         \* the records all_threads() returns
    ended,          \* the records finished() reports
    told            \* {<<c, r>>}: the last answer told c that r has ended

lifeVars == <<listed, ended, told>>

Init == listed = {} /\ ended = {} /\ told = {}

\* The last answer is forgotten when another call begins or answers.
Appear(r) ==
    /\ r \notin ended \union listed
    /\ listed' = listed \union {r}
    /\ told' \subseteq told /\ UNCHANGED ended

Leave(r) ==
    /\ r \in listed
    /\ listed' = listed \ {r}
    /\ UNCHANGED <<ended, told>>

End(r) ==
    /\ r \notin ended \union listed
    /\ ended' = ended \union {r}
    /\ UNCHANGED <<listed, told>>

Tell(c, r) ==
    /\ r \in ended
    /\ told' = {<<c, r>>}
    /\ UNCHANGED <<listed, ended>>

Forget == told' \subseteq told /\ UNCHANGED <<listed, ended>>

Next ==
    \/ \E r \in Records : Appear(r) \/ Leave(r) \/ End(r)
    \/ \E r \in Records, c \in Callers : Tell(c, r)
    \/ Forget

Spec == Init /\ [][Next]_lifeVars

=============================================================================
