---------------------------- MODULE TimerSchedule ----------------------------
(***************************************************************************)
(* timer_schedule (src/src/thread/timer_schedule.h): the timers installed  *)
(* on one loop, as a function from the id of each to the deadline it is    *)
(* next due at.  The order of _slots, which only decides between deadlines *)
(* that are equal, is left open.                                           *)
(***************************************************************************)
EXTENDS Deadline

Empty == [id \in {} |-> 0]

Install(due, id, deadline) ==
    [t \in DOMAIN due \union {id} |-> IF t = id THEN deadline ELSE due[t]]

\* remove(), or with every id remove_all().
Without(due, ids) == [t \in DOMAIN due \ ids |-> due[t]]

Candidates(due, boundary, handled) ==
    {t \in DOMAIN due : due[t] <= boundary /\ t \notin handled}

\* The timers take_due() may claim: the earliest due of the candidates.
Claimable(due, boundary, handled) ==
    {t \in Candidates(due, boundary, handled) :
        \A u \in Candidates(due, boundary, handled) : due[t] <= due[u]}

\* Mutant: next due an interval after it was due, not after it was claimed.
ClaimedFromDue(due, id, timer, claimedAt) ==
    IF timer.repeats THEN [due EXCEPT ![id] = After(@, timer.interval)]
                     ELSE Without(due, {id})

\* What take_due() leaves once it has claimed the timer.
Claimed(due, id, timer, claimedAt) ==
    IF timer.repeats THEN [due EXCEPT ![id] = After(claimedAt, timer.interval)]
                     ELSE Without(due, {id})

=============================================================================
