------------------------- MODULE OperationLifecycle -------------------------
(***************************************************************************)
(* What operation_queue promises of a task and its result, with no worker, *)
(* list or lock in sight (src/include/dross/thread/operation_queue.h and   *)
(* operation.h): a task accepted is queued until it starts or is           *)
(* cancelled; it starts only once every task it runs after has returned;   *)
(* a task that has started returns and is never cancelled; and cancelling  *)
(* one cancels every task after it before anything is accepted or started. *)
(***************************************************************************)
EXTENDS Integers, Sequences

CONSTANTS MaxAfter      \* bound: results one task may be named to run after

VARIABLES
    open,       \* whether the queue accepts tasks
    task,       \* what each accepted task runs after, and the result it fills in
    status,     \* where each task stands
    results     \* the state of each result

lifecycle == <<open, task, status, results>>

None == 0

Lists == UNION {[1..n -> 1..Len(results)] : n \in 0..MaxAfter}
Names(after, state) == \E i \in DOMAIN after : results[after[i]] = state

\* Queued tasks that can never start: cancelling takes them all.
Doomed == {o \in 1..Len(task) : status[o] = "queued" /\ Names(task[o].after, "cancelled")}

\* A result, where there is one, follows its task.
ResultBecomes(o, state) ==
    results' = IF task[o].result = None THEN results
               ELSE [results EXCEPT ![task[o].result] = state]

Init == open = TRUE /\ task = <<>> /\ status = <<>> /\ results = <<>>

Accept(after, result) ==
    /\ open /\ Doomed = {} /\ ~Names(after, "cancelled")
    /\ results' = IF result = None THEN results ELSE Append(results, "pending")
    /\ task' = Append(task, [after |-> after, result |-> result])
    /\ status' = Append(status, "queued")
    /\ UNCHANGED open

\* A task to run after a cancelled result gets a result and is never queued.
AcceptCancelled(after) ==
    /\ open /\ Doomed = {} /\ Names(after, "cancelled")
    /\ results' = Append(results, "cancelled")
    /\ UNCHANGED <<open, task, status>>

Start(o) ==
    /\ status[o] = "queued" /\ Doomed = {}
    /\ \A i \in DOMAIN task[o].after : results[task[o].after[i]] = "returned"
    /\ status' = [status EXCEPT ![o] = "running"]
    /\ UNCHANGED <<open, task, results>>

Return(o) ==
    /\ status[o] = "running"
    /\ status' = [status EXCEPT ![o] = "returned"]
    /\ ResultBecomes(o, "returned")
    /\ UNCHANGED <<open, task>>

\* Asked for by its result, or following a task it runs after.
Cancel(o) ==
    /\ status[o] = "queued"
    /\ o \in Doomed \/ (Doomed = {} /\ task[o].result # None)
    /\ status' = [status EXCEPT ![o] = "cancelled"]
    /\ ResultBecomes(o, "cancelled")
    /\ UNCHANGED <<open, task>>

Close ==
    /\ open /\ Doomed = {}
    /\ open' = FALSE
    /\ UNCHANGED <<task, status, results>>

Next ==
    \/ \E after \in Lists, result \in {None, Len(results) + 1} : Accept(after, result)
    \/ \E after \in Lists : AcceptCancelled(after)
    \/ \E o \in 1..Len(task) : Start(o) \/ Return(o) \/ Cancel(o)
    \/ Close

Spec == Init /\ [][Next]_lifecycle

=============================================================================
