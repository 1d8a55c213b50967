--------------------------- MODULE TaskLifecycle ---------------------------
(***************************************************************************)
(* What the executor promises about one task after another, whatever the   *)
(* queue, the workers, the sessions and the retries do: the states a task  *)
(* goes through, and when the caller that submitted it is told.            *)
(***************************************************************************)
CONSTANT Task

VARIABLES
    state,   \* the state of each task, "absent" before it is submitted
    caller   \* what became of the submit_and_wait call of each task

lifecycleVars == <<state, caller>>

Over == {"completed", "failed", "timeout"}

Init ==
    /\ state = [t \in Task |-> "absent"]
    /\ caller = [t \in Task |-> "none"]

Move(t, from, to) == state[t] = from /\ state' = [state EXCEPT ![t] = to]

\* A task is accepted; a channel that submits it sleeps until it is over.
Accept(t) ==
    /\ Move(t, "absent", "queued")
    /\ \E c \in {"none", "waiting"} : caller' = [caller EXCEPT ![t] = c]

\* A task is refused, and its caller told so at once.
Refuse(t) ==
    /\ Move(t, "absent", "failed")
    /\ \E c \in {"none", "rejected"} : caller' = [caller EXCEPT ![t] = c]

\* The work starts, stops to ask a human, and goes on with the answer.
Work(t) ==
    /\ \/ Move(t, "queued", "running")
       \/ Move(t, "running", "interrupted")
       \/ Move(t, "interrupted", "running")
    /\ UNCHANGED caller

\* A task that has started ends, and its caller is woken in the same step.  An
\* answered task completes; one that still asks can only time out or fail.
Finish(t) ==
    /\ \/ \E s \in Over : Move(t, "running", s)
       \/ \E s \in {"failed", "timeout"} : Move(t, "interrupted", s)
    /\ caller' = [caller EXCEPT ![t] = IF @ = "waiting" THEN "woken" ELSE @]

\* The caller of a task that is over returns.
Tell(t) ==
    /\ state[t] \in Over
    /\ caller[t] = "woken"
    /\ \E c \in {"returned", "keyerror"} : caller' = [caller EXCEPT ![t] = c]
    /\ UNCHANGED state

Next == \E t \in Task : Accept(t) \/ Refuse(t) \/ Work(t) \/ Finish(t) \/ Tell(t)

Spec == Init /\ [][Next]_lifecycleVars
=============================================================================
