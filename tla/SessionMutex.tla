---------------------------- MODULE SessionMutex ----------------------------
(***************************************************************************)
(* What the pool of agents promises to the workers of the executor: the    *)
(* tasks of one session run one at a time, and a worker that waits for a   *)
(* session gets it.  How: locks, cache, eviction: is left to AgentPool.    *)
(***************************************************************************)
CONSTANTS
    Worker,  \* who asks for sessions
    Key,     \* the sessions, the shared agent's included
    NoKey    \* the session recorded for a worker that asks for none

VARIABLES
    phase,   \* "idle", "waiting", "holding", or "dead" while holding
    sess     \* the session of each worker that is not idle

mutexVars == <<phase, sess>>

Init ==
    /\ phase = [w \in Worker |-> "idle"]
    /\ sess = [w \in Worker |-> NoKey]

Busy(k) == \E w \in Worker : phase[w] \in {"holding", "dead"} /\ sess[w] = k

\* A worker asks for a session and has to wait.
Ask(w, k) ==
    /\ phase[w] = "idle"
    /\ phase' = [phase EXCEPT ![w] = "waiting"]
    /\ sess' = [sess EXCEPT ![w] = k]

\* A worker asks for a session nobody uses and gets it, or dies in it.
Take(w, k) ==
    /\ phase[w] = "idle"
    /\ ~Busy(k)
    /\ \E p \in {"holding", "dead"} : phase' = [phase EXCEPT ![w] = p]
    /\ sess' = [sess EXCEPT ![w] = k]

\* A worker that waits gets its session, or dies in it.
Grant(w) ==
    /\ phase[w] = "waiting"
    /\ ~Busy(sess[w])
    /\ \E p \in {"holding", "dead"} : phase' = [phase EXCEPT ![w] = p]
    /\ UNCHANGED sess

GiveBack(w) ==
    /\ phase[w] = "holding"
    /\ phase' = [phase EXCEPT ![w] = "idle"]
    /\ sess' = [sess EXCEPT ![w] = NoKey]

Next ==
    \E w \in Worker :
        \/ \E k \in Key : Ask(w, k) \/ Take(w, k)
        \/ Grant(w)
        \/ GiveBack(w)

Spec == Init /\ [][Next]_mutexVars

\* Nobody is overtaken for ever, though a session may change hands often.
Fairness == \A w \in Worker : SF_mutexVars(Grant(w))
=============================================================================
