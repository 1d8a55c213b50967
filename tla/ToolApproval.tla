---------------------------- MODULE ToolApproval ----------------------------
(***************************************************************************)
(* The approval of gated tools: the hook that runs before every tool call  *)
(* (andino/hitl.py), the file store of approvals (andino/approvals.py) and *)
(* the parts of the executor and of the HTTP routes that decide.  Here an  *)
(* agent has several tools and may call them in any order; the executor is *)
(* reduced to what it promises (SessionMutex, TaskLifecycle): one task at  *)
(* a time in a session, which asks, waits for its answer, and ends.        *)
(*                                                                         *)
(* A task interrupts with the calls of one turn that the hook stopped.  A  *)
(* human answers one of them while the task waits, or decides the whole    *)
(* record once nobody waits for it, and the task runs again as a replay.   *)
(***************************************************************************)
EXTENDS Naturals

CONSTANTS
    Id,        \* task ids
    Session,   \* session ids
    NoSession, \* the session of a task submitted without one
    Tool,      \* the gated tools: those needs_approval is true of
    NoTool,    \* "no answer"
    NoRecord,  \* "no file for this id"
    Within     \* <<t, u>>: the name of t is a substring of the name of u

ASSUME ToolAssumption ==
    /\ NoTool \notin Tool
    /\ NoSession \notin Session
    /\ NoRecord \notin [key : Session \cup {NoSession}, asks : SUBSET Tool,
                        status : {"pending", "approved", "denied"}]
    /\ Within \subseteq Tool \X Tool
    /\ \A t \in Tool : <<t, t>> \in Within

Key == Session \cup {NoSession}
Verdict == {"approved", "denied"}
Record == [key : Key, asks : SUBSET Tool, status : {"pending"} \cup Verdict]
Answer == [tool : Tool \cup {NoTool}, verdict : Verdict]
NoAnswer == [tool |-> NoTool, verdict |-> "denied"]

VARIABLES
    phase,   \* where each task is
    key,     \* the session of each task that is not absent
    asks,    \* the tools the hook stopped in the task's current turn
    answer,  \* the human's answer the task was last resumed with
    store,   \* approvals/<id>.json
    unspent, \* history: <<id, t>> when a human allowed task id to call t
    last     \* history: the last gated call that ran

vars == <<phase, key, asks, answer, store, unspent, last>>

Phase == {"absent", "queued", "running", "notify", "interrupted", "over"}

\* human: what the human said of this very call in this task, if anything;
\* paid: whether some human decision allowed it and was not used before.
Call == [human : Verdict \cup {"none"}, paid : BOOLEAN]

TypeOK ==
    /\ phase \in [Id -> Phase]
    /\ key \in [Id -> Key]
    /\ asks \in [Id -> SUBSET Tool]
    /\ answer \in [Id -> Answer]
    /\ store \in [Id -> Record \cup {NoRecord}]
    /\ unspent \subseteq Id \X Tool
    /\ last \in Call

Init ==
    /\ phase = [i \in Id |-> "absent"]
    /\ key = [i \in Id |-> NoSession]
    /\ asks = [i \in Id |-> {}]
    /\ answer = [i \in Id |-> NoAnswer]
    /\ store = [i \in Id |-> NoRecord]
    /\ unspent = {}
    /\ last = [human |-> "none", paid |-> TRUE]

-----------------------------------------------------------------------------
\* The tasks, as far as approvals are concerned.

\* The task holds a worker and its session's lock.
Active(i) == phase[i] \in {"running", "notify", "interrupted"}

Submit(i, k) ==
    /\ phase[i] = "absent"
    /\ phase' = [phase EXCEPT ![i] = "queued"]
    /\ key' = [key EXCEPT ![i] = k]
    /\ UNCHANGED <<asks, answer, store, unspent, last>>

\* A worker has the task's session.
Start(i) ==
    /\ phase[i] = "queued"
    /\ \A j \in Id : Active(j) => key[j] # key[i]
    /\ phase' = [phase EXCEPT ![i] = "running"]
    /\ UNCHANGED <<key, asks, answer, store, unspent, last>>

\* The stream ends with a result, an error or a timeout.
Finish(i) ==
    /\ phase[i] = "running"
    /\ phase' = [phase EXCEPT ![i] = "over"]
    /\ asks' = [asks EXCEPT ![i] = {}]
    /\ answer' = [answer EXCEPT ![i] = NoAnswer]
    /\ UNCHANGED <<key, store, unspent, last>>

\* A transient error: the stream starts over with the same input, and the
\* calls it had stopped may recur or not.
Retry(i) ==
    /\ phase[i] = "running"
    /\ asks[i] # {}
    /\ asks' = [asks EXCEPT ![i] = {}]
    /\ UNCHANGED <<phase, key, answer, store, unspent, last>>

-----------------------------------------------------------------------------
\* The hook.

\* The records lookup_decision may find for a tool in a session: decided, of
\* the session, with an interrupt whose tool name contains the tool's.  It
\* takes the first in file name order; ids are arbitrary, so any of them.
Matching(k, t) ==
    {r \in Id :
        /\ store[r] # NoRecord
        /\ store[r].key = k
        /\ store[r].status \in Verdict
        /\ \E u \in store[r].asks : <<t, u>> \in Within}

\* What the human said of this call: the answer the task was resumed with.
Said(i, t) == IF answer[i].tool = t THEN answer[i].verdict ELSE "none"

\* Task i calls t under verdict v, given for task r: it runs or is cancelled.
Called(v, i, t, r) ==
    IF v = "approved"
    THEN [human |-> Said(i, t), paid |-> <<r, t>> \in unspent]
    ELSE last

\* Mutant of CallWithDecision: the decision is applied and not consumed.
CallWithKeptDecision(i, t) ==
    \E r \in Matching(key[i], t) :
        /\ phase[i] = "running"
        /\ last' = Called(store[r].status, i, t, r)
        /\ unspent' = unspent \ ({r} \X Tool)
        /\ answer' = [answer EXCEPT ![i] = IF @.tool = t THEN NoAnswer ELSE @]
        /\ UNCHANGED <<phase, key, asks, store>>

\* A call of t finds a decision on file: consume_decision deletes the record,
\* and the tool runs or is cancelled as it says.
CallWithDecision(i, t) ==
    \E r \in Matching(key[i], t) :
        /\ phase[i] = "running"
        /\ store' = [store EXCEPT ![r] = NoRecord]
        /\ last' = Called(store[r].status, i, t, r)
        /\ unspent' = unspent \ ({r} \X Tool)
        /\ answer' = [answer EXCEPT ![i] = IF @.tool = t THEN NoAnswer ELSE @]
        /\ UNCHANGED <<phase, key, asks>>

\* A call of t finds no decision on file, and the task was resumed with an
\* answer to it: event.interrupt returns that answer.
CallWithAnswer(i, t) ==
    /\ phase[i] = "running"
    /\ Matching(key[i], t) = {}
    /\ answer[i].tool = t
    /\ last' = Called(answer[i].verdict, i, t, i)
    /\ unspent' = unspent \ {<<i, t>>}
    /\ answer' = [answer EXCEPT ![i] = NoAnswer]
    /\ UNCHANGED <<phase, key, asks, store>>

\* A call of t that nothing allows or denies: event.interrupt stops it.
CallStopped(i, t) ==
    /\ phase[i] = "running"
    /\ t \notin asks[i]
    /\ Matching(key[i], t) = {}
    /\ answer[i].tool # t
    /\ asks' = [asks EXCEPT ![i] = @ \cup {t}]
    /\ UNCHANGED <<phase, key, answer, store, unspent, last>>

-----------------------------------------------------------------------------
\* The executor and the human.

\* The turn ends with calls stopped: the record is saved (or not: save_pending
\* never raises) and the channel is notified.
Interrupt(i) ==
    /\ phase[i] = "running"
    /\ asks[i] # {}
    /\ phase' = [phase EXCEPT ![i] = "notify"]
    /\ answer' = [answer EXCEPT ![i] = NoAnswer]
    /\ \/ store' = [store EXCEPT ![i] = [key |-> key[i], asks |-> asks[i],
                                         status |-> "pending"]]
       \/ UNCHANGED store
    /\ UNCHANGED <<key, asks, unspent, last>>

\* The channel has been notified; the task waits for its answer.
Notified(i) ==
    /\ phase[i] = "notify"
    /\ phase' = [phase EXCEPT ![i] = "interrupted"]
    /\ UNCHANGED <<key, asks, answer, store, unspent, last>>

\* The human answers one of the calls; the worker discards the record and
\* resumes the agent.  Calls not answered are stopped again when they recur.
Respond(i, t, v) ==
    /\ phase[i] = "interrupted"
    /\ t \in asks[i]
    /\ phase' = [phase EXCEPT ![i] = "running"]
    /\ asks' = [asks EXCEPT ![i] = {}]
    /\ answer' = [answer EXCEPT ![i] = [tool |-> t, verdict |-> v]]
    /\ store' = [store EXCEPT ![i] = NoRecord]
    /\ unspent' = IF v = "approved" THEN unspent \cup {<<i, t>>} ELSE unspent
    /\ UNCHANGED <<key, last>>

\* Nobody answers in time, or the notification fails: the record stays.
GiveUp(i) ==
    /\ phase[i] \in {"notify", "interrupted"}
    /\ phase' = [phase EXCEPT ![i] = "over"]
    /\ asks' = [asks EXCEPT ![i] = {}]
    /\ UNCHANGED <<key, answer, store, unspent, last>>

\* decide_orphaned: the record of a task that waits for no answer is decided,
\* and task j submitted as its replay, unless the queue is full.
Decide(i, j, v) ==
    /\ phase[i] # "interrupted"
    /\ store[i] # NoRecord
    /\ store[i].status = "pending"
    /\ phase[j] = "absent"
    /\ store' = [store EXCEPT ![i].status = v]
    /\ unspent' = IF v = "approved" THEN unspent \cup ({i} \X store[i].asks) ELSE unspent
    /\ \/ /\ phase' = [phase EXCEPT ![j] = "queued"]
          /\ key' = [key EXCEPT ![j] = store[i].key]
       \/ UNCHANGED <<phase, key>>
    /\ UNCHANGED <<asks, answer, last>>

\* The process restarts: the tasks are gone, the store is not.
Restart ==
    /\ \E i \in Id : phase[i] = "queued" \/ Active(i)
    /\ phase' = [i \in Id |-> IF phase[i] = "absent" THEN "absent" ELSE "over"]
    /\ asks' = [i \in Id |-> {}]
    /\ answer' = [i \in Id |-> NoAnswer]
    /\ UNCHANGED <<key, store, unspent, last>>

Next ==
    \/ \E i \in Id :
          \/ \E k \in Key : Submit(i, k)
          \/ Start(i) \/ Retry(i) \/ Finish(i) \/ Interrupt(i) \/ Notified(i) \/ GiveUp(i)
          \/ \E t \in Tool :
                \/ CallWithDecision(i, t) \/ CallWithAnswer(i, t) \/ CallStopped(i, t)
                \/ \E v \in Verdict : Respond(i, t, v)
          \/ \E j \in Id, v \in Verdict : Decide(i, j, v)
    \/ Restart

Spec == Init /\ [][Next]_vars

-----------------------------------------------------------------------------
\* Properties.

\* A gated tool runs only when a human allowed that call, or decided the
\* record of an interrupt that named the tool, and no decision is used twice:
\* not by a replay, a later task of the session, or after a restart.
RunsArePaid == last.paid

\* "If denied, the tool is cancelled with a denial message."
DeniedCallsAreCancelled == last.human # "denied"
=============================================================================
