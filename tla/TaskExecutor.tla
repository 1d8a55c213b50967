---------------------------- MODULE TaskExecutor ----------------------------
(***************************************************************************)
(* The task executor of andino/task_executor.py: HTTP clients and channels *)
(* submit tasks to a bounded queue; worker coroutines take them, acquire   *)
(* the session's agent and lock from the AgentPool, consume the agent's    *)
(* stream under a timeout with retries, and, when the agent interrupts for *)
(* a human approval, notify the channel and wait for an answer.  A pending *)
(* approval is also kept in a file, so that it can be decided after a      *)
(* restart: the decision resubmits the task under a new id.                *)
(*                                                                         *)
(* asyncio runs one coroutine at a time: everything between two awaits is  *)
(* one action.  The agent itself (strands), the human and the channel are  *)
(* outside and may do anything their interface allows.  Left out: prompts, *)
(* results and error texts, usage accounting (see Usage in the README).    *)
(***************************************************************************)
EXTENDS AgentPool

CONSTANTS
    Client,      \* the task ids that clients and channels choose
    NoWorker,    \* "no future in _pending_responses"
    NoRecord,    \* "no file in approvals/"
    MaxRetries,  \* config.limits.max_retries
    MaxHistory,  \* MAX_HISTORY
    ReuseIds,    \* whether an HTTP client may submit an id a second time
    MaxSubmits,  \* bound: TaskStatus objects created per life of the process
    MaxReplay,   \* bound: "-replay" suffixes of an id
    MaxAsks,     \* bound: interrupts of one run of a task
    MaxCrashes   \* bound: restarts of the process

ASSUME ExecutorAssumption ==
    /\ IsFiniteSet(Worker)
    /\ {MaxRetries, MaxReplay, MaxAsks, MaxCrashes} \subseteq Nat
    /\ {MaxHistory, MaxSubmits} \subseteq Nat \ {0}
    /\ ReuseIds \in BOOLEAN
    /\ NoWorker \notin Worker

\* A task id: the client's part and the number of "-replay" suffixes.
Id == Client \X (0..MaxReplay)
Replay(id) == <<id[1], id[2] + 1>>

Terminal == {"completed", "failed", "timeout"}
TaskState == {"queued", "running", "interrupted"} \cup Terminal

\* asyncio.Queue(maxsize=max_concurrent_tasks * 2)
QueueCap == 2 * Cardinality(Worker)

VARIABLES
    subs,          \* the TaskStatus objects, numbered as submit creates them
    tasks,         \* _tasks: the numbers of the objects in it, in dict order
    queue,         \* _queue: items [id, key]
    taskOf,        \* the object each worker holds in task_status, or 0
    step,          \* the await a worker that holds a session is suspended at
    attempt,       \* the worker's retry counter
    asks,          \* interrupts of the worker's task so far
    pending,       \* _pending_responses: whose future an id maps to
    answered,      \* whether the worker's future has its result
    events,        \* _completion_events: the object whose Event it is, or 0
    interruptCbs,  \* the ids in _interrupt_callbacks
    progressCbs,   \* the ids in _progress_callbacks
    store,         \* approvals/<id>.json: [key, status] or NoRecord
    crashes,       \* restarts so far
    reused         \* history: the ids submitted while they were not fresh

memory == <<subs, tasks, queue, taskOf, step, attempt, asks, pending, answered,
            events, interruptCbs, progressCbs>>
vars == <<poolVars, memory, store, crashes, reused>>

(***************************************************************************)
(* waiter says what became of the submit_and_wait call that created the    *)
(* object: "none" for an HTTP submission; "waiting" on its Event; "woken"  *)
(* when the Event is set and the coroutine has not run yet; "returned";    *)
(* "rejected" by a full queue; "keyerror" when the id was gone from        *)
(* _tasks.                                                                 *)
(***************************************************************************)
Waiter == {"none", "waiting", "woken", "returned", "rejected", "keyerror"}
Step == {"stream", "backoff", "notify", "await"}
Record == [key : Key, status : {"pending", "decided"}]

TypeOK ==
    /\ PoolTypeOK
    /\ subs \in Seq([id : Id, state : TaskState, waiter : Waiter])
    /\ Len(subs) <= MaxSubmits
    /\ tasks \in Seq(1..Len(subs))
    /\ queue \in Seq([id : Id, key : Key]) /\ Len(queue) <= QueueCap
    /\ taskOf \in [Worker -> 0..Len(subs)]
    /\ step \in [Worker -> Step]
    /\ attempt \in [Worker -> 0..MaxRetries]
    /\ asks \in [Worker -> 0..MaxAsks]
    /\ pending \in [Id -> Worker \cup {NoWorker}]
    /\ answered \in [Worker -> BOOLEAN]
    /\ events \in [Id -> 0..Len(subs)]
    /\ interruptCbs \subseteq Id /\ progressCbs \subseteq Id
    /\ store \in [Id -> Record \cup {NoRecord}]
    /\ crashes \in 0..MaxCrashes
    /\ reused \subseteq Id

\* A fresh process: TaskExecutor.__init__ and ensure_started.
MemoryInit ==
    /\ PoolInit
    /\ subs = <<>> /\ tasks = <<>> /\ queue = <<>>
    /\ taskOf = [w \in Worker |-> 0]
    /\ step = [w \in Worker |-> "stream"]
    /\ attempt = [w \in Worker |-> 0]
    /\ asks = [w \in Worker |-> 0]
    /\ pending = [id \in Id |-> NoWorker]
    /\ answered = [w \in Worker |-> FALSE]
    /\ events = [id \in Id |-> 0]
    /\ interruptCbs = {} /\ progressCbs = {}

Init ==
    /\ MemoryInit
    /\ store = [id \in Id |-> NoRecord]
    /\ crashes = 0
    /\ reused = {}

-----------------------------------------------------------------------------
\* _tasks, an OrderedDict of TaskStatus objects.

Tracked == {tasks[i] : i \in 1..Len(tasks)}

\* _tasks.get(id), 0 for None.
StatusOf(id) ==
    IF \E n \in Tracked : subs[n].id = id
    THEN CHOOSE n \in Tracked : subs[n].id = id
    ELSE 0

\* _tasks[id] = object n: an id that is there keeps its place.
Assigned(id, n) ==
    IF StatusOf(id) = 0
    THEN Append(tasks, n)
    ELSE [i \in 1..Len(tasks) |-> IF tasks[i] = StatusOf(id) THEN n ELSE tasks[i]]

\* Mutants of Trimmed: the history drops the oldest entries whatever they are;
\* it is trimmed when it is full, not when it is over.
TrimmedAnyState(q, s) ==
    IF Len(q) <= MaxHistory THEN q ELSE SubSeq(q, Len(q) - MaxHistory + 1, Len(q))

TrimmedWhenFull(q, s) ==
    LET gone == CHOOSE d \in 0..Len(q) :
                   /\ \A i \in 1..d : Len(q) - i >= MaxHistory - 1 /\ s[q[i]].state \in Terminal
                   /\ \/ Len(q) - d < MaxHistory
                      \/ s[q[d + 1]].state \notin Terminal
    IN  SubSeq(q, gone + 1, Len(q))

\* _trim_history on dict q with objects s: the oldest entries go while there
\* are too many, up to the first that is not over.
Trimmed(q, s) ==
    LET gone == CHOOSE d \in 0..Len(q) :
                   /\ \A i \in 1..d : Len(q) - i >= MaxHistory /\ s[q[i]].state \in Terminal
                   /\ \/ Len(q) - d <= MaxHistory
                      \/ s[q[d + 1]].state \notin Terminal
    IN  SubSeq(q, gone + 1, Len(q))

-----------------------------------------------------------------------------
\* An id nobody has used: nothing in memory or on disk bears it.
Fresh(id) ==
    /\ \A n \in DOMAIN subs : subs[n].id # id
    /\ store[id] = NoRecord

\* submit: create the status, trim the history, enqueue or fail.
Submit(id, key, waiter) ==
    LET n == Len(subs) + 1
        with(s, c) == Append(subs, [id |-> id, state |-> s, waiter |-> c])
    IN  /\ n <= MaxSubmits
        /\ reused' = IF Fresh(id) THEN reused ELSE reused \cup {id}
        /\ tasks' = Trimmed(Assigned(id, n), with("queued", waiter))
        /\ \/ /\ Len(queue) < QueueCap
              /\ queue' = Append(queue, [id |-> id, key |-> key])
              /\ subs' = with("queued", waiter)
           \/ /\ Len(queue) >= QueueCap
              /\ subs' = with("failed", IF waiter = "waiting" THEN "rejected" ELSE waiter)
              /\ UNCHANGED queue

\* POST /task: the client chooses the id, and may choose one of its own again
\* (a retry); a channel's uuid is not its own.
SubmitHttp(c, key) ==
    LET id == <<c, 0>> IN
        /\ Fresh(id) \/ (ReuseIds /\ \A n \in DOMAIN subs : subs[n].id = id => subs[n].waiter = "none")
        /\ Submit(id, key, "none")
        /\ UNCHANGED <<poolVars, taskOf, step, attempt, asks, pending, answered,
                       events, interruptCbs, progressCbs, store, crashes>>

\* A channel's submit_and_wait: a new uuid, callbacks, a completion event.
SubmitChannel(c, key) ==
    LET id == <<c, 0>> IN
        /\ Fresh(id)
        /\ interruptCbs' = interruptCbs \cup {id}
        /\ progressCbs' = progressCbs \cup {id}
        /\ events' = [events EXCEPT ![id] = Len(subs) + 1]
        /\ Submit(id, key, "waiting")
        /\ UNCHANGED <<poolVars, taskOf, step, attempt, asks, pending, answered,
                       store, crashes>>

\* submit_and_wait resumes once its event is set.
WaiterReturns(n) ==
    LET id == subs[n].id IN
        /\ subs[n].waiter = "woken"
        /\ events' = [events EXCEPT ![id] = 0]
        /\ subs' = [subs EXCEPT ![n].waiter =
                       IF StatusOf(id) = 0 THEN "keyerror" ELSE "returned"]
        /\ UNCHANGED <<poolVars, tasks, queue, taskOf, step, attempt, asks, pending,
                       answered, interruptCbs, progressCbs, store, crashes, reused>>

-----------------------------------------------------------------------------
\* The worker takes an item whose status is no longer in _tasks: dropped.
DequeueDropped(w) ==
    /\ phase[w] = "idle"
    /\ queue # <<>>
    /\ StatusOf(Head(queue).id) = 0
    /\ queue' = Tail(queue)
    /\ UNCHANGED <<poolVars, subs, tasks, taskOf, step, attempt, asks, pending,
                   answered, events, interruptCbs, progressCbs, store, crashes, reused>>

\* The worker takes an item, marks its task running and calls acquire.
Dequeue(w) ==
    LET item == Head(queue)
        n == StatusOf(item.id)
    IN  /\ phase[w] = "idle"
        /\ queue # <<>>
        /\ n # 0
        /\ queue' = Tail(queue)
        /\ subs' = [subs EXCEPT ![n].state = "running"]
        /\ taskOf' = [taskOf EXCEPT ![w] = n]
        /\ Acquire(w, item.key)
        /\ UNCHANGED <<tasks, step, attempt, asks, pending, answered, events,
                       interruptCbs, progressCbs, store, crashes, reused>>

\* The worker gets the session it waited for.
SessionGranted(w) ==
    /\ Granted(w)
    /\ UNCHANGED <<memory, store, crashes, reused>>

-----------------------------------------------------------------------------
\* The worker's loop around the agent's stream.

At(w, s) == phase[w] = "holding" /\ step[w] = s

\* The id of the worker's task (the item's and the status' are the same).
IdOf(w) == subs[taskOf[w]].id

\* Mutant of End: the completion event is not set.
EndInSilence(w, s) ==
    /\ Release(w)
    /\ subs' = [subs EXCEPT ![taskOf[w]].state = s]
    /\ progressCbs' = progressCbs \ {IdOf(w)}
    /\ taskOf' = [taskOf EXCEPT ![w] = 0]
    /\ step' = [step EXCEPT ![w] = "stream"]
    /\ attempt' = [attempt EXCEPT ![w] = 0]
    /\ asks' = [asks EXCEPT ![w] = 0]
    /\ UNCHANGED <<tasks, queue, events, crashes, reused>>

\* The end of a task in state s, with its finally block: the lock is released,
\* the progress callback dropped, the completion event set if there is one.
End(w, s) ==
    /\ Release(w)
    /\ subs' = [n \in DOMAIN subs |->
                  [subs[n] EXCEPT
                     !.state = IF n = taskOf[w] THEN s ELSE @,
                     !.waiter = IF n = events[IdOf(w)] /\ @ = "waiting" THEN "woken" ELSE @]]
    /\ progressCbs' = progressCbs \ {IdOf(w)}
    /\ taskOf' = [taskOf EXCEPT ![w] = 0]
    /\ step' = [step EXCEPT ![w] = "stream"]
    /\ attempt' = [attempt EXCEPT ![w] = 0]
    /\ asks' = [asks EXCEPT ![w] = 0]
    /\ UNCHANGED <<tasks, queue, events, crashes, reused>>

\* The stream ends with a result.
StreamCompletes(w) ==
    /\ At(w, "stream")
    /\ End(w, "completed")
    /\ UNCHANGED <<pending, answered, interruptCbs, store>>

\* The stream raises an error that is not transient, or one too many.
StreamFails(w) ==
    /\ At(w, "stream")
    /\ End(w, "failed")
    /\ UNCHANGED <<pending, answered, interruptCbs, store>>

\* Mutant of StreamTimesOut: the timeout is recorded, and the loop goes on.
StreamTimesOutAndRetries(w) ==
    /\ At(w, "stream")
    /\ subs' = [subs EXCEPT ![taskOf[w]].state = "timeout"]
    /\ step' = [step EXCEPT ![w] = "backoff"]
    /\ UNCHANGED <<poolVars, tasks, queue, taskOf, attempt, asks, pending, answered,
                   events, interruptCbs, progressCbs, store, crashes, reused>>

\* wait_for gives up on the attempt: never retried.
StreamTimesOut(w) ==
    /\ At(w, "stream")
    /\ End(w, "timeout")
    /\ UNCHANGED <<pending, answered, interruptCbs, store>>

\* Mutant of StreamRetries: one retry too many.
StreamRetriesOnceMore(w) ==
    /\ At(w, "stream")
    /\ attempt[w] <= MaxRetries
    /\ attempt' = [attempt EXCEPT ![w] = @ + 1]
    /\ step' = [step EXCEPT ![w] = "backoff"]
    /\ UNCHANGED <<poolVars, subs, tasks, queue, taskOf, asks, pending, answered,
                   events, interruptCbs, progressCbs, store, crashes, reused>>

\* A transient error with retries left: back off.
StreamRetries(w) ==
    /\ At(w, "stream")
    /\ attempt[w] < MaxRetries
    /\ attempt' = [attempt EXCEPT ![w] = @ + 1]
    /\ step' = [step EXCEPT ![w] = "backoff"]
    /\ UNCHANGED <<poolVars, subs, tasks, queue, taskOf, asks, pending, answered,
                   events, interruptCbs, progressCbs, store, crashes, reused>>

BackoffEnds(w) ==
    /\ At(w, "backoff")
    /\ step' = [step EXCEPT ![w] = "stream"]
    /\ UNCHANGED <<poolVars, subs, tasks, queue, taskOf, attempt, asks, pending,
                   answered, events, interruptCbs, progressCbs, store, crashes, reused>>

-----------------------------------------------------------------------------
\* Approvals.  The agent has one gated tool here; ToolApproval has several.

\* The decided records of session key: what lookup_decision may return.
Decided(key) ==
    {id \in Id : /\ store[id] # NoRecord
                 /\ store[id].key = key /\ store[id].status = "decided"}

\* The stream calls the gated tool and the hook finds a decision on file: it
\* consumes it, and the stream goes on.
HookUsesDecision(w) ==
    /\ At(w, "stream")
    /\ \E id \in Decided(sess[w]) : store' = [store EXCEPT ![id] = NoRecord]
    /\ UNCHANGED <<poolVars, memory, crashes, reused>>

\* The stream calls the gated tool, the hook finds nothing on file, and the
\* stream ends in an interrupt: the status is set, the record saved, and the
\* channel's callback taken and awaited.  Without one the worker's future is
\* registered at once.
StreamInterrupts(w) ==
    LET id == IdOf(w) IN
        /\ At(w, "stream")
        /\ asks[w] < MaxAsks
        /\ Decided(sess[w]) = {}
        /\ subs' = [subs EXCEPT ![taskOf[w]].state = "interrupted"]
        /\ store' = [store EXCEPT ![id] = [key |-> sess[w], status |-> "pending"]]
        /\ interruptCbs' = interruptCbs \ {id}
        /\ asks' = [asks EXCEPT ![w] = @ + 1]
        /\ \/ /\ id \in interruptCbs
              /\ step' = [step EXCEPT ![w] = "notify"]
              /\ UNCHANGED pending
           \/ /\ id \notin interruptCbs
              /\ step' = [step EXCEPT ![w] = "await"]
              /\ pending' = [pending EXCEPT ![id] = w]
        /\ UNCHANGED <<poolVars, tasks, queue, taskOf, attempt, answered, events,
                       progressCbs, crashes, reused>>

\* The callback is done; the worker creates and registers its future.
NotifyEnds(w) ==
    /\ At(w, "notify")
    /\ step' = [step EXCEPT ![w] = "await"]
    /\ pending' = [pending EXCEPT ![IdOf(w)] = w]
    /\ UNCHANGED <<poolVars, subs, tasks, queue, taskOf, attempt, asks, answered,
                   events, interruptCbs, progressCbs, store, crashes, reused>>

\* The callback raises: the task fails, or times out if it is a TimeoutError.
NotifyRaises(w) ==
    /\ At(w, "notify")
    /\ \E s \in {"failed", "timeout"} : End(w, s)
    /\ UNCHANGED <<pending, answered, interruptCbs, store>>

\* respond_to_interrupt: the result of the future registered for the id.
Respond(id) ==
    LET w == pending[id] IN
        /\ w # NoWorker
        /\ ~answered[w]
        /\ answered' = [answered EXCEPT ![w] = TRUE]
        /\ UNCHANGED <<poolVars, subs, tasks, queue, taskOf, step, attempt, asks,
                       pending, events, interruptCbs, progressCbs, store, crashes, reused>>

\* Mutants of Resume: the record stays on file; the status is not reset.
ResumeKeepsRecord(w) ==
    LET id == IdOf(w) IN
        /\ At(w, "await")
        /\ answered[w]
        /\ answered' = [answered EXCEPT ![w] = FALSE]
        /\ pending' = [pending EXCEPT ![id] = NoWorker]
        /\ subs' = [subs EXCEPT ![taskOf[w]].state = "running"]
        /\ step' = [step EXCEPT ![w] = "stream"]
        /\ attempt' = [attempt EXCEPT ![w] = 0]
        /\ UNCHANGED <<poolVars, tasks, queue, taskOf, asks, events, interruptCbs,
                       progressCbs, store, crashes, reused>>

ResumeStillInterrupted(w) ==
    LET id == IdOf(w) IN
        /\ At(w, "await")
        /\ answered[w]
        /\ answered' = [answered EXCEPT ![w] = FALSE]
        /\ pending' = [pending EXCEPT ![id] = NoWorker]
        /\ store' = [store EXCEPT ![id] = NoRecord]
        /\ step' = [step EXCEPT ![w] = "stream"]
        /\ attempt' = [attempt EXCEPT ![w] = 0]
        /\ UNCHANGED <<poolVars, subs, tasks, queue, taskOf, asks, events,
                       interruptCbs, progressCbs, crashes, reused>>

\* The worker has its answer: the record is discarded and the agent resumed,
\* with a new set of retries.
Resume(w) ==
    LET id == IdOf(w) IN
        /\ At(w, "await")
        /\ answered[w]
        /\ answered' = [answered EXCEPT ![w] = FALSE]
        /\ pending' = [pending EXCEPT ![id] = NoWorker]
        /\ store' = [store EXCEPT ![id] = NoRecord]
        /\ subs' = [subs EXCEPT ![taskOf[w]].state = "running"]
        /\ step' = [step EXCEPT ![w] = "stream"]
        /\ attempt' = [attempt EXCEPT ![w] = 0]
        /\ UNCHANGED <<poolVars, tasks, queue, taskOf, asks, events, interruptCbs,
                       progressCbs, crashes, reused>>

\* Mutants of AwaitTimesOut: the future stays registered; the wait has no
\* timeout.
AwaitTimesOutLeavesFuture(w) ==
    /\ At(w, "await")
    /\ answered' = [answered EXCEPT ![w] = FALSE]
    /\ End(w, "timeout")
    /\ UNCHANGED <<pending, interruptCbs, store>>

AwaitsForEver(w) == FALSE

\* The wait for an answer times out, perhaps with the answer just delivered.
AwaitTimesOut(w) ==
    /\ At(w, "await")
    /\ pending' = [pending EXCEPT ![IdOf(w)] = NoWorker]
    /\ answered' = [answered EXCEPT ![w] = FALSE]
    /\ End(w, "timeout")
    /\ UNCHANGED <<interruptCbs, store>>

\* decide_orphaned: unless the id has a future, record the decision, then
\* resubmit the task as a replay (which fails when the queue is full).
DecideOrphaned(id) ==
    /\ id[2] < MaxReplay
    /\ pending[id] = NoWorker
    /\ store[id] # NoRecord
    /\ store[id].status = "pending"
    /\ store' = [store EXCEPT ![id].status = "decided"]
    /\ Submit(Replay(id), store[id].key, "none")
    /\ UNCHANGED <<poolVars, taskOf, step, attempt, asks, pending, answered,
                   events, interruptCbs, progressCbs, crashes>>

-----------------------------------------------------------------------------
\* The process dies and is started again: only the approval files are left.
Restart ==
    /\ crashes < MaxCrashes
    /\ crashes' = crashes + 1
    /\ cache' = {NoSession} /\ older' = {}
    /\ locks' = [k \in Key |-> NoLock]
    /\ locked' = [l \in Lock |-> FALSE]
    /\ fifo' = [l \in Lock |-> <<>>]
    /\ phase' = [w \in Worker |-> "idle"]
    /\ sess' = [w \in Worker |-> NoSession]
    /\ held' = [w \in Worker |-> NoLock]
    /\ subs' = <<>> /\ tasks' = <<>> /\ queue' = <<>>
    /\ taskOf' = [w \in Worker |-> 0]
    /\ step' = [w \in Worker |-> "stream"]
    /\ attempt' = [w \in Worker |-> 0]
    /\ asks' = [w \in Worker |-> 0]
    /\ pending' = [id \in Id |-> NoWorker]
    /\ answered' = [w \in Worker |-> FALSE]
    /\ events' = [id \in Id |-> 0]
    /\ interruptCbs' = {} /\ progressCbs' = {}
    /\ UNCHANGED <<store, reused>>

Work(w) ==
    \/ DequeueDropped(w) \/ Dequeue(w) \/ SessionGranted(w)
    \/ StreamCompletes(w) \/ StreamFails(w) \/ StreamTimesOut(w)
    \/ StreamRetries(w) \/ BackoffEnds(w)
    \/ HookUsesDecision(w) \/ StreamInterrupts(w)
    \/ NotifyEnds(w) \/ NotifyRaises(w) \/ Resume(w) \/ AwaitTimesOut(w)

Outside ==
    \/ \E c \in Client, key \in Key : SubmitHttp(c, key) \/ SubmitChannel(c, key)
    \/ \E id \in Id : Respond(id) \/ DecideOrphaned(id)

Next ==
    \/ \E w \in Worker : Work(w)
    \/ Outside
    \/ \E n \in DOMAIN subs : WaiterReturns(n)
    \/ Restart

Spec == Init /\ [][Next]_vars

(***************************************************************************)
(* The event loop runs every coroutine that can run, and every wait of a   *)
(* worker ends: the stream and the answer have a timeout, the backoff is a *)
(* sleep, and the channel's callback is assumed to return.  What ends a    *)
(* wait is left open.  Nobody outside has to do anything.                  *)
(***************************************************************************)
Fairness ==
    /\ \A w \in Worker : WF_vars(Work(w))
    /\ \A n \in 1..MaxSubmits : WF_vars(n \in DOMAIN subs /\ WaiterReturns(n))

FairSpec == Spec /\ Fairness

-----------------------------------------------------------------------------
\* Properties.

\* The id names one task: no client has used it again.  The safety properties
\* below are of such ids, in a system where others are reused: reuse harms the
\* tasks that share the id and no other.
Unique(id) == id \notin reused

\* A task that is not over can be asked about: the history never drops it,
\* and so a worker never finds an accepted item without its status.
LiveTasksTracked ==
    /\ \A n \in DOMAIN subs :
          Unique(subs[n].id) /\ subs[n].state \notin Terminal => n \in Tracked
    /\ \A i \in DOMAIN queue :
          Unique(queue[i].id) =>
            \E n \in Tracked : subs[n].id = queue[i].id /\ subs[n].state = "queued"

\* A task that is over stays as it ended: what a poller or a channel read of
\* it is not taken back.
TerminalIsFinal ==
    [][crashes' = crashes =>
        \A n \in DOMAIN subs :
            Unique(subs[n].id) /\ subs[n].state \in Terminal
                => subs'[n].state = subs[n].state]_vars

\* An answer reaches the task it is for: a future registered for an id is
\* that of a worker that waits for an answer to that id, and if the id is
\* unique, it finds the worker's status, which says interrupted, and no
\* worker waits on a future that is not registered.
AnswersReachTheirTask ==
    /\ \A id \in Id : pending[id] # NoWorker =>
          At(pending[id], "await") /\ IdOf(pending[id]) = id
    /\ \A w \in Worker : At(w, "await") /\ Unique(IdOf(w)) =>
          /\ pending[IdOf(w)] = w
          /\ StatusOf(IdOf(w)) = taskOf[w]
          /\ subs[taskOf[w]].state = "interrupted"

\* No wakeup is lost or early: a caller of submit_and_wait sleeps only while
\* its task is not over and its event is registered, and it is woken only
\* when its task is over.
CallersAreOwed ==
    \A n \in DOMAIN subs :
        /\ subs[n].waiter = "waiting" =>
              subs[n].state \notin Terminal /\ events[subs[n].id] = n
        /\ subs[n].waiter \in {"woken", "returned"} => subs[n].state \in Terminal

\* A caller of submit_and_wait finds the result it is woken for, unless as many
\* tasks as the history holds were submitted after its own.
ResultsAreKept ==
    \A n \in DOMAIN subs : subs[n].waiter = "keyerror" => Len(subs) - n >= MaxHistory

\* A record in the approval store belongs to a task that was interrupted: one
\* that waits for its answer, one that ended without it (timeout, or failed
\* while the channel was notified), or one this process knows nothing of.
\* A task that was answered, or has not asked, has none.
RecordsAreUnanswered ==
    \A n \in DOMAIN subs :
        store[subs[n].id] # NoRecord /\ Unique(subs[n].id) =>
            subs[n].state \in {"interrupted", "timeout", "failed"}

\* Every task that is accepted ends, though no human ever answers.
AcceptedTasksEnd ==
    \A n \in 1..MaxSubmits :
        (n \in DOMAIN subs /\ subs[n].state = "queued")
            ~> (n \in DOMAIN subs /\ subs[n].state \in Terminal)

\* Every caller of submit_and_wait gets its answer.
CallersReturn ==
    \A n \in 1..MaxSubmits :
        (n \in DOMAIN subs /\ subs[n].waiter = "waiting")
            ~> (n \in DOMAIN subs /\ subs[n].waiter = "returned")

-----------------------------------------------------------------------------
\* While no id is reused and the process does not restart, the executor
\* implements the abstract life of tasks.
Lifecycle == INSTANCE TaskLifecycle WITH
    Task <- 1..MaxSubmits,
    state <- [n \in 1..MaxSubmits |-> IF n \in DOMAIN subs THEN subs[n].state ELSE "absent"],
    caller <- [n \in 1..MaxSubmits |-> IF n \in DOMAIN subs THEN subs[n].waiter ELSE "none"]

ImplementsLifecycle == Lifecycle!Spec
=============================================================================
