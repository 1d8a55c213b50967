# A model of andino-agent

TLA+ modules that model the core of andino-agent (`src/andino/`), TLC
configurations that check them on small instances, and proofs that TLAPS checks
for every value of the constants. Paths such as `task_executor.py` are relative
to `src/src/andino/` of this checkout.

Read in this order: `AgentPool`, `SessionMutex`, `TaskExecutor`,
`TaskLifecycle`, `ToolApproval`; then `Access`, `SlackUpload`, `SlackThread`,
which build on `TaskLifecycle`; then the parts that stand alone, in any order:
`Memory`, `RemoteTools`, `SessionFork`, `ServiceLifecycle`, `AgentReference`,
`SlackText`, `UsageLog`; and the proof modules last.

## 1. The system

One process per agent. An asyncio event loop runs an HTTP server, optional
channels (Slack) and a fixed number of worker coroutines. There are no threads
to speak of: code between two `await`s is atomic, and everything that can go
wrong goes wrong at an `await`, at a restart, or on disk.

| Component | Source | State it keeps | Operations | Modelled |
|---|---|---|---|---|
| Agent pool | `task_executor.py` 63-100 | `_cache` (LRU of agents per session), `_locks` (one `asyncio.Lock` per session) | `acquire`, the worker's `release` | `AgentPool` |
| Task executor | `task_executor.py` 177-485 | `_queue`, `_tasks` (history), `_completion_events`, `_pending_responses`, the two callback tables | `submit`, `submit_and_wait`, `_worker`, `respond_to_interrupt`, `decide_orphaned`, `_trim_history` | `TaskExecutor` |
| Approval store | `approvals.py` | `approvals/<task id>.json` | `save_pending`, `decide`, `lookup_decision`, `consume_decision`, `discard` | `ToolApproval`, `TaskExecutor` |
| Approval hook | `hitl.py` | none | before each tool call: run, cancel or interrupt | `ToolApproval` |
| HTTP API | `server.py` | none | `/task`, `/respond`, `/decide`, read-only routes | its effects, in both |
| Channels | `channels/__init__.py` | none | `start`, `stop`, `submit_and_wait` | `TaskExecutor`, `ServiceLifecycle` |
| Slack channel | `channels/slack.py` | per message: placeholder, streaming state; buttons in the thread | events in, progress and replies out, approval buttons and presses | `SlackThread`, `SlackText` |
| Slack upload | `channels/slack_upload.py` | `_contexts` per workspace | register, clear, find | `SlackUpload` |
| Access rules | `access.py` | none | first matching rule | `Access` |
| Memory | `memory/` | LanceDB table; per provider `_db` and `_table` | store, retrieve, list, get, delete | `Memory` |
| Bundled tools | `tools/` | none; pages, issues, credits at the service | one or two HTTP requests per call | `RemoteTools` |
| Sessions | `session_tools.py` | session directories | fork (listing only reads) | `SessionFork` |
| Agent references | `agent_reference.py`, `tool_loader.py` | stack of names under construction | build | `AgentReference` |
| Service | `service.py` | server and channel tasks, shutdown event | run, signal, stop | `ServiceLifecycle` |
| Usage log | `usage.py` | `usage.jsonl` | append, summarise | `UsageLog` |
| Builder, models, MCP, config, home, CLI, templates, logging | the rest | none of its own | assembly, parsing, I/O | no |

How they interact. A client posts a task, or a channel calls
`submit_and_wait`, which registers callbacks and an `Event` under a fresh id.
`submit` puts a status in the history and an item in the queue. A worker takes
the item, looks its status up *by id*, and asks the pool for the session's lock
and agent. It then consumes the agent's stream. A gated tool makes the hook look
in the approval store; without a decision there the stream ends in an interrupt:
the worker saves a record, awaits the channel's callback, and only then
registers a future that `respond_to_interrupt` resolves. After a restart the
future is gone and the record is not: `decide_orphaned` writes the decision into
it and resubmits the task as `<id>-replay`. The Slack channel runs a coroutine
per event and per press; the worker calls it back for progress and for
approvals, so that one message of the thread has three writers. Tools called by
the agent run inside the worker's stream: several calls of one turn, and the
agents of several sessions, interleave at their awaits, on one memory directory
and on the same remote pages. `andino session fork` is another process beside
all of that.

What makes it hard. Locks are looked up by session in a table the eviction loop
also edits; five tables are keyed by the task id and cleaned up at different
points of the worker; three `await`s separate the record of an approval from the
future that answers it; the answer to an interrupt and the decision on a record
are two doors to the same tool call; and every wait may end in a timeout at the
instant its answer comes. `PROJECT.json` lists the hazards line by line with the
properties that cover them.

What each component has to guarantee:

- pool: tasks of one session, and tasks without one, run one at a time; the
  shared agent is never evicted; the cache is bounded; nobody waits for ever;
- executor: a task that is not over can be found; a task that is over stays so;
  a caller is woken once, when its task is over; an answer reaches the task it
  is for; every accepted task ends, even if nobody answers;
- approvals: no gated tool runs without a human's approval, and none is used
  twice; a denied call does not run;
- Slack channel: every handled message is answered, whole, and the answer stays;
  a message that says approved or denied tells the truth, and the user was one
  who may decide; an upload context does not outlive its task;
- memory: what was stored, and not deleted, is there and is found; a delete that
  reports success deleted something;
- tools: a call reports success only when its effect is there, and has it once;
- forks: the branch of a fork that reports success names not its source, has no
  interrupt to resume and no gap in its messages, and two forks never mix;
- references: a build that succeeds met no cycle and no missing agent, and one
  that names a cycle or a missing agent as the reason is right, now;
- service: one signal, or the end of one part, ends the process, and channels
  are stopped when nothing works with them any more;
- text and usage log: no character lost, no record lost but by a torn write.

## 2. Modules

**`AgentPool`** has one action per stretch of `acquire` between awaits.
`AcquireFree` is a call that finds the lock free, `AcquireBusy` one that
suspends, `Granted` the resumption of the first waiter, `Release` the worker's
`finally`. All share `Fetch`: `FetchCached`, `FetchNew` (evict, then build),
`FetchRaises` (evict, then `build_agent` or `next()` raises, and the worker is
`"dead"` holding the lock). Lock *objects* are separate from the table
`_locks`: a waiter keeps the object it looked up, whatever the table holds by
then, which is where the eviction hazard is. The LRU order of `_cache` is the
relation `older`. Agents themselves are left out: only the keys matter.

**`SessionMutex`** is what the pool promises: ask, take or wait for, and give
back a session that nobody else holds. No lock, table, cache or eviction.

**`TaskExecutor`** extends `AgentPool`. `subs` are the `TaskStatus` objects in
order of creation, so that `_tasks`, `events` and workers can refer to different
objects under one id, as the code can; the waiter field of an object says where
the `submit_and_wait` call that created it is. Each worker is described by its
`phase` in the pool and, while it holds a session, by the await it is suspended
at (`step`: stream, backoff, notify, await). `End` is the end of a task with its
whole `finally` block. The agent's stream, the channel's callback and humans may
do anything at any time. Ids are pairs of a client's part and a number of
`-replay` suffixes. `Restart` keeps the approval files and nothing else.
`reused` is a history variable: the ids submitted while somebody used them.

**`TaskLifecycle`** is what the executor promises of each task, one by one:
accepted or refused, running, interrupted, over, and its caller told.
`ImplementsLifecycle` maps the status objects to it.

**`ToolApproval`** looks at approvals more closely than `TaskExecutor` can:
several gated tools, several calls stopped in a turn, approved and denied,
records that fail to be saved, and the order in which the hook consults the
store and the answer. The executor is reduced to what the other modules show of
it. `unspent` and `last` are history variables: the approvals humans gave that
no call has used yet, and the last call that ran. `Within` is the
substring test by which `lookup_decision` compares names of tools.

**`SlackThread`** puts the channel on top of `TaskLifecycle`, which the executor
is shown to implement, with one task of a session at a time (`MutexSafety`). A
delivery is an event as Slack sends it, so a mention that comes as `app_mention`
and as `message` is two. `handler` is the await `_handle_event` is at; `update`
the throttled `chat_update` that the worker awaits in the callback; `open` and
`wait` the interrupts and where the worker is with them; `label` what each
approval message shows. `Press` is one action up to the handler's own
`chat_update`, because the check, the answer and the future are not separated by
an await; what Slack does with that update is `PressEnds`. Every call to Slack
may fail, and the final update may fail after it was applied. A timeout cancels
the worker and leaves its update in flight (`"late"`). Its state functions come
from **`Access`** (the rule that decides) and **`SlackUpload`** (the table of
contexts). **`SlackText`** is the cutting of a long reply: a text is its length
and the positions of its newlines.

**`Memory`** has one action per await of a call: connecting, asking for the
tables, opening, embedding, creating, adding, reading, erasing. Providers (one
per session's agent) share the directory, not `_db` and `_table`. `"absent"`
separates LanceDB's answer from what the call does with it: another call may
create the table in between.

**`RemoteTools`** has tables of all the bundled tools by the effects of their
requests, and one machine for the call: ask, served, refused, replied, given up.
A request whose client gave up may still be served. The statuses that count as
success are those of each module's `_request`. Confluence's update is a read
and a replace of the version read; other people edit too.

**`SessionFork`** has one action per file operation of `fork_session`, beside an
agent that makes and rewrites its files and a second fork with the same
destination; a fork may be killed at each. A `session.json` or `agent.json` that
is missing or malformed is copied as it is and passed over, as
`session_tools.py` 107, 112-113, 134 and 142-143 do, and success is reported all
the same: `BranchesAreClean` says what that success is worth then.
**`ServiceLifecycle`** is `_run_async` from its first wait to the end
of the loop. **`AgentReference`** builds an agent through references with the
call stack as an explicit stack of frames, again and again while files change,
in one context as a worker does. `Fails` is a cycle or a missing file, `Raises`
everything else that ends a build: bad YAML, a tool that does not resolve. **`UsageLog`** is the append and the fold, with
lines made of the pieces that writes left.

**`AgentPoolProofs`**, **`TaskExecutorProofs`** (which extends it),
**`ToolApprovalProofs`**, **`SlackThreadProofs`**, **`MemoryProofs`**,
**`SessionForkProofs`**, **`AgentReferenceProofs`** and **`AgentHomeProofs`**
hold the proofs. **`MCAgentPool`**, **`MCTaskExecutor`**, **`MCToolApproval`**
and **`MCSlackThread`** are the definitions (symmetry sets, tools, deliveries,
rules) that TLC's instances need. **`MCAgentHome`** puts the seven parts that
stand alone into one instance: they share no state, so `part`, chosen at the
start, says which one runs, and the states add up instead of multiplying.
`AgentHomeProofs` has the proofs of the four small parts (tools, service, usage
log, texts) and of that composition. Definitions
whose comment says "Mutant of" are plausible bugs: replacing the definition they
follow by them must break the property `PROJECT.json` pairs them with, which
shows that the property depends on the code.

Abstractions, all of them: prompts, results, error texts, usage and logging;
which errors are transient (any error may be); delays (a timeout may happen at
any time while its wait lasts, also when the answer has just come); the agent's
own state between calls; directory order of records (any matching record may be
found first); reads of the store between awaits are atomic because the code
does not suspend there. In the parts around the executor: mrkdwn, blocks and
the look of messages; embeddings, scores, limits of result lists; queries,
arguments and the rendering of replies; prices and the window of days. A
progress update that the client sees fail is not applied later: only the one a
timeout cuts off is (`"late"`). The HTTP statuses that `server.py` 76-89 checks
before `respond_to_interrupt` are left out, so the model allows an answer in more
states than the server does. A session has one agent; `copytree` takes the files
of a session in a fixed order (`session.json`, then `agent.json` and the listing
of the messages, then each message), and the copy of one file is atomic.

## 3. Runs

Every bound is a constant of the `.cfg` named in the module: `MaxSubmits`
(status objects per life of the process), `MaxReplay`, `MaxAsks` (interrupts per
task), `MaxCrashes`, `MaxStops`, `MaxCalls`, `ToolCall`, `MaxVersion`, `Fork`,
`MaxMessages`, `MaxText`, `MaxRecords`. The others (`MaxRetries`, `MaxHistory`,
`MaxPoolSize`) are limits of the program, given small values so that they are
hit. Deadlock is not
checked where the bounds, or an idle system, end every behaviour.

| Run | Instance | Question and answer |
|---|---|---|
| `pool_tight` | 3 workers, 3 sessions and the shared agent, limit 2, builds may fail | Evictions and dead workers never let two stateless tasks share the agent, never evict it, and the cache holds at most one entry more than its limit. Three workers are the least with one inside, one waiting on an evicted lock and one that comes later. |
| `executor_safety` | 2 workers, 3 tasks, 1 session and the shared agent, history of 2, an interrupt per task, a replay | The promises to pollers, callers and answering humans hold; a caller's result is lost only to as many later submissions as the history holds (`ResultsAreKept`); `MutexSafety` and `ImplementsLifecycle` are refinements. |
| `executor_queue` | 1 worker (queue of 2), 3 submissions under 2 ids that may be submitted again, history of 1, a retry, a restart | Overflow, reuse of ids and restarts do not harm the tasks whose id is their own. |
| `executor_liveness` | 2 workers contending for the shared agent, 3 tasks, a retry, an interrupt | Accepted tasks end, callers return, and a waiting worker gets its session, though no human answers. The history holds all the tasks (see below). |
| `approval_safety` | 3 tasks, 2 gated tools, 1 session and none, restarts at any time | No gated tool runs unless a human allowed that call and the approval was not used. Three tasks are the least with an original, its replay and a bystander in the session. |
| `slack_safety` | one message that arrives twice, in one thread; 2 gated tools under 2 rules, 2 users; 2 stops; replies of 2 chunks | Replies are whole and stay; resolutions are true; only approvers decide; no context is left behind; every handled message ends answered or refused by Slack. |
| `agent_home` | memory: 3 calls by 2 providers; tools: 2 calls, 4 versions; forks: 2 onto one destination, 3 messages; service: 2 channels; references: 3 agents; texts of up to 7 characters, limits 1 to 3; 5 usage records | Each part against its own races, faults and inputs. Three calls are the least with a store, a racing call and an observer; three agents the least with a diamond and a cycle beside it; 7 characters three chunks of the longest limit. |
| `pool_eviction` | limit 1, 2 sessions | *Violated*: a session in use is evicted with its lock; its next task runs beside it. |
| `executor_dead_worker` | an agent may fail to build | *Violated*: the worker dies outside its `try`, the task is running for ever. |
| `approval_denied` | as `approval_safety` | *Violated*: a decision on file for the tool runs a call a human has just denied. |
| `slack_uploads` | 2 threads, relative paths | *Violated*: a file of the same name in the workspace registered first is posted, to that workspace's thread. |
| `memory_stale` | 3 calls by 2 providers | *Violated*: a provider that connects while the table is created keeps `_table = None` and finds nothing ever after. |

The violated properties are sentences of the repository's documentation; the
quotations are under "findings" in `PROJECT.json`. Two assumptions of the passing
runs are findings turned around: the executor's runs build every agent, and
their pools have room for every session. The others are conditions of their own:
unique ids, `AskAlone`, a history with room for every task in the liveness run,
and `Distinct` names of tools.

Conditions worth knowing:

- *Unique ids.* An HTTP client may submit an id twice. The second status
  replaces the first, and both items then refer to it. The safety properties
  are stated of ids that were fresh when submitted (`Unique`), in a system where
  others are not; two workers on one id at once are outside the checked bounds.
  Clients are assumed not to choose ids that end in `-replay`.
- *History.* `submit_and_wait` reads its result from the history after it is
  woken; if as many tasks as the history holds were submitted after it, it may
  raise `KeyError`. `executor_safety` reaches that state and the lifecycle
  allows it; `ResultsAreKept` says that nothing less than so many submissions
  does it. `CallersReturn` is checked with enough history.
- *Slack.* `AskAlone`: a task stops for approvals only when its message came
  alone, which keeps the duplicate delivery and the approvals apart (their
  composition is the session mutex, checked above). `ResolutionsAreTrue` speaks
  of the first stop of a task and `ApproversDecide` of stops with one tool: for
  later stops, and for several tools, the code does otherwise (section 6).
  After a timeout the update in flight may land after the final one, so
  `RepliesStay` excludes timed-out tasks.
- *References.* `Named`, in terms of which `OutcomesAreTrue` is stated, is the
  least set of agents that holds the seeds and is closed under references. It
  needs no recursion, so the proofs can use it; the construction itself is the
  stack of frames, and is never compared with a copy of itself.
- *Names of tools.* `RunsArePaid` needs names none of which contains another
  (`Distinct` in the proof): otherwise the approval of one tool serves the other.

**Fairness.** `TaskExecutor!Fairness` is weak fairness of each worker and of
each woken caller: the event loop runs what is ready, the stream and the answer
have `asyncio.wait_for` timeouts, the backoff is a sleep. The channel's callback
has no timeout of its own, and is assumed to return. Which way a wait ends is
left open, and nothing is assumed of humans, clients or restarts. The mutex's
strong fairness (`MutexFairness`) is then a theorem of the model, checked: the
FIFO queue of `asyncio.Lock` gives it.

`SlackThread!Fairness` is weak fairness of a handler that has started (Slack
answers each call, if by an error), of a queued task's start and of the end of
a task, which `AcceptedTasksEnd` checks of the executor. Nobody has to press a
button, and no event has to arrive. `HomeSpec` is fair to `ServiceStep` only:
the loop delivers cancellations and goes on; parts need not end and signals need
not come.

## 4. Proofs

Every safety invariant, and every action property and refinement, that a passing
run checks is also a theorem, for every value of the constants that the named
`ASSUME`s allow (TLC evaluates those in every run). What they assume is what the
code guarantees: sentinels are not members of the sets beside them, limits are
numbers, `MAX_HISTORY` is positive, the workers are finitely many (the code
starts `max_concurrent_tasks` of them), agents and channels are finite
collections. Each proof has the same shape: an inductive invariant, a lemma that
the initial states satisfy it, one that every step preserves it with a step per
action, and the properties as consequences.

**`AgentPoolProofs`**: any workers, sessions, lock objects and limit; builds may
fail.

- `TypeCorrect`, `SharedAgentIsSerial`: the types, and tasks without a session
  are serial. `PoolInv` says that `_locks` never registers one lock object for
  two keys, that an object somebody uses is registered, if at all, for the
  session it is used for, that an object has at most one owner, who has locked
  it, and that whoever runs or waits without a session uses the object
  registered for the key `None` (`UsesRegistered`). The last part is what
  eviction could break, and does not because the loop skips that key.
  `SharedAgentSerial` alone is not inductive: it does not say which lock a
  waiter waits for.
- `SessionsAreSerial` and `PoolImplementsMutex` add the assumption `Roomy`
  (the sessions are finitely many and no more than the limit): then nothing is
  evicted, every worker uses its session's registered lock, and the pool
  implements `SessionMutex` step by step. `pool_eviction` shows that the
  assumption is needed.
- `CacheIsBounded`: the invariant `CacheInv` says that `older` orders the cached
  sessions. A finite order has a least element, so a cache that is over its
  limit has something to evict unless only the shared agent is left; one
  eviction per new entry then keeps it within one of the limit.

**`TaskExecutorProofs`**: any workers, sessions, clients, limits; ids that are
used again; restarts. The code finds a task by its id in five tables, so
everything rests on which ids name one `TaskStatus` object (`Sole`).
`ExecutorInv` has these parts besides the types and `PoolInv`:

- `ReuseInv`: an id that nobody has used again names one object.
- `LinkInv`: a worker has a task exactly when it has asked the pool for its
  session, and every item of the queue is of some task.
- For an id that names one object, where that task may be mentioned in which of
  its states: by one item of the queue while it is queued (`QueueInv`); by one
  worker, whose place in its loop agrees with the state (`WorkInv`); by the
  history until it is over (`TrackInv`).
- `PendingInv`: a registered future is that of a worker that awaits one for the
  same id.
- `WaiterInv`: ids that callers wait on are not replays and name one object,
  whatever clients do with *other* ids. `submit_and_wait` makes its own ids,
  which is why `CallersAreOwed` needs no hypothesis about reuse.

From it follow `ExecutorTypeCorrect`, `LiveTasksAreTracked`,
`AnswersAreDelivered`, `CallersAreServed`, `RecordsAreOfUnanswered`,
`ExecutorSharedAgent`, `ExecutorCacheIsBounded` and the action property
`OverIsOver`. `CallersFindResults` (`ResultsAreKept`) adds `HistoryInv`: the
entries of `_tasks` are of different objects, and those behind the entry of a
caller's task were submitted after it. `_trim_history` drops entries from the
front and only while there are more than the limit, so when it drops that one,
a limit's worth of later submissions is behind it. Two refinements need more:

- `ExecutorImplementsMutex`, while the process lives (a restart forgets the
  holders of locks, which the mutex does not) and under `Roomy`: every step of
  the executor is a step of the pool, or none, and the pool is the mutex.
- `ExecutorImplementsLifecycle`, while the process lives and no id is used
  twice: `subs` then maps to the abstract life of tasks step by step. The
  hypothesis on ids is about the executor as well as its clients: an approval
  that is decided through `/decide` while the channel is notified creates a
  replay of a task that lives; if that task is answered, asks again, and is
  decided again so, the same replay id is submitted twice. With one interrupt
  per task, as in `executor_safety`, it does not happen.

**`ToolApprovalProofs`**: any tasks, sessions and tools.

- `ApprovalTypeCorrect`, and `GatedRunsArePaid` for `Distinct` names. The
  strengthening says that an approved record stands for an unspent approval of
  each call it names, that so does an approving answer, and that a task never
  has an answer and a record at once: without the last part, using the record up
  would also spend the answer.

**`SlackThreadProofs`**: any deliveries, threads, users, tools and rules, any
length of a reply, any number of stops. `ThreadInv` relates the parties that
write into one thread:

- `StageInv`: how far the handler may be for a state of the task.
- `ReplyInv`: what it has shown by then. The chunks before the next one are
  posted in order; the first of them may be in the placeholder instead, where it
  stays unless the task timed out. Proves `RepliesAreShown`.
- `UpdateInv`: an update of the placeholder is in flight only while its task
  runs, or because its timeout cancelled the worker. Proves `FinalRepliesStay`.
- `AskInv`: what the buttons' messages, the presses in flight, the future and
  the agent know of one another. During the first stop, what a message says, or
  a press in flight will make it say, was told to the agent, is in the future,
  or reaches nobody because the task timed out. An answer to one open interrupt
  was given by somebody who may approve that tool. Proves `ResolutionsAreHeard`
  and `OnlyApproversDecide`.

`NoContextIsLeft` is inductive with the types.

**`MemoryProofs`**: any number of providers and calls.

- `MemoryTypeCorrect`, `StoredMemoriesStay` and `DeletesAreOfMemories`. What must
  be added is where a call can be: only a store adds or creates, only a delete
  erases (`AwaitsFitTheCall`), every row is of a store that is over
  (`RowsAreStored`), and a delete that has looked saw such a row
  (`ErasesAreReal`): the row may be gone by the time it is erased, the store of
  it may not.

**`SessionForkProofs`**: any number of forks, fork points and messages.

- `ForkTypeCorrect`, `OnlyOneForkCopies` and `ForksStartClean`. The invariant
  says that a fork past the making of the destination finds it there and is
  alone (`OneWorks`: nothing removes a destination), and what such a fork has
  made of it at each point (`BranchIsItsWork`): from `RewriteId` on the id is
  not the source's, because it was rewritten, missing or unreadable, and nothing
  but the making of the destination copies an id. A step is then one that leaves
  the destination alone, or one of the fork that owns it.

**`AgentReferenceProofs`**: any finite set of agents, any files, edited between
builds.

- `ConstructionsAreBounded`: no name is twice on the stack, so it is no longer
  than there are agents, and it is empty between builds.
- `BuildsAreTrue`: an agent is `Settled` above a stack when nothing it names is
  missing, on a cycle or on that stack. The invariant `Construction` says that
  the references of each frame are still to be loaded, under construction, or
  settled above the stack of the frame. A frame with nothing left to load is
  therefore of a settled agent, and a build that succeeds one of a configuration
  without cycles or missing files. That a frame's agent avoids the stack *below* it is
  what makes the step go through: popping a frame may otherwise turn up a cycle
  through an agent further down. `Named` is a least closed set, so
  reachability needs no induction.

**`AgentHomeProofs`**: any calls, channels, records and texts.

- `SuccessesAreApplied`, `NoEffectTwice`: in every tool the request with the
  effect is the last one, which is read off the tables (`EffectsComeLast`).
  `EffectOf` says that a call has had its effect exactly when its present
  request is that one and was served; nothing is sent afterwards.
- `ChannelsStopLast`: the loop that stops channels is only reached through the
  `gather` of all the parts.
- `TornRecordsCostTwo`: with `Debt`, what the last line still owes: one record if
  it has no end of line, two if it is whole up to its newline, so that the next
  record spoils it.
- `TextsArePosted`: the chunks cut so far hold every character before the rest
  but newlines (`WellCut`), and the cut of the next one is where
  `_chunk_text` finds it, at a newline or at the limit.
- `HomeTypeCorrect`, `HomeIsSafe`: a behaviour of the composition is one of each
  part, so the types and the eleven invariants of `agent_home` hold in it.

Only model-checked, because fairness and ENABLED are beyond the prover:
`AcceptedTasksEnd`, `CallersReturn`, `MutexFairness`, `MessagesAreAnswered` and
`ServiceEnds`. The violated properties have counterexamples and no proofs.

## 5. Plan

Every part that keeps state is modelled, and every safety property of a passing
run is proved. What is left:

1. *Slack over the executor.* `SlackThread` takes its tasks' steps from
   `TaskLifecycle`, which `TaskExecutor` is proved to implement. A composition
   of `SlackThread` with `TaskExecutor` itself would also cover two tasks of one
   thread and their common session.
2. *Ids used twice.* `AnswersReachTheirTask` and `LiveTasksTracked` speak of
   unique ids. What still holds of two workers on one id can be stated, checked
   with `ReuseIds` and more workers, and proved from `LinkInv` and `PendingInv`.
3. *The store.* A crash in the middle of a write in `ToolApproval`: the file is
   then skipped for ever, which denies and never approves.
4. *Zero workers*, the limit at which the queue is unbounded and nothing runs.

## 6. Not modelled

Assembly of agents, models and MCP clients from configuration; home
directories; the command line and its templates, which poll and post to the
modelled routes; logging and tracing. They keep no state that the components
above depend on; the pool only sees that a build may raise.

The following was noticed while modelling. No run checks it, because it is
outside the bounds, a plain reading of the code shows it, or no sentence of the
repository says otherwise; the passing properties are worded to exclude it.

- `task_executor.py` 329: the interrupt callback is popped at the first
  interrupt, so a second one reaches no channel and waits for its timeout.
- `task_executor.py` 331: an approval may be decided through `/decide` while the
  channel is being notified, and then the live task has a replay; the docstring
  of `decide_orphaned` (428-429) speaks of tasks that are no longer there. The
  decision is on file (438) before its replay is submitted, so a crash or a full
  queue in between leaves one that the next call of that tool uses.
- `channels/slack.py` 193: the permission looked at is that of the first open
  interrupt, whichever button was pressed (`docs/hitl.md` 65); the button of an
  earlier stop is accepted as an answer to a later one.
- `channels/slack.py` 330: at a timeout the update in flight may replace the
  final text. Two tasks of one thread share an upload context, and the first to
  end clears it for the other.
- `access.py`: `can_request` is never called.
- `__main__.py` 79: the global `.env` is loaded first and not overridden, so it
  wins over the one of the agent, against the docstring.
- `tools/confluence.py`: an update reads the version it replaces by itself, so an
  edit made since the agent read the page is overwritten. A request that timed
  out is reported as an error, though the service may serve it.
- `memory/lancedb_provider.py`: `list_memories` limits before it sorts; two
  deletes of one memory may both answer that they deleted it; a provider that
  connects before the first memory was stored, by another agent, never sees the
  table, without any race.
- `session_tools.py`: a fork that was killed leaves a branch that blocks its id.
  A fork of a session whose `session.json` is missing (107) or malformed
  (112-113), or whose `agent.json` is malformed (142-143), returns success with
  the file as it was copied, so the branch may keep an interrupt or have no id,
  against the docstring (16-17, "so the branch starts clean") and the comment at
  132. `BranchesAreClean` excludes only what the code excludes: that a file it
  can read still names the source or has an interrupt.
- `service.py` 168: a channel whose `stop` raises leaves the rest unstopped; tasks in
  flight are cut, though `docs/architecture.md` 159 says that they complete.
- `__main__.py`: a single argument that is `session` or `usage` is taken for the
  name of an agent to run.
- `usage.py`: what is recorded of a task is what the cached agent accumulated.
