------------------------- MODULE TaskExecutorProofs -------------------------
(***************************************************************************)
(* Theorems of TaskExecutor, for any workers, sessions, ids and bounds, and *)
(* whatever is reused, crashes or fails to be built.                       *)
(*                                                                         *)
(* The code finds a task by its id: in the queue, in _tasks, in            *)
(* _pending_responses, in _completion_events.  So everything rests on which *)
(* ids name a single TaskStatus object (Sole).  An id that no client has   *)
(* used again does (ReuseInv), and so does every id that a caller of       *)
(* submit_and_wait waits on, whatever else is reused (WaiterInv).  For the *)
(* tasks of such ids the rest of the invariant says which of the places    *)
(* above may mention the task in which of its states: an item in the queue *)
(* while it is queued (QueueInv), one worker while it runs or asks         *)
(* (WorkInv), an entry in _tasks until it is over (TrackInv).              *)
(***************************************************************************)
EXTENDS TaskExecutor, AgentPoolProofs, SequenceTheorems

\* A TaskStatus object, and an item of the queue.
Status == [id : Id, state : TaskState, waiter : Waiter]
Item == [id : Id, key : Key]

\* At most one task bears the id.
Sole(id) ==
    \A m, n \in DOMAIN subs : subs[m].id = id /\ subs[n].id = id => m = n

\* An id that no client has used twice is that of one task.
ReuseInv == \A n \in DOMAIN subs : Unique(subs[n].id) => Sole(subs[n].id)

\* A worker has a task exactly when it has asked the pool for its session; it
\* starts at the stream; and every queued item has its task.
LinkInv ==
    /\ \A w \in Worker : phase[w] = "idle" <=> taskOf[w] = 0
    /\ \A w \in Worker : phase[w] # "holding" => step[w] = "stream"
    /\ \A i \in DOMAIN queue : \E n \in DOMAIN subs : subs[n].id = queue[i].id

\* The queue holds one item of a task, while the task is queued.
QueueInv ==
    \A n \in DOMAIN subs : \A i \in DOMAIN queue :
        Sole(subs[n].id) /\ queue[i].id = subs[n].id =>
            /\ subs[n].state = "queued"
            /\ \A j \in DOMAIN queue : queue[j].id = subs[n].id => i = j

\* The state of a task whose worker is at step s.
StateAt(s) == IF s \in {"notify", "await"} THEN "interrupted" ELSE "running"

\* One worker has the task, and the task is in the state that the worker's
\* place in its loop says.
WorkInv ==
    \A w \in Worker :
        taskOf[w] # 0 /\ Sole(IdOf(w)) =>
            /\ subs[taskOf[w]].state = StateAt(step[w])
            /\ \A v \in Worker : taskOf[v] = taskOf[w] => v = w
            /\ step[w] = "await" => pending[IdOf(w)] = w

TrackInv ==
    \A n \in DOMAIN subs :
        Sole(subs[n].id) /\ subs[n].state \notin Terminal => n \in Tracked

\* A registered future is that of a worker that waits for an answer to the id.
PendingInv ==
    \A id \in Id : pending[id] # NoWorker =>
        step[pending[id]] = "await" /\ IdOf(pending[id]) = id

\* The ids that callers wait on are theirs alone: they are no replays, and no
\* client has used them again.
WaiterInv ==
    /\ \A n \in DOMAIN subs :
          subs[n].waiter # "none" => subs[n].id[2] = 0 /\ Sole(subs[n].id)
    /\ \A id \in Id : events[id] # 0 =>
          subs[events[id]].id = id /\ subs[events[id]].waiter # "none"

TaskInv == ReuseInv /\ QueueInv /\ WorkInv /\ TrackInv /\ PendingInv
CallersInv == WaiterInv /\ CallersAreOwed

ExecutorInv ==
    /\ TypeOK /\ PoolInv /\ LinkInv /\ TaskInv /\ CallersInv
    /\ RecordsAreUnanswered

-----------------------------------------------------------------------------
\* The operators on _tasks.

\* e is an element of sequence q.
Has(q, e) == \E i \in 1..Len(q) : q[i] = e

\* _trim_history drops entries from the front, of tasks that are over and have
\* as many entries behind them as the history holds.
LEMMA TrimmedIsRest ==
  ASSUME NEW S, NEW q \in Seq(S), NEW s
  PROVE  /\ Trimmed(q, s) \in Seq(S)
         /\ \E gone \in 0..Len(q) :
               /\ Len(Trimmed(q, s)) = Len(q) - gone
               /\ \A j \in 1..(Len(q) - gone) : Trimmed(q, s)[j] = q[gone + j]
               /\ \A i \in 1..gone : Len(q) - i >= MaxHistory /\ s[q[i]].state \in Terminal
  <1> DEFINE Enough(d) == \/ Len(q) - d <= MaxHistory
                          \/ s[q[d + 1]].state \notin Terminal
             Over(d) == \A i \in 1..d : Len(q) - i >= MaxHistory /\ s[q[i]].state \in Terminal
             gone == CHOOSE d \in 0..Len(q) : Over(d) /\ Enough(d)
  <1>0. Len(q) \in Nat /\ MaxHistory \in Nat
    BY ExecutorAssumption, LenProperties
  <1>1. \E d \in 0..Len(q) : Over(d) /\ Enough(d)
    <2> DEFINE T == {d \in 0..Len(q) : Enough(d)}
    <2>1. Len(q) \in T /\ T \in SUBSET Nat
      BY <1>0
    <2>2. PICK x \in T : \A y \in T : x <= y
      BY <2>1, LeastNumber
    <2>3. x \in 0..Len(q) /\ Enough(x)
      BY <2>2
    <2>4. ASSUME NEW i \in 1..x
          PROVE  Len(q) - i >= MaxHistory /\ s[q[i]].state \in Terminal
      <3>1. i - 1 \in 0..Len(q) /\ (i - 1) + 1 = i /\ ~(x <= i - 1)
        BY <2>3, <1>0
      <3>2. ~Enough(i - 1)
        BY <2>2, <3>1
      <3> QED
        BY <3>1, <3>2, <1>0
    <2> QED
      BY <2>3, <2>4
  <1>2. gone \in 0..Len(q) /\ Over(gone)
    BY <1>1
  <1>3. Trimmed(q, s) = SubSeq(q, gone + 1, Len(q))
    BY DEF Trimmed
  <1> HIDE DEF gone
  <1>4. \A i \in (gone + 1)..Len(q) : q[i] \in S
    BY <1>0, <1>2, ElementOfSeq
  <1>5. /\ Trimmed(q, s) \in Seq(S)
        /\ Len(Trimmed(q, s)) = IF gone + 1 <= Len(q) THEN Len(q) - (gone + 1) + 1 ELSE 0
        /\ \A i \in 1..(Len(q) - (gone + 1) + 1) : Trimmed(q, s)[i] = q[(gone + 1) + i - 1]
    <2> HIDE DEF Over
    <2>1. gone + 1 \in Int /\ Len(q) \in Int
      BY <1>0, <1>2
    <2> QED
      BY <2>1, <1>2, <1>3, <1>4, SubSeqProperties
  <1>6. /\ Len(Trimmed(q, s)) = Len(q) - gone
        /\ \A j \in 1..(Len(q) - gone) : Trimmed(q, s)[j] = q[gone + j]
    <2>1. Len(q) - (gone + 1) + 1 = Len(q) - gone
      BY <1>0, <1>2
    <2>2. Len(Trimmed(q, s)) = Len(q) - gone
      BY <1>0, <1>2, <1>5
    <2>3. \A j \in 1..(Len(q) - gone) : (gone + 1) + j - 1 = gone + j
      BY <1>0, <1>2
    <2> QED
      BY <1>5, <2>1, <2>2, <2>3
  <1> QED
    BY <1>2, <1>5, <1>6

\* So it drops tasks that are over only.
LEMMA TrimmedDropsOver ==
  ASSUME NEW S, NEW q \in Seq(S), NEW s
  PROVE  /\ Trimmed(q, s) \in Seq(S)
         /\ \A e \in S : Has(q, e) /\ s[e].state \notin Terminal => Has(Trimmed(q, s), e)
  <1>1. PICK gone \in 0..Len(q) :
             /\ Len(Trimmed(q, s)) = Len(q) - gone
             /\ \A j \in 1..(Len(q) - gone) : Trimmed(q, s)[j] = q[gone + j]
             /\ \A i \in 1..gone : s[q[i]].state \in Terminal
    BY TrimmedIsRest
  <1>2. ASSUME NEW i \in 1..Len(q), s[q[i]].state \notin Terminal
        PROVE  \E j \in 1..Len(Trimmed(q, s)) : Trimmed(q, s)[j] = q[i]
    <2>1. Len(q) \in Nat /\ ~(i \in 1..gone)
      BY <1>1, <1>2, LenProperties
    <2>2. i - gone \in 1..(Len(q) - gone) /\ gone + (i - gone) = i
      BY <2>1
    <2> QED
      BY <1>1, <2>2
  <1> QED
    BY <1>2, TrimmedIsRest DEF Has

\* What is known of the TaskStatus objects by their types.
LEMMA Statuses ==
  ASSUME TypeOK
  PROVE  /\ subs \in Seq(Status)
         /\ Len(subs) \in Nat
         /\ DOMAIN subs = 1..Len(subs)
         /\ \A n \in DOMAIN subs : subs[n] \in Status
         /\ \A n \in DOMAIN subs : /\ subs[n].id \in Id
                                  /\ subs[n].state \in TaskState
                                  /\ subs[n].waiter \in Waiter
         /\ Tracked \subseteq DOMAIN subs
  <1>1. subs \in Seq(Status)
    BY DEF TypeOK, Status
  <1>2. Len(subs) \in Nat /\ DOMAIN subs = 1..Len(subs)
    BY <1>1, LenProperties
  <1>3. \A n \in DOMAIN subs : subs[n] \in Status
    BY <1>1, <1>2, ElementOfSeq
  <1>4. Tracked \subseteq DOMAIN subs
    <2>1. tasks \in Seq(1..Len(subs))
      BY DEF TypeOK
    <2> QED
      BY <2>1, <1>2, ElementOfSeq DEF Tracked
  <1> QED
    BY <1>1, <1>2, <1>3, <1>4 DEF Status

\* What _tasks.get finds.
LEMMA StatusFound ==
  ASSUME TypeOK, NEW id
  PROVE  \/ StatusOf(id) = 0 /\ \A n \in Tracked : subs[n].id # id
         \/ StatusOf(id) \in Tracked /\ subs[StatusOf(id)].id = id
  BY DEF StatusOf

\* The entry of an id that _tasks does not have comes last.
LEMMA AppendedEntry ==
  ASSUME TypeOK, NEW id, NEW new \in Nat, StatusOf(id) = 0
  PROVE  /\ Len(Assigned(id, new)) = Len(tasks) + 1
         /\ Assigned(id, new)[Len(tasks) + 1] = new
         /\ \A i \in 1..Len(tasks) : Assigned(id, new)[i] = tasks[i]
  <1>1. tasks \in Seq(Nat)
    <2>1. tasks \in Seq(1..Len(subs)) /\ 1..Len(subs) \subseteq Nat
      BY Statuses DEF TypeOK
    <2> QED
      BY <2>1, SeqMonotonic
  <1>2. Assigned(id, new) = Append(tasks, new)
    BY DEF Assigned
  <1> QED
    BY <1>1, <1>2, AppendProperties

\* An entry put into _tasks is there, and so are those of other ids.
LEMMA AssignedTracks ==
  ASSUME TypeOK, NEW id, NEW new \in Nat
  PROVE  /\ Assigned(id, new) \in Seq((1..Len(subs)) \cup {new})
         /\ Has(Assigned(id, new), new)
         /\ \A n \in Tracked : subs[n].id # id => Has(Assigned(id, new), n)
  <1> DEFINE S == (1..Len(subs)) \cup {new}
  <1>1. tasks \in Seq(S)
    <2>1. tasks \in Seq(1..Len(subs)) /\ 1..Len(subs) \subseteq S
      BY DEF TypeOK
    <2> QED
      BY <2>1, SeqMonotonic
  <1>2. Len(tasks) \in Nat /\ \A i \in 1..Len(tasks) : tasks[i] \in S
    BY <1>1, LenProperties, ElementOfSeq
  <1>3. CASE StatusOf(id) = 0
    <2>1. Assigned(id, new) = Append(tasks, new) /\ new \in S
      BY <1>3 DEF Assigned
    <2> HIDE DEF S
    <2>2. /\ Append(tasks, new) \in Seq(S)
          /\ Len(Append(tasks, new)) = Len(tasks) + 1
          /\ \A i \in 1..Len(tasks) : Append(tasks, new)[i] = tasks[i]
          /\ Append(tasks, new)[Len(tasks) + 1] = new
      BY <1>1, <2>1, AppendProperties
    <2>3. \A i \in 1..Len(tasks) : i \in 1..(Len(tasks) + 1)
      BY <1>2
    <2>4. Len(tasks) + 1 \in 1..(Len(tasks) + 1)
      BY <1>2
    <2>5. \A n \in Tracked : \E i \in 1..Len(tasks) : tasks[i] = n
      BY DEF Tracked
    <2> QED
      BY <2>1, <2>2, <2>3, <2>4, <2>5 DEF S, Has
  <1>4. CASE StatusOf(id) # 0
    <2> DEFINE old == StatusOf(id)
               put == [i \in 1..Len(tasks) |-> IF tasks[i] = old THEN new ELSE tasks[i]]
    <2>1. Assigned(id, new) = put
      BY <1>4 DEF Assigned
    <2>2. old \in Tracked /\ subs[old].id = id
      BY <1>4, StatusFound
    <2> HIDE DEF old
    <2>3. put \in Seq(S) /\ Len(put) = Len(tasks)
      BY <1>2
    <2>4. PICK k \in 1..Len(tasks) : tasks[k] = old
      BY <2>2 DEF Tracked
    <2>5. put[k] = new
      BY <2>4
    <2>6. ASSUME NEW n \in Tracked, subs[n].id # id
          PROVE  \E i \in 1..Len(tasks) : put[i] = n
      <3>1. PICK i \in 1..Len(tasks) : tasks[i] = n
        BY DEF Tracked
      <3>2. put[i] = n
        BY <2>2, <2>6, <3>1
      <3> QED
        BY <3>2
    <2> QED
      BY <2>1, <2>3, <2>4, <2>5, <2>6 DEF Has
  <1> QED
    BY <1>3, <1>4

-----------------------------------------------------------------------------
\* What the actions do to the TaskStatus objects.

\* The objects stay, and so do their ids.
SubsKept ==
    /\ subs' \in Seq(Status)
    /\ Len(subs') = Len(subs)
    /\ DOMAIN subs' = DOMAIN subs
    /\ \A n \in DOMAIN subs : subs'[n].id = subs[n].id

\* Task n goes to state s, and no caller is told.
StateSet(n, s) ==
    /\ SubsKept
    /\ \A m \in DOMAIN subs :
          /\ subs'[m].state = IF m = n THEN s ELSE subs[m].state
          /\ subs'[m].waiter = subs[m].waiter

\* A change of one task's state disturbs nothing else of the tasks.
LEMMA SetState ==
  ASSUME TypeOK, NEW n \in DOMAIN subs, NEW s \in TaskState,
         subs' = [subs EXCEPT ![n].state = s]
  PROVE  StateSet(n, s)
  <1> DEFINE r == [subs[n] EXCEPT !.state = s]
  <1>1. /\ subs \in Seq(Status) /\ n \in 1..Len(subs) /\ Len(subs) \in Nat
        /\ DOMAIN subs = 1..Len(subs) /\ subs[n] \in Status
    BY Statuses
  <1>2. r \in Status /\ r.state = s /\ r.id = subs[n].id /\ r.waiter = subs[n].waiter
    BY <1>1 DEF Status
  <1>3. subs' = [subs EXCEPT ![n] = r]
    OBVIOUS
  <1> HIDE DEF r
  <1>4. /\ subs' \in Seq(Status) /\ Len(subs') = Len(subs)
        /\ \A j \in 1..Len(subs) : subs'[j] = IF j = n THEN r ELSE subs[j]
    BY <1>1, <1>2, <1>3, ExceptSeq
  <1>5. DOMAIN subs' = DOMAIN subs
    BY <1>1, <1>4, LenProperties
  <1> QED
    BY <1>1, <1>2, <1>4, <1>5 DEF StateSet, SubsKept

\* Task n returns what its caller waited for.
LEMMA SetWaiter ==
  ASSUME TypeOK, NEW n \in DOMAIN subs, NEW c \in Waiter,
         subs' = [subs EXCEPT ![n].waiter = c]
  PROVE  /\ SubsKept
         /\ \A m \in DOMAIN subs :
               /\ subs'[m].state = subs[m].state
               /\ subs'[m].waiter = IF m = n THEN c ELSE subs[m].waiter
  <1> DEFINE r == [subs[n] EXCEPT !.waiter = c]
  <1>1. /\ subs \in Seq(Status) /\ n \in 1..Len(subs) /\ Len(subs) \in Nat
        /\ DOMAIN subs = 1..Len(subs) /\ subs[n] \in Status
    BY Statuses
  <1>2. r \in Status /\ r.state = subs[n].state /\ r.id = subs[n].id /\ r.waiter = c
    BY <1>1 DEF Status
  <1>3. subs' = [subs EXCEPT ![n] = r]
    OBVIOUS
  <1> HIDE DEF r
  <1>4. /\ subs' \in Seq(Status) /\ Len(subs') = Len(subs)
        /\ \A j \in 1..Len(subs) : subs'[j] = IF j = n THEN r ELSE subs[j]
    BY <1>1, <1>2, <1>3, ExceptSeq
  <1>5. DOMAIN subs' = DOMAIN subs
    BY <1>1, <1>4, LenProperties
  <1> QED
    BY <1>1, <1>2, <1>4, <1>5 DEF SubsKept

\* A task ends: it is over, and the caller that waits for it is woken.
Ended(w, s) ==
    /\ SubsKept
    /\ \A m \in DOMAIN subs :
          /\ subs'[m].state = IF m = taskOf[w] THEN s ELSE subs[m].state
          /\ subs'[m].waiter =
                IF m = events[IdOf(w)] /\ subs[m].waiter = "waiting"
                THEN "woken" ELSE subs[m].waiter

\* The end of a task, as the parts of the invariant see it.
LEMMA EndOfTask ==
  ASSUME TypeOK, NEW w \in Worker, NEW s \in TaskState, End(w, s)
  PROVE  Ended(w, s)
  <1> DEFINE r(m) == [subs[m] EXCEPT
                       !.state = IF m = taskOf[w] THEN s ELSE @,
                       !.waiter = IF m = events[IdOf(w)] /\ @ = "waiting" THEN "woken" ELSE @]
  <1>1. /\ Len(subs) \in Nat /\ DOMAIN subs = 1..Len(subs)
        /\ \A m \in DOMAIN subs : subs[m] \in Status
    BY Statuses
  <1>2. subs' = [m \in 1..Len(subs) |-> r(m)]
    BY <1>1 DEF End
  <1>3. ASSUME NEW m \in DOMAIN subs
        PROVE  /\ r(m) \in Status
               /\ r(m).id = subs[m].id
               /\ r(m).state = IF m = taskOf[w] THEN s ELSE subs[m].state
               /\ r(m).waiter = IF m = events[IdOf(w)] /\ subs[m].waiter = "waiting"
                                THEN "woken" ELSE subs[m].waiter
    <2>1. subs[m] \in Status
      BY <1>1
    <2> QED
      BY <2>1 DEF Status, Waiter
  <1> HIDE DEF r
  <1>4. subs' \in Seq(Status) /\ Len(subs') = Len(subs) /\ DOMAIN subs' = DOMAIN subs
    BY <1>1, <1>2, <1>3
  <1> QED
    BY <1>1, <1>2, <1>3, <1>4 DEF Ended, SubsKept

\* A new object is created with id, in state s, for a caller in state c.
Created(id, s, c) ==
    /\ subs' \in Seq(Status)
    /\ Len(subs') = Len(subs) + 1
    /\ DOMAIN subs' = DOMAIN subs \cup {Len(subs) + 1}
    /\ \A n \in DOMAIN subs : n # Len(subs) + 1 /\ subs'[n] = subs[n]
    /\ subs'[Len(subs) + 1] = [id |-> id, state |-> s, waiter |-> c]

\* A new task leaves the others as they are.
LEMMA AppendCreates ==
  ASSUME TypeOK, NEW id \in Id, NEW s \in TaskState, NEW c \in Waiter,
         subs' = Append(subs, [id |-> id, state |-> s, waiter |-> c])
  PROVE  Created(id, s, c)
  <1> DEFINE new == [id |-> id, state |-> s, waiter |-> c]
  <1>1. subs \in Seq(Status) /\ Len(subs) \in Nat /\ DOMAIN subs = 1..Len(subs)
    BY Statuses
  <1>2. new \in Status /\ subs' = Append(subs, new)
    BY DEF Status
  <1> HIDE DEF new
  <1>3. /\ subs' \in Seq(Status) /\ Len(subs') = Len(subs) + 1
        /\ \A i \in 1..Len(subs) : subs'[i] = subs[i]
        /\ subs'[Len(subs) + 1] = new
    BY <1>1, <1>2, AppendProperties
  <1>4. DOMAIN subs' = DOMAIN subs \cup {Len(subs) + 1}
    BY <1>1, <1>3, LenProperties
  <1> QED
    BY <1>1, <1>3, <1>4 DEF Created, new

\* The task is accepted, or refused by a full queue.
SubmitOutcome(id, key, waiter) ==
    \/ /\ Created(id, "queued", waiter)
       /\ Len(queue) < QueueCap
       /\ queue' = Append(queue, [id |-> id, key |-> key])
    \/ /\ Created(id, "failed", IF waiter = "waiting" THEN "rejected" ELSE waiter)
       /\ queue' = queue

\* What submit does: but for the entry of the same id, no entry of a task that
\* is not over leaves _tasks.
SubmitEffect(id, key, waiter) ==
    /\ Len(subs) + 1 <= MaxSubmits
    /\ reused' = IF Fresh(id) THEN reused ELSE reused \cup {id}
    /\ tasks' \in Seq(1..(Len(subs) + 1))
    /\ \A n \in Tracked :
          subs[n].id # id /\ subs[n].state \notin Terminal => Has(tasks', n)
    /\ Has(tasks', Len(subs) + 1)
    /\ SubmitOutcome(id, key, waiter)

\* A submission either is refused, or creates a task and files it.
LEMMA SubmitDoes ==
  ASSUME TypeOK, NEW id \in Id, NEW key \in Key, NEW waiter \in {"none", "waiting"},
         Submit(id, key, waiter)
  PROVE  SubmitEffect(id, key, waiter)
  <1> DEFINE n == Len(subs) + 1
             new == [id |-> id, state |-> "queued", waiter |-> waiter]
             created == Append(subs, new)
             q == Assigned(id, n)
  <1>1. /\ subs \in Seq(Status) /\ Len(subs) \in Nat /\ DOMAIN subs = 1..Len(subs)
        /\ Tracked \subseteq DOMAIN subs
    BY Statuses
  <1>2. n \in Nat /\ (1..Len(subs)) \cup {n} = 1..n /\ n \notin DOMAIN subs
    BY <1>1
  <1>3. new \in Status
    BY DEF Status, TaskState, Waiter
  <1>4. /\ tasks' = Trimmed(q, created)
        /\ n <= MaxSubmits
        /\ reused' = IF Fresh(id) THEN reused ELSE reused \cup {id}
    BY DEF Submit
  <1>5. ASSUME Len(queue) < QueueCap, subs' = created,
               queue' = Append(queue, [id |-> id, key |-> key])
        PROVE  SubmitOutcome(id, key, waiter)
    <2>1. Created(id, "queued", waiter)
      BY <1>5, AppendCreates DEF TaskState, Waiter
    <2> QED
      BY <1>5, <2>1 DEF SubmitOutcome
  <1>6. ASSUME queue' = queue,
               subs' = Append(subs, [id |-> id, state |-> "failed",
                           waiter |-> IF waiter = "waiting" THEN "rejected" ELSE waiter])
        PROVE  SubmitOutcome(id, key, waiter)
    <2> DEFINE c == IF waiter = "waiting" THEN "rejected" ELSE waiter
    <2>1. c \in Waiter /\ subs' = Append(subs, [id |-> id, state |-> "failed", waiter |-> c])
      BY <1>6 DEF Waiter
    <2> HIDE DEF c
    <2>2. Created(id, "failed", c)
      BY <2>1, AppendCreates DEF TaskState, Terminal
    <2> QED
      BY <1>6, <2>2 DEF c, SubmitOutcome
  <1>12. SubmitOutcome(id, key, waiter)
    BY <1>5, <1>6 DEF Submit, new, created
  <1> HIDE DEF new
  <1>7. /\ created \in Seq(Status) /\ Len(created) = n
        /\ \A i \in 1..Len(subs) : created[i] = subs[i]
        /\ created[n] = new
    BY <1>1, <1>3, AppendProperties
  <1> HIDE DEF created
  <1>8. /\ q \in Seq(1..n)
        /\ Has(q, n)
        /\ \A m \in Tracked : subs[m].id # id => Has(q, m)
    BY <1>2, AssignedTracks
  <1> HIDE DEF q
  <1>9. /\ tasks' \in Seq(1..n)
        /\ \A m \in 1..n : Has(q, m) /\ created[m].state \notin Terminal => Has(tasks', m)
    BY <1>4, <1>8, TrimmedDropsOver
  <1>10. ASSUME NEW m \in Tracked, subs[m].id # id, subs[m].state \notin Terminal
         PROVE  Has(tasks', m)
    BY <1>1, <1>2, <1>7, <1>8, <1>9, <1>10
  <1>11. Has(tasks', n)
    <2>1. created[n].state \notin Terminal /\ n \in 1..n
      BY <1>1, <1>7 DEF new, Terminal
    <2> QED
      BY <1>8, <1>9, <2>1
  <1> QED
    BY <1>4, <1>9, <1>10, <1>11, <1>12 DEF SubmitEffect

-----------------------------------------------------------------------------
\* The pool inside the executor.

\* A step of the executor is a step of the pool, or leaves it alone; only a
\* restart empties it.
LEMMA PoolSteps ==
  ASSUME TypeOK, [Next]_vars
  PROVE  [PoolNext]_poolVars \/ Restart
  <1>1. ASSUME NEW w \in Worker, Work(w)
        PROVE  [PoolNext]_poolVars
    <2>1. ASSUME Dequeue(w)
          PROVE  PoolNext
      <3>1. Head(queue).key \in Key
        <4>1. queue \in Seq(Item) /\ queue # <<>>
          BY <2>1 DEF Dequeue, TypeOK, Item
        <4>2. Head(queue) \in Item
          BY <4>1, HeadTailProperties
        <4> QED
          BY <4>2 DEF Item
      <3>2. Acquire(w, Head(queue).key)
        BY <2>1 DEF Dequeue
      <3> QED
        BY <3>1, <3>2 DEF Acquire, PoolNext
    <2>2. ASSUME NEW s, End(w, s)
          PROVE  PoolNext
      BY <2>2 DEF End, PoolNext
    <2>3. ASSUME SessionGranted(w)
          PROVE  PoolNext
      BY <2>3 DEF SessionGranted, PoolNext
    <2>4. StreamCompletes(w) \/ StreamFails(w) \/ StreamTimesOut(w)
             \/ NotifyRaises(w) \/ AwaitTimesOut(w) => PoolNext
      BY <2>2 DEF StreamCompletes, StreamFails, StreamTimesOut, NotifyRaises, AwaitTimesOut
    <2>5. DequeueDropped(w) \/ StreamRetries(w) \/ BackoffEnds(w) \/ HookUsesDecision(w)
             \/ StreamInterrupts(w) \/ NotifyEnds(w) \/ Resume(w) => UNCHANGED poolVars
      BY DEF DequeueDropped, StreamRetries, BackoffEnds, HookUsesDecision, StreamInterrupts,
             NotifyEnds, Resume
    <2> QED
      BY <1>1, <2>1, <2>3, <2>4, <2>5 DEF Work
  <1>2. Outside => UNCHANGED poolVars
    BY DEF Outside, SubmitHttp, SubmitChannel, Respond, DecideOrphaned
  <1>3. (\E n \in DOMAIN subs : WaiterReturns(n)) => UNCHANGED poolVars
    BY DEF WaiterReturns
  <1>4. UNCHANGED vars => UNCHANGED poolVars
    BY DEF vars
  <1> QED
    BY <1>1, <1>2, <1>3, <1>4 DEF Next

\* A restart leaves a pool in its initial state.
LEMMA RestartedPool == Restart => PoolInv' /\ CacheInv'
  <1>1. Restart => PoolInit'
    BY DEF Restart, PoolInit
  <1>2. PoolInit => PoolInv /\ CacheInv
    BY PoolInitInv, CacheInitInv
  <1>3. PoolInit' => PoolInv' /\ CacheInv'
    BY <1>2, PTL
  <1> QED
    BY <1>1, <1>3

\* The invariant of the pool survives everything the executor does.
LEMMA PoolKept ==
  ASSUME TypeOK, PoolInv, [Next]_vars
  PROVE  PoolInv'
  <1>1. CASE [PoolNext]_poolVars
    BY <1>1, PoolInvStep
  <1>2. CASE Restart
    BY <1>2, RestartedPool
  <1> QED
    BY <1>1, <1>2, PoolSteps

-----------------------------------------------------------------------------
\* Types.

\* A worker that holds a session has a task.
LEMMA TaskOfHolder ==
  ASSUME TypeOK, LinkInv, NEW w \in Worker, phase[w] # "idle"
  PROVE  taskOf[w] # 0 /\ taskOf[w] \in DOMAIN subs /\ IdOf(w) \in Id
  <1>1. taskOf[w] # 0 /\ taskOf[w] \in 0..Len(subs)
    BY DEF LinkInv, TypeOK
  <1>2. taskOf[w] \in DOMAIN subs
    BY <1>1, Statuses
  <1> QED
    BY <1>1, <1>2, Statuses DEF IdOf

\* A sequence of items that shrinks or grows within its cap.
LEMMA QueueTypes ==
  ASSUME TypeOK
  PROVE  /\ queue \in Seq(Item) /\ QueueCap \in Nat
         /\ queue # <<>> => Tail(queue) \in Seq(Item) /\ Len(Tail(queue)) <= QueueCap
         /\ queue # <<>> => Head(queue) \in Item
         /\ \A id \in Id, key \in Key :
               Len(queue) < QueueCap =>
                  /\ Append(queue, [id |-> id, key |-> key]) \in Seq(Item)
                  /\ Len(Append(queue, [id |-> id, key |-> key])) <= QueueCap
  <1>1. queue \in Seq(Item) /\ Len(queue) <= QueueCap /\ Len(queue) \in Nat
    BY LenProperties DEF TypeOK, Item
  <1>2. QueueCap \in Nat
    BY FS_CardinalityType, ExecutorAssumption DEF QueueCap
  <1>3. ASSUME queue # <<>>
        PROVE  /\ Tail(queue) \in Seq(Item) /\ Len(Tail(queue)) <= QueueCap
               /\ Head(queue) \in Item
    BY <1>1, <1>2, <1>3, HeadTailProperties
  <1>4. ASSUME NEW id \in Id, NEW key \in Key, Len(queue) < QueueCap
        PROVE  /\ Append(queue, [id |-> id, key |-> key]) \in Seq(Item)
               /\ Len(Append(queue, [id |-> id, key |-> key])) <= QueueCap
    <2> DEFINE item == [id |-> id, key |-> key]
    <2>1. item \in Item
      BY DEF Item
    <2> HIDE DEF item
    <2>2. Append(queue, item) \in Seq(Item) /\ Len(Append(queue, item)) <= QueueCap
      BY <1>1, <1>2, <1>4, <2>1, AppendProperties
    <2> QED
      BY <2>2 DEF item
  <1> QED
    BY <1>1, <1>2, <1>3, <1>4

\* What a submission changes besides the variables of its callers.
LEMMA SubmitTypes ==
  ASSUME TypeOK, PoolTypeOK', NEW id \in Id, NEW key \in Key,
         NEW waiter \in {"none", "waiting"}, Submit(id, key, waiter),
         UNCHANGED <<taskOf, step, attempt, asks, pending, answered, crashes>>,
         events' \in [Id -> 0..(Len(subs) + 1)],
         interruptCbs' \subseteq Id, progressCbs' \subseteq Id,
         store' \in [Id -> Record \cup {NoRecord}]
  PROVE  TypeOK'
  <1>1. SubmitEffect(id, key, waiter)
    BY SubmitDoes
  <1>2. subs' \in Seq(Status) /\ Len(subs') = Len(subs) + 1 /\ Len(subs) \in Nat
    BY <1>1, Statuses DEF SubmitEffect, SubmitOutcome, Created
  <1>3. queue' \in Seq(Item) /\ Len(queue') <= QueueCap
    BY <1>1, QueueTypes DEF SubmitEffect, SubmitOutcome, TypeOK
  <1>4. taskOf' \in [Worker -> 0..Len(subs')]
    <2>1. taskOf \in [Worker -> 0..Len(subs)] /\ 0..Len(subs) \subseteq 0..Len(subs')
      BY <1>2 DEF TypeOK
    <2> QED
      BY <2>1
  <1>5. reused' \subseteq Id
    BY <1>1 DEF SubmitEffect, TypeOK
  <1>6. tasks' \in Seq(1..Len(subs')) /\ Len(subs') <= MaxSubmits
    BY <1>1, <1>2 DEF SubmitEffect
  <1>7. events' \in [Id -> 0..Len(subs')]
    BY <1>2
  <1> QED
    BY <1>2, <1>3, <1>4, <1>5, <1>6, <1>7 DEF TypeOK, Status, Item

\* What the end of a task changes besides the variables of its callers.
LEMMA EndTypes ==
  ASSUME TypeOK, PoolTypeOK', NEW w \in Worker, NEW s \in TaskState, End(w, s),
         pending' \in [Id -> Worker \cup {NoWorker}],
         answered' \in [Worker -> BOOLEAN],
         UNCHANGED <<interruptCbs, store>>
  PROVE  TypeOK'
  <1>1. subs' \in Seq(Status) /\ Len(subs') = Len(subs) /\ Len(subs) \in Nat
    BY EndOfTask, Statuses DEF Ended, SubsKept
  <1>2. /\ taskOf' = [taskOf EXCEPT ![w] = 0]
        /\ step' = [step EXCEPT ![w] = "stream"]
        /\ attempt' = [attempt EXCEPT ![w] = 0]
        /\ asks' = [asks EXCEPT ![w] = 0]
        /\ progressCbs' \subseteq progressCbs
        /\ UNCHANGED <<tasks, queue, events, crashes, reused>>
    BY DEF End
  <1>3. {MaxRetries, MaxAsks} \subseteq Nat
    BY ExecutorAssumption
  <1>4. taskOf' \in [Worker -> 0..Len(subs')] /\ step' \in [Worker -> Step]
    BY <1>1, <1>2 DEF TypeOK, Step
  <1>5. attempt' \in [Worker -> 0..MaxRetries] /\ asks' \in [Worker -> 0..MaxAsks]
    BY <1>2, <1>3 DEF TypeOK
  <1> QED
    BY <1>1, <1>2, <1>4, <1>5 DEF TypeOK, Status

\* Every step keeps the types.
LEMMA ExecutorTypes ==
  ASSUME TypeOK, LinkInv, PoolTypeOK', [Next]_vars
  PROVE  TypeOK'
  <1>0. {MaxRetries, MaxReplay, MaxAsks, MaxCrashes} \subseteq Nat /\ NoWorker \notin Worker
    BY ExecutorAssumption
  <1>1. ASSUME NEW w \in Worker, DequeueDropped(w)
        PROVE  TypeOK'
    BY <1>1, QueueTypes DEF DequeueDropped, TypeOK, Item
  <1>2. ASSUME NEW w \in Worker, Dequeue(w)
        PROVE  TypeOK'
    <2> DEFINE n == StatusOf(Head(queue).id)
    <2>1. n \in DOMAIN subs /\ n \in 0..Len(subs)
      BY <1>2, StatusFound, Statuses DEF Dequeue
    <2>2. /\ subs' = [subs EXCEPT ![n].state = "running"]
          /\ taskOf' = [taskOf EXCEPT ![w] = n]
          /\ queue' = Tail(queue) /\ queue # <<>>
          /\ UNCHANGED <<tasks, step, attempt, asks, pending, answered, events,
                         interruptCbs, progressCbs, store, crashes, reused>>
      BY <1>2 DEF Dequeue
    <2> HIDE DEF n
    <2>3. subs' \in Seq(Status) /\ Len(subs') = Len(subs)
      BY <2>1, <2>2, SetState DEF StateSet, SubsKept, TaskState
    <2>4. taskOf' \in [Worker -> 0..Len(subs')]
      BY <2>1, <2>2, <2>3 DEF TypeOK
    <2>5. queue' \in Seq(Item) /\ Len(queue') <= QueueCap
      BY <2>2, QueueTypes
    <2> QED
      BY <2>2, <2>3, <2>4, <2>5 DEF TypeOK, Status, Item
  <1>3. ASSUME NEW w \in Worker, SessionGranted(w)
        PROVE  TypeOK'
    BY <1>3 DEF SessionGranted, memory, TypeOK
  <1>4. ASSUME NEW w \in Worker,
               StreamCompletes(w) \/ StreamFails(w) \/ StreamTimesOut(w) \/ NotifyRaises(w)
        PROVE  TypeOK'
    <2>1. PICK s \in Terminal : End(w, s)
      BY <1>4 DEF StreamCompletes, StreamFails, StreamTimesOut, NotifyRaises, Terminal
    <2>2. UNCHANGED <<pending, answered, interruptCbs, store>>
      BY <1>4 DEF StreamCompletes, StreamFails, StreamTimesOut, NotifyRaises
    <2>3. pending' \in [Id -> Worker \cup {NoWorker}] /\ answered' \in [Worker -> BOOLEAN]
      BY <2>2 DEF TypeOK
    <2> QED
      BY <2>1, <2>2, <2>3, EndTypes DEF TaskState
  <1>5. ASSUME NEW w \in Worker, AwaitTimesOut(w)
        PROVE  TypeOK'
    <2>1. /\ End(w, "timeout") /\ "timeout" \in TaskState
          /\ UNCHANGED <<interruptCbs, store>>
      BY <1>5 DEF AwaitTimesOut, TaskState, Terminal
    <2>2. pending' \in [Id -> Worker \cup {NoWorker}] /\ answered' \in [Worker -> BOOLEAN]
      BY <1>5 DEF AwaitTimesOut, TypeOK
    <2> QED
      BY <2>1, <2>2, EndTypes
  <1>6. ASSUME NEW w \in Worker, StreamRetries(w)
        PROVE  TypeOK'
    <2>1. attempt' \in [Worker -> 0..MaxRetries] /\ step' \in [Worker -> Step]
      BY <1>0, <1>6 DEF StreamRetries, TypeOK, Step
    <2> QED
      BY <1>6, <2>1 DEF StreamRetries, TypeOK
  <1>7. ASSUME NEW w \in Worker, BackoffEnds(w)
        PROVE  TypeOK'
    BY <1>7 DEF BackoffEnds, TypeOK, Step
  <1>8. ASSUME NEW w \in Worker, HookUsesDecision(w)
        PROVE  TypeOK'
    BY <1>8 DEF HookUsesDecision, memory, TypeOK
  <1>9. ASSUME NEW w \in Worker, StreamInterrupts(w)
        PROVE  TypeOK'
    <2>1. taskOf[w] \in DOMAIN subs
      BY <1>9, TaskOfHolder DEF StreamInterrupts, At
    <2>2. subs' = [subs EXCEPT ![taskOf[w]].state = "interrupted"]
      BY <1>9 DEF StreamInterrupts
    <2>3. subs' \in Seq(Status) /\ Len(subs') = Len(subs)
      BY <2>1, <2>2, SetState DEF StateSet, SubsKept, TaskState
    <2>4. asks' \in [Worker -> 0..MaxAsks]
      BY <1>0, <1>9 DEF StreamInterrupts, TypeOK
    <2>5. store' \in [Id -> Record \cup {NoRecord}]
      <3>1. sess[w] \in Key
        BY DEF TypeOK, PoolTypeOK
      <3>2. [key |-> sess[w], status |-> "pending"] \in Record
        BY <3>1 DEF Record
      <3> QED
        BY <1>9, <3>2 DEF StreamInterrupts, TypeOK
    <2>6. step' \in [Worker -> Step] /\ pending' \in [Id -> Worker \cup {NoWorker}]
      BY <1>9 DEF StreamInterrupts, TypeOK, Step
    <2>7. interruptCbs' \subseteq Id
      BY <1>9 DEF StreamInterrupts, TypeOK
    <2> QED
      BY <1>9, <2>3, <2>4, <2>5, <2>6, <2>7 DEF StreamInterrupts, TypeOK, Status
  <1>10. ASSUME NEW w \in Worker, NotifyEnds(w)
         PROVE  TypeOK'
    BY <1>10 DEF NotifyEnds, TypeOK, Step
  <1>11. ASSUME NEW w \in Worker, Resume(w)
         PROVE  TypeOK'
    <2>1. taskOf[w] \in DOMAIN subs
      BY <1>11, TaskOfHolder DEF Resume, At
    <2>2. subs' = [subs EXCEPT ![taskOf[w]].state = "running"]
      BY <1>11 DEF Resume
    <2>3. subs' \in Seq(Status) /\ Len(subs') = Len(subs)
      BY <2>1, <2>2, SetState DEF StateSet, SubsKept, TaskState
    <2>4. attempt' \in [Worker -> 0..MaxRetries] /\ step' \in [Worker -> Step]
      BY <1>0, <1>11 DEF Resume, TypeOK, Step
    <2>5. pending' \in [Id -> Worker \cup {NoWorker}] /\ answered' \in [Worker -> BOOLEAN]
      BY <1>11 DEF Resume, TypeOK
    <2>6. store' \in [Id -> Record \cup {NoRecord}]
      BY <1>11 DEF Resume, TypeOK
    <2> QED
      BY <1>11, <2>3, <2>4, <2>5, <2>6 DEF Resume, TypeOK, Status
  <1>12. ASSUME NEW c \in Client, NEW key \in Key, SubmitHttp(c, key)
         PROVE  TypeOK'
    <2>1. <<c, 0>> \in Id /\ Submit(<<c, 0>>, key, "none")
      BY <1>0, <1>12 DEF SubmitHttp, Id
    <2>2. UNCHANGED <<taskOf, step, attempt, asks, pending, answered, events,
                      interruptCbs, progressCbs, store, crashes>>
      BY <1>12 DEF SubmitHttp
    <2>3. events' \in [Id -> 0..(Len(subs) + 1)]
      BY <2>2, Statuses DEF TypeOK
    <2>4. /\ interruptCbs' \subseteq Id /\ progressCbs' \subseteq Id
          /\ store' \in [Id -> Record \cup {NoRecord}]
      BY <2>2 DEF TypeOK
    <2> QED
      BY <2>1, <2>2, <2>3, <2>4, SubmitTypes
  <1>13. ASSUME NEW c \in Client, NEW key \in Key, SubmitChannel(c, key)
         PROVE  TypeOK'
    <2> DEFINE id == <<c, 0>>
    <2>1. id \in Id /\ Submit(id, key, "waiting")
      BY <1>0, <1>13 DEF SubmitChannel, Id
    <2>2. /\ UNCHANGED <<taskOf, step, attempt, asks, pending, answered, store, crashes>>
          /\ interruptCbs' = interruptCbs \cup {id}
          /\ progressCbs' = progressCbs \cup {id}
          /\ events' = [events EXCEPT ![id] = Len(subs) + 1]
      BY <1>13 DEF SubmitChannel
    <2> HIDE DEF id
    <2>3. events' \in [Id -> 0..(Len(subs) + 1)]
      <3>1. Len(subs) + 1 \in 0..(Len(subs) + 1) /\ 0..Len(subs) \subseteq 0..(Len(subs) + 1)
        BY Statuses
      <3>2. events \in [Id -> 0..Len(subs)]
        BY DEF TypeOK
      <3> QED
        BY <2>2, <3>1, <3>2
    <2>4. /\ interruptCbs' \subseteq Id /\ progressCbs' \subseteq Id
          /\ store' \in [Id -> Record \cup {NoRecord}]
      BY <2>1, <2>2 DEF TypeOK
    <2> QED
      BY <2>1, <2>2, <2>3, <2>4, SubmitTypes
  <1>14. ASSUME NEW id \in Id, Respond(id)
         PROVE  TypeOK'
    BY <1>14 DEF Respond, TypeOK
  <1>15. ASSUME NEW id \in Id, DecideOrphaned(id)
         PROVE  TypeOK'
    <2>1. /\ id[2] < MaxReplay
          /\ store[id] # NoRecord
          /\ store' = [store EXCEPT ![id].status = "decided"]
          /\ Submit(Replay(id), store[id].key, "none")
          /\ UNCHANGED <<taskOf, step, attempt, asks, pending, answered, events,
                         interruptCbs, progressCbs, crashes>>
      BY <1>15 DEF DecideOrphaned
    <2>2. Replay(id) \in Id
      BY <1>0, <2>1 DEF Id, Replay
    <2>3. store[id] \in Record /\ store[id].key \in Key
      BY <2>1 DEF TypeOK, Record
    <2>4. store' \in [Id -> Record \cup {NoRecord}]
      <3> DEFINE r == [store[id] EXCEPT !.status = "decided"]
      <3>1. r \in Record /\ store' = [store EXCEPT ![id] = r]
        BY <2>1, <2>3 DEF Record
      <3> HIDE DEF r
      <3> QED
        BY <3>1 DEF TypeOK
    <2>5. events' \in [Id -> 0..(Len(subs) + 1)]
      BY <2>1, Statuses DEF TypeOK
    <2>6. interruptCbs' \subseteq Id /\ progressCbs' \subseteq Id
      BY <2>1 DEF TypeOK
    <2> QED
      BY <2>1, <2>2, <2>3, <2>4, <2>5, <2>6, SubmitTypes
  <1>16. ASSUME NEW n \in DOMAIN subs, WaiterReturns(n)
         PROVE  TypeOK'
    <2>1. PICK c \in Waiter : subs' = [subs EXCEPT ![n].waiter = c]
      BY <1>16 DEF WaiterReturns, Waiter
    <2>2. subs' \in Seq(Status) /\ Len(subs') = Len(subs)
      BY <2>1, SetWaiter DEF SubsKept
    <2>3. events' \in [Id -> 0..Len(subs)]
      BY <1>16, Statuses DEF WaiterReturns, TypeOK
    <2> QED
      BY <1>16, <2>2, <2>3 DEF WaiterReturns, TypeOK, Status
  <1>17. ASSUME Restart
         PROVE  TypeOK'
    <2>1. /\ subs' = <<>> /\ tasks' = <<>> /\ queue' = <<>>
          /\ taskOf' = [w \in Worker |-> 0]
          /\ step' = [w \in Worker |-> "stream"]
          /\ attempt' = [w \in Worker |-> 0]
          /\ asks' = [w \in Worker |-> 0]
          /\ pending' = [id \in Id |-> NoWorker]
          /\ answered' = [w \in Worker |-> FALSE]
          /\ events' = [id \in Id |-> 0]
          /\ interruptCbs' = {} /\ progressCbs' = {}
          /\ UNCHANGED <<store, reused>>
          /\ crashes < MaxCrashes /\ crashes' = crashes + 1
      BY <1>17 DEF Restart
    <2>2. /\ subs' \in Seq(Status) /\ Len(subs') = 0
          /\ tasks' \in Seq(1..0)
          /\ queue' \in Seq(Item) /\ Len(queue') = 0
      BY <2>1, EmptySeq
    <2>3. QueueCap \in Nat /\ MaxSubmits \in Nat
      BY QueueTypes, ExecutorAssumption
    <2>4. crashes' \in 0..MaxCrashes
      BY <1>0, <2>1 DEF TypeOK
    <2>5. attempt' \in [Worker -> 0..MaxRetries] /\ asks' \in [Worker -> 0..MaxAsks]
      BY <1>0, <2>1
    <2> QED
      BY <2>1, <2>2, <2>3, <2>4, <2>5 DEF TypeOK, Status, Item, Step
  <1>18. CASE UNCHANGED vars
    BY <1>18 DEF vars, memory, TypeOK
  <1> QED
    BY <1>1, <1>2, <1>3, <1>4, <1>5, <1>6, <1>7, <1>8, <1>9, <1>10, <1>11, <1>12, <1>13,
       <1>14, <1>15, <1>16, <1>17, <1>18 DEF Next, Work, Outside

\* The initial state has no tasks.
LEMMA ExecutorInit == Init => ExecutorInv
  <1> SUFFICES ASSUME Init
               PROVE  ExecutorInv
    OBVIOUS
  <1>1. PoolInv /\ PoolTypeOK
    BY PoolInitInv DEF Init, MemoryInit, PoolInv
  <1>2. /\ subs = <<>> /\ tasks = <<>> /\ queue = <<>>
        /\ taskOf = [w \in Worker |-> 0]
        /\ step = [w \in Worker |-> "stream"]
        /\ phase = [w \in Worker |-> "idle"]
        /\ pending = [id \in Id |-> NoWorker]
        /\ events = [id \in Id |-> 0]
    BY DEF Init, MemoryInit, PoolInit
  <1>3. /\ subs \in Seq(Status) /\ Len(subs) = 0 /\ DOMAIN subs = {}
        /\ tasks \in Seq(1..0)
        /\ queue \in Seq(Item) /\ Len(queue) = 0 /\ DOMAIN queue = {}
    BY <1>2, EmptySeq
  <1>4. TypeOK
    <2>1. QueueCap \in Nat /\ {MaxSubmits, MaxRetries, MaxAsks, MaxCrashes} \subseteq Nat
      BY FS_CardinalityType, ExecutorAssumption DEF QueueCap
    <2> QED
      BY <1>1, <1>2, <1>3, <2>1 DEF Init, MemoryInit, TypeOK, Status, Item, Step
  <1>5. ReuseInv /\ LinkInv /\ QueueInv /\ WorkInv /\ TrackInv /\ PendingInv /\ WaiterInv
    BY <1>2, <1>3 DEF ReuseInv, LinkInv, QueueInv, WorkInv, TrackInv, PendingInv, WaiterInv
  <1>6. CallersAreOwed /\ RecordsAreUnanswered
    BY <1>3 DEF CallersAreOwed, RecordsAreUnanswered
  <1> QED
    BY <1>1, <1>4, <1>5, <1>6 DEF ExecutorInv, TaskInv, CallersInv

-----------------------------------------------------------------------------
\* The steps of a worker with its task.

\* Which ids are of one task does not change while no task is submitted.
LEMMA SoleKept ==
  ASSUME SubsKept, NEW id
  PROVE  Sole(id)' <=> Sole(id)
  BY DEF SubsKept, Sole

\* Worker w, its task and the future of its id may change; the task stays its
\* own or is given up, in the state that the worker's place says.
WorkerStep(w) ==
    /\ SubsKept
    /\ UNCHANGED <<tasks, queue, reused>>
    /\ \A n \in DOMAIN subs : n # taskOf[w] => subs'[n].state = subs[n].state
    /\ \A v \in Worker : v # w => taskOf'[v] = taskOf[v] /\ step'[v] = step[v]
    /\ \A id \in Id : id # IdOf(w) => pending'[id] = pending[id]
    /\ taskOf'[w] \in {0, taskOf[w]}
    /\ taskOf'[w] # 0 /\ Sole(IdOf(w)) =>
          /\ subs'[taskOf[w]].state = StateAt(step'[w])
          /\ step'[w] = "await" => pending'[IdOf(w)] = w
    /\ pending'[IdOf(w)] # NoWorker =>
          \/ pending'[IdOf(w)] = w /\ taskOf'[w] # 0 /\ step'[w] = "await"
          \/ pending'[IdOf(w)] # w /\ pending'[IdOf(w)] = pending[IdOf(w)]

\* A step of a worker with its task preserves the invariant of the tasks.
LEMMA WorkerStepKeeps ==
  ASSUME TypeOK, LinkInv, TaskInv, NEW w \in Worker, taskOf[w] # 0, WorkerStep(w)
  PROVE  TaskInv'
  <1>0. ReuseInv /\ QueueInv /\ WorkInv /\ TrackInv /\ PendingInv
    BY DEF TaskInv
  <1>1. /\ SubsKept /\ DOMAIN subs' = DOMAIN subs
        /\ \A n \in DOMAIN subs : subs'[n].id = subs[n].id
        /\ tasks' = tasks /\ queue' = queue /\ reused' = reused
        /\ \A n \in DOMAIN subs : n # taskOf[w] => subs'[n].state = subs[n].state
        /\ \A v \in Worker : v # w => taskOf'[v] = taskOf[v] /\ step'[v] = step[v]
        /\ taskOf'[w] \in {0, taskOf[w]}
    BY DEF WorkerStep, SubsKept
  <1>2. \A id : Sole(id)' <=> Sole(id)
    BY <1>1, SoleKept
  <1>3. /\ \A v \in Worker : taskOf[v] # 0 => taskOf[v] \in DOMAIN subs
        /\ taskOf[w] \in DOMAIN subs /\ IdOf(w) \in Id
    <2>1. \A v \in Worker : taskOf[v] \in 0..Len(subs)
      BY DEF TypeOK
    <2> QED
      BY <2>1, Statuses DEF IdOf
  <1>4. Sole(IdOf(w)) => subs[taskOf[w]].state \in {"running", "interrupted"}
    BY <1>0 DEF WorkInv, StateAt
  <1>5. ReuseInv'
    BY <1>0, <1>1, <1>2 DEF ReuseInv, Unique
  <1>6. QueueInv'
    <2> SUFFICES ASSUME NEW n \in DOMAIN subs, NEW i \in DOMAIN queue,
                        Sole(subs[n].id), queue[i].id = subs[n].id
                 PROVE  /\ subs'[n].state = "queued"
                        /\ \A j \in DOMAIN queue : queue[j].id = subs[n].id => i = j
      BY <1>1, <1>2 DEF QueueInv
    <2>1. /\ subs[n].state = "queued"
          /\ \A j \in DOMAIN queue : queue[j].id = subs[n].id => i = j
      BY <1>0 DEF QueueInv
    <2>2. n # taskOf[w]
      BY <1>4, <2>1 DEF IdOf
    <2> QED
      BY <1>1, <2>1, <2>2
  <1>7. \A v \in Worker : taskOf'[v] # 0 => IdOf(v)' = IdOf(v)
    BY <1>1, <1>3 DEF IdOf
  <1>8. WorkInv'
    <2> SUFFICES ASSUME NEW v \in Worker, taskOf'[v] # 0, Sole(IdOf(v))
                 PROVE  /\ subs'[taskOf'[v]].state = StateAt(step'[v])
                        /\ \A u \in Worker : taskOf'[u] = taskOf'[v] => u = v
                        /\ step'[v] = "await" => pending'[IdOf(v)] = v
      BY <1>2, <1>7 DEF WorkInv
    <2>0. taskOf'[v] = taskOf[v] /\ taskOf[v] \in DOMAIN subs
      BY <1>1, <1>3
    <2>1. \A u \in Worker : taskOf[u] = taskOf[v] => u = v
      BY <1>0, <2>0 DEF WorkInv
    <2>2. \A u \in Worker : taskOf'[u] = taskOf'[v] => u = v
      BY <1>1, <2>0, <2>1
    <2>3. CASE v = w
      BY <2>0, <2>2, <2>3 DEF WorkerStep
    <2>4. CASE v # w
      <3>1. taskOf[v] # taskOf[w]
        BY <2>1, <2>4
      <3>2. IdOf(v) # IdOf(w) /\ IdOf(v) \in Id
        BY <1>3, <2>0, <3>1, Statuses DEF Sole, IdOf
      <3>3. pending'[IdOf(v)] = pending[IdOf(v)]
        BY <3>2 DEF WorkerStep
      <3>4. /\ subs[taskOf[v]].state = StateAt(step[v])
            /\ step[v] = "await" => pending[IdOf(v)] = v
        BY <1>0, <2>0 DEF WorkInv
      <3> QED
        BY <1>1, <2>0, <2>2, <2>4, <3>1, <3>3, <3>4
    <2> QED
      BY <2>3, <2>4
  <1>9. TrackInv'
    <2> SUFFICES ASSUME NEW n \in DOMAIN subs, Sole(subs[n].id), subs'[n].state \notin Terminal
                 PROVE  n \in Tracked
      BY <1>1, <1>2 DEF TrackInv, Tracked
    <2>1. subs[n].state \notin Terminal
      BY <1>1, <1>4 DEF IdOf, Terminal
    <2> QED
      BY <1>0, <2>1 DEF TrackInv
  <1>10. PendingInv'
    <2> SUFFICES ASSUME NEW id \in Id, pending'[id] # NoWorker
                 PROVE  step'[pending'[id]] = "await" /\ subs'[taskOf'[pending'[id]]].id = id
      BY DEF PendingInv, IdOf
    <2>1. CASE pending'[id] = w
      <3>1. id = IdOf(w)
        BY <1>0, <2>1, ExecutorAssumption DEF WorkerStep, PendingInv
      <3>2. taskOf'[w] # 0 /\ step'[w] = "await"
        BY <2>1, <3>1, ExecutorAssumption DEF WorkerStep
      <3> QED
        BY <1>7, <2>1, <3>1, <3>2 DEF IdOf
    <2>2. CASE pending'[id] # w
      <3> DEFINE v == pending[id]
      <3>1. pending'[id] = v
        BY <2>2 DEF WorkerStep
      <3>2. v # NoWorker /\ v \in Worker
        BY <3>1 DEF TypeOK
      <3>3. step[v] = "await" /\ IdOf(v) = id
        BY <1>0, <3>2 DEF PendingInv
      <3>4. taskOf[v] # 0
        BY <3>2, <3>3 DEF LinkInv
      <3>5. step'[v] = "await" /\ taskOf'[v] = taskOf[v]
        BY <1>1, <2>2, <3>1, <3>2, <3>3
      <3>6. subs'[taskOf'[v]].id = id
        BY <1>1, <1>3, <3>2, <3>3, <3>4, <3>5 DEF IdOf
      <3> QED
        BY <3>1, <3>5, <3>6
    <2> QED
      BY <2>1, <2>2
  <1> QED
    BY <1>5, <1>6, <1>8, <1>9, <1>10 DEF TaskInv

\* The worker's actions are such steps.
LEMMA EndIsWorkerStep ==
  ASSUME TypeOK, LinkInv, TaskInv, NEW w \in Worker, NEW s \in TaskState, End(w, s),
         \/ step[w] # "await" /\ pending' = pending
         \/ pending' = [pending EXCEPT ![IdOf(w)] = NoWorker]
  PROVE  taskOf[w] # 0 /\ WorkerStep(w)
  <1>1. taskOf[w] # 0 /\ IdOf(w) \in Id
    BY TaskOfHolder DEF End, Release
  <1>2. Ended(w, s)
    BY EndOfTask
  <1>3. taskOf'[w] = 0
    BY DEF End, TypeOK
  <1>4. \A v \in Worker : v # w => taskOf'[v] = taskOf[v] /\ step'[v] = step[v]
    BY DEF End, TypeOK
  <1>5. pending'[IdOf(w)] # NoWorker =>
           pending'[IdOf(w)] # w /\ pending'[IdOf(w)] = pending[IdOf(w)]
    <2>1. pending[IdOf(w)] # NoWorker => step[pending[IdOf(w)]] = "await"
      BY <1>1 DEF TaskInv, PendingInv
    <2> QED
      BY <1>1, <2>1 DEF TypeOK
  <1>6. \A id \in Id : id # IdOf(w) => pending'[id] = pending[id]
    BY DEF TypeOK
  <1>7. UNCHANGED <<tasks, queue, reused>>
    BY DEF End
  <1> QED
    BY <1>1, <1>2, <1>3, <1>4, <1>5, <1>6, <1>7 DEF WorkerStep, Ended

\* The steps of the task loop that do not end the task are such steps.
LEMMA MoveIsWorkerStep ==
  ASSUME TypeOK, LinkInv, TaskInv, NEW w \in Worker,
         \/ StreamRetries(w) \/ BackoffEnds(w) \/ StreamInterrupts(w)
         \/ NotifyEnds(w) \/ Resume(w)
  PROVE  taskOf[w] # 0 /\ WorkerStep(w)
  <1>1. taskOf[w] # 0 /\ taskOf[w] \in DOMAIN subs /\ IdOf(w) \in Id /\ phase[w] = "holding"
    BY TaskOfHolder DEF StreamRetries, BackoffEnds, StreamInterrupts, NotifyEnds, Resume, At
  <1>2. /\ taskOf' = taskOf
        /\ UNCHANGED <<tasks, queue, reused>>
        /\ \A v \in Worker : v # w => step'[v] = step[v]
    BY DEF StreamRetries, BackoffEnds, StreamInterrupts, NotifyEnds, Resume, TypeOK
  <1>3. Sole(IdOf(w)) => subs[taskOf[w]].state = StateAt(step[w])
    BY <1>1 DEF TaskInv, WorkInv
  <1>4. pending[IdOf(w)] # NoWorker => step[pending[IdOf(w)]] = "await"
    BY <1>1 DEF TaskInv, PendingInv
  <1>5. CASE StreamRetries(w) \/ BackoffEnds(w)
    <2>1. /\ step[w] \in {"stream", "backoff"} /\ step'[w] \in {"stream", "backoff"}
          /\ subs' = subs /\ pending' = pending
      BY <1>5 DEF StreamRetries, BackoffEnds, At, TypeOK
    <2>2. SubsKept
      BY <2>1, Statuses DEF SubsKept
    <2>3. pending[IdOf(w)] # NoWorker => pending[IdOf(w)] # w
      BY <1>4, <2>1
    <2> QED
      BY <1>1, <1>2, <1>3, <2>1, <2>2, <2>3 DEF WorkerStep, StateAt
  <1>6. CASE StreamInterrupts(w)
    <2>1. /\ subs' = [subs EXCEPT ![taskOf[w]].state = "interrupted"]
          /\ step[w] = "stream"
          /\ \/ step'[w] = "notify" /\ pending' = pending
             \/ step'[w] = "await" /\ pending' = [pending EXCEPT ![IdOf(w)] = w]
      BY <1>6 DEF StreamInterrupts, At, TypeOK
    <2>2. StateSet(taskOf[w], "interrupted")
      BY <1>1, <2>1, SetState DEF TaskState
    <2>3. pending[IdOf(w)] # NoWorker => pending[IdOf(w)] # w
      BY <1>4, <2>1
    <2>4. step'[w] = "await" => pending'[IdOf(w)] = w
      BY <1>1, <2>1 DEF TypeOK
    <2>5. \A id \in Id : id # IdOf(w) => pending'[id] = pending[id]
      BY <2>1 DEF TypeOK
    <2> QED
      BY <1>1, <1>2, <2>1, <2>2, <2>3, <2>4, <2>5 DEF WorkerStep, StateSet, StateAt
  <1>7. CASE NotifyEnds(w)
    <2>1. /\ subs' = subs /\ step[w] = "notify" /\ step'[w] = "await"
          /\ pending' = [pending EXCEPT ![IdOf(w)] = w]
      BY <1>7 DEF NotifyEnds, At, TypeOK
    <2>2. SubsKept
      BY <2>1, Statuses DEF SubsKept
    <2>3. pending'[IdOf(w)] = w
      BY <1>1, <2>1 DEF TypeOK
    <2>4. \A id \in Id : id # IdOf(w) => pending'[id] = pending[id]
      BY <2>1 DEF TypeOK
    <2> QED
      BY <1>1, <1>2, <1>3, <2>1, <2>2, <2>3, <2>4 DEF WorkerStep, StateAt
  <1>8. CASE Resume(w)
    <2>1. /\ subs' = [subs EXCEPT ![taskOf[w]].state = "running"]
          /\ step'[w] = "stream"
          /\ pending' = [pending EXCEPT ![IdOf(w)] = NoWorker]
      BY <1>8 DEF Resume, At, TypeOK
    <2>2. StateSet(taskOf[w], "running")
      BY <1>1, <2>1, SetState DEF TaskState
    <2>3. pending'[IdOf(w)] = NoWorker
      BY <1>1, <2>1 DEF TypeOK
    <2>4. \A id \in Id : id # IdOf(w) => pending'[id] = pending[id]
      BY <2>1 DEF TypeOK
    <2> QED
      BY <1>1, <1>2, <2>1, <2>2, <2>3, <2>4 DEF WorkerStep, StateSet, StateAt
  <1> QED
    BY <1>5, <1>6, <1>7, <1>8

\* Steps that change no state and no place of a task.
LEMMA QuietKeeps ==
  ASSUME TypeOK, LinkInv, TaskInv, SubsKept,
         \A n \in DOMAIN subs : subs'[n].state = subs[n].state,
         UNCHANGED <<tasks, queue, reused, taskOf, step, pending>>
  PROVE  TaskInv'
  <1>1. \A id : Sole(id)' <=> Sole(id)
    BY SoleKept
  <1>2. /\ DOMAIN subs' = DOMAIN subs
        /\ \A n \in DOMAIN subs : subs'[n].id = subs[n].id /\ subs'[n].state = subs[n].state
    BY DEF SubsKept
  <1>3. \A w \in Worker : taskOf[w] # 0 => taskOf[w] \in DOMAIN subs
    <2>1. \A w \in Worker : taskOf[w] \in 0..Len(subs)
      BY DEF TypeOK
    <2> QED
      BY <2>1, Statuses
  <1>4. \A w \in Worker : taskOf[w] # 0 => subs'[taskOf'[w]].id = subs[taskOf[w]].id
    BY <1>2, <1>3
  <1>5. ReuseInv'
    BY <1>1, <1>2 DEF TaskInv, ReuseInv, Unique
  <1>6. QueueInv'
    BY <1>1, <1>2 DEF TaskInv, QueueInv
  <1>7. WorkInv'
    BY <1>1, <1>2, <1>3, <1>4 DEF TaskInv, WorkInv, IdOf
  <1>8. TrackInv'
    BY <1>1, <1>2 DEF TaskInv, TrackInv, Tracked
  <1>9. PendingInv'
    <2> SUFFICES ASSUME NEW id \in Id, pending[id] # NoWorker
                 PROVE  step[pending[id]] = "await" /\ subs'[taskOf'[pending[id]]].id = id
      BY DEF PendingInv, IdOf
    <2>1. step[pending[id]] = "await" /\ subs[taskOf[pending[id]]].id = id
      BY DEF TaskInv, PendingInv, IdOf
    <2>2. pending[id] \in Worker
      BY DEF TypeOK
    <2>3. taskOf[pending[id]] # 0
      BY <2>1, <2>2 DEF LinkInv
    <2> QED
      BY <1>4, <2>1, <2>2, <2>3
  <1> QED
    BY <1>5, <1>6, <1>7, <1>8, <1>9 DEF TaskInv

\* The tail of the queue holds the other items.
LEMMA TailItems ==
  ASSUME TypeOK, queue # <<>>, queue' = Tail(queue)
  PROVE  /\ 1 \in DOMAIN queue /\ queue[1] = Head(queue)
         /\ \A i \in DOMAIN queue' : i + 1 \in DOMAIN queue /\ queue'[i] = queue[i + 1]
         /\ DOMAIN queue' \subseteq Nat \ {0}
  <1>1. queue \in Seq(Item) /\ Len(queue) \in Nat /\ DOMAIN queue = 1..Len(queue)
    BY QueueTypes, LenProperties
  <1>2. Len(queue) # 0 /\ queue[1] = Head(queue)
    BY <1>1, EmptySeq
  <1>3. /\ queue' \in Seq(Item) /\ Len(queue') = Len(queue) - 1
        /\ \A i \in 1..Len(queue') : queue'[i] = queue[i + 1]
    BY <1>1, HeadTailProperties
  <1>4. DOMAIN queue' = 1..(Len(queue) - 1)
    BY <1>3, LenProperties
  <1> QED
    BY <1>1, <1>2, <1>3, <1>4

\* What is left of the queue is as it was.
LEMMA DroppedKeeps ==
  ASSUME TypeOK, LinkInv, TaskInv, NEW w \in Worker, DequeueDropped(w)
  PROVE  TaskInv'
  <1>1. /\ queue' = Tail(queue) /\ queue # <<>>
        /\ UNCHANGED <<subs, tasks, taskOf, step, pending, reused>>
    BY DEF DequeueDropped
  <1>2. \A i \in DOMAIN queue' : i + 1 \in DOMAIN queue /\ queue'[i] = queue[i + 1] /\ i \in Nat
    BY <1>1, TailItems
  <1>3. \A id : Sole(id)' <=> Sole(id)
    BY <1>1 DEF Sole
  <1>4. QueueInv'
    <2> SUFFICES ASSUME NEW n \in DOMAIN subs, NEW i \in DOMAIN queue',
                        Sole(subs[n].id), queue'[i].id = subs[n].id
                 PROVE  /\ subs[n].state = "queued"
                        /\ \A j \in DOMAIN queue' : queue'[j].id = subs[n].id => i = j
      BY <1>1, <1>3 DEF QueueInv
    <2>1. /\ subs[n].state = "queued"
          /\ \A j \in DOMAIN queue : queue[j].id = subs[n].id => i + 1 = j
      BY <1>2 DEF TaskInv, QueueInv
    <2>2. ASSUME NEW j \in DOMAIN queue', queue'[j].id = subs[n].id
          PROVE  i = j
      <3>1. i + 1 = j + 1
        BY <1>2, <2>1, <2>2
      <3> QED
        BY <1>2, <3>1
    <2> QED
      BY <2>1, <2>2
  <1>5. ReuseInv' /\ TrackInv'
    BY <1>1, <1>3 DEF TaskInv, ReuseInv, TrackInv, Tracked, Unique
  <1>6. WorkInv' /\ PendingInv'
    BY <1>1, <1>3 DEF TaskInv, WorkInv, PendingInv, IdOf
  <1> QED
    BY <1>4, <1>5, <1>6 DEF TaskInv

\* The state of a task in the queue.
LEMMA QueuedTask ==
  ASSUME TypeOK, LinkInv, TaskInv, queue # <<>>, NEW n \in DOMAIN subs,
         subs[n].id = Head(queue).id, Sole(subs[n].id)
  PROVE  /\ subs[n].state = "queued"
         /\ \A v \in Worker : taskOf[v] # n
         /\ \A j \in DOMAIN queue : queue[j].id = subs[n].id => j = 1
  <1>1. 1 \in DOMAIN queue /\ queue[1] = Head(queue)
    <2>1. queue \in Seq(Item) /\ Len(queue) \in Nat /\ DOMAIN queue = 1..Len(queue)
      BY QueueTypes, LenProperties
    <2> QED
      BY <2>1, EmptySeq
  <1>2. subs[n].state = "queued" /\ \A j \in DOMAIN queue : queue[j].id = subs[n].id => j = 1
    BY <1>1 DEF TaskInv, QueueInv
  <1>3. ASSUME NEW v \in Worker, taskOf[v] = n
        PROVE  FALSE
    <2>1. taskOf[v] # 0 /\ Sole(IdOf(v))
      BY <1>3, Statuses DEF IdOf
    <2>2. subs[n].state \in {"running", "interrupted"}
      BY <1>3, <2>1 DEF TaskInv, WorkInv, StateAt
    <2> QED
      BY <1>2, <2>2
  <1> QED
    BY <1>2, <1>3

\* The worker that takes an item is the only one that has its task.
LEMMA DequeueKeeps ==
  ASSUME TypeOK, LinkInv, TaskInv, NEW w \in Worker, Dequeue(w)
  PROVE  TaskInv'
  <1> DEFINE n == StatusOf(Head(queue).id)
  <1>1. /\ n # 0 /\ phase[w] = "idle" /\ queue # <<>> /\ queue' = Tail(queue)
        /\ subs' = [subs EXCEPT ![n].state = "running"]
        /\ taskOf' = [taskOf EXCEPT ![w] = n]
        /\ UNCHANGED <<tasks, step, pending, reused>>
    BY DEF Dequeue
  <1>2. n \in Tracked /\ n \in DOMAIN subs /\ subs[n].id = Head(queue).id
    BY <1>1, StatusFound, Statuses
  <1> HIDE DEF n
  <1>3. StateSet(n, "running")
    BY <1>1, <1>2, SetState DEF TaskState
  <1>4. /\ DOMAIN subs' = DOMAIN subs
        /\ \A m \in DOMAIN subs : subs'[m].id = subs[m].id
        /\ \A m \in DOMAIN subs : subs'[m].state = IF m = n THEN "running" ELSE subs[m].state
    BY <1>3 DEF StateSet, SubsKept
  <1>5. \A id : Sole(id)' <=> Sole(id)
    BY <1>3, SoleKept DEF StateSet
  <1>6. Sole(subs[n].id) =>
           /\ \A v \in Worker : taskOf[v] # n
           /\ \A j \in DOMAIN queue : queue[j].id = subs[n].id => j = 1
    BY <1>1, <1>2, QueuedTask
  <1>7. /\ \A i \in DOMAIN queue' : i + 1 \in DOMAIN queue /\ queue'[i] = queue[i + 1]
        /\ DOMAIN queue' \subseteq Nat \ {0}
    BY <1>1, TailItems
  <1>8. step[w] = "stream" /\ taskOf[w] = 0
    BY <1>1 DEF LinkInv
  <1>9. \A v \in Worker : taskOf'[v] = IF v = w THEN n ELSE taskOf[v]
    BY <1>1 DEF TypeOK
  <1>10. \A v \in Worker : taskOf[v] # 0 => taskOf[v] \in DOMAIN subs
    <2>1. \A v \in Worker : taskOf[v] \in 0..Len(subs)
      BY DEF TypeOK
    <2> QED
      BY <2>1, Statuses
  <1>11. ReuseInv'
    BY <1>1, <1>4, <1>5 DEF TaskInv, ReuseInv, Unique
  <1>12. QueueInv'
    <2> SUFFICES ASSUME NEW m \in DOMAIN subs, NEW i \in DOMAIN queue',
                        Sole(subs[m].id), queue'[i].id = subs[m].id
                 PROVE  /\ subs'[m].state = "queued"
                        /\ \A j \in DOMAIN queue' : queue'[j].id = subs[m].id => i = j
      BY <1>4, <1>5 DEF QueueInv
    <2>1. /\ subs[m].state = "queued"
          /\ \A j \in DOMAIN queue : queue[j].id = subs[m].id => i + 1 = j
      BY <1>7 DEF TaskInv, QueueInv
    <2>2. i + 1 # 1
      BY <1>7
    <2>3. m # n
      BY <1>6, <1>7, <2>2
    <2>4. ASSUME NEW j \in DOMAIN queue', queue'[j].id = subs[m].id
          PROVE  i = j
      <3>1. i + 1 = j + 1
        BY <1>7, <2>1, <2>4
      <3> QED
        BY <1>7, <3>1
    <2> QED
      BY <1>4, <2>1, <2>3, <2>4
  <1>13. WorkInv'
    <2> SUFFICES ASSUME NEW v \in Worker, taskOf'[v] # 0, Sole(subs'[taskOf'[v]].id)
                 PROVE  /\ subs'[taskOf'[v]].state = StateAt(step[v])
                        /\ \A u \in Worker : taskOf'[u] = taskOf'[v] => u = v
                        /\ step[v] = "await" => pending[subs'[taskOf'[v]].id] = v
      BY <1>1, <1>5 DEF WorkInv, IdOf
    <2>1. CASE v = w
      <3>1. Sole(subs[n].id) /\ taskOf'[v] = n
        BY <1>2, <1>4, <1>9, <2>1
      <3>2. \A u \in Worker : taskOf'[u] = n => u = v
        BY <1>6, <1>9, <2>1, <3>1
      <3> QED
        BY <1>2, <1>4, <1>8, <2>1, <3>1, <3>2 DEF StateAt
    <2>2. CASE v # w
      <3>1. taskOf'[v] = taskOf[v] /\ taskOf[v] \in DOMAIN subs /\ Sole(IdOf(v))
        BY <1>4, <1>9, <1>10, <2>2 DEF IdOf
      <3>2. taskOf[v] # n
        BY <1>6, <3>1 DEF IdOf
      <3>3. /\ subs[taskOf[v]].state = StateAt(step[v])
            /\ \A u \in Worker : taskOf[u] = taskOf[v] => u = v
            /\ step[v] = "await" => pending[IdOf(v)] = v
        BY <2>2, <3>1 DEF TaskInv, WorkInv
      <3> QED
        BY <1>4, <1>9, <3>1, <3>2, <3>3 DEF IdOf
    <2> QED
      BY <2>1, <2>2
  <1>14. TrackInv'
    BY <1>1, <1>2, <1>4, <1>5 DEF TaskInv, TrackInv, Tracked
  <1>15. PendingInv'
    <2> SUFFICES ASSUME NEW id \in Id, pending[id] # NoWorker
                 PROVE  step[pending[id]] = "await" /\ subs'[taskOf'[pending[id]]].id = id
      BY <1>1 DEF PendingInv, IdOf
    <2>1. step[pending[id]] = "await" /\ subs[taskOf[pending[id]]].id = id
      BY DEF TaskInv, PendingInv, IdOf
    <2>2. pending[id] \in Worker /\ pending[id] # w
      BY <1>8, <2>1 DEF TypeOK
    <2>3. taskOf[pending[id]] # 0
      BY <2>1, <2>2 DEF LinkInv
    <2> QED
      BY <1>4, <1>9, <1>10, <2>1, <2>2, <2>3
  <1> QED
    BY <1>11, <1>12, <1>13, <1>14, <1>15 DEF TaskInv

\* A new task does not disturb those with ids of their own.
LEMMA SubmitKeeps ==
  ASSUME TypeOK, LinkInv, TaskInv, NEW id \in Id, NEW key \in Key,
         NEW waiter \in {"none", "waiting"}, Submit(id, key, waiter),
         UNCHANGED <<taskOf, step, pending>>
  PROVE  TaskInv'
  <1> DEFINE new == Len(subs) + 1
  <1>0. SubmitEffect(id, key, waiter)
    BY SubmitDoes
  <1>1. /\ DOMAIN subs' = DOMAIN subs \cup {new} /\ new \notin DOMAIN subs
        /\ \A n \in DOMAIN subs : subs'[n] = subs[n]
        /\ subs'[new].id = id
    BY <1>0, Statuses DEF SubmitEffect, SubmitOutcome, Created
  <1> HIDE DEF new
  <1>3. Sole(id)' => \A n \in DOMAIN subs : subs[n].id # id
    BY <1>1 DEF Sole
  <1>4. ASSUME NEW x, Sole(x), x # id
        PROVE  Sole(x)'
    BY <1>1, <1>4 DEF Sole
  <1>5. (\A n \in DOMAIN subs : subs[n].id # id) => Sole(id)'
    BY <1>1 DEF Sole
  <1>6. ReuseInv'
    <2> SUFFICES ASSUME NEW n \in DOMAIN subs', NEW x, x = subs'[n].id, x \notin reused'
                 PROVE  Sole(x)'
      BY DEF ReuseInv, Unique
    <2>1. reused' = IF Fresh(id) THEN reused ELSE reused \cup {id}
      BY <1>0 DEF SubmitEffect
    <2>2. CASE n = new
      BY <1>1, <1>5, <2>1, <2>2 DEF Fresh
    <2>3. CASE n # new
      <3>1. n \in DOMAIN subs /\ subs'[n] = subs[n] /\ x \notin reused
        BY <1>1, <2>1, <2>3
      <3>2. Sole(x)
        BY <3>1 DEF TaskInv, ReuseInv, Unique
      <3>3. x # id
        BY <2>1, <3>1 DEF Fresh
      <3> QED
        BY <1>4, <3>1, <3>2, <3>3
    <2> QED
      BY <2>2, <2>3
  <1>7. \A v \in Worker : taskOf[v] # 0 => taskOf[v] \in DOMAIN subs
    <2>1. \A v \in Worker : taskOf[v] \in 0..Len(subs)
      BY DEF TypeOK
    <2> QED
      BY <2>1, Statuses
  <1>8. WorkInv'
    <2> SUFFICES ASSUME NEW v \in Worker, taskOf[v] # 0, NEW x, x = subs'[taskOf[v]].id, Sole(x)'
                 PROVE  /\ subs'[taskOf[v]].state = StateAt(step[v])
                        /\ \A u \in Worker : taskOf[u] = taskOf[v] => u = v
                        /\ step[v] = "await" => pending[x] = v
      BY DEF WorkInv, IdOf
    <2>1. taskOf[v] \in DOMAIN subs /\ subs'[taskOf[v]] = subs[taskOf[v]] /\ x = IdOf(v)
      BY <1>1, <1>7 DEF IdOf
    <2>2. Sole(IdOf(v))
      BY <1>1, <2>1 DEF Sole
    <2> QED
      BY <2>1, <2>2 DEF TaskInv, WorkInv
  <1>9. TrackInv'
    <2> SUFFICES ASSUME NEW n \in DOMAIN subs', NEW x, x = subs'[n].id, Sole(x)',
                        subs'[n].state \notin Terminal
                 PROVE  Has(tasks', n)
      BY DEF TrackInv, Tracked, Has
    <2>1. CASE n = new
      BY <1>0, <2>1 DEF SubmitEffect, new
    <2>2. CASE n # new
      <3>1. n \in DOMAIN subs /\ subs'[n] = subs[n]
        BY <1>1, <2>2
      <3>2. Sole(x) /\ x # id
        BY <1>1, <3>1 DEF Sole
      <3>3. n \in Tracked
        BY <3>1, <3>2 DEF TaskInv, TrackInv
      <3> QED
        BY <1>0, <3>1, <3>2, <3>3 DEF SubmitEffect
    <2> QED
      BY <2>1, <2>2
  <1>10. PendingInv'
    <2> SUFFICES ASSUME NEW x \in Id, pending[x] # NoWorker
                 PROVE  step[pending[x]] = "await" /\ subs'[taskOf[pending[x]]].id = x
      BY DEF PendingInv, IdOf
    <2>1. step[pending[x]] = "await" /\ subs[taskOf[pending[x]]].id = x
      BY DEF TaskInv, PendingInv, IdOf
    <2>2. pending[x] \in Worker
      BY DEF TypeOK
    <2>3. taskOf[pending[x]] # 0
      BY <2>1, <2>2 DEF LinkInv
    <2> QED
      BY <1>1, <1>7, <2>1, <2>2, <2>3
  <1>11. QueueInv'
    <2>0. /\ queue \in Seq(Item) /\ Len(queue) \in Nat /\ DOMAIN queue = 1..Len(queue)
          /\ \A i \in DOMAIN queue : \E n \in DOMAIN subs : subs[n].id = queue[i].id
      BY QueueTypes, LenProperties DEF LinkInv
    <2> SUFFICES ASSUME NEW n \in DOMAIN subs', NEW i \in DOMAIN queue', NEW x,
                        x = subs'[n].id, Sole(x)', queue'[i].id = x
                 PROVE  /\ subs'[n].state = "queued"
                        /\ \A j \in DOMAIN queue' : queue'[j].id = x => i = j
      BY DEF QueueInv
    <2>1. CASE queue' = queue
      <3>1. x # id
        BY <1>3, <2>0, <2>1
      <3>2. n \in DOMAIN subs /\ subs'[n] = subs[n]
        BY <1>1, <3>1
      <3>3. Sole(x)
        BY <1>1, <3>2 DEF Sole
      <3> QED
        BY <2>1, <3>2, <3>3 DEF TaskInv, QueueInv
    <2>2. CASE /\ queue' = Append(queue, [id |-> id, key |-> key])
               /\ Created(id, "queued", waiter)
      <3> DEFINE item == [id |-> id, key |-> key]
      <3>1. item \in Item /\ item.id = id
        BY DEF Item
      <3> HIDE DEF item
      <3>2. /\ queue' \in Seq(Item) /\ Len(queue') = Len(queue) + 1
            /\ \A j \in 1..Len(queue) : queue'[j] = queue[j]
            /\ queue'[Len(queue) + 1] = item
        BY <2>0, <2>2, <3>1, AppendProperties DEF item
      <3>3. DOMAIN queue' = DOMAIN queue \cup {Len(queue) + 1}
        BY <2>0, <3>2, LenProperties
      <3>4. CASE x = id
        <4>1. n = new
          BY <1>1, <1>3, <3>4
        <4>2. subs'[n].state = "queued"
          BY <2>2, <4>1 DEF Created, new
        <4>3. \A j \in DOMAIN queue' : queue'[j].id = x => j = Len(queue) + 1
          BY <1>3, <2>0, <3>2, <3>3, <3>4
        <4> QED
          BY <4>2, <4>3
      <3>5. CASE x # id
        <4>1. n \in DOMAIN subs /\ subs'[n] = subs[n]
          BY <1>1, <3>5
        <4>2. Sole(x)
          BY <1>1, <4>1 DEF Sole
        <4>3. \A j \in DOMAIN queue' : queue'[j].id = x => j \in DOMAIN queue /\ queue[j].id = x
          BY <2>0, <3>1, <3>2, <3>3, <3>5
        <4> QED
          BY <4>1, <4>2, <4>3 DEF TaskInv, QueueInv
      <3> QED
        BY <3>4, <3>5
    <2> QED
      BY <1>0, <2>1, <2>2 DEF SubmitEffect, SubmitOutcome
  <1> QED
    BY <1>6, <1>8, <1>9, <1>10, <1>11 DEF TaskInv

-----------------------------------------------------------------------------
\* Workers, phases and items.

\* After acquire, and after the wait in it, a worker is not idle.
LEMMA PhaseAfterPool ==
  ASSUME PoolTypeOK, LockInv, NEW w \in Worker, NEW k \in Key,
         Acquire(w, k) \/ Granted(w)
  PROVE  \E p \in Phase \ {"idle"} : phase' = [phase EXCEPT ![w] = p]
  <1>1. ASSUME NEW j \in Key, NEW reg \in [Key -> Lock \cup {NoLock}], Fetch(w, j, reg)
        PROVE  \E p \in Phase \ {"idle"} : phase' = [phase EXCEPT ![w] = p]
    <2>1. PICK p \in {"holding", "dead"} : phase' = [phase EXCEPT ![w] = p]
      BY <1>1, FetchEffect DEF FetchOutcome
    <2> QED
      BY <2>1 DEF Phase
  <1>2. CASE AcquireFree(w, k)
    <2>1. PICK l \in Lock : AcquireFree(w, k)!(l)
      BY <1>2 DEF AcquireFree
    <2>2. [locks EXCEPT ![k] = l] \in [Key -> Lock \cup {NoLock}]
      BY DEF PoolTypeOK
    <2> QED
      BY <1>1, <2>1, <2>2
  <1>3. CASE AcquireBusy(w, k)
    BY <1>3 DEF AcquireBusy, Phase
  <1>4. CASE Granted(w)
    <2>1. sess[w] \in Key /\ locks \in [Key -> Lock \cup {NoLock}]
      BY DEF PoolTypeOK
    <2> QED
      BY <1>1, <1>4, <2>1 DEF Granted
  <1> QED
    BY <1>2, <1>3, <1>4 DEF Acquire

\* Items whose tasks are there: while the objects stay, and the queue loses
\* items only.
LEMMA ItemsKept ==
  ASSUME LinkInv, DOMAIN subs' = DOMAIN subs,
         \A n \in DOMAIN subs : subs'[n].id = subs[n].id,
         \/ queue' = queue
         \/ TypeOK /\ queue # <<>> /\ queue' = Tail(queue)
  PROVE  \A i \in DOMAIN queue' : \E n \in DOMAIN subs' : subs'[n].id = queue'[i].id
  <1>1. \A i \in DOMAIN queue' : \E j \in DOMAIN queue : queue'[i] = queue[j]
    BY TailItems
  <1> QED
    BY <1>1 DEF LinkInv

\* A step that only moves a worker with a task keeps the links.
LEMMA MoveKeepsLinks ==
  ASSUME LinkInv, NEW w \in Worker, phase[w] = "holding", TypeOK,
         UNCHANGED <<phase, taskOf, queue>>, SubsKept,
         \A v \in Worker : v # w => step'[v] = step[v]
  PROVE  LinkInv'
  <1>1. \A i \in DOMAIN queue' : \E n \in DOMAIN subs' : subs'[n].id = queue'[i].id
    BY ItemsKept DEF SubsKept
  <1> QED
    BY <1>1 DEF LinkInv

\* Every step preserves the link between workers and tasks.
LEMMA LinksKept ==
  ASSUME TypeOK, LinkInv, TaskInv, PoolInv, [Next]_vars
  PROVE  LinkInv'
  <1>0. PoolTypeOK /\ LockInv
    BY DEF PoolInv
  <1>1. ASSUME NEW w \in Worker, DequeueDropped(w)
        PROVE  LinkInv'
    <2>1. /\ UNCHANGED <<subs, taskOf, step, phase>>
          /\ queue # <<>> /\ queue' = Tail(queue)
      BY <1>1 DEF DequeueDropped, poolVars
    <2> QED
      BY <2>1, ItemsKept DEF LinkInv
  <1>2. ASSUME NEW w \in Worker, Dequeue(w)
        PROVE  LinkInv'
    <2> DEFINE n == StatusOf(Head(queue).id)
    <2>1. /\ n # 0 /\ phase[w] = "idle" /\ queue # <<>> /\ queue' = Tail(queue)
          /\ subs' = [subs EXCEPT ![n].state = "running"]
          /\ taskOf' = [taskOf EXCEPT ![w] = n]
          /\ step' = step
          /\ Acquire(w, Head(queue).key)
      BY <1>2 DEF Dequeue
    <2>2. n \in DOMAIN subs
      BY <2>1, StatusFound, Statuses
    <2> HIDE DEF n
    <2>3. StateSet(n, "running")
      BY <2>1, <2>2, SetState DEF TaskState
    <2>4. \A i \in DOMAIN queue' : \E m \in DOMAIN subs' : subs'[m].id = queue'[i].id
      BY <2>1, <2>3, ItemsKept DEF StateSet, SubsKept
    <2>5. PICK p \in Phase \ {"idle"} : phase' = [phase EXCEPT ![w] = p]
      <3>1. Head(queue).key \in Key
        BY <2>1, QueueTypes DEF Item
      <3> QED
        BY <1>0, <2>1, <3>1, PhaseAfterPool
    <2>6. /\ \A v \in Worker : phase'[v] = IF v = w THEN p ELSE phase[v]
          /\ \A v \in Worker : taskOf'[v] = IF v = w THEN n ELSE taskOf[v]
      BY <1>0, <2>1, <2>5 DEF TypeOK, PoolTypeOK
    <2>7. step[w] = "stream"
      BY <2>1 DEF LinkInv
    <2> QED
      BY <2>1, <2>4, <2>5, <2>6, <2>7 DEF LinkInv
  <1>3. ASSUME NEW w \in Worker, SessionGranted(w)
        PROVE  LinkInv'
    <2>1. /\ Granted(w) /\ UNCHANGED <<subs, queue, taskOf, step>>
      BY <1>3 DEF SessionGranted, memory
    <2>2. PICK p \in Phase \ {"idle"} : phase' = [phase EXCEPT ![w] = p]
      <3>1. NoSession \in Key
        BY DEF Key
      <3> QED
        BY <1>0, <2>1, <3>1, PhaseAfterPool
    <2>3. phase[w] = "waiting"
      BY <2>1 DEF Granted
    <2>4. \A v \in Worker : phase'[v] = IF v = w THEN p ELSE phase[v]
      BY <1>0, <2>2 DEF PoolTypeOK
    <2>5. step[w] = "stream" /\ taskOf[w] # 0
      BY <2>3 DEF LinkInv
    <2> QED
      BY <2>1, <2>2, <2>3, <2>4, <2>5 DEF LinkInv
  <1>4. ASSUME NEW w \in Worker, NEW s \in TaskState, End(w, s)
        PROVE  LinkInv'
    <2>1. SubsKept
      BY <1>4, EndOfTask DEF Ended
    <2>2. \A i \in DOMAIN queue' : \E n \in DOMAIN subs' : subs'[n].id = queue'[i].id
      BY <1>4, <2>1, ItemsKept DEF SubsKept, End
    <2>3. \A v \in Worker : /\ phase'[v] = IF v = w THEN "idle" ELSE phase[v]
                            /\ taskOf'[v] = IF v = w THEN 0 ELSE taskOf[v]
                            /\ step'[v] = IF v = w THEN "stream" ELSE step[v]
      BY <1>0, <1>4 DEF End, Release, TypeOK, PoolTypeOK
    <2> QED
      BY <2>2, <2>3 DEF LinkInv
  <1>5. ASSUME NEW w \in Worker,
               StreamCompletes(w) \/ StreamFails(w) \/ StreamTimesOut(w)
                  \/ NotifyRaises(w) \/ AwaitTimesOut(w)
        PROVE  LinkInv'
    <2>1. PICK s \in Terminal : End(w, s)
      BY <1>5 DEF StreamCompletes, StreamFails, StreamTimesOut, NotifyRaises, AwaitTimesOut,
                  Terminal
    <2> QED
      BY <1>4, <2>1 DEF TaskState
  <1>6. ASSUME NEW w \in Worker,
               \/ StreamRetries(w) \/ BackoffEnds(w) \/ StreamInterrupts(w)
               \/ NotifyEnds(w) \/ Resume(w)
        PROVE  LinkInv'
    <2>1. /\ phase[w] = "holding"
          /\ UNCHANGED <<phase, taskOf, queue>>
          /\ \A v \in Worker : v # w => step'[v] = step[v]
      BY <1>6 DEF StreamRetries, BackoffEnds, StreamInterrupts, NotifyEnds, Resume, At,
                  TypeOK, poolVars
    <2>2. SubsKept
      BY <1>6, MoveIsWorkerStep DEF WorkerStep
    <2> QED
      BY <2>1, <2>2, MoveKeepsLinks
  <1>7. ASSUME UNCHANGED <<phase, subs, queue, taskOf, step>>
        PROVE  LinkInv'
    BY <1>7 DEF LinkInv
  <1>8. ASSUME NEW w \in Worker, HookUsesDecision(w)
        PROVE  LinkInv'
    BY <1>7, <1>8 DEF HookUsesDecision, poolVars, memory
  <1>9. ASSUME NEW id \in Id, Respond(id)
        PROVE  LinkInv'
    BY <1>7, <1>9 DEF Respond, poolVars
  <1>10. ASSUME NEW id \in Id, NEW key \in Key, NEW waiter \in {"none", "waiting"},
                Submit(id, key, waiter), UNCHANGED <<phase, taskOf, step>>
         PROVE  LinkInv'
    <2>1. SubmitEffect(id, key, waiter)
      BY <1>10, SubmitDoes
    <2> DEFINE new == Len(subs) + 1
    <2>2. /\ DOMAIN subs' = DOMAIN subs \cup {new}
          /\ \A n \in DOMAIN subs : subs'[n] = subs[n]
          /\ subs'[new].id = id
      BY <2>1, Statuses DEF SubmitEffect, SubmitOutcome, Created
    <2> HIDE DEF new
    <2>3. \A i \in DOMAIN queue' :
             \/ i \in DOMAIN queue /\ queue'[i] = queue[i]
             \/ queue'[i].id = id
      <3>1. queue \in Seq(Item) /\ Len(queue) \in Nat /\ DOMAIN queue = 1..Len(queue)
        BY QueueTypes, LenProperties
      <3>2. CASE queue' = queue
        BY <3>2
      <3>3. CASE queue' = Append(queue, [id |-> id, key |-> key])
        <4> DEFINE item == [id |-> id, key |-> key]
        <4>1. item \in Item /\ item.id = id
          BY DEF Item
        <4> HIDE DEF item
        <4>2. /\ queue' \in Seq(Item) /\ Len(queue') = Len(queue) + 1
              /\ \A j \in 1..Len(queue) : queue'[j] = queue[j]
              /\ queue'[Len(queue) + 1] = item
          BY <3>1, <3>3, <4>1, AppendProperties DEF item
        <4>3. DOMAIN queue' = 1..(Len(queue) + 1)
          BY <4>2, LenProperties
        <4> QED
          BY <3>1, <4>1, <4>2, <4>3
      <3> QED
        BY <2>1, <3>2, <3>3 DEF SubmitEffect, SubmitOutcome
    <2>4. \A i \in DOMAIN queue' : \E n \in DOMAIN subs' : subs'[n].id = queue'[i].id
      <3> SUFFICES ASSUME NEW i \in DOMAIN queue'
                   PROVE  \E n \in DOMAIN subs' : subs'[n].id = queue'[i].id
        OBVIOUS
      <3>1. CASE i \in DOMAIN queue /\ queue'[i] = queue[i]
        <4>1. PICK n \in DOMAIN subs : subs[n].id = queue[i].id
          BY <3>1 DEF LinkInv
        <4> QED
          BY <2>2, <3>1, <4>1
      <3>2. CASE queue'[i].id = id
        BY <2>2, <3>2
      <3> QED
        BY <2>3, <3>1, <3>2
    <2> QED
      BY <1>10, <2>4 DEF LinkInv
  <1>11. ASSUME NEW c \in Client, NEW key \in Key, SubmitHttp(c, key) \/ SubmitChannel(c, key)
         PROVE  LinkInv'
    <2>1. <<c, 0>> \in Id
      BY ExecutorAssumption DEF Id
    <2>2. /\ \E waiter \in {"none", "waiting"} : Submit(<<c, 0>>, key, waiter)
          /\ UNCHANGED <<phase, taskOf, step>>
      BY <1>11 DEF SubmitHttp, SubmitChannel, poolVars
    <2> QED
      BY <1>10, <2>1, <2>2
  <1>12. ASSUME NEW id \in Id, DecideOrphaned(id)
         PROVE  LinkInv'
    <2>1. Replay(id) \in Id
      BY <1>12, ExecutorAssumption DEF DecideOrphaned, Id, Replay
    <2>2. store[id].key \in Key
      BY <1>12 DEF DecideOrphaned, TypeOK, Record
    <2>3. /\ Submit(Replay(id), store[id].key, "none")
          /\ UNCHANGED <<phase, taskOf, step>>
      BY <1>12 DEF DecideOrphaned, poolVars
    <2> QED
      BY <1>10, <2>1, <2>2, <2>3
  <1>13. ASSUME NEW n \in DOMAIN subs, WaiterReturns(n)
         PROVE  LinkInv'
    <2>1. PICK c \in Waiter : subs' = [subs EXCEPT ![n].waiter = c]
      BY <1>13 DEF WaiterReturns, Waiter
    <2>2. SubsKept
      BY <2>1, SetWaiter
    <2>3. UNCHANGED <<phase, taskOf, step, queue>>
      BY <1>13 DEF WaiterReturns, poolVars
    <2>4. \A i \in DOMAIN queue' : \E m \in DOMAIN subs' : subs'[m].id = queue'[i].id
      BY <2>2, <2>3, ItemsKept DEF SubsKept
    <2> QED
      BY <2>3, <2>4 DEF LinkInv
  <1>14. ASSUME Restart
         PROVE  LinkInv'
    <2>1. /\ queue' = <<>>
          /\ phase' = [w \in Worker |-> "idle"]
          /\ taskOf' = [w \in Worker |-> 0]
          /\ step' = [w \in Worker |-> "stream"]
      BY <1>14 DEF Restart
    <2>2. DOMAIN queue' = {}
      BY <2>1
    <2> QED
      BY <2>1, <2>2 DEF LinkInv
  <1>15. CASE UNCHANGED vars
    BY <1>7, <1>15 DEF vars, poolVars, memory
  <1> QED
    BY <1>1, <1>2, <1>3, <1>5, <1>6, <1>8, <1>9, <1>11, <1>12, <1>13, <1>14, <1>15
       DEF Next, Work, Outside

\* How the tasks are submitted: the ids, and who waits.
LEMMA Submissions ==
  ASSUME TypeOK,
         \/ \E c \in Client, key \in Key : SubmitHttp(c, key) \/ SubmitChannel(c, key)
         \/ \E id \in Id : DecideOrphaned(id)
  PROVE  \E id \in Id, key \in Key, waiter \in {"none", "waiting"} :
            /\ Submit(id, key, waiter)
            /\ waiter = "waiting" => id[2] = 0 /\ Fresh(id)
            /\ \/ id[2] # 0 \/ Fresh(id)
               \/ \A n \in DOMAIN subs : subs[n].id = id => subs[n].waiter = "none"
            /\ events' = IF waiter = "none" THEN events
                         ELSE [events EXCEPT ![id] = Len(subs) + 1]
            /\ UNCHANGED <<taskOf, step, pending, crashes>>
            /\ \/ store' = store
               \/ \E x \in Id : /\ store[x] # NoRecord
                                /\ store' = [store EXCEPT ![x].status = "decided"]
  <1>0. \A c \in Client : <<c, 0>> \in Id /\ <<c, 0>>[2] = 0
    BY ExecutorAssumption DEF Id
  <1>1. ASSUME NEW c \in Client, NEW key \in Key, SubmitHttp(c, key)
        PROVE  /\ Submit(<<c, 0>>, key, "none")
               /\ \/ Fresh(<<c, 0>>)
                  \/ \A n \in DOMAIN subs : subs[n].id = <<c, 0>> => subs[n].waiter = "none"
               /\ UNCHANGED <<events, taskOf, step, pending, crashes, store>>
    BY <1>1 DEF SubmitHttp
  <1>2. ASSUME NEW c \in Client, NEW key \in Key, SubmitChannel(c, key)
        PROVE  /\ Submit(<<c, 0>>, key, "waiting") /\ Fresh(<<c, 0>>)
               /\ events' = [events EXCEPT ![<<c, 0>>] = Len(subs) + 1]
               /\ UNCHANGED <<taskOf, step, pending, crashes, store>>
    BY <1>2 DEF SubmitChannel
  <1>3. ASSUME NEW id \in Id, DecideOrphaned(id)
        PROVE  /\ Replay(id) \in Id /\ Replay(id)[2] # 0
               /\ store[id] # NoRecord /\ store[id].key \in Key
               /\ Submit(Replay(id), store[id].key, "none")
               /\ store' = [store EXCEPT ![id].status = "decided"]
               /\ UNCHANGED <<events, taskOf, step, pending, crashes>>
    <2>1. Replay(id) \in Id /\ Replay(id)[2] # 0
      BY <1>3, ExecutorAssumption DEF DecideOrphaned, Id, Replay
    <2>2. store[id] \in Record
      BY <1>3 DEF DecideOrphaned, TypeOK
    <2> QED
      BY <1>3, <2>1, <2>2 DEF DecideOrphaned, Record
  <1> QED
    BY <1>0, <1>1, <1>2, <1>3

\* Everything that is known of the tasks is kept by every step.
LEMMA TasksKept ==
  ASSUME TypeOK, LinkInv, TaskInv, [Next]_vars
  PROVE  TaskInv'
  <1>1. ASSUME NEW w \in Worker, NEW s \in Terminal, End(w, s),
               \/ step[w] # "await" /\ pending' = pending
               \/ pending' = [pending EXCEPT ![IdOf(w)] = NoWorker]
        PROVE  TaskInv'
    BY <1>1, EndIsWorkerStep, WorkerStepKeeps DEF TaskState
  <1>2. ASSUME NEW w \in Worker,
               StreamCompletes(w) \/ StreamFails(w) \/ StreamTimesOut(w) \/ NotifyRaises(w)
        PROVE  TaskInv'
    <2>1. PICK s \in Terminal : End(w, s)
      BY <1>2 DEF StreamCompletes, StreamFails, StreamTimesOut, NotifyRaises, Terminal
    <2>2. step[w] # "await" /\ pending' = pending
      BY <1>2 DEF StreamCompletes, StreamFails, StreamTimesOut, NotifyRaises, At
    <2> QED
      BY <1>1, <2>1, <2>2
  <1>3. ASSUME NEW w \in Worker, AwaitTimesOut(w)
        PROVE  TaskInv'
    BY <1>1, <1>3 DEF AwaitTimesOut, Terminal
  <1>4. ASSUME NEW w \in Worker,
               \/ StreamRetries(w) \/ BackoffEnds(w) \/ StreamInterrupts(w)
               \/ NotifyEnds(w) \/ Resume(w)
        PROVE  TaskInv'
    BY <1>4, MoveIsWorkerStep, WorkerStepKeeps
  <1>5. ASSUME NEW w \in Worker, DequeueDropped(w) \/ Dequeue(w)
        PROVE  TaskInv'
    BY <1>5, DroppedKeeps, DequeueKeeps
  <1>6. ASSUME UNCHANGED <<subs, tasks, queue, reused, taskOf, step, pending>>
        PROVE  TaskInv'
    <2>1. SubsKept
      BY <1>6, Statuses DEF SubsKept
    <2> QED
      BY <1>6, <2>1, QuietKeeps
  <1>7. ASSUME NEW w \in Worker, SessionGranted(w) \/ HookUsesDecision(w)
        PROVE  TaskInv'
    BY <1>6, <1>7 DEF SessionGranted, HookUsesDecision, memory
  <1>8. ASSUME NEW id \in Id, Respond(id)
        PROVE  TaskInv'
    BY <1>6, <1>8 DEF Respond
  <1>9. CASE \/ \E c \in Client, key \in Key : SubmitHttp(c, key) \/ SubmitChannel(c, key)
             \/ \E id \in Id : DecideOrphaned(id)
    <2>1. \E id \in Id, key \in Key, waiter \in {"none", "waiting"} :
             Submit(id, key, waiter) /\ UNCHANGED <<taskOf, step, pending>>
      BY <1>9, Submissions
    <2> QED
      BY <2>1, SubmitKeeps
  <1>10. ASSUME NEW n \in DOMAIN subs, WaiterReturns(n)
         PROVE  TaskInv'
    <2>1. PICK c \in Waiter : subs' = [subs EXCEPT ![n].waiter = c]
      BY <1>10 DEF WaiterReturns, Waiter
    <2>2. SubsKept /\ \A m \in DOMAIN subs : subs'[m].state = subs[m].state
      BY <2>1, SetWaiter
    <2> QED
      BY <1>10, <2>2, QuietKeeps DEF WaiterReturns
  <1>11. ASSUME Restart
         PROVE  TaskInv'
    <2>1. /\ subs' = <<>>
          /\ taskOf' = [w \in Worker |-> 0]
          /\ pending' = [id \in Id |-> NoWorker]
      BY <1>11 DEF Restart
    <2>2. DOMAIN subs' = {}
      BY <2>1
    <2>3. ReuseInv' /\ QueueInv' /\ TrackInv'
      BY <2>2 DEF ReuseInv, QueueInv, TrackInv
    <2>4. WorkInv' /\ PendingInv'
      BY <2>1 DEF WorkInv, PendingInv
    <2> QED
      BY <2>3, <2>4 DEF TaskInv
  <1>12. CASE UNCHANGED vars
    BY <1>6, <1>12 DEF vars, memory
  <1> QED
    BY <1>2, <1>3, <1>4, <1>5, <1>7, <1>8, <1>9, <1>10, <1>11, <1>12 DEF Next, Work, Outside

-----------------------------------------------------------------------------
\* The callers of submit_and_wait.

\* The task of a worker is not over, if its id is its own.
LEMMA WorkedOn ==
  ASSUME TypeOK, LinkInv, TaskInv, NEW w \in Worker, phase[w] # "idle", Sole(IdOf(w))
  PROVE  subs[taskOf[w]].state = StateAt(step[w]) /\ subs[taskOf[w]].state \notin Terminal
  BY TaskOfHolder DEF TaskInv, WorkInv, StateAt, Terminal

\* A task starts, asks or goes on: no caller is concerned.
LEMMA ActiveKeepsCallers ==
  ASSUME TypeOK, CallersInv, NEW n \in DOMAIN subs, NEW s \in TaskState \ Terminal,
         StateSet(n, s), events' = events,
         Sole(subs[n].id) => subs[n].state \notin Terminal
  PROVE  CallersInv'
  <1>1. /\ DOMAIN subs' = DOMAIN subs
        /\ \A m \in DOMAIN subs : /\ subs'[m].id = subs[m].id
                                  /\ subs'[m].state = IF m = n THEN s ELSE subs[m].state
                                  /\ subs'[m].waiter = subs[m].waiter
    BY DEF StateSet, SubsKept
  <1>2. \A id : Sole(id)' <=> Sole(id)
    BY SoleKept DEF StateSet
  <1>3. \A id \in Id : events[id] # 0 => events[id] \in DOMAIN subs
    <2>1. \A id \in Id : events[id] \in 0..Len(subs)
      BY DEF TypeOK
    <2> QED
      BY <2>1, Statuses
  <1>4. WaiterInv'
    BY <1>1, <1>2, <1>3 DEF CallersInv, WaiterInv
  <1>5. CallersAreOwed'
    BY <1>1 DEF CallersInv, WaiterInv, CallersAreOwed
  <1> QED
    BY <1>4, <1>5 DEF CallersInv

\* A task ends: its caller is woken, and no other.
LEMMA EndKeepsCallers ==
  ASSUME TypeOK, LinkInv, TaskInv, CallersInv, NEW w \in Worker, NEW s \in Terminal, End(w, s)
  PROVE  CallersInv'
  <1> DEFINE t == taskOf[w]
  <1>1. t # 0 /\ t \in DOMAIN subs /\ IdOf(w) \in Id /\ subs[t].id = IdOf(w)
        /\ phase[w] # "idle"
    BY TaskOfHolder DEF End, Release, IdOf
  <1>2. Ended(w, s) /\ events' = events
    BY EndOfTask DEF End, TaskState
  <1>3. /\ DOMAIN subs' = DOMAIN subs
        /\ \A m \in DOMAIN subs :
              /\ subs'[m].id = subs[m].id
              /\ subs'[m].state = IF m = t THEN s ELSE subs[m].state
              /\ subs'[m].waiter = IF m = events[IdOf(w)] /\ subs[m].waiter = "waiting"
                                   THEN "woken" ELSE subs[m].waiter
    BY <1>2 DEF Ended, SubsKept
  <1>4. Sole(IdOf(w)) => subs[t].state \notin Terminal
    BY <1>1, WorkedOn
  <1>5. events[IdOf(w)] # 0 => events[IdOf(w)] = t
    <2> SUFFICES ASSUME events[IdOf(w)] # 0
                 PROVE  events[IdOf(w)] = t
      OBVIOUS
    <2> DEFINE e == events[IdOf(w)]
    <2>1. e \in 0..Len(subs)
      BY <1>1 DEF TypeOK
    <2>2. e \in DOMAIN subs
      BY <2>1, Statuses
    <2>3. subs[e].id = IdOf(w) /\ Sole(IdOf(w))
      BY <1>1, <2>2 DEF CallersInv, WaiterInv
    <2> QED
      BY <1>1, <2>2, <2>3 DEF Sole
  <1> HIDE DEF t
  <1>6. \A id : Sole(id)' <=> Sole(id)
    BY <1>2, SoleKept DEF Ended
  <1>7. \A id \in Id : events[id] # 0 => events[id] \in DOMAIN subs
    <2>1. \A id \in Id : events[id] \in 0..Len(subs)
      BY DEF TypeOK
    <2> QED
      BY <2>1, Statuses
  <1>8. \A m \in DOMAIN subs : subs'[m].waiter # "none" => subs[m].waiter # "none"
    BY <1>3
  <1>9. \A m \in DOMAIN subs : subs[m].waiter # "none" => subs'[m].waiter # "none"
    BY <1>3
  <1>10. WaiterInv'
    BY <1>2, <1>3, <1>6, <1>7, <1>8, <1>9 DEF CallersInv, WaiterInv
  <1>11. CallersAreOwed'
    <2> SUFFICES ASSUME NEW m \in DOMAIN subs
                 PROVE  /\ subs'[m].waiter = "waiting" =>
                             subs'[m].state \notin Terminal /\ events[subs[m].id] = m
                        /\ subs'[m].waiter \in {"woken", "returned"} =>
                             subs'[m].state \in Terminal
      BY <1>2, <1>3 DEF CallersAreOwed
    <2>1. /\ subs[m].waiter = "waiting" =>
                subs[m].state \notin Terminal /\ events[subs[m].id] = m
          /\ subs[m].waiter \in {"woken", "returned"} => subs[m].state \in Terminal
          /\ subs[m].waiter # "none" => Sole(subs[m].id)
      BY DEF CallersInv, CallersAreOwed, WaiterInv
    <2>2. CASE m = t
      BY <1>1, <1>3, <1>4, <2>1, <2>2
    <2>3. CASE m # t
      <3>1. m = events[IdOf(w)] => FALSE
        <4>1. m # 0
          BY Statuses
        <4> QED
          BY <1>5, <2>3, <4>1
      <3> QED
        BY <1>3, <2>1, <2>3, <3>1
    <2> QED
      BY <2>2, <2>3
  <1> QED
    BY <1>10, <1>11 DEF CallersInv

\* Nobody is owed less after any step.
LEMMA CallersKept ==
  ASSUME TypeOK, LinkInv, TaskInv, CallersInv, [Next]_vars
  PROVE  CallersInv'
  <1>1. ASSUME UNCHANGED <<subs, events>>
        PROVE  CallersInv'
    BY <1>1 DEF CallersInv, WaiterInv, CallersAreOwed, Sole
  <1>2. ASSUME NEW w \in Worker,
               \/ DequeueDropped(w) \/ SessionGranted(w) \/ StreamRetries(w) \/ BackoffEnds(w)
               \/ HookUsesDecision(w) \/ NotifyEnds(w)
        PROVE  CallersInv'
    BY <1>1, <1>2 DEF DequeueDropped, SessionGranted, StreamRetries, BackoffEnds,
                      HookUsesDecision, NotifyEnds, memory
  <1>3. ASSUME NEW w \in Worker, Dequeue(w)
        PROVE  CallersInv'
    <2> DEFINE n == StatusOf(Head(queue).id)
    <2>1. /\ n # 0 /\ queue # <<>> /\ events' = events
          /\ subs' = [subs EXCEPT ![n].state = "running"]
      BY <1>3 DEF Dequeue
    <2>2. n \in DOMAIN subs /\ subs[n].id = Head(queue).id
      BY <2>1, StatusFound, Statuses
    <2> HIDE DEF n
    <2>3. StateSet(n, "running") /\ "running" \in TaskState \ Terminal
      BY <2>1, <2>2, SetState DEF TaskState, Terminal
    <2>4. Sole(subs[n].id) => subs[n].state \notin Terminal
      BY <2>1, <2>2, QueuedTask DEF Terminal
    <2> QED
      BY <2>1, <2>2, <2>3, <2>4, ActiveKeepsCallers
  <1>4. ASSUME NEW w \in Worker, StreamInterrupts(w) \/ Resume(w)
        PROVE  CallersInv'
    <2>1. phase[w] # "idle" /\ events' = events
      BY <1>4 DEF StreamInterrupts, Resume, At
    <2>2. taskOf[w] \in DOMAIN subs
      BY <2>1, TaskOfHolder
    <2>3. Sole(subs[taskOf[w]].id) => subs[taskOf[w]].state \notin Terminal
      BY <2>1, WorkedOn DEF IdOf
    <2>4. PICK s \in {"interrupted", "running"} : subs' = [subs EXCEPT ![taskOf[w]].state = s]
      BY <1>4 DEF StreamInterrupts, Resume
    <2>5. s \in TaskState \ Terminal
      BY DEF TaskState, Terminal
    <2>6. StateSet(taskOf[w], s)
      BY <2>2, <2>4, <2>5, SetState
    <2> QED
      BY <2>1, <2>2, <2>3, <2>5, <2>6, ActiveKeepsCallers
  <1>5. ASSUME NEW w \in Worker,
               StreamCompletes(w) \/ StreamFails(w) \/ StreamTimesOut(w)
                  \/ NotifyRaises(w) \/ AwaitTimesOut(w)
        PROVE  CallersInv'
    <2>1. PICK s \in Terminal : End(w, s)
      BY <1>5 DEF StreamCompletes, StreamFails, StreamTimesOut, NotifyRaises, AwaitTimesOut,
                  Terminal
    <2> QED
      BY <2>1, EndKeepsCallers
  <1>6. ASSUME NEW id \in Id, Respond(id)
        PROVE  CallersInv'
    BY <1>1, <1>6 DEF Respond
  <1>7. CASE \/ \E c \in Client, key \in Key : SubmitHttp(c, key) \/ SubmitChannel(c, key)
             \/ \E id \in Id : DecideOrphaned(id)
    <2>1. PICK id \in Id, key \in Key, waiter \in {"none", "waiting"} :
             /\ Submit(id, key, waiter)
             /\ waiter = "waiting" => id[2] = 0 /\ Fresh(id)
             /\ \/ id[2] # 0 \/ Fresh(id)
                \/ \A n \in DOMAIN subs : subs[n].id = id => subs[n].waiter = "none"
             /\ events' = IF waiter = "none" THEN events
                          ELSE [events EXCEPT ![id] = Len(subs) + 1]
      BY <1>7, Submissions
    <2> DEFINE new == Len(subs) + 1
    <2>2. SubmitEffect(id, key, waiter)
      BY <2>1, SubmitDoes
    <2>3. /\ DOMAIN subs' = DOMAIN subs \cup {new} /\ new \notin DOMAIN subs
          /\ \A n \in DOMAIN subs : subs'[n] = subs[n]
          /\ subs'[new].id = id
          /\ subs'[new].waiter = "waiting" => subs'[new].state = "queued"
          /\ subs'[new].waiter \in {"none", "waiting", "rejected"}
          /\ waiter = "none" => subs'[new].waiter = "none"
          /\ waiter # "none" => subs'[new].waiter # "none"
      BY <2>2, Statuses DEF SubmitEffect, SubmitOutcome, Created
    <2>4. new # 0 /\ \A x \in Id : events[x] # 0 => events[x] \in DOMAIN subs
      <3>1. \A x \in Id : events[x] \in 0..Len(subs)
        BY DEF TypeOK
      <3> QED
        BY <3>1, Statuses
    <2> HIDE DEF new
    <2>5. \A x \in Id : events'[x] = IF waiter # "none" /\ x = id THEN new ELSE events[x]
      BY <2>1 DEF new, TypeOK
    <2>6. ASSUME NEW n \in DOMAIN subs, subs[n].waiter # "none"
          PROVE  subs[n].id # id
      BY <2>1, <2>6 DEF CallersInv, WaiterInv, Fresh
    <2>7. ASSUME NEW n \in DOMAIN subs, NEW x, x = subs[n].id, x # id, Sole(x)
          PROVE  Sole(x)'
      BY <2>3, <2>7 DEF Sole
    <2>8. Fresh(id) => Sole(id)'
      BY <2>3 DEF Sole, Fresh
    <2>9. ASSUME NEW n \in DOMAIN subs', NEW x, x = subs'[n].id, subs'[n].waiter # "none"
          PROVE  x[2] = 0 /\ Sole(x)'
      <3>1. CASE n = new
        BY <2>1, <2>3, <2>8, <2>9, <3>1
      <3>2. CASE n # new
        <4>1. n \in DOMAIN subs /\ x = subs[n].id /\ subs[n].waiter # "none"
          BY <2>3, <2>9, <3>2
        <4>2. x[2] = 0 /\ Sole(x) /\ x # id
          BY <2>6, <4>1 DEF CallersInv, WaiterInv
        <4> QED
          BY <2>7, <4>1, <4>2
      <3> QED
        BY <3>1, <3>2
    <2>10. ASSUME NEW x \in Id, events'[x] # 0
           PROVE  subs'[events'[x]].id = x /\ subs'[events'[x]].waiter # "none"
      <3>1. CASE waiter # "none" /\ x = id
        BY <2>3, <2>5, <3>1
      <3>2. CASE ~(waiter # "none" /\ x = id)
        <4>1. events'[x] = events[x] /\ events[x] \in DOMAIN subs
          BY <2>4, <2>5, <2>10, <3>2
        <4>2. subs[events[x]].id = x /\ subs[events[x]].waiter # "none"
          BY <2>10, <4>1 DEF CallersInv, WaiterInv
        <4> QED
          BY <2>3, <4>1, <4>2
      <3> QED
        BY <3>1, <3>2
    <2>11. WaiterInv'
      BY <2>9, <2>10 DEF WaiterInv
    <2>12. CallersAreOwed'
      <3> SUFFICES ASSUME NEW n \in DOMAIN subs'
                   PROVE  /\ subs'[n].waiter = "waiting" =>
                                subs'[n].state \notin Terminal /\ events'[subs'[n].id] = n
                          /\ subs'[n].waiter \in {"woken", "returned"} =>
                                subs'[n].state \in Terminal
        BY DEF CallersAreOwed
      <3>1. CASE n = new
        BY <2>3, <2>5, <3>1 DEF Terminal
      <3>2. CASE n # new
        <4>1. n \in DOMAIN subs /\ subs'[n] = subs[n] /\ subs[n].id \in Id
          BY <2>3, <3>2, Statuses
        <4>2. subs[n].waiter = "waiting" => events'[subs[n].id] = events[subs[n].id]
          BY <2>5, <2>6, <4>1
        <4> QED
          BY <4>1, <4>2 DEF CallersInv, CallersAreOwed
      <3> QED
        BY <3>1, <3>2
    <2> QED
      BY <2>11, <2>12 DEF CallersInv
  <1>8. ASSUME NEW n \in DOMAIN subs, WaiterReturns(n)
        PROVE  CallersInv'
    <2>1. PICK c \in {"keyerror", "returned"} : subs' = [subs EXCEPT ![n].waiter = c]
      BY <1>8 DEF WaiterReturns
    <2>2. /\ subs[n].waiter = "woken"
          /\ events' = [events EXCEPT ![subs[n].id] = 0]
      BY <1>8 DEF WaiterReturns
    <2>3. SubsKept /\ \A m \in DOMAIN subs : /\ subs'[m].state = subs[m].state
                                             /\ subs'[m].waiter = IF m = n THEN c ELSE subs[m].waiter
      <3>1. c \in Waiter
        BY DEF Waiter
      <3> QED
        BY <2>1, <3>1, SetWaiter
    <2>4. /\ DOMAIN subs' = DOMAIN subs
          /\ \A m \in DOMAIN subs : subs'[m].id = subs[m].id
      BY <2>3 DEF SubsKept
    <2>5. \A id : Sole(id)' <=> Sole(id)
      BY <2>3, SoleKept
    <2>6. \A x \in Id : events[x] # 0 => events[x] \in DOMAIN subs
      <3>1. \A x \in Id : events[x] \in 0..Len(subs)
        BY DEF TypeOK
      <3> QED
        BY <3>1, Statuses
    <2>7. \A x \in Id : events'[x] = IF x = subs[n].id THEN 0 ELSE events[x]
      BY <2>2 DEF TypeOK
    <2>8. \A m \in DOMAIN subs : subs'[m].waiter # "none" <=> subs[m].waiter # "none"
      BY <2>2, <2>3
    <2>9. WaiterInv'
      BY <2>4, <2>5, <2>6, <2>7, <2>8 DEF CallersInv, WaiterInv
    <2>10. CallersAreOwed'
      <3> SUFFICES ASSUME NEW m \in DOMAIN subs
                   PROVE  /\ subs'[m].waiter = "waiting" =>
                                subs'[m].state \notin Terminal /\ events'[subs[m].id] = m
                          /\ subs'[m].waiter \in {"woken", "returned"} =>
                                subs'[m].state \in Terminal
        BY <2>4 DEF CallersAreOwed
      <3>1. CASE m = n
        BY <2>2, <2>3, <3>1 DEF CallersInv, CallersAreOwed
      <3>2. CASE m # n
        <4>1. subs[m].waiter = "waiting" => subs[m].id # subs[n].id
          BY <3>2 DEF CallersInv, WaiterInv, Sole
        <4>2. subs[m].waiter = "waiting" => events'[subs[m].id] = events[subs[m].id]
          BY <2>7, <4>1, Statuses
        <4> QED
          BY <2>3, <3>2, <4>2 DEF CallersInv, CallersAreOwed
      <3> QED
        BY <3>1, <3>2
    <2> QED
      BY <2>9, <2>10 DEF CallersInv
  <1>9. ASSUME Restart
        PROVE  CallersInv'
    <2>1. subs' = <<>> /\ events' = [id \in Id |-> 0]
      BY <1>9 DEF Restart
    <2>2. DOMAIN subs' = {}
      BY <2>1
    <2> QED
      BY <2>1, <2>2 DEF CallersInv, WaiterInv, CallersAreOwed
  <1>10. CASE UNCHANGED vars
    BY <1>1, <1>10 DEF vars, memory
  <1> QED
    BY <1>2, <1>3, <1>4, <1>5, <1>6, <1>7, <1>8, <1>9, <1>10 DEF Next, Work, Outside


-----------------------------------------------------------------------------
\* The approval records.

\* A step keeps RecordsAreUnanswered if each task with a record had it before
\* in the same state, or is now in a state that may have one.
LEMMA RecordsStep ==
  ASSUME RecordsAreUnanswered, SubsKept, reused' = reused,
         \A m \in DOMAIN subs :
            Unique(subs[m].id) /\ store'[subs[m].id] # NoRecord =>
               \/ store[subs[m].id] # NoRecord /\ subs'[m].state = subs[m].state
               \/ subs'[m].state \in {"interrupted", "timeout", "failed"}
  PROVE  RecordsAreUnanswered'
  BY DEF RecordsAreUnanswered, SubsKept, Unique

\* The only task of an id that is not reused.
LEMMA UniqueTask ==
  ASSUME TaskInv, NEW m \in DOMAIN subs, NEW n \in DOMAIN subs,
         subs[m].id = subs[n].id, Unique(subs[m].id)
  PROVE  m = n /\ Sole(subs[m].id)
  BY DEF TaskInv, ReuseInv, Sole

\* Every step leaves a record in the store only for a task that is not answered.
LEMMA RecordsKept ==
  ASSUME TypeOK, LinkInv, TaskInv, RecordsAreUnanswered, [Next]_vars
  PROVE  RecordsAreUnanswered'
  <1>1. ASSUME UNCHANGED <<subs, reused>>,
               \A id \in Id : store'[id] # NoRecord => store[id] # NoRecord
        PROVE  RecordsAreUnanswered'
    BY <1>1, Statuses DEF RecordsAreUnanswered, Unique
  <1>2. ASSUME NEW w \in Worker,
               \/ DequeueDropped(w) \/ SessionGranted(w) \/ StreamRetries(w) \/ BackoffEnds(w)
               \/ NotifyEnds(w)
        PROVE  RecordsAreUnanswered'
    BY <1>1, <1>2 DEF DequeueDropped, SessionGranted, StreamRetries, BackoffEnds,
                      NotifyEnds, memory
  <1>3. ASSUME NEW w \in Worker, HookUsesDecision(w)
        PROVE  RecordsAreUnanswered'
    <2>1. PICK x \in Id : store' = [store EXCEPT ![x] = NoRecord]
      BY <1>3 DEF HookUsesDecision, Decided
    <2>2. \A id \in Id : store'[id] # NoRecord => store[id] # NoRecord
      BY <2>1 DEF TypeOK
    <2> QED
      BY <1>1, <1>3, <2>2 DEF HookUsesDecision, memory
  <1>4. ASSUME NEW w \in Worker, Dequeue(w)
        PROVE  RecordsAreUnanswered'
    <2> DEFINE n == StatusOf(Head(queue).id)
    <2>1. /\ n # 0 /\ queue # <<>>
          /\ subs' = [subs EXCEPT ![n].state = "running"]
          /\ UNCHANGED <<store, reused>>
      BY <1>4 DEF Dequeue
    <2>2. n \in DOMAIN subs /\ subs[n].id = Head(queue).id
      BY <2>1, StatusFound, Statuses
    <2> HIDE DEF n
    <2>3. StateSet(n, "running")
      BY <2>1, <2>2, SetState DEF TaskState
    <2>4. Unique(subs[n].id) => store[subs[n].id] = NoRecord
      <3> SUFFICES ASSUME Unique(subs[n].id)
                   PROVE  store[subs[n].id] = NoRecord
        OBVIOUS
      <3>1. subs[n].state = "queued"
        BY <2>1, <2>2, UniqueTask, QueuedTask
      <3> QED
        BY <2>2, <3>1 DEF RecordsAreUnanswered
    <2> QED
      BY <2>1, <2>3, <2>4, RecordsStep DEF StateSet
  <1>5. ASSUME NEW w \in Worker, StreamInterrupts(w)
        PROVE  RecordsAreUnanswered'
    <2>1. phase[w] # "idle" /\ reused' = reused
      BY <1>5 DEF StreamInterrupts, At
    <2>2. taskOf[w] \in DOMAIN subs /\ IdOf(w) \in Id /\ IdOf(w) = subs[taskOf[w]].id
      BY <2>1, TaskOfHolder DEF IdOf
    <2>3. StateSet(taskOf[w], "interrupted")
      BY <1>5, <2>2, SetState DEF StreamInterrupts, TaskState
    <2>4. \A id \in Id : id # IdOf(w) => store'[id] = store[id]
      BY <1>5 DEF StreamInterrupts, TypeOK
    <2>5. ASSUME NEW m \in DOMAIN subs, Unique(subs[m].id), store'[subs[m].id] # NoRecord
          PROVE  \/ store[subs[m].id] # NoRecord /\ subs'[m].state = subs[m].state
                 \/ subs'[m].state \in {"interrupted", "timeout", "failed"}
      <3>1. CASE m = taskOf[w]
        BY <2>3, <3>1 DEF StateSet
      <3>2. CASE m # taskOf[w]
        <4>1. subs[m].id # IdOf(w) /\ subs[m].id \in Id
          BY <2>2, <2>5, <3>2, UniqueTask, Statuses
        <4> QED
          BY <2>3, <2>4, <2>5, <3>2, <4>1 DEF StateSet
      <3> QED
        BY <3>1, <3>2
    <2> QED
      BY <2>1, <2>3, <2>5, RecordsStep DEF StateSet
  <1>6. ASSUME NEW w \in Worker, Resume(w)
        PROVE  RecordsAreUnanswered'
    <2>1. phase[w] # "idle" /\ reused' = reused /\ store' = [store EXCEPT ![IdOf(w)] = NoRecord]
      BY <1>6 DEF Resume, At
    <2>2. taskOf[w] \in DOMAIN subs /\ IdOf(w) \in Id /\ IdOf(w) = subs[taskOf[w]].id
      BY <2>1, TaskOfHolder DEF IdOf
    <2>3. StateSet(taskOf[w], "running")
      BY <1>6, <2>2, SetState DEF Resume, TaskState
    <2>4. \A id \in Id : store'[id] = IF id = IdOf(w) THEN NoRecord ELSE store[id]
      BY <2>1 DEF TypeOK
    <2>5. ASSUME NEW m \in DOMAIN subs, store'[subs[m].id] # NoRecord
          PROVE  store[subs[m].id] # NoRecord /\ subs'[m].state = subs[m].state
      <3>1. subs[m].id # IdOf(w) /\ store[subs[m].id] # NoRecord
        BY <2>4, <2>5, Statuses
      <3> QED
        BY <2>2, <2>3, <3>1 DEF StateSet
    <2> QED
      BY <2>1, <2>3, <2>5, RecordsStep DEF StateSet
  <1>7. ASSUME NEW w \in Worker, NEW s \in Terminal, End(w, s), store' = store,
               s = "completed" => step[w] = "stream"
        PROVE  RecordsAreUnanswered'
    <2>1. phase[w] # "idle" /\ reused' = reused
      BY <1>7 DEF End, Release
    <2>2. taskOf[w] \in DOMAIN subs /\ IdOf(w) = subs[taskOf[w]].id
      BY <2>1, TaskOfHolder DEF IdOf
    <2>3. Ended(w, s)
      BY <1>7, EndOfTask DEF TaskState
    <2>4. CASE s # "completed"
      <3>1. s \in {"interrupted", "timeout", "failed"}
        BY <2>4 DEF Terminal
      <3> QED
        BY <1>7, <2>1, <2>3, <3>1, RecordsStep DEF Ended
    <2>5. CASE s = "completed"
      <3>1. Unique(IdOf(w)) => store[IdOf(w)] = NoRecord
        <4> SUFFICES ASSUME Unique(IdOf(w))
                     PROVE  store[IdOf(w)] = NoRecord
          OBVIOUS
        <4>1. subs[taskOf[w]].state = "running"
          BY <1>7, <2>1, <2>2, <2>5, UniqueTask, WorkedOn DEF StateAt
        <4> QED
          BY <2>2, <4>1 DEF RecordsAreUnanswered
      <3> QED
        BY <1>7, <2>1, <2>2, <2>3, <3>1, RecordsStep DEF Ended
    <2> QED
      BY <2>4, <2>5
  <1>8. ASSUME NEW w \in Worker,
               StreamCompletes(w) \/ StreamFails(w) \/ StreamTimesOut(w)
                  \/ NotifyRaises(w) \/ AwaitTimesOut(w)
        PROVE  RecordsAreUnanswered'
    <2>1. /\ store' = store
          /\ \E s \in Terminal : End(w, s) /\ (s = "completed" => step[w] = "stream")
      BY <1>8 DEF StreamCompletes, StreamFails, StreamTimesOut, NotifyRaises, AwaitTimesOut,
                  Terminal, At
    <2> QED
      BY <1>7, <2>1
  <1>9. ASSUME NEW id \in Id, Respond(id)
        PROVE  RecordsAreUnanswered'
    BY <1>1, <1>9 DEF Respond
  <1>10. CASE \/ \E c \in Client, key \in Key : SubmitHttp(c, key) \/ SubmitChannel(c, key)
              \/ \E id \in Id : DecideOrphaned(id)
    <2>1. PICK id \in Id, key \in Key, waiter \in {"none", "waiting"} :
             /\ Submit(id, key, waiter)
             /\ \/ store' = store
                \/ \E x \in Id : /\ store[x] # NoRecord
                                 /\ store' = [store EXCEPT ![x].status = "decided"]
      BY <1>10, Submissions
    <2> DEFINE new == Len(subs) + 1
    <2>2. SubmitEffect(id, key, waiter)
      BY <2>1, SubmitDoes
    <2>3. /\ DOMAIN subs' = DOMAIN subs \cup {new}
          /\ \A n \in DOMAIN subs : subs'[n] = subs[n]
          /\ subs'[new].id = id
          /\ reused' = IF Fresh(id) THEN reused ELSE reused \cup {id}
      BY <2>2, Statuses DEF SubmitEffect, SubmitOutcome, Created
    <2> HIDE DEF new
    <2>4. ASSUME NEW x \in Id, store[x] = NoRecord
          PROVE  store'[x] = NoRecord
      <3>1. CASE store' = store
        BY <2>4, <3>1
      <3>2. ASSUME NEW y \in Id, store[y] # NoRecord,
                   store' = [store EXCEPT ![y].status = "decided"]
            PROVE  store'[x] = NoRecord
        <4>1. x # y
          BY <2>4, <3>2
        <4> QED
          BY <2>4, <3>2, <4>1 DEF TypeOK
      <3> QED
        BY <2>1, <3>1, <3>2
    <2> SUFFICES ASSUME NEW n \in DOMAIN subs', NEW x, x = subs'[n].id,
                        store'[x] # NoRecord, x \notin reused'
                 PROVE  subs'[n].state \in {"interrupted", "timeout", "failed"}
      BY DEF RecordsAreUnanswered, Unique
    <2>5. CASE n = new
      <3>1. x = id /\ Fresh(id)
        BY <2>3, <2>5
      <3>2. store[id] = NoRecord
        BY <3>1 DEF Fresh
      <3> QED
        BY <2>4, <3>1, <3>2
    <2>6. CASE n # new
      <3>1. n \in DOMAIN subs /\ subs'[n] = subs[n] /\ x \in Id /\ x \notin reused
        BY <2>3, <2>6, Statuses
      <3>2. store[x] # NoRecord
        BY <2>4, <3>1
      <3> QED
        BY <3>1, <3>2 DEF RecordsAreUnanswered, Unique
    <2> QED
      BY <2>5, <2>6
  <1>11. ASSUME NEW n \in DOMAIN subs, WaiterReturns(n)
         PROVE  RecordsAreUnanswered'
    <2>1. PICK c \in Waiter : subs' = [subs EXCEPT ![n].waiter = c]
      BY <1>11 DEF WaiterReturns, Waiter
    <2>2. SubsKept /\ \A m \in DOMAIN subs : subs'[m].state = subs[m].state
      BY <2>1, SetWaiter
    <2>3. store' = store /\ reused' = reused
      BY <1>11 DEF WaiterReturns
    <2> QED
      BY <2>2, <2>3, RecordsStep
  <1>12. ASSUME Restart
         PROVE  RecordsAreUnanswered'
    <2>1. subs' = <<>>
      BY <1>12 DEF Restart
    <2>2. DOMAIN subs' = {}
      BY <2>1
    <2> QED
      BY <2>2 DEF RecordsAreUnanswered
  <1>13. CASE UNCHANGED vars
    BY <1>1, <1>13 DEF vars, memory
  <1> QED
    BY <1>2, <1>3, <1>4, <1>5, <1>6, <1>8, <1>9, <1>10, <1>11, <1>12, <1>13
       DEF Next, Work, Outside

-----------------------------------------------------------------------------
\* The history, and the results it keeps.

\* No task has two entries in _tasks, and what comes after the entry of a
\* caller's task was submitted after it.  So that task is dropped only when
\* enough others were.
HistoryInv ==
    /\ \A i, j \in 1..Len(tasks) : tasks[i] = tasks[j] => i = j
    /\ \A i, j \in 1..Len(tasks) :
          i < j /\ subs[tasks[i]].waiter # "none" => tasks[i] < tasks[j]
    /\ \A n \in DOMAIN subs :
          subs[n].waiter # "none" /\ n \notin Tracked => Len(subs) - n >= MaxHistory
    /\ ResultsAreKept

\* Different numbers above k and up to n are no more than n - k.
LEMMA EntriesBehind ==
  ASSUME NEW q \in Seq(Nat), NEW i \in 1..Len(q), NEW k \in Nat, NEW n \in Nat,
         \A j, l \in 1..Len(q) : q[j] = q[l] => j = l,
         \A j \in 1..Len(q) : i < j => k < q[j] /\ q[j] <= n
  PROVE  i < Len(q) => Len(q) - i <= n - k
  <1> SUFFICES ASSUME i < Len(q) PROVE Len(q) - i <= n - k
    OBVIOUS
  <1>1. Len(q) \in Nat /\ \A j \in 1..Len(q) : q[j] \in Nat
    BY LenProperties, ElementOfSeq
  <1> DEFINE f == [j \in (i + 1)..Len(q) |-> q[j]]
  <1>2. k < n
    <2>1. i < Len(q) /\ Len(q) \in 1..Len(q)
      BY <1>1
    <2>2. k < q[Len(q)] /\ q[Len(q)] <= n
      BY <2>1
    <2> QED
      BY <1>1, <2>1, <2>2
  <1>3. f \in Injection((i + 1)..Len(q), (k + 1)..n)
    <2>1. \A j \in (i + 1)..Len(q) : j \in 1..Len(q) /\ i < j
      BY <1>1
    <2>2. f \in [(i + 1)..Len(q) -> (k + 1)..n]
      BY <1>1, <2>1
    <2>3. \A j, l \in (i + 1)..Len(q) : f[j] = f[l] => j = l
      BY <2>1
    <2> QED
      BY <2>2, <2>3 DEF Injection, IsInjective
  <1>4. Cardinality((i + 1)..Len(q)) = Len(q) - i
    <2>1. Cardinality((i + 1)..Len(q)) = IF i + 1 > Len(q) THEN 0 ELSE Len(q) - (i + 1) + 1
      BY <1>1, FS_Interval
    <2> QED
      BY <1>1, <2>1
  <1>5. Cardinality((k + 1)..n) = n - k /\ IsFiniteSet((k + 1)..n)
    <2>1. /\ Cardinality((k + 1)..n) = IF k + 1 > n THEN 0 ELSE n - (k + 1) + 1
          /\ IsFiniteSet((k + 1)..n)
      <3>1. k + 1 \in Int /\ n \in Int
        OBVIOUS
      <3> QED
        BY <3>1, FS_Interval
    <2> QED
      BY <1>2, <2>1
  <1>6. Cardinality((i + 1)..Len(q)) <= Cardinality((k + 1)..n)
    BY <1>3, <1>5, FS_Injection
  <1> QED
    BY <1>4, <1>5, <1>6

\* A submission that takes no caller's place keeps what is known of the history.
LEMMA SubmitKeepsHistory ==
  ASSUME TypeOK, HistoryInv, NEW id \in Id, NEW key \in Key, NEW waiter \in {"none", "waiting"},
         Submit(id, key, waiter), waiter = "waiting" => Fresh(id),
         \A n \in DOMAIN subs : subs[n].id = id => subs[n].waiter = "none"
  PROVE  HistoryInv'
  <1> DEFINE new == Len(subs) + 1
             created == Append(subs, [id |-> id, state |-> "queued", waiter |-> waiter])
             q == Assigned(id, new)
  <1>1. /\ Len(subs) \in Nat /\ DOMAIN subs = 1..Len(subs)
        /\ Tracked \subseteq DOMAIN subs
        /\ tasks \in Seq(1..Len(subs)) /\ Len(tasks) \in Nat
        /\ \A i \in 1..Len(tasks) : tasks[i] \in Tracked
    BY Statuses, LenProperties DEF TypeOK, Tracked
  <1>2. /\ DOMAIN subs' = 1..new /\ Len(subs') = new /\ new \notin DOMAIN subs
        /\ \A n \in DOMAIN subs : subs'[n] = subs[n]
        /\ subs'[new].waiter \in {"none", "waiting", "rejected"}
        /\ subs'[new].waiter # "none" => Fresh(id)
        /\ Has(tasks', new)
    <2>1. SubmitEffect(id, key, waiter)
      BY SubmitDoes
    <2> QED
      BY <1>1, <2>1 DEF SubmitEffect, SubmitOutcome, Created
  <1>3. tasks' = Trimmed(q, created)
    BY DEF Submit
  <1>4. q \in Seq(1..new) /\ new \in Nat
    <2>1. new \in Nat /\ (1..Len(subs)) \cup {new} = 1..new
      BY <1>1
    <2> HIDE DEF new
    <2>2. q \in Seq((1..Len(subs)) \cup {new})
      BY <2>1, AssignedTracks
    <2> QED
      BY <2>1, <2>2
  <1>5. /\ Len(q) \in Nat
        /\ \A i \in 1..Len(q) : q[i] \in 1..new
    BY <1>4, LenProperties, ElementOfSeq
  <1>6. /\ \A i, j \in 1..Len(q) : q[i] = q[j] => i = j
        /\ \A i, j \in 1..Len(q) : i < j /\ subs'[q[i]].waiter # "none" => q[i] < q[j]
        /\ \A n \in Tracked : subs[n].waiter # "none" => Has(q, n)
    <2>1. CASE StatusOf(id) = 0
      <3>1. /\ Len(q) = Len(tasks) + 1 /\ q[Len(tasks) + 1] = new
            /\ \A i \in 1..Len(tasks) : q[i] = tasks[i]
        BY <1>1, <1>4, <2>1, AppendedEntry
      <3>2. \A i \in 1..Len(tasks) : q[i] # new /\ q[i] < new /\ subs'[q[i]] = subs[tasks[i]]
        BY <1>1, <1>2, <3>1
      <3>3. \A i \in 1..Len(q) : i \in 1..Len(tasks) \/ i = Len(tasks) + 1
        BY <1>1, <3>1
      <3>4. \A i, j \in 1..Len(q) : q[i] = q[j] => i = j
        BY <3>1, <3>2, <3>3 DEF HistoryInv
      <3>5. \A i, j \in 1..Len(q) : i < j /\ subs'[q[i]].waiter # "none" => q[i] < q[j]
        <4> SUFFICES ASSUME NEW i \in 1..Len(q), NEW j \in 1..Len(q), i < j,
                            subs'[q[i]].waiter # "none"
                     PROVE  q[i] < q[j]
          OBVIOUS
        <4>1. i \in 1..Len(tasks)
          BY <1>1, <3>3
        <4>2. CASE j = Len(tasks) + 1
          BY <3>1, <3>2, <4>1, <4>2
        <4>3. CASE j \in 1..Len(tasks)
          BY <3>1, <3>2, <4>1, <4>3 DEF HistoryInv
        <4> QED
          BY <3>3, <4>2, <4>3
      <3>6. \A n \in Tracked : Has(q, n)
        BY <1>1, <3>1 DEF Tracked, Has
      <3> QED
        BY <3>4, <3>5, <3>6
    <2>2. CASE StatusOf(id) # 0
      <3> DEFINE old == StatusOf(id)
      <3>1. old \in Tracked /\ subs[old].id = id
        BY <2>2, StatusFound
      <3>2. q = [i \in 1..Len(tasks) |-> IF tasks[i] = old THEN new ELSE tasks[i]]
        BY <2>2 DEF Assigned
      <3> HIDE DEF old, q
      <3>3. /\ Len(q) = Len(tasks)
            /\ \A i \in 1..Len(tasks) : q[i] = IF tasks[i] = old THEN new ELSE tasks[i]
        BY <1>1, <3>2
      <3>4. subs'[new].waiter = "none" /\ subs[old].waiter = "none"
        BY <1>1, <1>2, <3>1 DEF Fresh
      <3>5. \A i \in 1..Len(tasks) : tasks[i] # new /\ tasks[i] < new
                                    /\ subs'[tasks[i]] = subs[tasks[i]]
        BY <1>1, <1>2
      <3>6. \A i, j \in 1..Len(q) : q[i] = q[j] => i = j
        BY <3>3, <3>5 DEF HistoryInv
      <3>7. \A i, j \in 1..Len(q) : i < j /\ subs'[q[i]].waiter # "none" => q[i] < q[j]
        BY <3>3, <3>4, <3>5 DEF HistoryInv
      <3>8. \A n \in Tracked : subs[n].waiter # "none" => Has(q, n)
        BY <3>3, <3>4 DEF Tracked, Has
      <3> QED
        BY <3>6, <3>7, <3>8
    <2> QED
      BY <2>1, <2>2
  <1> HIDE DEF q, created
  <1>7. PICK gone \in 0..Len(q) :
             /\ Len(tasks') = Len(q) - gone
             /\ \A j \in 1..(Len(q) - gone) : tasks'[j] = q[gone + j]
             /\ \A i \in 1..gone : Len(q) - i >= MaxHistory
    BY <1>3, <1>4, TrimmedIsRest
  <1>8. \A j \in 1..Len(tasks') : gone + j \in 1..Len(q) /\ tasks'[j] = q[gone + j]
    BY <1>5, <1>7
  <1>9. \A i, j \in 1..Len(tasks') : tasks'[i] = tasks'[j] => i = j
    <2>1. \A i, j \in 1..Len(tasks') : gone + i = gone + j => i = j
      BY <1>5, <1>7
    <2> QED
      BY <1>6, <1>8, <2>1
  <1>10. \A i, j \in 1..Len(tasks') :
            i < j /\ subs'[tasks'[i]].waiter # "none" => tasks'[i] < tasks'[j]
    <2>1. \A i, j \in 1..Len(tasks') : i < j => gone + i < gone + j
      BY <1>5, <1>7
    <2> QED
      BY <1>6, <1>8, <2>1
  <1>11. ASSUME NEW n \in DOMAIN subs', subs'[n].waiter # "none", n \notin Tracked'
         PROVE  new - n >= MaxHistory
    <2>1. n # new
      BY <1>2, <1>11 DEF Has, Tracked
    <2>2. n \in DOMAIN subs /\ subs[n].waiter # "none"
      BY <1>1, <1>2, <1>11, <2>1
    <2>3. CASE n \notin Tracked
      <3>1. Len(subs) - n >= MaxHistory
        BY <2>2, <2>3 DEF HistoryInv
      <3> QED
        BY <1>1, <2>2, <3>1, ExecutorAssumption
    <2>4. CASE n \in Tracked
      <3>1. PICK i \in 1..Len(q) : q[i] = n
        BY <1>6, <2>2, <2>4 DEF Has
      <3>2. i <= gone
        <4> SUFFICES ASSUME ~(i <= gone) PROVE FALSE
          OBVIOUS
        <4>1. i - gone \in 1..Len(tasks') /\ gone + (i - gone) = i
          BY <1>5, <1>7
        <4> QED
          BY <1>8, <1>11, <3>1, <4>1 DEF Tracked
      <3>3. Len(q) - i >= MaxHistory
        BY <1>7, <3>2
      <3>4. i < Len(q)
        BY <1>5, <3>3, ExecutorAssumption
      <3>5. \A j \in 1..Len(q) : i < j => n < q[j] /\ q[j] <= new
        BY <1>4, <1>5, <1>6, <1>11, <3>1
      <3>6. q \in Seq(Nat) /\ n \in Nat
        <4>1. 1..new \subseteq Nat
          OBVIOUS
        <4> QED
          BY <1>1, <1>4, <2>2, <4>1, SeqMonotonic
      <3>7. Len(q) - i <= new - n
        BY <1>4, <1>6, <3>4, <3>5, <3>6, EntriesBehind
      <3> QED
        BY <1>4, <1>5, <3>3, <3>6, <3>7, ExecutorAssumption
    <2> QED
      BY <2>3, <2>4
  <1>12. ASSUME NEW n \in DOMAIN subs', subs'[n].waiter = "keyerror"
         PROVE  new - n >= MaxHistory
    <2>1. n \in DOMAIN subs /\ subs[n].waiter = "keyerror"
      BY <1>1, <1>2, <1>12
    <2>2. Len(subs) - n >= MaxHistory
      BY <2>1 DEF HistoryInv, ResultsAreKept
    <2> QED
      BY <1>1, <2>1, <2>2, ExecutorAssumption
  <1> QED
    BY <1>2, <1>9, <1>10, <1>11, <1>12 DEF HistoryInv, ResultsAreKept

\* A step that submits nothing and tells a caller the result is lost only when
\* it is.
LEMMA OtherStepKeepsHistory ==
  ASSUME TypeOK, HistoryInv, SubsKept, tasks' = tasks,
         \A n \in DOMAIN subs : subs'[n].waiter # "none" => subs[n].waiter # "none",
         \A n \in DOMAIN subs : subs'[n].waiter = "keyerror" =>
            subs[n].waiter = "keyerror" \/ n \notin Tracked
  PROVE  HistoryInv'
  <1>1. /\ Len(subs') = Len(subs) /\ DOMAIN subs' = DOMAIN subs /\ Tracked' = Tracked
        /\ \A i \in 1..Len(tasks) : tasks[i] \in DOMAIN subs
    BY Statuses DEF SubsKept, Tracked
  <1>2. \A i, j \in 1..Len(tasks) :
           i < j /\ subs'[tasks[i]].waiter # "none" => tasks[i] < tasks[j]
    BY <1>1 DEF HistoryInv
  <1>3. \A n \in DOMAIN subs :
           subs'[n].waiter # "none" /\ n \notin Tracked => Len(subs) - n >= MaxHistory
    BY <1>1 DEF HistoryInv
  <1>4. \A n \in DOMAIN subs : subs'[n].waiter = "keyerror" => Len(subs) - n >= MaxHistory
    BY <1>3 DEF HistoryInv, ResultsAreKept
  <1> QED
    BY <1>1, <1>2, <1>3, <1>4 DEF HistoryInv, ResultsAreKept

\* Every step keeps it.
LEMMA HistoryKept ==
  ASSUME TypeOK, LinkInv, TaskInv, CallersInv, HistoryInv, [Next]_vars
  PROVE  HistoryInv'
  <1>1. ASSUME UNCHANGED <<subs, tasks>>
        PROVE  HistoryInv'
    <2>1. SubsKept
      BY <1>1, Statuses DEF SubsKept
    <2> QED
      BY <1>1, <2>1, OtherStepKeepsHistory
  <1>2. ASSUME NEW w \in Worker,
               \/ DequeueDropped(w) \/ SessionGranted(w) \/ StreamRetries(w) \/ BackoffEnds(w)
               \/ HookUsesDecision(w) \/ NotifyEnds(w)
        PROVE  HistoryInv'
    BY <1>1, <1>2 DEF DequeueDropped, SessionGranted, StreamRetries, BackoffEnds,
                      HookUsesDecision, NotifyEnds, memory
  <1>3. ASSUME NEW n \in DOMAIN subs, NEW s \in TaskState,
               subs' = [subs EXCEPT ![n].state = s], tasks' = tasks
        PROVE  HistoryInv'
    BY <1>3, SetState, OtherStepKeepsHistory DEF StateSet
  <1>4. ASSUME NEW w \in Worker, Dequeue(w)
        PROVE  HistoryInv'
    <2> DEFINE n == StatusOf(Head(queue).id)
    <2>1. n # 0 /\ tasks' = tasks /\ subs' = [subs EXCEPT ![n].state = "running"]
      BY <1>4 DEF Dequeue
    <2>2. n \in DOMAIN subs
      BY <2>1, StatusFound, Statuses
    <2> HIDE DEF n
    <2> QED
      BY <1>3, <2>1, <2>2 DEF TaskState
  <1>5. ASSUME NEW w \in Worker, StreamInterrupts(w) \/ Resume(w)
        PROVE  HistoryInv'
    <2>1. phase[w] # "idle" /\ tasks' = tasks
      BY <1>5 DEF StreamInterrupts, Resume, At
    <2>2. taskOf[w] \in DOMAIN subs
      BY <2>1, TaskOfHolder
    <2>3. PICK s \in {"interrupted", "running"} : subs' = [subs EXCEPT ![taskOf[w]].state = s]
      BY <1>5 DEF StreamInterrupts, Resume
    <2> QED
      BY <1>3, <2>1, <2>2, <2>3 DEF TaskState
  <1>6. ASSUME NEW w \in Worker,
               StreamCompletes(w) \/ StreamFails(w) \/ StreamTimesOut(w)
                  \/ NotifyRaises(w) \/ AwaitTimesOut(w)
        PROVE  HistoryInv'
    <2>1. PICK s \in Terminal : End(w, s)
      BY <1>6 DEF StreamCompletes, StreamFails, StreamTimesOut, NotifyRaises, AwaitTimesOut,
                  Terminal
    <2>2. Ended(w, s) /\ tasks' = tasks
      BY <2>1, EndOfTask DEF End, TaskState
    <2> QED
      BY <2>2, OtherStepKeepsHistory DEF Ended
  <1>7. ASSUME NEW id \in Id, Respond(id)
        PROVE  HistoryInv'
    BY <1>1, <1>7 DEF Respond
  <1>8. CASE \/ \E c \in Client, key \in Key : SubmitHttp(c, key) \/ SubmitChannel(c, key)
             \/ \E id \in Id : DecideOrphaned(id)
    <2>1. PICK id \in Id, key \in Key, waiter \in {"none", "waiting"} :
             /\ Submit(id, key, waiter)
             /\ waiter = "waiting" => Fresh(id)
             /\ \/ id[2] # 0 \/ Fresh(id)
                \/ \A n \in DOMAIN subs : subs[n].id = id => subs[n].waiter = "none"
      BY <1>8, Submissions
    <2>2. \A n \in DOMAIN subs : subs[n].id = id => subs[n].waiter = "none"
      BY <2>1 DEF CallersInv, WaiterInv, Fresh
    <2> QED
      BY <2>1, <2>2, SubmitKeepsHistory
  <1>9. ASSUME NEW n \in DOMAIN subs, WaiterReturns(n)
        PROVE  HistoryInv'
    <2> DEFINE c == IF StatusOf(subs[n].id) = 0 THEN "keyerror" ELSE "returned"
    <2>1. /\ subs[n].waiter = "woken" /\ tasks' = tasks
          /\ subs' = [subs EXCEPT ![n].waiter = c]
      BY <1>9 DEF WaiterReturns
    <2>2. c = "keyerror" => n \notin Tracked
      BY StatusFound, Statuses DEF Tracked
    <2>3. c \in Waiter
      BY DEF Waiter
    <2> HIDE DEF c
    <2>4. SubsKept /\ \A m \in DOMAIN subs :
                         subs'[m].waiter = IF m = n THEN c ELSE subs[m].waiter
      BY <2>1, <2>3, SetWaiter
    <2> QED
      BY <2>1, <2>2, <2>4, OtherStepKeepsHistory
  <1>10. ASSUME Restart
         PROVE  HistoryInv'
    <2>1. subs' = <<>> /\ tasks' = <<>> /\ Len(tasks') = 0 /\ DOMAIN subs' = {}
      BY <1>10 DEF Restart
    <2> QED
      BY <2>1 DEF HistoryInv, ResultsAreKept
  <1>11. CASE UNCHANGED vars
    BY <1>1, <1>11 DEF vars, memory
  <1> QED
    BY <1>2, <1>4, <1>5, <1>6, <1>7, <1>8, <1>9, <1>10, <1>11 DEF Next, Work, Outside

-----------------------------------------------------------------------------
\* The theorems.

\* The whole invariant holds in every behaviour.
THEOREM ExecutorInvariant == Spec => []ExecutorInv
  <1>1. ExecutorInv /\ [Next]_vars => ExecutorInv'
    <2> SUFFICES ASSUME ExecutorInv, [Next]_vars
                 PROVE  ExecutorInv'
      OBVIOUS
    <2>1. TypeOK /\ PoolInv /\ LinkInv /\ TaskInv /\ CallersInv /\ RecordsAreUnanswered
      BY DEF ExecutorInv
    <2>2. PoolInv'
      BY <2>1, PoolKept
    <2>3. TypeOK'
      BY <2>1, <2>2, ExecutorTypes DEF PoolInv
    <2>4. LinkInv' /\ TaskInv'
      BY <2>1, LinksKept, TasksKept
    <2>5. CallersInv' /\ RecordsAreUnanswered'
      BY <2>1, CallersKept, RecordsKept
    <2> QED
      BY <2>2, <2>3, <2>4, <2>5 DEF ExecutorInv
  <1> QED
    BY <1>1, ExecutorInit, PTL DEF Spec

\* The types are right, the bounds of the queue and of the counters included.
THEOREM ExecutorTypeCorrect == Spec => []TypeOK
  BY ExecutorInvariant, PTL DEF ExecutorInv

\* The history never drops a task that is not over, whatever its length: an
\* item of the queue whose id is its own always finds its status, queued.
THEOREM LiveTasksAreTracked == Spec => []LiveTasksTracked
  <1>1. ExecutorInv => LiveTasksTracked
    <2> SUFFICES ASSUME ExecutorInv
                 PROVE  LiveTasksTracked
      OBVIOUS
    <2>1. TypeOK /\ ReuseInv /\ LinkInv /\ QueueInv /\ TrackInv
      BY DEF ExecutorInv, TaskInv
    <2>2. \A n \in DOMAIN subs :
             Unique(subs[n].id) /\ subs[n].state \notin Terminal => n \in Tracked
      BY <2>1 DEF ReuseInv, TrackInv
    <2>3. ASSUME NEW i \in DOMAIN queue, Unique(queue[i].id)
          PROVE  \E n \in Tracked : subs[n].id = queue[i].id /\ subs[n].state = "queued"
      <3>1. PICK n \in DOMAIN subs : subs[n].id = queue[i].id
        BY <2>1 DEF LinkInv
      <3>2. subs[n].state = "queued"
        BY <2>1, <2>3, <3>1 DEF ReuseInv, QueueInv
      <3>3. n \in Tracked
        BY <2>2, <2>3, <3>1, <3>2 DEF Terminal
      <3> QED
        BY <3>1, <3>2, <3>3
    <2> QED
      BY <2>2, <2>3 DEF LiveTasksTracked
  <1> QED
    BY <1>1, ExecutorInvariant, PTL

\* An answer given for an id reaches the worker that waits for one to that id,
\* and no worker waits for an answer that nobody can give it.
THEOREM AnswersAreDelivered == Spec => []AnswersReachTheirTask
  <1>1. ExecutorInv => AnswersReachTheirTask
    <2> SUFFICES ASSUME ExecutorInv
                 PROVE  AnswersReachTheirTask
      OBVIOUS
    <2>1. TypeOK /\ ReuseInv /\ LinkInv /\ WorkInv /\ TrackInv /\ PendingInv
      BY DEF ExecutorInv, TaskInv
    <2>2. ASSUME NEW id \in Id, pending[id] # NoWorker
          PROVE  At(pending[id], "await") /\ IdOf(pending[id]) = id
      <3>1. pending[id] \in Worker
        BY <2>1, <2>2 DEF TypeOK
      <3>2. step[pending[id]] = "await" /\ IdOf(pending[id]) = id
        BY <2>1, <2>2 DEF PendingInv
      <3> QED
        BY <2>1, <3>1, <3>2 DEF LinkInv, At
    <2>3. ASSUME NEW w \in Worker, At(w, "await"), Unique(IdOf(w))
          PROVE  /\ pending[IdOf(w)] = w
                 /\ StatusOf(IdOf(w)) = taskOf[w]
                 /\ subs[taskOf[w]].state = "interrupted"
      <3>1. taskOf[w] # 0 /\ taskOf[w] \in DOMAIN subs /\ subs[taskOf[w]].id = IdOf(w)
        BY <2>1, <2>3, TaskOfHolder DEF At, IdOf
      <3>2. Sole(IdOf(w))
        BY <2>1, <2>3, <3>1 DEF ReuseInv
      <3>3. pending[IdOf(w)] = w /\ subs[taskOf[w]].state = "interrupted"
        BY <2>1, <2>3, <3>1, <3>2 DEF WorkInv, At, StateAt
      <3>4. taskOf[w] \in Tracked
        BY <2>1, <3>1, <3>2, <3>3 DEF TrackInv, Terminal
      <3>5. StatusOf(IdOf(w)) = taskOf[w]
        BY <2>1, <3>1, <3>2, <3>4, StatusFound, Statuses DEF Sole
      <3> QED
        BY <3>3, <3>5
    <2> QED
      BY <2>2, <2>3 DEF AnswersReachTheirTask
  <1> QED
    BY <1>1, ExecutorInvariant, PTL

\* No caller of submit_and_wait sleeps on a task that is over or without its
\* event, and none is woken before its task is over, though ids are reused.
THEOREM CallersAreServed == Spec => []CallersAreOwed
  BY ExecutorInvariant, PTL DEF ExecutorInv, CallersInv

\* A caller that is woken finds the result, unless as many tasks as the history
\* holds were submitted after its own, whatever ids are used again.
THEOREM CallersFindResults == Spec => []ResultsAreKept
  <1>1. Init => HistoryInv
    <2> SUFFICES ASSUME Init PROVE HistoryInv
      OBVIOUS
    <2>1. subs = <<>> /\ tasks = <<>> /\ Len(tasks) = 0 /\ DOMAIN subs = {}
      BY DEF Init, MemoryInit
    <2> QED
      BY <2>1 DEF HistoryInv, ResultsAreKept
  <1>2. ExecutorInv /\ HistoryInv /\ [Next]_vars => HistoryInv'
    BY HistoryKept DEF ExecutorInv
  <1>3. HistoryInv => ResultsAreKept
    BY DEF HistoryInv
  <1> QED
    BY <1>1, <1>2, <1>3, ExecutorInvariant, PTL DEF Spec

\* A task that was answered, or has not asked, has no approval record.
THEOREM RecordsAreOfUnanswered == Spec => []RecordsAreUnanswered
  BY ExecutorInvariant, PTL DEF ExecutorInv

\* In the executor too, whatever crashes, the shared agent serves one task at
\* a time.
THEOREM ExecutorSharedAgent == Spec => []SharedAgentSerial
  <1>1. ExecutorInv => SharedAgentSerial
    BY RegisteredSerial DEF ExecutorInv, PoolInv, SharedAgentSerial, Key
  <1> QED
    BY <1>1, ExecutorInvariant, PTL


\* How a step changes the states of the tasks: none but that of one task, from
\* one state to another, or those of new tasks.
LEMMA StateChanges ==
  ASSUME ExecutorInv, [Next]_vars, ~Restart, NEW n \in DOMAIN subs, Sole(subs[n].id)
  PROVE  /\ n \in DOMAIN subs'
         /\ subs'[n].state # subs[n].state => subs[n].state \notin Terminal
  <1>0. TypeOK /\ LinkInv /\ TaskInv
    BY DEF ExecutorInv
  <1>1. ASSUME subs' = subs
        PROVE  n \in DOMAIN subs' /\ subs'[n].state = subs[n].state
    BY <1>1
  <1>2. ASSUME NEW w \in Worker, Dequeue(w)
        PROVE  /\ n \in DOMAIN subs'
               /\ subs'[n].state # subs[n].state => subs[n].state = "queued"
    <2> DEFINE m == StatusOf(Head(queue).id)
    <2>1. m # 0 /\ queue # <<>> /\ subs' = [subs EXCEPT ![m].state = "running"]
      BY <1>2 DEF Dequeue
    <2>2. m \in DOMAIN subs /\ subs[m].id = Head(queue).id
      BY <1>0, <2>1, StatusFound, Statuses
    <2> HIDE DEF m
    <2>3. StateSet(m, "running")
      BY <1>0, <2>1, <2>2, SetState DEF TaskState
    <2>4. n = m => subs[n].state = "queued"
      BY <1>0, <2>1, <2>2, QueuedTask
    <2> QED
      BY <2>3, <2>4 DEF StateSet, SubsKept
  <1>3. ASSUME NEW w \in Worker, phase[w] # "idle",
               \A m \in DOMAIN subs : m # taskOf[w] => subs'[m].state = subs[m].state,
               SubsKept
        PROVE  /\ n \in DOMAIN subs'
               /\ subs'[n].state # subs[n].state => subs[n].state \notin Terminal
    <2>1. n = taskOf[w] => subs[n].state \notin Terminal
      BY <1>0, <1>3, WorkedOn DEF IdOf
    <2> QED
      BY <1>3, <2>1 DEF SubsKept
  <1>4. ASSUME NEW w \in Worker, StreamInterrupts(w) \/ Resume(w)
        PROVE  /\ n \in DOMAIN subs'
               /\ subs'[n].state # subs[n].state => subs[n].state \notin Terminal
    <2>1. phase[w] # "idle"
      BY <1>4 DEF StreamInterrupts, Resume, At
    <2>2. WorkerStep(w)
      BY <1>0, <1>4, MoveIsWorkerStep
    <2> QED
      BY <1>3, <2>1, <2>2 DEF WorkerStep
  <1>5. ASSUME NEW w \in Worker,
               StreamCompletes(w) \/ StreamFails(w) \/ StreamTimesOut(w)
                  \/ NotifyRaises(w) \/ AwaitTimesOut(w)
        PROVE  /\ n \in DOMAIN subs'
               /\ subs'[n].state # subs[n].state => subs[n].state \notin Terminal
    <2>1. PICK s \in Terminal : End(w, s)
      BY <1>5 DEF StreamCompletes, StreamFails, StreamTimesOut, NotifyRaises, AwaitTimesOut,
                  Terminal
    <2>2. Ended(w, s) /\ phase[w] # "idle"
      BY <1>0, <2>1, EndOfTask DEF End, Release, TaskState
    <2> QED
      BY <1>3, <2>2 DEF Ended
  <1>6. ASSUME NEW m \in DOMAIN subs, WaiterReturns(m)
        PROVE  n \in DOMAIN subs' /\ subs'[n].state = subs[n].state
    <2>1. PICK c \in Waiter : subs' = [subs EXCEPT ![m].waiter = c]
      BY <1>6 DEF WaiterReturns, Waiter
    <2> QED
      BY <1>0, <2>1, SetWaiter DEF SubsKept
  <1>7. CASE \/ \E c \in Client, key \in Key : SubmitHttp(c, key) \/ SubmitChannel(c, key)
             \/ \E id \in Id : DecideOrphaned(id)
    <2>1. \E id \in Id, key \in Key, waiter \in {"none", "waiting"} : Submit(id, key, waiter)
      BY <1>0, <1>7, Submissions
    <2> QED
      BY <1>0, <2>1, SubmitDoes DEF SubmitEffect, SubmitOutcome, Created
  <1>8. ASSUME NEW w \in Worker,
               \/ DequeueDropped(w) \/ SessionGranted(w) \/ StreamRetries(w) \/ BackoffEnds(w)
               \/ HookUsesDecision(w) \/ NotifyEnds(w)
        PROVE  subs' = subs
    BY <1>8 DEF DequeueDropped, SessionGranted, StreamRetries, BackoffEnds,
                HookUsesDecision, NotifyEnds, memory
  <1>9. ASSUME NEW id \in Id, Respond(id)
        PROVE  subs' = subs
    BY <1>9 DEF Respond
  <1>10. CASE UNCHANGED vars
    BY <1>1, <1>10 DEF vars, memory
  <1> QED
    BY <1>1, <1>2, <1>4, <1>5, <1>6, <1>7, <1>8, <1>9, <1>10 DEF Next, Work, Outside, Terminal

\* What a poller or a channel has read of a task that is over is not taken
\* back.
THEOREM OverIsOver == Spec => TerminalIsFinal
  <1> DEFINE Final == crashes' = crashes =>
                        \A n \in DOMAIN subs :
                           Unique(subs[n].id) /\ subs[n].state \in Terminal
                              => subs'[n].state = subs[n].state
  <1>1. ExecutorInv /\ [Next]_vars => [Final]_vars
    <2> SUFFICES ASSUME ExecutorInv, [Next]_vars, crashes' = crashes,
                        NEW n \in DOMAIN subs, Unique(subs[n].id), subs[n].state \in Terminal
                 PROVE  subs'[n].state = subs[n].state
      OBVIOUS
    <2>1. ~Restart
      BY ExecutorAssumption DEF Restart, ExecutorInv, TypeOK
    <2>2. Sole(subs[n].id)
      BY DEF ExecutorInv, TaskInv, ReuseInv
    <2> QED
      BY <2>1, <2>2, StateChanges
  <1> QED
    BY <1>1, ExecutorInvariant, PTL DEF Spec, TerminalIsFinal

-----------------------------------------------------------------------------
\* The executor as an implementation of the two abstract specifications.

\* While the process lives, the executor drives the pool as the pool expects:
\* when every session fits in the pool, it is the abstract mutex.
THEOREM ExecutorImplementsMutex ==
  ASSUME Roomy
  PROVE  Spec /\ [](crashes = 0) => MutexSafety
  <1>1. Init => PoolInit
    BY DEF Init, MemoryInit
  <1>2. TypeOK /\ [Next]_vars /\ crashes = 0 /\ (crashes = 0)' => [PoolNext]_poolVars
    <2>1. Restart => crashes' = crashes + 1
      BY DEF Restart
    <2> QED
      BY <2>1, PoolSteps
  <1>3. Spec /\ [](crashes = 0) => PoolSpec
    BY <1>1, <1>2, ExecutorTypeCorrect, PTL DEF Spec, PoolSpec
  <1> QED
    BY <1>3, PoolImplementsMutex, PTL

\* The executor drives the pool within its bound too, crash or no crash.
THEOREM ExecutorCacheIsBounded == Spec => []CacheBounded
  <1>1. Init => CacheInv
    BY CacheInitInv DEF Init, MemoryInit
  <1>2. ExecutorInv /\ CacheInv /\ [Next]_vars => CacheInv'
    <2> SUFFICES ASSUME ExecutorInv, CacheInv, [Next]_vars
                 PROVE  CacheInv'
      OBVIOUS
    <2>1. PoolTypeOK /\ TypeOK
      BY DEF ExecutorInv, PoolInv
    <2>2. CASE Restart
      BY <2>2, RestartedPool
    <2>3. CASE ~Restart
      BY <2>1, <2>3, PoolSteps, CacheInvStep
    <2> QED
      BY <2>2, <2>3
  <1>3. CacheInv => CacheBounded
    BY DEF CacheInv
  <1> QED
    BY <1>1, <1>2, <1>3, ExecutorInvariant, PTL DEF Spec

\* What Lifecycle sees of the tasks.
StateOf == [n \in 1..MaxSubmits |-> IF n \in DOMAIN subs THEN subs[n].state ELSE "absent"]
CallerOf == [n \in 1..MaxSubmits |-> IF n \in DOMAIN subs THEN subs[n].waiter ELSE "none"]

\* It sees one task change when one object does.
LEMMA SeenChange ==
  ASSUME TypeOK, NEW t \in DOMAIN subs, NEW s, NEW c, SubsKept,
         \A n \in DOMAIN subs : subs'[n].state = IF n = t THEN s ELSE subs[n].state,
         \A n \in DOMAIN subs : subs'[n].waiter = IF n = t THEN c ELSE subs[n].waiter
  PROVE  /\ t \in 1..MaxSubmits
         /\ StateOf[t] = subs[t].state /\ CallerOf[t] = subs[t].waiter
         /\ StateOf' = [StateOf EXCEPT ![t] = s]
         /\ CallerOf' = [CallerOf EXCEPT ![t] = c]
  <1>1. t \in 1..MaxSubmits
    <2>1. Len(subs) <= MaxSubmits /\ t \in 1..Len(subs) /\ Len(subs) \in Nat /\ MaxSubmits \in Nat
      BY Statuses, ExecutorAssumption DEF TypeOK
    <2> QED
      BY <2>1
  <1>2. DOMAIN subs' = DOMAIN subs
    BY DEF SubsKept
  <1>3. StateOf' = [StateOf EXCEPT ![t] = s]
    BY <1>1, <1>2 DEF StateOf
  <1>4. CallerOf' = [CallerOf EXCEPT ![t] = c]
    BY <1>1, <1>2 DEF CallerOf
  <1> QED
    BY <1>1, <1>3, <1>4 DEF StateOf, CallerOf

\* A step of the executor in which nothing crashes is a step of the lifecycle of
\* its tasks, or leaves it alone.
LEMMA StepOfLifecycle ==
  ASSUME ExecutorInv, [Next]_vars, crashes' = crashes, reused = {}
  PROVE  [Lifecycle!Next]_(Lifecycle!lifecycleVars)
  <1>0. /\ TypeOK /\ LinkInv /\ TaskInv /\ CallersInv
        /\ \A n \in DOMAIN subs : Sole(subs[n].id)
    BY DEF ExecutorInv, TaskInv, ReuseInv, Unique
  <1>1. ASSUME subs' = subs
        PROVE  UNCHANGED Lifecycle!lifecycleVars
    BY <1>1 DEF Lifecycle!lifecycleVars
  <1>2. ASSUME NEW t \in DOMAIN subs, NEW s, StateSet(t, s),
               \/ subs[t].state = "queued" /\ s = "running"
               \/ subs[t].state = "running" /\ s = "interrupted"
               \/ subs[t].state = "interrupted" /\ s = "running"
        PROVE  Lifecycle!Next
    <2>1. /\ t \in 1..MaxSubmits
          /\ StateOf[t] = subs[t].state /\ CallerOf[t] = subs[t].waiter
          /\ StateOf' = [StateOf EXCEPT ![t] = s]
          /\ CallerOf' = [CallerOf EXCEPT ![t] = subs[t].waiter]
      BY <1>0, <1>2, SeenChange DEF StateSet
    <2>2. CallerOf' = CallerOf
      BY <2>1 DEF CallerOf
    <2>3. Lifecycle!Work(t)
      BY <1>2, <2>1, <2>2 DEF Lifecycle!Work, Lifecycle!Move, StateOf, CallerOf
    <2> QED
      BY <2>1, <2>3 DEF Lifecycle!Next
  <1>3. ASSUME NEW w \in Worker, Dequeue(w)
        PROVE  Lifecycle!Next
    <2> DEFINE m == StatusOf(Head(queue).id)
    <2>1. m # 0 /\ queue # <<>> /\ subs' = [subs EXCEPT ![m].state = "running"]
      BY <1>3 DEF Dequeue
    <2>2. m \in DOMAIN subs /\ subs[m].id = Head(queue).id
      BY <1>0, <2>1, StatusFound, Statuses
    <2> HIDE DEF m
    <2>3. StateSet(m, "running")
      BY <1>0, <2>1, <2>2, SetState DEF TaskState
    <2>4. subs[m].state = "queued"
      BY <1>0, <2>1, <2>2, QueuedTask
    <2> QED
      BY <1>2, <2>2, <2>3, <2>4
  <1>4. ASSUME NEW w \in Worker, StreamInterrupts(w) \/ Resume(w)
        PROVE  Lifecycle!Next
    <2>1. phase[w] # "idle"
      BY <1>4 DEF StreamInterrupts, Resume, At
    <2>2. taskOf[w] \in DOMAIN subs /\ Sole(IdOf(w))
      BY <1>0, <2>1, TaskOfHolder DEF IdOf
    <2>3. subs[taskOf[w]].state = StateAt(step[w])
      BY <1>0, <2>1, <2>2, WorkedOn
    <2>4. CASE StreamInterrupts(w)
      <3>1. subs[taskOf[w]].state = "running"
        BY <2>3, <2>4 DEF StreamInterrupts, At, StateAt
      <3>2. StateSet(taskOf[w], "interrupted")
        BY <1>0, <2>2, <2>4, SetState DEF StreamInterrupts, TaskState
      <3> QED
        BY <1>2, <2>2, <3>1, <3>2
    <2>5. CASE Resume(w)
      <3>1. subs[taskOf[w]].state = "interrupted"
        BY <2>3, <2>5 DEF Resume, At, StateAt
      <3>2. StateSet(taskOf[w], "running")
        BY <1>0, <2>2, <2>5, SetState DEF Resume, TaskState
      <3> QED
        BY <1>2, <2>2, <3>1, <3>2
    <2> QED
      BY <1>4, <2>4, <2>5
  <1>5. ASSUME NEW w \in Worker, NEW s \in Terminal, End(w, s),
               s = "completed" => step[w] = "stream"
        PROVE  Lifecycle!Next
    <2>1. phase[w] # "idle" /\ Ended(w, s)
      BY <1>0, <1>5, EndOfTask DEF End, Release, TaskState
    <2>held. /\ taskOf[w] \in DOMAIN subs /\ IdOf(w) \in Id /\ Sole(IdOf(w))
          /\ IdOf(w) = subs[taskOf[w]].id
      BY <1>0, <2>1, TaskOfHolder DEF IdOf
    <2>t. PICK t \in DOMAIN subs : t = taskOf[w]
      BY <2>held
    <2>2. t \in DOMAIN subs /\ IdOf(w) \in Id /\ Sole(IdOf(w)) /\ IdOf(w) = subs[t].id
      BY <2>held, <2>t
    <2> DEFINE c == IF subs[t].waiter = "waiting" THEN "woken" ELSE subs[t].waiter
    <2>3. subs[t].state = StateAt(step[w])
      BY <1>0, <2>1, <2>2, <2>t, WorkedOn
    <2>4. ASSUME NEW n \in DOMAIN subs
          PROVE  subs'[n].waiter = IF n = t THEN c ELSE subs[n].waiter
      <3>1. subs'[n].waiter = IF n = events[IdOf(w)] /\ subs[n].waiter = "waiting"
                              THEN "woken" ELSE subs[n].waiter
        BY <2>1 DEF Ended
      <3>2. subs[n].waiter = "waiting" => events[subs[n].id] = n
        BY <1>0 DEF CallersInv, CallersAreOwed
      <3>3. n = events[IdOf(w)] => n = t
        <4>1. n # 0
          BY <1>0, Statuses
        <4> QED
          BY <1>0, <2>2, <4>1 DEF CallersInv, WaiterInv, Sole
      <3> QED
        BY <2>2, <3>1, <3>2, <3>3
    <2>5. /\ t \in 1..MaxSubmits
          /\ StateOf[t] = subs[t].state /\ CallerOf[t] = subs[t].waiter
          /\ StateOf' = [StateOf EXCEPT ![t] = s]
          /\ CallerOf' = [CallerOf EXCEPT ![t] = c]
      <3>1. SubsKept /\ \A n \in DOMAIN subs : subs'[n].state = IF n = t THEN s ELSE subs[n].state
        BY <2>1, <2>t DEF Ended
      <3> HIDE DEF c
      <3> QED
        BY <1>0, <2>2, <2>4, <3>1, SeenChange
    <2>6. \/ subs[t].state = "running" /\ s \in Lifecycle!Over
          \/ subs[t].state = "interrupted" /\ s \in {"failed", "timeout"}
      BY <1>5, <2>3 DEF StateAt, Terminal, Lifecycle!Over
    <2>7. Lifecycle!Finish(t)
      BY <2>5, <2>6 DEF Lifecycle!Finish, Lifecycle!Move, StateOf, CallerOf
    <2> QED
      BY <2>5, <2>7 DEF Lifecycle!Next
  <1>6. ASSUME NEW w \in Worker,
               StreamCompletes(w) \/ StreamFails(w) \/ StreamTimesOut(w)
                  \/ NotifyRaises(w) \/ AwaitTimesOut(w)
        PROVE  Lifecycle!Next
    <2>1. \E s \in Terminal : End(w, s) /\ (s = "completed" => step[w] = "stream")
      BY <1>6 DEF StreamCompletes, StreamFails, StreamTimesOut, NotifyRaises, AwaitTimesOut,
                  Terminal, At
    <2> QED
      BY <1>5, <2>1
  <1>7. ASSUME NEW n \in DOMAIN subs, WaiterReturns(n)
        PROVE  Lifecycle!Next
    <2>1. PICK c \in {"returned", "keyerror"} : subs' = [subs EXCEPT ![n].waiter = c]
      BY <1>7 DEF WaiterReturns
    <2>2. subs[n].waiter = "woken" /\ subs[n].state \in Terminal
      BY <1>0, <1>7 DEF WaiterReturns, CallersInv, CallersAreOwed
    <2>3. SubsKept /\ \A m \in DOMAIN subs : /\ subs'[m].state = subs[m].state
                                             /\ subs'[m].waiter = IF m = n THEN c ELSE subs[m].waiter
      <3>1. c \in Waiter
        BY DEF Waiter
      <3> QED
        BY <1>0, <2>1, <3>1, SetWaiter
    <2>4. /\ n \in 1..MaxSubmits
          /\ StateOf[n] = subs[n].state /\ CallerOf[n] = subs[n].waiter
          /\ StateOf' = [StateOf EXCEPT ![n] = subs[n].state]
          /\ CallerOf' = [CallerOf EXCEPT ![n] = c]
      BY <1>0, <2>3, SeenChange
    <2>5. StateOf' = StateOf
      BY <2>4 DEF StateOf
    <2>6. Lifecycle!Tell(n)
      BY <2>2, <2>4, <2>5 DEF Lifecycle!Tell, Lifecycle!Over, Terminal, StateOf, CallerOf
    <2> QED
      BY <2>4, <2>6 DEF Lifecycle!Next
  <1>8. CASE \/ \E c \in Client, key \in Key : SubmitHttp(c, key) \/ SubmitChannel(c, key)
             \/ \E id \in Id : DecideOrphaned(id)
    <2>1. PICK id \in Id, key \in Key, waiter \in {"none", "waiting"} : Submit(id, key, waiter)
      BY <1>0, <1>8, Submissions
    <2>2. SubmitEffect(id, key, waiter)
      BY <1>0, <2>1, SubmitDoes
    <2>new. PICK new \in 1..MaxSubmits : new = Len(subs) + 1
      BY <1>0, <2>2, Statuses, ExecutorAssumption DEF SubmitEffect, SubmitOutcome, Created
    <2>3. /\ DOMAIN subs' = DOMAIN subs \cup {new} /\ new \notin DOMAIN subs
          /\ \A n \in DOMAIN subs : subs'[n] = subs[n]
          /\ new \in 1..MaxSubmits
      BY <1>0, <2>2, <2>new, Statuses, ExecutorAssumption DEF SubmitEffect, SubmitOutcome, Created
    <2>4. \/ subs'[new].state = "queued" /\ subs'[new].waiter \in {"none", "waiting"}
          \/ subs'[new].state = "failed" /\ subs'[new].waiter \in {"none", "rejected"}
      BY <2>2, <2>new DEF SubmitEffect, SubmitOutcome, Created
    <2> DEFINE s == subs'[new].state
               c == subs'[new].waiter
    <2>5. StateOf[new] = "absent" /\ StateOf' = [StateOf EXCEPT ![new] = s]
      BY <2>3 DEF StateOf
    <2>6. CallerOf' = [CallerOf EXCEPT ![new] = c]
      BY <2>3 DEF CallerOf
    <2>7. Lifecycle!Accept(new) \/ Lifecycle!Refuse(new)
      BY <2>4, <2>5, <2>6 DEF Lifecycle!Accept, Lifecycle!Refuse, Lifecycle!Move, StateOf, CallerOf
    <2> QED
      BY <2>3, <2>7 DEF Lifecycle!Next
  <1>9. ASSUME NEW w \in Worker,
               \/ DequeueDropped(w) \/ SessionGranted(w) \/ StreamRetries(w) \/ BackoffEnds(w)
               \/ HookUsesDecision(w) \/ NotifyEnds(w)
        PROVE  subs' = subs
    BY <1>9 DEF DequeueDropped, SessionGranted, StreamRetries, BackoffEnds,
                HookUsesDecision, NotifyEnds, memory
  <1>10. ASSUME NEW id \in Id, Respond(id)
         PROVE  subs' = subs
    BY <1>10 DEF Respond
  <1>11. ~Restart
    BY ExecutorAssumption DEF Restart, ExecutorInv, TypeOK
  <1>12. CASE UNCHANGED vars
    BY <1>1, <1>12 DEF vars, memory
  <1> QED
    BY <1>1, <1>3, <1>4, <1>6, <1>7, <1>8, <1>9, <1>10, <1>11, <1>12 DEF Next, Work, Outside

\* While no id is used twice and the process lives, every task goes through
\* the abstract life of a task, and its caller is told at its end.
THEOREM ExecutorImplementsLifecycle ==
  Spec /\ [](reused = {} /\ crashes = 0) => ImplementsLifecycle
  <1>1. Init => Lifecycle!Init
    <2>1. Init => DOMAIN subs = {}
      BY DEF Init, MemoryInit
    <2> QED
      BY <2>1 DEF Lifecycle!Init
  <1>2. ExecutorInv /\ [Next]_vars /\ (reused = {} /\ crashes = 0) /\ (reused = {} /\ crashes = 0)'
           => [Lifecycle!Next]_(Lifecycle!lifecycleVars)
    BY StepOfLifecycle
  <1> QED
    BY <1>1, <1>2, ExecutorInvariant, PTL DEF Spec, ImplementsLifecycle, Lifecycle!Spec
=============================================================================
