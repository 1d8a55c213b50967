----------------------------- MODULE AgentPool -----------------------------
(***************************************************************************)
(* The pool of agents of andino/task_executor.py: an LRU cache of Agent    *)
(* objects keyed by session, and a table with one asyncio.Lock per         *)
(* session.  A worker that wants to run a task of a session calls          *)
(* acquire(session): it fetches the session's lock from the table (making  *)
(* one if there is none), waits for it, and then takes the session's agent *)
(* from the cache or builds it, evicting the least recently used sessions  *)
(* when the cache is over its limit.  The worker releases the lock when    *)
(* its task is over.                                                       *)
(*                                                                         *)
(* Everything between two awaits of acquire is one action: the only await  *)
(* is lock.acquire(), which does not suspend when the lock is free.        *)
(***************************************************************************)
EXTENDS Naturals, Sequences, FiniteSets

CONSTANTS
    Worker,       \* the worker coroutines of the executor
    Session,      \* the session ids in use
    NoSession,    \* the key None: the shared, stateless agent
    Lock,         \* the identities of asyncio.Lock objects, as numbers
    NoLock,       \* "no entry in _locks"
    MaxPoolSize,  \* config.session.max_pool_size
    BuildMayFail  \* whether build_agent may raise

ASSUME SessionAssumption == NoSession \notin Session
ASSUME LockAssumption == Lock \subseteq Nat /\ NoLock \notin Lock
ASSUME PoolSizeAssumption == MaxPoolSize \in Nat
ASSUME BuildAssumption == BuildMayFail \in BOOLEAN

Key == Session \cup {NoSession}

VARIABLES
    cache,   \* the keys of _cache
    older,   \* the order of the sessions in it: <<a, b>> when a is older
    locks,   \* _locks: the lock object registered for each key, or NoLock
    locked,  \* asyncio.Lock._locked of each lock object
    fifo,    \* asyncio.Lock._waiters of each lock object
    phase,   \* where each worker is with respect to the pool
    sess,    \* the key a worker that is not idle has asked for
    held     \* the lock object a worker that is not idle waits for or holds

poolVars == <<cache, older, locks, locked, fifo, phase, sess, held>>

(***************************************************************************)
(* A worker is idle (no lock), waiting in lock.acquire(), holding the lock *)
(* and the agent, or dead: acquire raised after the lock was taken, which  *)
(* happens outside the worker's try block, so the coroutine ends and       *)
(* nobody ever releases the lock.                                          *)
(***************************************************************************)
Phase == {"idle", "waiting", "holding", "dead"}

PoolTypeOK ==
    /\ cache \subseteq Key
    /\ older \subseteq Key \X Key
    /\ locks \in [Key -> Lock \cup {NoLock}]
    /\ locked \in [Lock -> BOOLEAN]
    /\ fifo \in [Lock -> Seq(Worker)]
    /\ phase \in [Worker -> Phase]
    /\ sess \in [Worker -> Key]
    /\ held \in [Worker -> Lock \cup {NoLock}]

PoolInit ==
    /\ cache = {NoSession}
    /\ older = {}
    /\ locks = [k \in Key |-> NoLock]
    /\ locked = [l \in Lock |-> FALSE]
    /\ fifo = [l \in Lock |-> <<>>]
    /\ phase = [w \in Worker |-> "idle"]
    /\ sess = [w \in Worker |-> NoSession]
    /\ held = [w \in Worker |-> NoLock]

-----------------------------------------------------------------------------
\* The cache.

CachedSessions == cache \ {NoSession}

\* Mutants of Evicted: the loop does not skip the key None; it leaves one
\* entry too many.
EvictedWithShared ==
    {s \in cache :
        Cardinality({x \in CachedSessions : <<x, s>> \in older}) + MaxPoolSize
            < Cardinality(cache)}

EvictedLate ==
    {s \in CachedSessions :
        Cardinality({x \in CachedSessions : <<x, s>> \in older}) + MaxPoolSize + 1
            < Cardinality(cache)}

\* The keys the eviction loop deletes: as many of the oldest sessions as the
\* cache is over its limit.  The key None is skipped.
Evicted ==
    {s \in CachedSessions :
        Cardinality({x \in CachedSessions : <<x, s>> \in older}) + MaxPoolSize
            < Cardinality(cache)}

\* The order once the keys of gone are deleted and k is put at the end.
OrderWithLast(k, gone) ==
    {p \in older : p[1] \notin gone \cup {k} /\ p[2] \notin gone \cup {k}}
        \cup ((CachedSessions \ (gone \cup {k})) \X {k})

\* The loop finds no session left to evict and the cache is still too large:
\* next() raises.  It happens with a limit of zero only.
NothingToEvict == Cardinality(CachedSessions) + MaxPoolSize < Cardinality(cache)

-----------------------------------------------------------------------------
\* The locks.

\* A lock object nothing refers to: the next asyncio.Lock() may be this one.
Unreferenced(l) ==
    /\ \A k \in Key : locks[k] # l
    /\ \A w \in Worker : held[w] # l

\* _get_lock: the registered lock, or a new one (the least unreferenced
\* identity stands for all of them).
IsLockOf(k, l) ==
    \/ locks[k] = l
    \/ /\ locks[k] = NoLock
       /\ Unreferenced(l)
       /\ \A m \in Lock : Unreferenced(m) => l <= m

\* asyncio.Lock.acquire returns at once when the lock is free and nobody
\* waits for it.
IsFree(l) == ~locked[l] /\ fifo[l] = <<>>

-----------------------------------------------------------------------------
\* What acquire does for worker w and key k once it has the lock; reg is the
\* table _locks at that point.

FetchCached(w, k, reg) ==
    /\ k \in cache
    /\ older' = IF k = NoSession THEN older ELSE OrderWithLast(k, {})
    /\ locks' = reg
    /\ phase' = [phase EXCEPT ![w] = "holding"]
    /\ UNCHANGED cache

FetchNew(w, k, reg) ==
    /\ k \notin cache
    /\ ~NothingToEvict
    /\ cache' = (cache \ Evicted) \cup {k}
    /\ older' = OrderWithLast(k, Evicted)
    /\ locks' = [x \in Key |-> IF x \in Evicted THEN NoLock ELSE reg[x]]
    /\ phase' = [phase EXCEPT ![w] = "holding"]

FetchRaises(w, k, reg) ==
    /\ k \notin cache
    /\ NothingToEvict \/ BuildMayFail
    /\ cache' = cache \ Evicted
    /\ older' = {p \in older : p[1] \notin Evicted /\ p[2] \notin Evicted}
    /\ locks' = [x \in Key |-> IF x \in Evicted THEN NoLock ELSE reg[x]]
    /\ phase' = [phase EXCEPT ![w] = "dead"]

Fetch(w, k, reg) ==
    \/ FetchCached(w, k, reg)
    \/ FetchNew(w, k, reg)
    \/ FetchRaises(w, k, reg)

-----------------------------------------------------------------------------
\* acquire finds the session's lock free, takes it and fetches the agent.
AcquireFree(w, k) ==
    \E l \in Lock :
        /\ phase[w] = "idle"
        /\ IsLockOf(k, l)
        /\ IsFree(l)
        /\ locked' = [locked EXCEPT ![l] = TRUE]
        /\ sess' = [sess EXCEPT ![w] = k]
        /\ held' = [held EXCEPT ![w] = l]
        /\ Fetch(w, k, [locks EXCEPT ![k] = l])
        /\ UNCHANGED fifo

\* acquire finds the session's lock taken and suspends at its tail (a new
\* lock is never taken).
AcquireBusy(w, k) ==
    \E l \in Lock :
        /\ phase[w] = "idle"
        /\ locks[k] = l
        /\ ~IsFree(l)
        /\ fifo' = [fifo EXCEPT ![l] = Append(@, w)]
        /\ phase' = [phase EXCEPT ![w] = "waiting"]
        /\ sess' = [sess EXCEPT ![w] = k]
        /\ held' = [held EXCEPT ![w] = l]
        /\ UNCHANGED <<cache, older, locks, locked>>

Acquire(w, k) == AcquireFree(w, k) \/ AcquireBusy(w, k)

\* The first waiter of a released lock resumes: it takes the lock object it
\* waited for, whatever _locks now holds for its session.
Granted(w) ==
    LET l == held[w] IN
        /\ phase[w] = "waiting"
        /\ ~locked[l]
        /\ fifo[l] # <<>> /\ Head(fifo[l]) = w
        /\ locked' = [locked EXCEPT ![l] = TRUE]
        /\ fifo' = [fifo EXCEPT ![l] = Tail(@)]
        /\ Fetch(w, sess[w], locks)
        /\ UNCHANGED <<sess, held>>

\* Mutants of Release: the session's entry in _locks is cleaned up although
\* others wait for the lock; the lock is not released.
ReleaseAndForget(w) ==
    /\ phase[w] = "holding"
    /\ locks' = [locks EXCEPT ![sess[w]] = NoLock]
    /\ locked' = [locked EXCEPT ![held[w]] = FALSE]
    /\ phase' = [phase EXCEPT ![w] = "idle"]
    /\ held' = [held EXCEPT ![w] = NoLock]
    /\ sess' = [sess EXCEPT ![w] = NoSession]
    /\ UNCHANGED <<cache, older, fifo>>

ReleaseNothing(w) ==
    /\ phase[w] = "holding"
    /\ phase' = [phase EXCEPT ![w] = "idle"]
    /\ held' = [held EXCEPT ![w] = NoLock]
    /\ sess' = [sess EXCEPT ![w] = NoSession]
    /\ UNCHANGED <<cache, older, locks, locked, fifo>>

\* The worker's finally block: lock.release().
Release(w) ==
    /\ phase[w] = "holding"
    /\ locked' = [locked EXCEPT ![held[w]] = FALSE]
    /\ phase' = [phase EXCEPT ![w] = "idle"]
    /\ held' = [held EXCEPT ![w] = NoLock]
    /\ sess' = [sess EXCEPT ![w] = NoSession]
    /\ UNCHANGED <<cache, older, locks, fifo>>

PoolNext ==
    \E w \in Worker :
        \/ \E k \in Key : AcquireFree(w, k)
        \/ \E k \in Key : AcquireBusy(w, k)
        \/ Granted(w)
        \/ Release(w)

PoolSpec == PoolInit /\ [][PoolNext]_poolVars

(***************************************************************************)
(* A worker that was woken runs (the event loop is fair), and a worker     *)
(* that holds a session gives it back: every task ends, for each of its    *)
(* waits has a timeout (see TaskExecutor).                                 *)
(***************************************************************************)
PoolFairness == \A w \in Worker : WF_poolVars(Granted(w)) /\ WF_poolVars(Release(w))

FairPoolSpec == PoolSpec /\ PoolFairness

-----------------------------------------------------------------------------
\* Properties.

\* The worker is past acquire: it owns a lock object.
Inside(w) == phase[w] \in {"holding", "dead"}

\* Two workers never run a task of key k at the same time.
Serial(k) ==
    \A v, w \in Worker :
        Inside(v) /\ Inside(w) /\ sess[v] = k /\ sess[w] = k => v = w

\* The stateless agent is one object shared by all tasks without a session:
\* they run one at a time, because the eviction loop skips the key None and
\* so never drops its lock.
SharedAgentSerial == Serial(NoSession)

\* "One asyncio.Lock per session prevents race conditions": two tasks of a
\* session never run at the same time.
SessionsSerial == \A k \in Session : Serial(k)

\* The stateless agent is never evicted and the cache never holds more than
\* one entry above its limit, though entries are added after the loop.
CacheBounded ==
    /\ NoSession \in cache
    /\ Cardinality(cache) <= MaxPoolSize + 1

\* What the pool promises when every session fits in it (SessionMutex).
Mutex == INSTANCE SessionMutex WITH NoKey <- NoSession
MutexSafety == Mutex!Spec
MutexFairness == Mutex!Fairness
=============================================================================
