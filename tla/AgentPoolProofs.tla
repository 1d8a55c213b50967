-------------------------- MODULE AgentPoolProofs --------------------------
(***************************************************************************)
(* Theorems of AgentPool, for any sets of workers, sessions and lock       *)
(* objects and any pool size.                                              *)
(*                                                                         *)
(* The argument is about lock objects.  LockInv says that the table _locks *)
(* never registers one object for two keys, that an object in use which is *)
(* registered is registered for its users' session, and that an object has *)
(* at most one owner.  From it, serial execution of the tasks of a key     *)
(* needs one more fact: the users of that key all use the object that is   *)
(* registered for it (UsesRegistered).  For the key None this holds        *)
(* because the eviction loop skips it; for a session it holds as long as   *)
(* nothing is evicted, which is so when every session fits in the pool.    *)
(*                                                                         *)
(* The bound on the cache is about its order: older orders the cached      *)
(* sessions totally, so a cache that is too large has an oldest session to *)
(* evict, and an eviction leaves the others in their order (CacheInv).     *)
(***************************************************************************)
EXTENDS AgentPool, FiniteSetTheorems, WellFoundedInduction, TLAPS

\* The lock objects are not shared between keys, and have one owner each.
LockInv ==
    /\ \A j, k \in Key : locks[j] = locks[k] /\ locks[j] # NoLock => j = k
    /\ \A w \in Worker : phase[w] # "idle" => held[w] \in Lock
    /\ \A w \in Worker : \A k \in Key :
          phase[w] # "idle" /\ locks[k] = held[w] => sess[w] = k
    /\ \A w \in Worker : Inside(w) => locked[held[w]]
    /\ \A v, w \in Worker : Inside(v) /\ Inside(w) /\ held[v] = held[w] => v = w

\* Whoever uses key k uses the lock registered for it.
UsesRegistered(k) ==
    \A w \in Worker : phase[w] # "idle" /\ sess[w] = k => held[w] = locks[k]

PoolInv == PoolTypeOK /\ LockInv /\ UsesRegistered(NoSession)

-----------------------------------------------------------------------------
\* The initial state has no lock objects at all.
LEMMA InitLocks == PoolInit => PoolTypeOK /\ LockInv /\ \A k \in Key : UsesRegistered(k)
  BY LockAssumption DEF PoolInit, PoolTypeOK, LockInv, UsesRegistered, Key, Phase, Inside

\* The eviction loop deletes cached keys, never the key None.
LEMMA EvictedAreSessions ==
  ASSUME PoolTypeOK
  PROVE  Evicted \subseteq Session /\ Evicted \subseteq cache
  BY DEF PoolTypeOK, Evicted, CachedSessions, Key

\* The keys that a fetch of key k drops.
Dropped(k) == IF k \in cache THEN {} ELSE Evicted

\* What fetching the agent does to the state, whichever way it ends: the
\* worker is inside, the cache stays a set of keys, and the table loses the
\* entries of some cached sessions other than k.
FetchOutcome(w, k, reg) ==
    /\ cache' \subseteq Key
    /\ older' \subseteq Key \X Key
    /\ \E p \in {"holding", "dead"} : phase' = [phase EXCEPT ![w] = p]
    /\ \E gone \in SUBSET (Session \ {k}) :
          /\ gone \subseteq Dropped(k)
          /\ locks' = [x \in Key |-> IF x \in gone THEN NoLock ELSE reg[x]]

\* Each of the three ways to fetch an agent has that outcome.
LEMMA FetchEffect ==
  ASSUME PoolTypeOK, NEW w \in Worker, NEW k \in Key,
         NEW reg \in [Key -> Lock \cup {NoLock}], Fetch(w, k, reg)
  PROVE  FetchOutcome(w, k, reg)
  <1>1. Evicted \subseteq Session /\ Evicted \subseteq cache
    BY EvictedAreSessions
  <1>2. \A gone : OrderWithLast(k, gone) \subseteq Key \X Key
    BY DEF OrderWithLast, PoolTypeOK, CachedSessions
  <1>3. CASE FetchCached(w, k, reg)
    <2>1. locks' = [x \in Key |-> IF x \in {} THEN NoLock ELSE reg[x]]
      BY <1>3 DEF FetchCached
    <2>2. older' \subseteq Key \X Key
      BY <1>2, <1>3 DEF FetchCached, PoolTypeOK
    <2>3. \E gone \in SUBSET (Session \ {k}) :
             /\ gone \subseteq Dropped(k)
             /\ locks' = [x \in Key |-> IF x \in gone THEN NoLock ELSE reg[x]]
      <3> WITNESS {} \in SUBSET (Session \ {k})
      <3> QED
        BY <2>1
    <2>4. cache' \subseteq Key /\ phase' = [phase EXCEPT ![w] = "holding"]
      BY <1>3 DEF FetchCached, PoolTypeOK
    <2> QED
      BY <2>2, <2>3, <2>4 DEF FetchOutcome
  <1>4. CASE FetchNew(w, k, reg)
    <2>1. Evicted \in SUBSET (Session \ {k}) /\ Evicted \subseteq Dropped(k)
      BY <1>1, <1>4 DEF FetchNew, Dropped
    <2>2. older' \subseteq Key \X Key
      BY <1>2, <1>4 DEF FetchNew
    <2>3. cache' \subseteq Key
      BY <1>4 DEF FetchNew, PoolTypeOK
    <2>4. locks' = [x \in Key |-> IF x \in Evicted THEN NoLock ELSE reg[x]]
      BY <1>4 DEF FetchNew
    <2>5. phase' = [phase EXCEPT ![w] = "holding"]
      BY <1>4 DEF FetchNew
    <2> QED
      BY <2>1, <2>2, <2>3, <2>4, <2>5 DEF FetchOutcome
  <1>5. CASE FetchRaises(w, k, reg)
    <2>1. Evicted \in SUBSET (Session \ {k}) /\ Evicted \subseteq Dropped(k)
      BY <1>1, <1>5 DEF FetchRaises, Dropped
    <2>2. older' \subseteq Key \X Key
      BY <1>5 DEF FetchRaises, PoolTypeOK
    <2>3. cache' \subseteq Key
      BY <1>5 DEF FetchRaises, PoolTypeOK
    <2>4. locks' = [x \in Key |-> IF x \in Evicted THEN NoLock ELSE reg[x]]
      BY <1>5 DEF FetchRaises
    <2>5. phase' = [phase EXCEPT ![w] = "dead"]
      BY <1>5 DEF FetchRaises
    <2> QED
      BY <2>1, <2>2, <2>3, <2>4, <2>5 DEF FetchOutcome
  <1> QED
    BY <1>3, <1>4, <1>5 DEF Fetch

\* The lock acquire picks for key k belongs to no other key and is used by
\* no worker of another session.
LEMMA PickedLock ==
  ASSUME PoolTypeOK, LockInv, NEW k \in Key, NEW l \in Lock, IsLockOf(k, l)
  PROVE  /\ \A j \in Key : locks[j] = l => j = k
         /\ \A v \in Worker : phase[v] # "idle" /\ held[v] = l => sess[v] = k
         /\ locks[k] = l \/ (locks[k] = NoLock /\ \A v \in Worker : held[v] # l)
  BY LockAssumption DEF IsLockOf, Unreferenced, LockInv, PoolTypeOK

\* The table reg, in which worker w is about to enter key k with lock l, is
\* as LockInv wants it.
GoodTable(w, k, l, reg) ==
    /\ reg \in [Key -> Lock \cup {NoLock}]
    /\ \A i, j \in Key : reg[i] = reg[j] /\ reg[i] # NoLock => i = j
    /\ \A v \in Worker : \A j \in Key :
          v # w /\ phase[v] # "idle" /\ reg[j] = held[v] => sess[v] = j
    /\ \A j \in Key : reg[j] = l => j = k

\* Worker w takes the free lock l, and what acquire then does.
EnterStep(w, k, l, reg) ==
    /\ ~Inside(w) /\ ~locked[l]
    /\ locked' = [locked EXCEPT ![l] = TRUE]
    /\ sess' = [sess EXCEPT ![w] = k]
    /\ held' = [held EXCEPT ![w] = l]
    /\ Fetch(w, k, reg)

\* The users of key n other than w use the object reg holds for it, so does
\* w if it enters n, and n is not evicted.
StaysRegistered(n, w, k, l, reg) ==
    /\ n \notin Dropped(k)
    /\ n = k => reg[n] = l
    /\ \A v \in Worker : v # w /\ phase[v] # "idle" /\ sess[v] = n => held[v] = reg[n]

\* Entering a key keeps the lock invariants, and UsesRegistered of the keys
\* above.
LEMMA EnterKeepsInv ==
  ASSUME PoolTypeOK, LockInv,
         NEW w \in Worker, NEW k \in Key, NEW l \in Lock, NEW reg,
         GoodTable(w, k, l, reg), EnterStep(w, k, l, reg)
  PROVE  /\ LockInv'
         /\ \A n \in Key : StaysRegistered(n, w, k, l, reg) => UsesRegistered(n)'
  <1>0. FetchOutcome(w, k, reg)
    BY FetchEffect DEF GoodTable, EnterStep
  <1>1. PICK p \in {"holding", "dead"} : phase' = [phase EXCEPT ![w] = p]
    BY <1>0 DEF FetchOutcome
  <1>2. PICK gone \in SUBSET (Session \ {k}) :
           /\ gone \subseteq Dropped(k)
           /\ locks' = [x \in Key |-> IF x \in gone THEN NoLock ELSE reg[x]]
    BY <1>0 DEF FetchOutcome
  <1>3. \A v \in Worker : phase'[v] = IF v = w THEN p ELSE phase[v]
    BY <1>1 DEF PoolTypeOK
  <1>4. \A v \in Worker : held'[v] = IF v = w THEN l ELSE held[v]
    BY DEF PoolTypeOK, EnterStep
  <1>5. \A v \in Worker : sess'[v] = IF v = w THEN k ELSE sess[v]
    BY DEF PoolTypeOK, EnterStep
  <1>6. \A m \in Lock : locked'[m] <=> m = l \/ locked[m]
    BY DEF PoolTypeOK, EnterStep
  <1>7. \A j \in Key : locks'[j] = IF j \in gone THEN NoLock ELSE reg[j]
    BY <1>2
  <1>8. \A v \in Worker : Inside(v)' <=> v = w \/ Inside(v)
    BY <1>3 DEF Inside
  <1>9. \A v \in Worker : Inside(v) => held[v] # l
    BY DEF LockInv, EnterStep
  <1>10. \A i, j \in Key : locks'[i] = locks'[j] /\ locks'[i] # NoLock => i = j
    BY <1>7 DEF GoodTable
  <1>11. \A v \in Worker : phase'[v] # "idle" => held'[v] \in Lock
    BY <1>3, <1>4 DEF LockInv
  <1>12. ASSUME NEW v \in Worker, NEW j \in Key, phase'[v] # "idle", locks'[j] = held'[v]
         PROVE  sess'[v] = j
    <2>1. locks'[j] = reg[j]
      BY <1>7, <1>11, <1>12, LockAssumption
    <2>2. CASE v = w
      BY <1>4, <1>5, <1>12, <2>1, <2>2 DEF GoodTable
    <2>3. CASE v # w
      BY <1>3, <1>4, <1>5, <1>12, <2>1, <2>3 DEF GoodTable
    <2> QED
      BY <2>2, <2>3
  <1>13. \A v \in Worker : Inside(v)' => locked'[held'[v]]
    <2>1. \A v \in Worker : Inside(v) => held[v] \in Lock /\ locked[held[v]]
      BY DEF LockInv, Inside
    <2> QED
      BY <1>4, <1>6, <1>8, <2>1
  <1>14. \A u, v \in Worker : Inside(u)' /\ Inside(v)' /\ held'[u] = held'[v] => u = v
    BY <1>4, <1>8, <1>9 DEF LockInv
  <1>15. LockInv'
    BY <1>10, <1>11, <1>12, <1>13, <1>14 DEF LockInv
  <1>16. ASSUME NEW n \in Key, StaysRegistered(n, w, k, l, reg)
         PROVE  UsesRegistered(n)'
    <2>1. locks'[n] = reg[n]
      BY <1>2, <1>7, <1>16 DEF StaysRegistered
    <2> QED
      BY <1>3, <1>4, <1>5, <1>16, <2>1 DEF StaysRegistered, UsesRegistered
  <1> QED
    BY <1>15, <1>16

-----------------------------------------------------------------------------
\* Key n cannot lose its entry of the table in the next step.
NeverDropped(n) == \A k \in Key : n \notin Dropped(k)

\* Every step keeps the types.
LEMMA StepType ==
  ASSUME PoolTypeOK, LockInv, [PoolNext]_poolVars
  PROVE  PoolTypeOK'
  <1>1. ASSUME NEW w \in Worker, NEW k \in Key, NEW reg \in [Key -> Lock \cup {NoLock}],
               Fetch(w, k, reg)
        PROVE  /\ cache' \subseteq Key
               /\ older' \subseteq Key \X Key
               /\ locks' \in [Key -> Lock \cup {NoLock}]
               /\ phase' \in [Worker -> Phase]
    <2>1. FetchOutcome(w, k, reg)
      BY <1>1, FetchEffect
    <2>2. locks' \in [Key -> Lock \cup {NoLock}]
      BY <2>1 DEF FetchOutcome
    <2>3. phase' \in [Worker -> Phase]
      BY <2>1 DEF FetchOutcome, PoolTypeOK, Phase
    <2> QED
      BY <2>1, <2>2, <2>3 DEF FetchOutcome
  <1>2. ASSUME NEW w \in Worker, NEW k \in Key, AcquireFree(w, k)
        PROVE  PoolTypeOK'
    <2>1. PICK l \in Lock : AcquireFree(w, k)!(l)
      BY <1>2 DEF AcquireFree
    <2>2. [locks EXCEPT ![k] = l] \in [Key -> Lock \cup {NoLock}]
      BY DEF PoolTypeOK
    <2>3. /\ cache' \subseteq Key
          /\ older' \subseteq Key \X Key
          /\ locks' \in [Key -> Lock \cup {NoLock}]
          /\ phase' \in [Worker -> Phase]
      BY <1>1, <2>1, <2>2
    <2> QED
      BY <2>1, <2>3 DEF PoolTypeOK
  <1>3. ASSUME NEW w \in Worker, NEW k \in Key, AcquireBusy(w, k)
        PROVE  PoolTypeOK'
    BY <1>3 DEF AcquireBusy, PoolTypeOK, Phase
  <1>4. ASSUME NEW w \in Worker, Granted(w)
        PROVE  PoolTypeOK'
    <2>1. held[w] \in Lock
      BY <1>4 DEF Granted, LockInv
    <2>2. /\ cache' \subseteq Key
          /\ older' \subseteq Key \X Key
          /\ locks' \in [Key -> Lock \cup {NoLock}]
          /\ phase' \in [Worker -> Phase]
      BY <1>1, <1>4 DEF Granted, PoolTypeOK
    <2>3. fifo' \in [Lock -> Seq(Worker)]
      BY <1>4, <2>1 DEF Granted, PoolTypeOK
    <2> QED
      BY <1>4, <2>1, <2>2, <2>3 DEF Granted, PoolTypeOK
  <1>5. ASSUME NEW w \in Worker, Release(w)
        PROVE  PoolTypeOK'
    BY <1>5 DEF Release, PoolTypeOK, Phase, Key
  <1>6. CASE UNCHANGED poolVars
    BY <1>6 DEF poolVars, PoolTypeOK
  <1> QED
    BY <1>2, <1>3, <1>4, <1>5, <1>6 DEF PoolNext

\* Every step keeps the lock invariants, and UsesRegistered of every key
\* that cannot be dropped.
LEMMA StepLocks ==
  ASSUME PoolTypeOK, LockInv, [PoolNext]_poolVars
  PROVE  /\ LockInv'
         /\ \A n \in Key : NeverDropped(n) /\ UsesRegistered(n) => UsesRegistered(n)'
  <1> DEFINE Kept == /\ LockInv'
                     /\ \A n \in Key : NeverDropped(n) /\ UsesRegistered(n) => UsesRegistered(n)'
  <1>1. ASSUME NEW w \in Worker, NEW k \in Key, AcquireFree(w, k)
        PROVE  Kept
    <2>1. PICK l \in Lock : AcquireFree(w, k)!(l)
      BY <1>1 DEF AcquireFree
    <2> DEFINE reg == [locks EXCEPT ![k] = l]
    <2>2. /\ \A j \in Key : locks[j] = l => j = k
          /\ \A v \in Worker : phase[v] # "idle" /\ held[v] = l => sess[v] = k
          /\ locks[k] = l \/ (locks[k] = NoLock /\ \A v \in Worker : held[v] # l)
      BY <2>1, PickedLock
    <2>3. reg \in [Key -> Lock \cup {NoLock}]
      BY DEF PoolTypeOK
    <2>4. \A j \in Key : reg[j] = IF j = k THEN l ELSE locks[j]
      BY DEF PoolTypeOK
    <2>5. GoodTable(w, k, l, reg)
      <3>1. \A i, j \in Key : reg[i] = reg[j] /\ reg[i] # NoLock => i = j
        BY <2>2, <2>4 DEF LockInv
      <3>2. ASSUME NEW v \in Worker, NEW j \in Key, phase[v] # "idle", reg[j] = held[v]
            PROVE  sess[v] = j
        BY <2>2, <2>4, <3>2 DEF LockInv
      <3>3. \A j \in Key : reg[j] = l => j = k
        BY <2>2, <2>4
      <3> QED
        BY <2>3, <3>1, <3>2, <3>3 DEF GoodTable
    <2>6. EnterStep(w, k, l, reg)
      BY <2>1 DEF EnterStep, IsFree, Inside
    <2>7. ASSUME NEW n \in Key, NeverDropped(n), UsesRegistered(n)
          PROVE  StaysRegistered(n, w, k, l, reg)
      <3>1. ASSUME NEW v \in Worker, phase[v] # "idle", sess[v] = n
            PROVE  held[v] = reg[n]
        <4>1. held[v] = locks[n] /\ held[v] \in Lock
          BY <2>7, <3>1 DEF UsesRegistered, LockInv
        <4> QED
          BY <2>2, <2>4, <4>1, LockAssumption
      <3> QED
        BY <2>4, <2>7, <3>1 DEF StaysRegistered, NeverDropped
    <2> HIDE DEF reg
    <2> QED
      BY <2>5, <2>6, <2>7, EnterKeepsInv
  <1>2. ASSUME NEW w \in Worker, NEW k \in Key, AcquireBusy(w, k)
        PROVE  Kept
    <2>1. PICK l \in Lock : AcquireBusy(w, k)!(l)
      BY <1>2 DEF AcquireBusy
    <2>2. locks' = locks /\ locked' = locked
      BY <2>1
    <2>3. \A v \in Worker : phase'[v] = IF v = w THEN "waiting" ELSE phase[v]
      BY <2>1 DEF PoolTypeOK
    <2>4. \A v \in Worker : held'[v] = IF v = w THEN l ELSE held[v]
      BY <2>1 DEF PoolTypeOK
    <2>5. \A v \in Worker : sess'[v] = IF v = w THEN k ELSE sess[v]
      BY <2>1 DEF PoolTypeOK
    <2>6. locks[k] = l /\ l # NoLock
      BY <2>1, LockAssumption
    <2>7. \A v \in Worker : Inside(v)' <=> Inside(v) /\ v # w
      BY <2>1, <2>3 DEF Inside
    <2>8. \A v \in Worker : phase'[v] # "idle" => held'[v] \in Lock
      BY <2>3, <2>4 DEF LockInv
    <2>9. \A v \in Worker : \A j \in Key :
             phase'[v] # "idle" /\ locks'[j] = held'[v] => sess'[v] = j
      BY <2>2, <2>3, <2>4, <2>5, <2>6 DEF LockInv
    <2>10. \A v \in Worker : Inside(v)' => locked'[held'[v]]
      BY <2>2, <2>4, <2>7 DEF LockInv
    <2>11. \A u, v \in Worker : Inside(u)' /\ Inside(v)' /\ held'[u] = held'[v] => u = v
      BY <2>4, <2>7 DEF LockInv
    <2>12. \A n \in Key : UsesRegistered(n) => UsesRegistered(n)'
      BY <2>2, <2>3, <2>4, <2>5, <2>6 DEF UsesRegistered
    <2> QED
      BY <2>2, <2>8, <2>9, <2>10, <2>11, <2>12 DEF LockInv
  <1>3. ASSUME NEW w \in Worker, Granted(w)
        PROVE  Kept
    <2>1. held[w] \in Lock /\ sess[w] \in Key /\ phase[w] = "waiting"
      BY <1>3 DEF Granted, LockInv, PoolTypeOK
    <2>2. GoodTable(w, sess[w], held[w], locks)
      BY <2>1, LockAssumption DEF GoodTable, LockInv, PoolTypeOK
    <2>3. sess' = [sess EXCEPT ![w] = sess[w]] /\ held' = [held EXCEPT ![w] = held[w]]
      BY <1>3 DEF Granted, PoolTypeOK
    <2>4. EnterStep(w, sess[w], held[w], locks)
      BY <1>3, <2>1, <2>3 DEF Granted, EnterStep, Inside
    <2>5. ASSUME NEW n \in Key, NeverDropped(n), UsesRegistered(n)
          PROVE  StaysRegistered(n, w, sess[w], held[w], locks)
      BY <2>1, <2>5 DEF StaysRegistered, NeverDropped, UsesRegistered
    <2> QED
      BY <2>1, <2>2, <2>4, <2>5, EnterKeepsInv
  <1>4. ASSUME NEW w \in Worker, Release(w)
        PROVE  Kept
    <2>1. locks' = locks
      BY <1>4 DEF Release
    <2>2. \A v \in Worker : phase'[v] = IF v = w THEN "idle" ELSE phase[v]
      BY <1>4 DEF Release, PoolTypeOK
    <2>3. \A v \in Worker : v # w => held'[v] = held[v] /\ sess'[v] = sess[v]
      BY <1>4 DEF Release, PoolTypeOK
    <2>4. \A v \in Worker : Inside(v)' <=> Inside(v) /\ v # w
      BY <2>2 DEF Inside
    <2>5. \A v \in Worker : Inside(v)' => locked'[held'[v]]
      <3>1. \A v \in Worker : Inside(v) /\ v # w => held[v] # held[w] /\ held[v] \in Lock
        BY <1>4 DEF Release, LockInv, Inside
      <3>2. \A m \in Lock : m # held[w] => locked'[m] = locked[m]
        BY <1>4 DEF Release, PoolTypeOK
      <3> QED
        BY <2>3, <2>4, <3>1, <3>2 DEF LockInv
    <2>6. LockInv'
      BY <2>1, <2>2, <2>3, <2>4, <2>5 DEF LockInv
    <2>7. \A n \in Key : UsesRegistered(n) => UsesRegistered(n)'
      BY <2>1, <2>2, <2>3 DEF UsesRegistered
    <2> QED
      BY <2>6, <2>7
  <1>5. CASE UNCHANGED poolVars
    BY <1>5 DEF poolVars, LockInv, UsesRegistered, Inside
  <1> QED
    BY <1>1, <1>2, <1>3, <1>4, <1>5 DEF PoolNext

\* The invariant that serves the key None, and keeps itself.
LEMMA PoolInitInv == PoolInit => PoolInv
  BY InitLocks DEF PoolInv, Key

\* Every step preserves the invariant of the locks.
LEMMA PoolInvStep ==
  ASSUME PoolInv, [PoolNext]_poolVars
  PROVE  PoolInv'
  <1>1. NeverDropped(NoSession)
    BY EvictedAreSessions, SessionAssumption DEF PoolInv, NeverDropped, Dropped
  <1> QED
    BY <1>1, StepType, StepLocks DEF PoolInv, Key

\* If everybody who uses key k uses one lock object, they run one at a time.
LEMMA RegisteredSerial ==
  ASSUME LockInv, NEW k \in Key, UsesRegistered(k)
  PROVE  Serial(k)
  BY DEF LockInv, UsesRegistered, Serial, Inside

-----------------------------------------------------------------------------
\* The types are right in every behaviour of the pool.
THEOREM TypeCorrect == PoolSpec => []PoolTypeOK
  <1>1. PoolInit => PoolTypeOK /\ LockInv
    BY InitLocks
  <1>2. PoolTypeOK /\ LockInv /\ [PoolNext]_poolVars => (PoolTypeOK /\ LockInv)'
    BY StepType, StepLocks
  <1> QED
    BY <1>1, <1>2, PTL DEF PoolSpec

\* Whatever the size of the pool, and though build_agent may raise, the
\* tasks without a session never run the shared agent at the same time.
THEOREM SharedAgentIsSerial == PoolSpec => []SharedAgentSerial
  <1>1. PoolInit => PoolInv
    BY PoolInitInv
  <1>2. PoolInv /\ [PoolNext]_poolVars => PoolInv'
    BY PoolInvStep
  <1>3. PoolInv => SharedAgentSerial
    BY RegisteredSerial DEF PoolInv, SharedAgentSerial, Key
  <1> QED
    BY <1>1, <1>2, <1>3, PTL DEF PoolSpec

-----------------------------------------------------------------------------
\* The order of the sessions in the cache is one: it relates cached sessions
\* only, no session to itself, and it is transitive.
OrderInv ==
    /\ older \subseteq CachedSessions \X CachedSessions
    /\ \A s \in CachedSessions : <<s, s>> \notin older
    /\ \A r, s, t \in CachedSessions :
          <<r, s>> \in older /\ <<s, t>> \in older => <<r, t>> \in older

CacheInv == OrderInv /\ IsFiniteSet(cache) /\ CacheBounded

\* The sessions used less recently than s.
Before(s) == {x \in CachedSessions : <<x, s>> \in older}

\* A set of numbers that is not empty has a least one.
LEMMA LeastNumber ==
  ASSUME NEW T \in SUBSET Nat, T # {}
  PROVE  \E x \in T : \A y \in T : x <= y
  <1>1. PICK x \in T : \A y \in T : ~ (<<y, x>> \in OpToRel(<, Nat))
    BY WFMin, NatLessThanWellFounded
  <1>2. \A y \in T : ~(y < x)
    BY <1>1 DEF OpToRel
  <1> QED
    BY <1>2

\* Some cached session is the least recently used one.
LEMMA OldestSession ==
  ASSUME OrderInv, IsFiniteSet(cache), CachedSessions # {}
  PROVE  \E s \in CachedSessions : Before(s) = {}
  <1>1. \A s : IsFiniteSet(Before(s)) /\ Cardinality(Before(s)) \in Nat
    BY FS_Subset, FS_CardinalityType DEF Before, CachedSessions
  <1> DEFINE Ranks == {Cardinality(Before(s)) : s \in CachedSessions}
  <1>2. PICK n \in Ranks : \A m \in Ranks : n <= m
    BY <1>1, LeastNumber
  <1>3. PICK s \in CachedSessions : n = Cardinality(Before(s))
    BY <1>2
  <1>4. ASSUME NEW x \in Before(s)
        PROVE  FALSE
    <2>1. x \in CachedSessions /\ <<x, s>> \in older
      BY DEF Before
    <2>2. Before(x) \in SUBSET Before(s)
      BY <2>1 DEF Before, OrderInv
    <2>3. x \notin Before(x)
      BY <2>1 DEF Before, OrderInv
    <2>4. /\ Cardinality(Before(x)) <= Cardinality(Before(s))
          /\ Cardinality(Before(x)) # Cardinality(Before(s))
      BY <1>1, <2>2, <2>3, FS_Subset
    <2>5. Cardinality(Before(s)) <= Cardinality(Before(x))
      BY <1>2, <1>3, <2>1
    <2> HIDE DEF Ranks
    <2> QED
      BY <1>1, <2>4, <2>5
  <1> QED
    BY <1>3, <1>4

\* The loop makes room for the entry that follows it: a cache that is over
\* its limit and has a session to evict loses one.
LEMMA EvictionMakesRoom ==
  ASSUME CacheInv, ~NothingToEvict
  PROVE  /\ IsFiniteSet(cache \ Evicted)
         /\ Cardinality(cache \ Evicted) <= MaxPoolSize
         /\ Evicted \subseteq CachedSessions
  <1>1. /\ IsFiniteSet(cache) /\ Cardinality(cache) \in Nat
        /\ Cardinality(cache) <= MaxPoolSize + 1 /\ NoSession \in cache
    BY FS_CardinalityType DEF CacheInv, CacheBounded
  <1>2. IsFiniteSet(cache \ Evicted) /\ Cardinality(cache \ Evicted) <= Cardinality(cache)
    BY <1>1, FS_Subset
  <1>3. IsFiniteSet(CachedSessions) /\ Cardinality(CachedSessions) = Cardinality(cache) - 1
    BY <1>1, FS_RemoveElement DEF CachedSessions
  <1>4. Cardinality(cache \ Evicted) \in Nat
    BY <1>2, FS_CardinalityType
  <1>5. ASSUME Cardinality(cache) = MaxPoolSize + 1
        PROVE  Cardinality(cache \ Evicted) <= MaxPoolSize
    <2>1. Cardinality(CachedSessions) # 0
      BY <1>1, <1>3, <1>5, PoolSizeAssumption DEF NothingToEvict
    <2>2. CachedSessions # {}
      BY <2>1, FS_EmptySet
    <2>3. PICK s \in CachedSessions : Before(s) = {}
      BY <2>2, OldestSession DEF CacheInv
    <2>4. Cardinality(Before(s)) + MaxPoolSize < Cardinality(cache)
      BY <1>5, <2>3, FS_EmptySet, PoolSizeAssumption
    <2>5. s \in Evicted /\ s \in cache
      BY <2>4 DEF Evicted, Before, CachedSessions
    <2>6. Cardinality(cache \ {s}) = MaxPoolSize /\ IsFiniteSet(cache \ {s})
      BY <1>1, <1>5, <2>5, FS_RemoveElement, PoolSizeAssumption
    <2>7. cache \ Evicted \in SUBSET (cache \ {s})
      BY <2>5
    <2> QED
      BY <2>6, <2>7, FS_Subset
  <1>6. Cardinality(cache) # MaxPoolSize + 1 => Cardinality(cache) <= MaxPoolSize
    BY <1>1, PoolSizeAssumption
  <1>7. Cardinality(cache \ Evicted) <= MaxPoolSize
    BY <1>1, <1>2, <1>4, <1>5, <1>6, PoolSizeAssumption
  <1> QED
    BY <1>2, <1>7 DEF Evicted

\* Putting a session at the end of the order keeps it one, and so does
\* dropping sessions from it.
LEMMA LastKeepsOrder ==
  ASSUME OrderInv, NEW k, k # NoSession, NEW gone,
         cache' = (cache \ gone) \cup {k}, older' = OrderWithLast(k, gone)
  PROVE  OrderInv'
  <1>1. CachedSessions' = (CachedSessions \ gone) \cup {k}
    BY DEF CachedSessions
  <1>2. \A x, y : <<x, y>> \in older' <=>
           \/ <<x, y>> \in older /\ x \notin gone \cup {k} /\ y \notin gone \cup {k}
           \/ x \in CachedSessions \ (gone \cup {k}) /\ y = k
    BY DEF OrderWithLast
  <1>3. older' \subseteq CachedSessions' \X CachedSessions'
    BY <1>1 DEF OrderWithLast, OrderInv
  <1>4. \A s \in CachedSessions' : <<s, s>> \notin older'
    BY <1>1, <1>2 DEF OrderInv
  <1>5. \A r, s, t \in CachedSessions' :
           <<r, s>> \in older' /\ <<s, t>> \in older' => <<r, t>> \in older'
    BY <1>1, <1>2 DEF OrderInv
  <1> QED
    BY <1>3, <1>4, <1>5 DEF OrderInv

\* What an eviction leaves is ordered as it was.
LEMMA DroppingKeepsOrder ==
  ASSUME OrderInv, NEW gone, cache' = cache \ gone,
         older' = {p \in older : p[1] \notin gone /\ p[2] \notin gone}
  PROVE  OrderInv'
  <1>1. CachedSessions' = CachedSessions \ gone
    BY DEF CachedSessions
  <1>2. \A x, y : <<x, y>> \in older' <=> <<x, y>> \in older /\ x \notin gone /\ y \notin gone
    OBVIOUS
  <1>3. older' \subseteq CachedSessions' \X CachedSessions'
    BY <1>1 DEF OrderInv
  <1> QED
    BY <1>1, <1>2, <1>3 DEF OrderInv

\* Fetching an agent keeps the cache within its bound, whichever way it ends.
LEMMA FetchKeepsCache ==
  ASSUME CacheInv, NEW w, NEW k \in Key, NEW reg, Fetch(w, k, reg)
  PROVE  CacheInv'
  <1>0. OrderInv /\ IsFiniteSet(cache) /\ NoSession \in cache
        /\ Cardinality(cache) \in Nat /\ Cardinality(cache) <= MaxPoolSize + 1
    BY FS_CardinalityType DEF CacheInv, CacheBounded
  <1>1. CASE FetchCached(w, k, reg)
    <2>1. cache' = cache
      BY <1>1 DEF FetchCached
    <2>2. OrderInv'
      <3>1. CASE k = NoSession
        BY <1>0, <1>1, <2>1, <3>1 DEF FetchCached, OrderInv, CachedSessions
      <3>2. CASE k # NoSession
        <4>1. cache' = (cache \ {}) \cup {k} /\ older' = OrderWithLast(k, {})
          BY <1>1, <2>1, <3>2 DEF FetchCached
        <4> QED
          BY <1>0, <3>2, <4>1, LastKeepsOrder
      <3> QED
        BY <3>1, <3>2
    <2> QED
      BY <1>0, <2>1, <2>2 DEF CacheInv, CacheBounded
  <1>2. CASE FetchNew(w, k, reg)
    <2>1. k # NoSession
      BY <1>0, <1>2 DEF FetchNew
    <2>2. OrderInv'
      BY <1>0, <1>2, <2>1, LastKeepsOrder DEF FetchNew
    <2>3. /\ IsFiniteSet(cache \ Evicted) /\ Cardinality(cache \ Evicted) <= MaxPoolSize
          /\ Evicted \subseteq CachedSessions
      BY <1>2, EvictionMakesRoom DEF FetchNew
    <2>4. cache' = (cache \ Evicted) \cup {k}
      BY <1>2 DEF FetchNew
    <2>5. /\ IsFiniteSet(cache')
          /\ Cardinality(cache') \in {Cardinality(cache \ Evicted), Cardinality(cache \ Evicted) + 1}
      BY <2>3, <2>4, FS_AddElement
    <2>6. Cardinality(cache \ Evicted) \in Nat
      BY <2>3, FS_CardinalityType
    <2>7. Cardinality(cache') <= MaxPoolSize + 1
      BY <2>3, <2>5, <2>6, PoolSizeAssumption
    <2>8. NoSession \in cache'
      BY <1>0, <2>3, <2>4 DEF CachedSessions
    <2> QED
      BY <2>2, <2>5, <2>7, <2>8 DEF CacheInv, CacheBounded
  <1>3. CASE FetchRaises(w, k, reg)
    <2>1. cache' = cache \ Evicted
      BY <1>3 DEF FetchRaises
    <2>2. OrderInv'
      BY <1>0, <1>3, DroppingKeepsOrder DEF FetchRaises
    <2>3. IsFiniteSet(cache') /\ Cardinality(cache') <= Cardinality(cache)
      BY <1>0, <2>1, FS_Subset
    <2>4. Cardinality(cache') \in Nat
      BY <2>3, FS_CardinalityType
    <2>5. Cardinality(cache') <= MaxPoolSize + 1
      BY <1>0, <2>3, <2>4, PoolSizeAssumption
    <2>6. NoSession \in cache'
      BY <1>0, <2>1 DEF Evicted, CachedSessions
    <2> QED
      BY <2>2, <2>3, <2>5, <2>6 DEF CacheInv, CacheBounded
  <1> QED
    BY <1>1, <1>2, <1>3 DEF Fetch

\* The initial cache is ordered and small enough.
LEMMA CacheInitInv == PoolInit => CacheInv
  <1> SUFFICES ASSUME PoolInit
               PROVE  CacheInv
    OBVIOUS
  <1>1. cache = {NoSession} /\ older = {}
    BY DEF PoolInit
  <1>2. IsFiniteSet(cache) /\ Cardinality(cache) = 1
    BY <1>1, FS_Singleton
  <1>3. CacheBounded
    BY <1>1, <1>2, PoolSizeAssumption DEF CacheBounded
  <1> QED
    BY <1>1, <1>2, <1>3 DEF CacheInv, OrderInv

\* Every step keeps it so.
LEMMA CacheInvStep ==
  ASSUME PoolTypeOK, CacheInv, [PoolNext]_poolVars
  PROVE  CacheInv'
  <1>1. ASSUME cache' = cache, older' = older
        PROVE  CacheInv'
    BY <1>1 DEF CacheInv, CacheBounded, OrderInv, CachedSessions
  <1>2. ASSUME NEW w \in Worker, NEW k \in Key, AcquireFree(w, k)
        PROVE  CacheInv'
    <2>1. \E l \in Lock : Fetch(w, k, [locks EXCEPT ![k] = l])
      BY <1>2 DEF AcquireFree
    <2> QED
      BY <2>1, FetchKeepsCache
  <1>3. ASSUME NEW w \in Worker, Granted(w)
        PROVE  CacheInv'
    <2>1. Fetch(w, sess[w], locks) /\ sess[w] \in Key
      BY <1>3 DEF Granted, PoolTypeOK
    <2> QED
      BY <2>1, FetchKeepsCache
  <1>4. ASSUME NEW w \in Worker, NEW k \in Key, AcquireBusy(w, k)
        PROVE  CacheInv'
    BY <1>1, <1>4 DEF AcquireBusy
  <1>5. ASSUME NEW w \in Worker, Release(w)
        PROVE  CacheInv'
    BY <1>1, <1>5 DEF Release
  <1>6. CASE UNCHANGED poolVars
    BY <1>1, <1>6 DEF poolVars
  <1> QED
    BY <1>2, <1>3, <1>4, <1>5, <1>6 DEF PoolNext

\* The cache never holds more than one entry above its limit and never loses
\* the shared agent: one eviction per new entry is enough, because the cache
\* is never more than one over when the loop starts.
THEOREM CacheIsBounded == PoolSpec => []CacheBounded
  <1>1. CacheInv => CacheBounded
    BY DEF CacheInv
  <1> QED
    BY <1>1, CacheInitInv, CacheInvStep, TypeCorrect, PTL DEF PoolSpec

-----------------------------------------------------------------------------
\* A pool that every session fits in.
Roomy == IsFiniteSet(Session) /\ Cardinality(Session) <= MaxPoolSize

RoomyInv == PoolTypeOK /\ LockInv /\ \A k \in Key : UsesRegistered(k)

\* A roomy pool evicts nothing: when k is not cached, the cache holds at
\* most the other sessions and the shared agent.
LEMMA RoomyKeepsAll ==
  ASSUME Roomy, PoolTypeOK, NEW n \in Key
  PROVE  NeverDropped(n)
  <1> SUFFICES ASSUME NEW k \in Key, n \in Dropped(k)
               PROVE  FALSE
    BY DEF NeverDropped
  <1>1. k \notin cache /\ n \in Evicted
    BY DEF Dropped
  <1>2. IsFiniteSet(Session) /\ Cardinality(Session) \in Nat /\ Cardinality(Session) <= MaxPoolSize
    BY FS_CardinalityType DEF Roomy
  <1>3. IsFiniteSet(Key) /\ Cardinality(Key) = Cardinality(Session) + 1
    BY <1>2, FS_AddElement, SessionAssumption DEF Key
  <1>4. IsFiniteSet(Key \ {k}) /\ Cardinality(Key \ {k}) = Cardinality(Key) - 1
    BY <1>3, FS_RemoveElement
  <1>5. cache \subseteq Key \ {k}
    BY <1>1 DEF PoolTypeOK
  <1>6. IsFiniteSet(cache) /\ Cardinality(cache) <= Cardinality(Key \ {k})
    BY <1>4, <1>5, FS_Subset
  <1>7. Cardinality(cache) \in Nat /\ Cardinality(cache) <= MaxPoolSize
    BY <1>2, <1>3, <1>4, <1>6, FS_CardinalityType, PoolSizeAssumption
  <1> DEFINE before == {x \in CachedSessions : <<x, n>> \in older}
  <1>8. IsFiniteSet(before)
    BY <1>6, FS_Subset DEF CachedSessions
  <1>9. Cardinality(before) \in Nat
    BY <1>8, FS_CardinalityType
  <1>10. Cardinality(before) + MaxPoolSize < Cardinality(cache)
    BY <1>1 DEF Evicted
  <1> HIDE DEF before
  <1> QED
    BY <1>7, <1>9, <1>10, PoolSizeAssumption

\* In a roomy pool everybody always uses the lock registered for its key.
LEMMA RoomyInvariant == ASSUME Roomy PROVE PoolSpec => []RoomyInv
  <1>1. PoolInit => RoomyInv
    BY InitLocks DEF RoomyInv
  <1>2. RoomyInv /\ [PoolNext]_poolVars => RoomyInv'
    <2> SUFFICES ASSUME RoomyInv, [PoolNext]_poolVars
                 PROVE  RoomyInv'
      OBVIOUS
    <2>1. \A n \in Key : NeverDropped(n)
      BY RoomyKeepsAll DEF RoomyInv
    <2> QED
      BY <2>1, StepType, StepLocks DEF RoomyInv
  <1> QED
    BY <1>1, <1>2, PTL DEF PoolSpec

\* When every session fits in the pool, the tasks of a session run one at a
\* time, for any number of workers and whether or not build_agent raises.
THEOREM SessionsAreSerial == ASSUME Roomy PROVE PoolSpec => []SessionsSerial
  <1>1. RoomyInv => SessionsSerial
    BY RegisteredSerial DEF RoomyInv, SessionsSerial, Key
  <1> QED
    BY <1>1, RoomyInvariant, PTL

-----------------------------------------------------------------------------
\* A worker that gets the free lock of key k finds nobody inside k.
LEMMA NobodyInside ==
  ASSUME RoomyInv, NEW k \in Key, NEW l \in Lock, ~locked[l], locks[k] \in {l, NoLock}
  PROVE  ~Mutex!Busy(k)
  BY LockAssumption DEF RoomyInv, LockInv, UsesRegistered, Mutex!Busy, Inside

\* Every step of a roomy pool is a step of the abstract mutex, or leaves its
\* state alone.
LEMMA PoolStepRefines ==
  ASSUME RoomyInv, [PoolNext]_poolVars
  PROVE  [Mutex!Next]_(Mutex!mutexVars)
  <1>0. PoolTypeOK /\ LockInv
    BY DEF RoomyInv
  <1>1. ASSUME NEW w \in Worker, NEW k \in Key, AcquireFree(w, k)
        PROVE  Mutex!Take(w, k)
    <2>1. PICK l \in Lock : AcquireFree(w, k)!(l)
      BY <1>1 DEF AcquireFree
    <2>2. [locks EXCEPT ![k] = l] \in [Key -> Lock \cup {NoLock}]
      BY <1>0 DEF PoolTypeOK
    <2>3. \E p \in {"holding", "dead"} : phase' = [phase EXCEPT ![w] = p]
      BY <1>0, <2>1, <2>2, FetchEffect DEF FetchOutcome
    <2>4. ~Mutex!Busy(k)
      BY <2>1, NobodyInside DEF IsFree, IsLockOf
    <2> QED
      BY <2>1, <2>3, <2>4 DEF Mutex!Take
  <1>2. ASSUME NEW w \in Worker, NEW k \in Key, AcquireBusy(w, k)
        PROVE  Mutex!Ask(w, k)
    BY <1>2 DEF AcquireBusy, Mutex!Ask
  <1>3. ASSUME NEW w \in Worker, Granted(w)
        PROVE  Mutex!Grant(w)
    <2>1. held[w] \in Lock /\ sess[w] \in Key /\ phase[w] = "waiting"
      BY <1>0, <1>3 DEF Granted, LockInv, PoolTypeOK
    <2>2. \E p \in {"holding", "dead"} : phase' = [phase EXCEPT ![w] = p]
      BY <1>0, <1>3, <2>1, FetchEffect DEF FetchOutcome, Granted, PoolTypeOK
    <2>3. locks[sess[w]] = held[w]
      BY <2>1 DEF RoomyInv, UsesRegistered
    <2>4. ~Mutex!Busy(sess[w])
      BY <1>3, <2>1, <2>3, NobodyInside DEF Granted
    <2> QED
      BY <1>3, <2>1, <2>2, <2>4 DEF Granted, Mutex!Grant
  <1>4. ASSUME NEW w \in Worker, Release(w)
        PROVE  Mutex!GiveBack(w)
    BY <1>4 DEF Release, Mutex!GiveBack
  <1>5. CASE UNCHANGED poolVars
    BY <1>5 DEF poolVars, Mutex!mutexVars
  <1> QED
    BY <1>1, <1>2, <1>3, <1>4, <1>5 DEF PoolNext, Mutex!Next

\* A pool that every session fits in implements the abstract mutex.
THEOREM PoolImplementsMutex == ASSUME Roomy PROVE PoolSpec => MutexSafety
  <1>1. PoolInit => Mutex!Init
    BY DEF PoolInit, Mutex!Init
  <1>2. RoomyInv /\ [PoolNext]_poolVars => [Mutex!Next]_(Mutex!mutexVars)
    BY PoolStepRefines
  <1> QED
    BY <1>1, <1>2, RoomyInvariant, PTL DEF PoolSpec, MutexSafety, Mutex!Spec
=============================================================================
