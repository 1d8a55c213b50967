-------------------------- MODULE SessionForkProofs --------------------------
(***************************************************************************)
(* Theorems of SessionFork, for any number of forks with one destination,  *)
(* any fork points and any number of messages.                             *)
(*                                                                         *)
(* The first fork to make the destination is the only one that goes on,    *)
(* because nothing removes it (OneWorks).  Hence the destination is what   *)
(* that fork has copied so far (BranchIsItsWork).                          *)
(***************************************************************************)
EXTENDS SessionFork, FiniteSetTheorems, TLAPS

\* A fork that has made the destination and was not killed.
Works(f) == fork[f].at \in {"list", "copy", "trim", "reset", "done"}

\* There is one at most, and then there is a destination.
OneWorks ==
    /\ \A f \in Fork : Works(f) => branch.there
    /\ \A f, g \in Fork : Works(f) /\ Works(g) => f = g

\* What fork f has made of the destination, by where it is: the messages it
\* listed are copied or to be copied; then they are the first ones up to the
\* fork point, as many as it counted.
Work(f) ==
    /\ fork[f].at = "list" => branch.messages = {}
    /\ fork[f].at = "copy" =>
          \E n \in Nat : branch.messages \cup fork[f].todo = 1..n
    /\ fork[f].at \in {"trim", "reset", "done"} => branch.id # "source"
    /\ fork[f].at = "trim" => \E n \in Nat : branch.messages = 1..n
    /\ fork[f].at \in {"reset", "done"} =>
          branch.messages = 1..fork[f].kept /\ fork[f].kept <= fork[f].keep
    /\ fork[f].at = "done" => branch.state # "interrupted"

BranchIsItsWork == \A f \in Fork : Work(f)

ForkInv == ForkTypeOK /\ OneWorks /\ BranchIsItsWork

-----------------------------------------------------------------------------
\* What trimming to fork point k keeps of the first n messages.
Kept(n, k) == {m \in 1..n : m <= k}

\* The first messages up to a fork point are numbered without gaps, and the
\* last number is how many they are.
LEMMA FirstMessages ==
  ASSUME NEW n \in Nat, NEW k \in Nat
  PROVE  Kept(n, k) = 1..Cardinality(Kept(n, k)) /\ Cardinality(Kept(n, k)) <= k
  <1>1. CASE n <= k
    <2>1. Kept(n, k) = 1..n
      BY <1>1 DEF Kept
    <2>2. Cardinality(1..n) = n
      <3>1. Cardinality(1..n) = IF 1 > n THEN 0 ELSE n - 1 + 1
        BY FS_Interval
      <3> QED
        BY <3>1
    <2>3. Cardinality(Kept(n, k)) = n
      BY <2>1, <2>2
    <2>4. Kept(n, k) = 1..Cardinality(Kept(n, k))
      BY ONLY <2>1, <2>3
    <2> QED
      BY <1>1, <2>3, <2>4
  <1>2. CASE k < n
    <2>1. Kept(n, k) = 1..k
      BY <1>2 DEF Kept
    <2>2. Cardinality(1..k) = k
      <3>1. Cardinality(1..k) = IF 1 > k THEN 0 ELSE k - 1 + 1
        BY FS_Interval
      <3> QED
        BY <3>1
    <2>3. Cardinality(Kept(n, k)) = k
      BY <2>1, <2>2
    <2>4. Kept(n, k) = 1..Cardinality(Kept(n, k))
      BY ONLY <2>1, <2>3
    <2> QED
      BY <2>3, <2>4
  <1> QED
    BY <1>1, <1>2

\* A step of fork f leaves the other forks where they are.
Alone(f) == \A g \in Fork \ {f} : fork'[g] = fork[g]

\* A step of a fork that leaves the destination alone and does not come past
\* the making of it breaks nothing.
LEMMA IdleStep ==
  ASSUME ForkInv, ForkTypeOK', UNCHANGED branch, NEW f \in Fork, Alone(f), ~Works(f)'
  PROVE  ForkInv'
  <1>1. \A g \in Fork : Works(g)' => Works(g) /\ fork'[g] = fork[g]
    BY DEF Alone, Works
  <1>2. OneWorks'
    BY <1>1 DEF ForkInv, OneWorks
  <1>3. ASSUME NEW g \in Fork PROVE Work(g)'
    <2>1. CASE Works(g)'
      BY <1>1, <2>1 DEF ForkInv, BranchIsItsWork, Work
    <2>2. CASE ~Works(g)'
      BY <2>2 DEF Work, Works
    <2> QED
      BY <2>1, <2>2
  <1> QED
    BY <1>2, <1>3 DEF ForkInv, BranchIsItsWork

\* A step of the fork that works on the destination, or makes it where there
\* is none, need only be right about its own work.
LEMMA WorkStep ==
  ASSUME ForkInv, ForkTypeOK', NEW f \in Fork, Alone(f), Works(f) \/ ~branch.there,
         branch'.there, Work(f)'
  PROVE  ForkInv'
  <1>1. \A g \in Fork \ {f} : ~Works(g) /\ ~Works(g)'
    BY DEF ForkInv, OneWorks, Alone, Works
  <1>2. OneWorks'
    BY <1>1 DEF OneWorks
  <1>3. \A g \in Fork \ {f} : Work(g)'
    BY <1>1 DEF Work, Works
  <1> QED
    BY <1>2, <1>3 DEF ForkInv, BranchIsItsWork

-----------------------------------------------------------------------------
\* The types hold at first and are kept.
LEMMA ForkTypesInit == ForkInit => ForkTypeOK
  <1> SUFFICES ASSUME ForkInit PROVE ForkTypeOK
    OBVIOUS
  <1>1. branch \in BranchRecord
    BY DEF ForkInit, NoBranch, BranchRecord, IdFile, StateFile
  <1>2. [at |-> "idle", keep |-> 0, todo |-> {}, kept |-> 0] \in ForkRecord
    BY DEF ForkRecord
  <1>3. messages \in 0..MaxMessages
    BY ForkAssumption DEF ForkInit
  <1>4. source \in SourceRecord
    BY DEF ForkInit, NoSource, SourceRecord, IdFile, StateFile
  <1> QED
    BY <1>1, <1>2, <1>3, <1>4 DEF ForkInit, ForkTypeOK

\* Every step keeps the types.
LEMMA ForkTypesKept == ForkTypeOK /\ [ForkNext]_forkVars => ForkTypeOK'
  <1> SUFFICES ASSUME ForkTypeOK, [ForkNext]_forkVars PROVE ForkTypeOK'
    OBVIOUS
  <1>1. /\ messages \in 0..MaxMessages /\ source \in SourceRecord
        /\ branch \in BranchRecord /\ fork \in [Fork -> ForkRecord]
    BY DEF ForkTypeOK
  <1>2. CASE AgentWrites
    <2>1. messages' \in 0..MaxMessages
      BY <1>1, <1>2, ForkAssumption DEF AgentWrites
    <2>2. source' \in SourceRecord
      <3>1. CASE source' = source
        BY <1>1, <3>1
      <3>2. CASE source' = [source EXCEPT !.there = TRUE]
        BY <1>1, <3>2 DEF SourceRecord
      <3>3. ASSUME NEW id \in {"malformed", "source"}, source' = [source EXCEPT !.id = id]
            PROVE  source' \in SourceRecord
        BY <1>1, <3>3 DEF SourceRecord, IdFile
      <3>4. ASSUME NEW state \in StateFile, source' = [source EXCEPT !.state = state]
            PROVE  source' \in SourceRecord
        BY <1>1, <3>4 DEF SourceRecord
      <3> QED
        BY <1>2, <3>1, <3>2, <3>3, <3>4 DEF AgentWrites
    <2> QED
      BY <1>1, <1>2, <2>1, <2>2 DEF AgentWrites, ForkTypeOK
  <1>3. ASSUME NEW f \in Fork, ForkStep(f)
        PROVE  ForkTypeOK'
    <2>1. fork[f] \in ForkRecord
      BY <1>1
    <2>2. ASSUME NEW to \in {"checked", "error", "list", "trim", "done", "killed"},
                 fork' = [fork EXCEPT ![f].at = to]
          PROVE  fork' \in [Fork -> ForkRecord]
      <3>1. [fork[f] EXCEPT !.at = to] \in ForkRecord
        BY <2>1 DEF ForkRecord
      <3>2. fork' = [fork EXCEPT ![f] = [fork[f] EXCEPT !.at = to]]
        BY <2>2
      <3> QED
        BY <1>1, <3>1, <3>2
    <2>3. CASE \E keep \in ForkPoints : Check(f, keep)
      <3>1. PICK keep \in ForkPoints : Check(f, keep)
        BY <2>3
      <3> DEFINE to == IF source.there /\ ~branch.there THEN "checked" ELSE "error"
      <3>2. [fork[f] EXCEPT !.at = to, !.keep = keep] \in ForkRecord
        BY <2>1 DEF ForkRecord
      <3>3. fork' = [fork EXCEPT ![f] = [fork[f] EXCEPT !.at = to, !.keep = keep]]
        BY <3>1 DEF Check
      <3> HIDE DEF to
      <3>4. fork' \in [Fork -> ForkRecord]
        BY <1>1, <3>2, <3>3
      <3> QED
        BY <1>1, <3>1, <3>4 DEF Check, ForkTypeOK
    <2>4. CASE MakeBranch(f)
      <3>1. fork' \in [Fork -> ForkRecord]
        BY <2>2, <2>4 DEF MakeBranch, Moves
      <3>2. [NoBranch EXCEPT !.there = TRUE, !.id = source.id] \in BranchRecord
        <4>1. source.id \in IdFile
          BY <1>1 DEF SourceRecord
        <4> QED
          BY <4>1 DEF NoBranch, BranchRecord, StateFile
      <3>3. branch' \in BranchRecord
        BY <1>1, <2>4, <3>2 DEF MakeBranch
      <3> QED
        BY <1>1, <2>4, <3>1, <3>3 DEF MakeBranch, ForkTypeOK
    <2>5. CASE ListMessages(f)
      <3>1. 1..messages \in SUBSET (1..MaxMessages)
        BY <1>1, ForkAssumption
      <3>2. fork' \in [Fork -> ForkRecord]
        BY <1>1, <2>1, <2>5, <3>1 DEF ListMessages, ForkRecord
      <3>3. branch' \in BranchRecord
        <4>1. source.state \in StateFile
          BY <1>1 DEF SourceRecord
        <4> QED
          BY <1>1, <2>5, <4>1 DEF ListMessages, BranchRecord
      <3> QED
        BY <1>1, <2>5, <3>2, <3>3 DEF ListMessages, ForkTypeOK
    <2>6. CASE CopyMessage(f)
      <3>1. fork' \in [Fork -> ForkRecord]
        BY <1>1, <2>1, <2>6 DEF CopyMessage, ForkRecord
      <3>2. branch' \in BranchRecord
        BY <1>1, <2>1, <2>6 DEF CopyMessage, BranchRecord, ForkRecord
      <3> QED
        BY <1>1, <2>6, <3>1, <3>2 DEF CopyMessage, ForkTypeOK
    <2>7. CASE RewriteId(f)
      <3>1. fork' \in [Fork -> ForkRecord]
        BY <2>2, <2>7 DEF RewriteId, Moves
      <3>2. branch' \in BranchRecord
        BY <1>1, <2>7 DEF RewriteId, BranchRecord, IdFile
      <3> QED
        BY <1>1, <2>7, <3>1, <3>2 DEF RewriteId, ForkTypeOK
    <2>8. CASE Trim(f)
      <3> DEFINE keep == {m \in branch.messages : m <= fork[f].keep}
      <3>1. keep \in SUBSET (1..MaxMessages)
        BY <1>1 DEF BranchRecord
      <3>2. Cardinality(keep) \in Nat
        <4>1. IsFiniteSet(1..MaxMessages)
          BY ForkAssumption, FS_Interval
        <4> QED
          BY <3>1, <4>1, FS_Subset, FS_CardinalityType
      <3>3. /\ branch' = [branch EXCEPT !.messages = keep]
            /\ fork' = [fork EXCEPT ![f].at = "reset", ![f].kept = Cardinality(keep)]
            /\ UNCHANGED <<messages, source>>
        BY <2>8 DEF Trim
      <3> HIDE DEF keep
      <3>4. fork' \in [Fork -> ForkRecord]
        BY <1>1, <2>1, <3>2, <3>3 DEF ForkRecord
      <3>5. branch' \in BranchRecord
        BY <1>1, <3>1, <3>3 DEF BranchRecord
      <3> QED
        BY <1>1, <3>3, <3>4, <3>5 DEF ForkTypeOK
    <2>9. CASE Reset(f)
      <3>1. fork' \in [Fork -> ForkRecord]
        BY <2>2, <2>9 DEF Reset, Moves
      <3>2. branch' \in BranchRecord
        BY <1>1, <2>9 DEF Reset, BranchRecord, StateFile
      <3> QED
        BY <1>1, <2>9, <3>1, <3>2 DEF Reset, ForkTypeOK
    <2>10. CASE Killed(f)
      <3>1. fork' \in [Fork -> ForkRecord]
        BY <2>2, <2>10 DEF Killed, Moves
      <3> QED
        BY <1>1, <2>10, <3>1 DEF Killed, ForkTypeOK
    <2> QED
      BY <1>3, <2>3, <2>4, <2>5, <2>6, <2>7, <2>8, <2>9, <2>10 DEF ForkStep
  <1>4. CASE UNCHANGED forkVars
    BY <1>4 DEF forkVars, ForkTypeOK
  <1> QED
    BY <1>2, <1>3, <1>4 DEF ForkNext

-----------------------------------------------------------------------------
\* The invariant.

\* The initial states satisfy the invariant.
LEMMA ForkInitInv == ForkInit => ForkInv
  BY ForkTypesInit DEF ForkInit, NoBranch, ForkInv, OneWorks, BranchIsItsWork, Work, Works

\* Each step of a fork is an idle one or one of its work.
LEMMA ForkStepInv ==
  ASSUME ForkInv, ForkTypeOK', NEW f \in Fork, ForkStep(f)
  PROVE  ForkInv'
  <1>1. fork \in [Fork -> ForkRecord] /\ branch \in BranchRecord /\ fork[f] \in ForkRecord
    BY DEF ForkInv, ForkTypeOK
  <1>2. Alone(f)
    BY <1>1 DEF Alone, ForkStep, Check, MakeBranch, ListMessages, CopyMessage, RewriteId,
                Trim, Reset, Killed, Moves
  <1>3. Work(f) /\ (Works(f) => branch.there)
    BY DEF ForkInv, OneWorks, BranchIsItsWork
  <1>4. CASE \E keep \in ForkPoints : Check(f, keep)
    <2>1. UNCHANGED branch /\ ~Works(f)'
      BY <1>1, <1>4 DEF Check, Works, ForkRecord
    <2> QED
      BY <1>2, <2>1, IdleStep
  <1>5. CASE MakeBranch(f)
    <2>1. CASE branch.there
      <3>1. UNCHANGED branch /\ ~Works(f)'
        BY <1>1, <1>5, <2>1 DEF MakeBranch, Moves, Works, ForkRecord
      <3> QED
        BY <1>2, <3>1, IdleStep
    <2>2. CASE ~branch.there
      <3>1. branch'.there /\ branch'.messages = {} /\ fork'[f].at = "list"
        <4>1. /\ branch' = [NoBranch EXCEPT !.there = TRUE, !.id = source.id]
              /\ fork' = [fork EXCEPT ![f].at = "list"]
          BY <1>5, <2>2 DEF MakeBranch, Moves
        <4> QED
          BY <1>1, <4>1 DEF NoBranch, ForkRecord
      <3>2. Work(f)'
        BY <3>1 DEF Work
      <3> QED
        BY <1>2, <2>2, <3>1, <3>2, WorkStep
    <2> QED
      BY <2>1, <2>2
  <1>6. CASE ListMessages(f)
    <2>1. Works(f) /\ branch.messages = {}
      BY <1>3, <1>6 DEF ListMessages, Works, Work
    <2>2. /\ fork'[f].at = "copy" /\ fork'[f].todo = 1..messages
          /\ branch'.there = branch.there /\ branch'.messages = branch.messages
      BY <1>1, <1>6 DEF ListMessages, ForkRecord, BranchRecord
    <2>3. messages \in Nat
      BY ForkAssumption DEF ForkInv, ForkTypeOK
    <2>4. branch'.messages \cup fork'[f].todo = 1..messages
      BY <2>1, <2>2
    <2>5. Work(f)'
      BY <2>2, <2>3, <2>4 DEF Work
    <2> QED
      BY <1>2, <1>3, <2>1, <2>2, <2>5, WorkStep
  <1>7. CASE CopyMessage(f)
    <2>1. fork[f].at = "copy" /\ Works(f)
      BY <1>7 DEF CopyMessage, Works
    <2>2. PICK m \in fork[f].todo :
              /\ branch' = [branch EXCEPT !.messages = @ \cup {m}]
              /\ fork' = [fork EXCEPT ![f].todo = @ \ {m}]
      BY <1>7 DEF CopyMessage
    <2>3. /\ fork'[f].at = "copy" /\ fork'[f].todo = fork[f].todo \ {m}
          /\ branch'.there = branch.there /\ branch'.messages = branch.messages \cup {m}
      BY <1>1, <2>1, <2>2 DEF ForkRecord, BranchRecord
    <2>4. branch'.messages \cup fork'[f].todo = branch.messages \cup fork[f].todo
      BY <2>3
    <2>5. Work(f)'
      BY <1>3, <2>1, <2>3, <2>4 DEF Work
    <2> QED
      BY <1>2, <1>3, <2>1, <2>3, <2>5, WorkStep
  <1>8. CASE RewriteId(f)
    <2>1. fork[f].at = "copy" /\ Works(f) /\ fork[f].todo = {}
      BY <1>8 DEF RewriteId, Moves, Works
    <2>2. /\ fork'[f].at = "trim" /\ branch'.id # "source"
          /\ branch'.there = branch.there /\ branch'.messages = branch.messages
      BY <1>1, <1>8 DEF RewriteId, Moves, ForkRecord, BranchRecord
    <2>3. \E n \in Nat : branch'.messages = 1..n
      BY <1>3, <2>1, <2>2 DEF Work
    <2>4. Work(f)'
      BY <2>2, <2>3 DEF Work
    <2> QED
      BY <1>2, <1>3, <2>1, <2>2, <2>4, WorkStep
  <1>9. CASE Trim(f)
    <2> DEFINE kept == {m \in branch.messages : m <= fork[f].keep}
    <2>1. fork[f].at = "trim" /\ Works(f)
      BY <1>9 DEF Trim, Works
    <2>2. PICK n \in Nat : branch.messages = 1..n
      BY <1>3, <2>1 DEF Work
    <2>3. fork[f].keep \in Nat
      <3>1. fork[f].keep \in ForkPoints \cup {0}
        BY <1>1 DEF ForkRecord
      <3>2. CASE fork[f].keep \in ForkPoints
        BY <3>2, ForkAssumption, Zenon
      <3>3. CASE fork[f].keep = 0
        BY <3>3
      <3> QED
        BY <3>1, <3>2, <3>3
    <2>4. kept = Kept(n, fork[f].keep)
      BY <2>2 DEF Kept
    <2>5. /\ branch' = [branch EXCEPT !.messages = kept]
          /\ fork' = [fork EXCEPT ![f].at = "reset", ![f].kept = Cardinality(kept)]
      BY <1>9 DEF Trim
    <2> HIDE DEF kept
    <2>6. kept = 1..Cardinality(kept) /\ Cardinality(kept) <= fork[f].keep
      BY <2>2, <2>3, <2>4, FirstMessages
    <2>7. /\ fork'[f].at = "reset" /\ fork'[f].kept = Cardinality(kept)
          /\ fork'[f].keep = fork[f].keep /\ branch'.messages = kept
          /\ branch'.there = branch.there /\ branch'.id = branch.id
      BY <1>1, <2>5 DEF ForkRecord, BranchRecord
    <2>8. Work(f)'
      BY <1>3, <2>1, <2>6, <2>7 DEF Work
    <2> QED
      BY <1>2, <1>3, <2>1, <2>7, <2>8, WorkStep
  <1>10. CASE Reset(f)
    <2>1. fork[f].at = "reset" /\ Works(f)
      BY <1>10 DEF Reset, Moves, Works
    <2>2. /\ fork'[f].at = "done" /\ fork'[f].kept = fork[f].kept
          /\ fork'[f].keep = fork[f].keep /\ branch'.messages = branch.messages
          /\ branch'.there = branch.there /\ branch'.id = branch.id
          /\ branch'.state # "interrupted"
      BY <1>1, <1>10 DEF Reset, Moves, ForkRecord, BranchRecord
    <2>3. Work(f)'
      BY <1>3, <2>1, <2>2 DEF Work
    <2> QED
      BY <1>2, <1>3, <2>1, <2>2, <2>3, WorkStep
  <1>11. CASE Killed(f)
    <2>1. UNCHANGED branch /\ ~Works(f)'
      BY <1>1, <1>11 DEF Killed, Moves, Works, ForkRecord
    <2> QED
      BY <1>2, <2>1, IdleStep
  <1> QED
    BY <1>4, <1>5, <1>6, <1>7, <1>8, <1>9, <1>10, <1>11 DEF ForkStep

\* Every step preserves it.
LEMMA ForkNextInv == ForkInv /\ [ForkNext]_forkVars => ForkInv'
  <1> SUFFICES ASSUME ForkInv, [ForkNext]_forkVars PROVE ForkInv'
    OBVIOUS
  <1>1. ForkTypeOK'
    BY ForkTypesKept DEF ForkInv
  <1>2. CASE UNCHANGED <<branch, fork>>
    BY <1>1, <1>2 DEF ForkInv, OneWorks, BranchIsItsWork, Work, Works
  <1>3. ASSUME NEW f \in Fork, ForkStep(f) PROVE ForkInv'
    BY <1>1, <1>3, ForkStepInv
  <1> QED
    BY <1>2, <1>3 DEF ForkNext, AgentWrites, forkVars

\* The invariant holds of every behaviour.
LEMMA ForkInvariant == ForkSpec => []ForkInv
  BY ForkInitInv, ForkNextInv, PTL DEF ForkSpec

\* The variables of the forks keep their types.
THEOREM ForkTypeCorrect == ForkSpec => []ForkTypeOK
  <1>1. ForkInv => ForkTypeOK
    BY DEF ForkInv
  <1> QED
    BY <1>1, ForkInvariant, PTL

\* Of any number of forks with one destination, one at most works on it.
THEOREM OnlyOneForkCopies == ForkSpec => []OneForkCopies
  <1>1. ForkInv => OneForkCopies
    <2> SUFFICES ASSUME ForkInv, NEW f \in Fork, NEW g \in Fork, f # g
                 PROVE  \/ fork[f].at \in {"idle", "checked", "error", "killed"}
                        \/ fork[g].at \in {"idle", "checked", "error", "killed"}
      BY DEF OneForkCopies
    <2>1. fork[f] \in ForkRecord /\ fork[g] \in ForkRecord
      BY DEF ForkInv, ForkTypeOK
    <2> QED
      BY <2>1 DEF ForkInv, OneWorks, Works, ForkRecord
  <1> QED
    BY <1>1, ForkInvariant, PTL

\* A fork that reports success has made a branch that does not name its source,
\* has the first messages up to the fork point and no interrupt to resume,
\* though the agent writes on; a file that was missing or malformed stays so.
THEOREM ForksStartClean == ForkSpec => []BranchesAreClean
  <1>1. ForkInv => BranchesAreClean
    BY DEF ForkInv, BranchIsItsWork, Work, BranchesAreClean
  <1> QED
    BY <1>1, ForkInvariant, PTL
=============================================================================
