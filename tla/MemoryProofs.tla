---------------------------- MODULE MemoryProofs ----------------------------
(***************************************************************************)
(* Theorems of Memory, for any providers and any number of calls.          *)
(*                                                                         *)
(* The invariants say what the table holds in terms of where the calls     *)
(* are.  A row is of a store that is over, or failed after writing; a      *)
(* delete that has looked for its memory saw such a row, which may be gone *)
(* by the time it erases.                                                  *)
(***************************************************************************)
EXTENDS Memory, TLAPS

Call == [op : MemoryOp \cup {"none"}, by : Provider, id : 1..MaxCalls,
         at : CallAwait \cup CallAnswer]

\* Only a store adds rows or makes the table, and only a delete erases.
AwaitsFitTheCall ==
    \A c \in DOMAIN call :
        /\ call[c].at \in {"create", "add", "stored"} => call[c].op = "store"
        /\ call[c].at \in {"erase", "deleted"} => call[c].op = "delete"

\* Memory m was written: its store was acknowledged, or failed.
Written(m) ==
    m \in DOMAIN call /\ call[m].op = "store" /\ call[m].at \in {"stored", "error"}

\* Every row is of a store that is over.
RowsAreStored == \A m \in rows : Written(m)

\* A delete that goes on has seen the row.
ErasesAreReal ==
    \A d \in DOMAIN call : call[d].at \in {"erase", "deleted"} => Written(call[d].id)

CallInv == MemoryTypeOK /\ AwaitsFitTheCall
RowInv == CallInv /\ RowsAreStored /\ ErasesAreReal
MemoryInv == RowInv /\ AcknowledgedStays

-----------------------------------------------------------------------------
\* What a step does to the calls: it adds one that is no store's end, or moves
\* one from an await.

\* A call that has been made: none goes on to erase, add or be acknowledged.
CallMade ==
    \E c \in Call :
        /\ call' = Append(call, c)
        /\ c.at \in {"connect", "embed", "query", "nothing", "error"}

\* Call c moves from its await to b, and keeps the rest.
CallMoves(c, b) ==
    /\ call[c].at \in CallAwait /\ b \in CallAwait \cup CallAnswer
    /\ call' = [call EXCEPT ![c].at = b]

\* The awaits and ends that say something of the table.
Telling == {"create", "add", "stored", "erase", "deleted"}

\* A made call is appended: the ones before are as they were, and the new one
\* says nothing of the table.
LEMMA MadeCalls ==
  ASSUME MemoryTypeOK, CallMade
  PROVE  /\ call' \in Seq(Call)
         /\ DOMAIN call \subseteq DOMAIN call'
         /\ \A d \in DOMAIN call : call'[d] = call[d]
         /\ \A d \in DOMAIN call' \ DOMAIN call : call'[d].at \notin Telling
  <1>1. PICK c \in Call : /\ call' = Append(call, c)
                          /\ c.at \in {"connect", "embed", "query", "nothing", "error"}
    BY DEF CallMade
  <1>2. call \in Seq(Call)
    BY DEF MemoryTypeOK, Call
  <1>3. /\ call' \in Seq(Call) /\ Len(call') = Len(call) + 1
        /\ \A i \in 1..Len(call) : call'[i] = call[i]
        /\ call'[Len(call) + 1] = c
    BY <1>1, <1>2
  <1> QED
    BY <1>1, <1>2, <1>3 DEF Telling

\* A call that moves changes its place and nothing else, and no other call.
LEMMA MovedCalls ==
  ASSUME MemoryTypeOK, NEW c \in DOMAIN call, NEW b, CallMoves(c, b)
  PROVE  /\ call' \in Seq(Call)
         /\ DOMAIN call' = DOMAIN call
         /\ \A d \in DOMAIN call \ {c} : call'[d] = call[d]
         /\ call'[c].at = b
         /\ call'[c].op = call[c].op /\ call'[c].id = call[c].id
  <1>1. call \in Seq(Call)
    BY DEF MemoryTypeOK, Call
  <1>2. call[c] \in Call
    BY <1>1
  <1>3. [call[c] EXCEPT !.at = b] \in Call
    BY <1>2 DEF CallMoves, Call
  <1>4. call' = [call EXCEPT ![c] = [call[c] EXCEPT !.at = b]]
    BY DEF CallMoves
  <1>5. call' \in Seq(Call) /\ DOMAIN call' = DOMAIN call
    BY <1>1, <1>3, <1>4
  <1> QED
    BY <1>1, <1>2, <1>4, <1>5 DEF Call

\* What a move may do to the table: a store that ends may add its row, a
\* delete that ends may take its memory away.
RowsMove(c, b) ==
    /\ \A m \in rows' \ rows : m = c /\ call[c].op = "store" /\ b \in {"stored", "error"}
    /\ \A m \in rows \ rows' :
          m = call[c].id /\ call[c].op = "delete" /\ b \in {"deleted", "error"}

\* What must be known of a move that tells something of the table.
MoveIsTrue(c, b) ==
    /\ b \in {"create", "add", "stored"} => call[c].op = "store"
    /\ b \in {"erase", "deleted"} => call[c].op = "delete" /\ Written(call[c].id)
    /\ b = "stored" => c \in rows'

\* A call that is made breaks nothing.
LEMMA MadeKeeps ==
  ASSUME MemoryTypeOK, RowInv, AcknowledgedStays, CallMade, rows' = rows
  PROVE  AwaitsFitTheCall' /\ RowsAreStored' /\ ErasesAreReal' /\ AcknowledgedStays'
  <1>1. /\ DOMAIN call \subseteq DOMAIN call'
        /\ \A d \in DOMAIN call : call'[d] = call[d]
        /\ \A d \in DOMAIN call' \ DOMAIN call : call'[d].at \notin Telling
    BY MadeCalls
  <1>2. AwaitsFitTheCall'
    BY <1>1 DEF RowInv, CallInv, AwaitsFitTheCall, Telling
  <1>3. ASSUME NEW m, Written(m) PROVE Written(m)'
    BY <1>1, <1>3 DEF Written
  <1>4. RowsAreStored'
    BY <1>3 DEF RowInv, RowsAreStored
  <1>5. ErasesAreReal'
    BY <1>1, <1>3 DEF RowInv, ErasesAreReal, Telling
  <1>6. AcknowledgedStays'
    BY <1>1 DEF AcknowledgedStays, CallAt, Telling
  <1> QED
    BY <1>2, <1>4, <1>5, <1>6

\* A move that is true of the table breaks nothing: the store of a row is over
\* and moves no more.
LEMMA MoveKeeps ==
  ASSUME MemoryTypeOK, RowInv, AcknowledgedStays,
         NEW c \in DOMAIN call, NEW b, CallMoves(c, b),
         MoveIsTrue(c, b), RowsMove(c, b)
  PROVE  AwaitsFitTheCall' /\ RowsAreStored' /\ ErasesAreReal' /\ AcknowledgedStays'
  <1>1. /\ DOMAIN call' = DOMAIN call
        /\ \A d \in DOMAIN call \ {c} : call'[d] = call[d]
        /\ call'[c].at = b
        /\ call'[c].op = call[c].op /\ call'[c].id = call[c].id
    BY MovedCalls
  <1>2. call[c].at \notin {"stored", "deleted", "error"}
    BY DEF CallMoves, CallAwait
  <1>3. ASSUME NEW m, Written(m) PROVE Written(m)'
    BY <1>1, <1>2, <1>3 DEF Written
  <1>4. AwaitsFitTheCall'
    <2> SUFFICES ASSUME NEW d \in DOMAIN call
                 PROVE  /\ call'[d].at \in {"create", "add", "stored"} => call'[d].op = "store"
                        /\ call'[d].at \in {"erase", "deleted"} => call'[d].op = "delete"
      BY <1>1 DEF AwaitsFitTheCall
    <2>1. CASE d = c
      BY <1>1, <2>1 DEF MoveIsTrue
    <2>2. CASE d # c
      BY <1>1, <2>2 DEF RowInv, CallInv, AwaitsFitTheCall
    <2> QED
      BY <2>1, <2>2
  <1>5. RowsAreStored'
    <2> SUFFICES ASSUME NEW m \in rows' PROVE Written(m)'
      BY DEF RowsAreStored
    <2>1. CASE m \in rows
      BY <1>3, <2>1 DEF RowInv, RowsAreStored
    <2>2. CASE m \notin rows
      BY <1>1, <2>2 DEF RowsMove, Written
    <2> QED
      BY <2>1, <2>2
  <1>6. ErasesAreReal'
    <2> SUFFICES ASSUME NEW d \in DOMAIN call, call'[d].at \in {"erase", "deleted"}
                 PROVE  Written(call[d].id)'
      BY <1>1 DEF ErasesAreReal
    <2>1. CASE d = c
      <3>1. Written(call[c].id)
        BY <1>1, <2>1 DEF MoveIsTrue
      <3> QED
        BY <1>1, <1>3, <2>1, <3>1
    <2>2. CASE d # c
      <3>1. Written(call[d].id) /\ call'[d] = call[d]
        BY <1>1, <2>2 DEF RowInv, ErasesAreReal
      <3> QED
        BY <1>3, <3>1
    <2> QED
      BY <2>1, <2>2
  <1>7. AcknowledgedStays'
    <2> SUFFICES ASSUME NEW m \in DOMAIN call, call'[m].at = "stored", m \notin rows'
                 PROVE  \E d \in DOMAIN call :
                            /\ call'[d].op = "delete" /\ call'[d].id = m
                            /\ call'[d].at \in {"deleted", "error"}
      BY <1>1 DEF AcknowledgedStays, CallAt
    <2>1. m # c /\ call[m].at = "stored"
      BY <1>1 DEF MoveIsTrue
    <2>2. CASE m \in rows
      BY <1>1, <2>2 DEF RowsMove
    <2>3. CASE m \notin rows
      <3>1. PICK d \in DOMAIN call : /\ call[d].op = "delete" /\ call[d].id = m
                                     /\ call[d].at \in {"deleted", "error"}
        BY <2>1, <2>3 DEF AcknowledgedStays, CallAt
      <3> QED
        BY <1>1, <1>2, <3>1
    <2> QED
      BY <2>2, <2>3
  <1> QED
    BY <1>4, <1>5, <1>6, <1>7

-----------------------------------------------------------------------------
\* What the steps are.

\* Calling the tool, with or without the arguments it needs, is making a call.
LEMMA CallsAreMade ==
  ASSUME MemoryTypeOK, NEW p \in Provider,
         BeginRefused(p) \/ \E op \in MemoryOp, id \in 1..(Len(call) + 1) : Begin(op, p, id)
  PROVE  CallMade /\ UNCHANGED <<db, table, exists, rows>>
  <1>1. PICK op \in MemoryOp \cup {"none"}, id \in 1..(Len(call) + 1),
             at \in {"connect", "embed", "query", "nothing", "error"} : Called(op, p, id, at)
    <2>1. CASE BeginRefused(p)
      <3>1. Len(call) + 1 \in 1..(Len(call) + 1)
        BY DEF MemoryTypeOK
      <3> QED
        BY <2>1, <3>1 DEF BeginRefused
    <2>2. CASE \E op \in MemoryOp, id \in 1..(Len(call) + 1) : Begin(op, p, id)
      BY <2>2 DEF Begin, AfterDb
    <2> QED
      BY <2>1, <2>2
  <1>2. id \in 1..MaxCalls
    BY <1>1, MemoryAssumption DEF Called, MemoryTypeOK
  <1>3. [op |-> op, by |-> p, id |-> id, at |-> at] \in Call
    BY <1>2 DEF Call, CallAwait, CallAnswer
  <1> QED
    BY <1>1, <1>3 DEF Called, CallMade

\* Every other step moves its call, and the move is true of the table.
LEMMA StepsMove ==
  ASSUME RowInv, NEW c \in DOMAIN call, CallStep(c) \/ CallRaised(c)
  PROVE  \E b : CallMoves(c, b) /\ MoveIsTrue(c, b) /\ RowsMove(c, b)
  <1> DEFINE Goes(b) == CallMoves(c, b) /\ MoveIsTrue(c, b) /\ RowsMove(c, b)
  <1>1. CASE Connected(c)
    <2>1. Goes("names")
      BY <1>1 DEF Connected, CallAt, CallGoes, CallMoves, MoveIsTrue, RowsMove, CallAwait
    <2> QED
      BY <2>1
  <1>2. CASE NamesRead(c)
    <2>1. \/ exists /\ Goes("open")
          \/ ~exists /\ Goes("absent")
      BY <1>2 DEF NamesRead, CallAt, CallGoes, CallMoves, MoveIsTrue, RowsMove, CallAwait
    <2> QED
      BY <2>1
  <1>3. CASE FoundAbsent(c)
    <2>1. Goes("embed") \/ Goes("nothing")
      BY <1>3 DEF FoundAbsent, AfterDb, CallAt, CallGoes, CallMoves, MoveIsTrue, RowsMove,
                  CallAwait, CallAnswer
    <2> QED
      BY <2>1
  <1>4. CASE Opened(c)
    <2>1. Goes("embed") \/ Goes("query")
      BY <1>4 DEF Opened, AfterDb, CallAt, CallGoes, CallMoves, MoveIsTrue, RowsMove, CallAwait
    <2> QED
      BY <2>1
  <1>5. CASE Embedded(c)
    <2>1. Goes("add") \/ Goes("create") \/ Goes("query") \/ Goes("error")
      BY <1>5 DEF Embedded, CallAt, CallGoes, CallMoves, MoveIsTrue, RowsMove,
                  CallAwait, CallAnswer
    <2> QED
      BY <2>1
  <1>6. CASE Created(c)
    <2>1. Goes("add") \/ Goes("error")
      BY <1>6 DEF Created, RowInv, CallInv, AwaitsFitTheCall, CallAt, CallGoes, CallMoves,
                  MoveIsTrue, RowsMove, CallAwait, CallAnswer
    <2> QED
      BY <2>1
  <1>7. CASE Added(c)
    <2>1. Goes("stored")
      BY <1>7 DEF Added, RowInv, CallInv, AwaitsFitTheCall, CallAt, CallGoes, CallMoves,
                  MoveIsTrue, RowsMove, CallAwait, CallAnswer
    <2> QED
      BY <2>1
  <1>8. CASE Queried(c)
    <2>1. Goes("found") \/ Goes("erase") \/ Goes("error") \/ Goes("nothing")
      BY <1>8 DEF Queried, RowInv, CallInv, MemoryTypeOK, MemoryOp, RowsAreStored, CallAt,
                  CallGoes, CallMoves, MoveIsTrue, RowsMove, CallAwait, CallAnswer
    <2> QED
      BY <2>1
  <1>9. CASE Erased(c)
    <2>1. Goes("deleted")
      BY <1>9 DEF Erased, RowInv, CallInv, AwaitsFitTheCall, ErasesAreReal, CallAt, CallGoes,
                  CallMoves, MoveIsTrue, RowsMove, CallAwait, CallAnswer
    <2> QED
      BY <2>1
  <1>10. CASE CallRaised(c)
    <2>1. Goes("error")
      BY <1>10 DEF CallRaised, RowInv, CallInv, AwaitsFitTheCall, CallAt, CallGoes, CallMoves,
                   MoveIsTrue, RowsMove, CallAnswer
    <2> QED
      BY <2>1
  <1> QED
    BY <1>1, <1>2, <1>3, <1>4, <1>5, <1>6, <1>7, <1>8, <1>9, <1>10 DEF CallStep

\* The handles keep their types, whatever a call does.
LEMMA HandlesTyped ==
  ASSUME MemoryTypeOK, NEW c \in DOMAIN call, CallStep(c) \/ CallRaised(c)
  PROVE  db' \in [Provider -> BOOLEAN] /\ table' \in [Provider -> BOOLEAN] /\ exists' \in BOOLEAN
  BY DEF MemoryTypeOK, CallStep, CallRaised, Connected, NamesRead, FoundAbsent, Opened,
         Embedded, Created, Added, Queried, Erased

-----------------------------------------------------------------------------
\* The invariant.

\* The initial states satisfy the invariant.
LEMMA MemoryInitInv == MemoryInit => MemoryInv
  <1> SUFFICES ASSUME MemoryInit PROVE MemoryInv
    OBVIOUS
  <1>1. call = <<>> /\ DOMAIN call = {} /\ rows = {}
    BY DEF MemoryInit
  <1>2. call \in Seq([op : MemoryOp \cup {"none"}, by : Provider, id : 1..MaxCalls,
                      at : CallAwait \cup CallAnswer])
    BY <1>1
  <1>3. MemoryTypeOK
    BY <1>1, <1>2 DEF MemoryInit, MemoryTypeOK
  <1> QED
    BY <1>1, <1>3 DEF MemoryInv, RowInv, CallInv, AwaitsFitTheCall, RowsAreStored, ErasesAreReal,
                      AcknowledgedStays

\* Every step preserves it.
LEMMA MemoryNextInv == MemoryInv /\ [MemoryNext]_memoryVars => MemoryInv'
  <1> SUFFICES ASSUME MemoryInv, [MemoryNext]_memoryVars PROVE MemoryInv'
    OBVIOUS
  <1> USE DEF MemoryInv, RowInv, CallInv
  <1>1. ASSUME NEW p \in Provider,
               BeginRefused(p) \/ \E op \in MemoryOp, id \in 1..(Len(call) + 1) : Begin(op, p, id)
        PROVE  MemoryInv'
    <2>1. CallMade /\ UNCHANGED <<db, table, exists, rows>>
      BY <1>1, CallsAreMade
    <2>2. call' \in Seq(Call) /\ DOMAIN call \subseteq DOMAIN call'
      BY <2>1, MadeCalls
    <2>3. MemoryTypeOK'
      BY <2>1, <2>2 DEF MemoryTypeOK, Call
    <2> QED
      BY <2>1, <2>3, MadeKeeps
  <1>2. ASSUME NEW c \in DOMAIN call, CallStep(c) \/ CallRaised(c)
        PROVE  MemoryInv'
    <2>1. PICK b : CallMoves(c, b) /\ MoveIsTrue(c, b) /\ RowsMove(c, b)
      BY <1>2, StepsMove
    <2>2. call' \in Seq(Call) /\ DOMAIN call' = DOMAIN call
      BY <2>1, MovedCalls
    <2>3. rows' \subseteq DOMAIN call'
      BY <2>1, <2>2 DEF RowsMove, MemoryTypeOK
    <2>4. MemoryTypeOK'
      BY <1>2, <2>2, <2>3, HandlesTyped DEF MemoryTypeOK, Call
    <2> QED
      BY <2>1, <2>4, MoveKeeps
  <1>3. CASE UNCHANGED memoryVars
    BY <1>3 DEF memoryVars, MemoryTypeOK, AwaitsFitTheCall, RowsAreStored, ErasesAreReal,
                Written, AcknowledgedStays, CallAt
  <1> QED
    BY <1>1, <1>2, <1>3 DEF MemoryNext

\* The invariant holds of every behaviour.
LEMMA MemoryInvariant == MemorySpec => []MemoryInv
  BY MemoryInitInv, MemoryNextInv, PTL DEF MemorySpec

\* The variables of the memory keep their types.
THEOREM MemoryTypeCorrect == MemorySpec => []MemoryTypeOK
  <1>1. MemoryInv => MemoryTypeOK
    BY DEF MemoryInv, RowInv, CallInv
  <1> QED
    BY <1>1, MemoryInvariant, PTL

\* No acknowledged memory is lost, however many agents race for the table, but
\* by a delete of it that went through or failed.
THEOREM StoredMemoriesStay == MemorySpec => []AcknowledgedStays
  <1>1. MemoryInv => AcknowledgedStays
    BY DEF MemoryInv
  <1> QED
    BY <1>1, MemoryInvariant, PTL

\* A delete reports success only of a memory that was written.
THEOREM DeletesAreOfMemories == MemorySpec => []DeletesAreReal
  <1>1. MemoryInv => DeletesAreReal
    BY DEF MemoryInv, RowInv, ErasesAreReal, Written, DeletesAreReal, CallAt
  <1> QED
    BY <1>1, MemoryInvariant, PTL
=============================================================================
