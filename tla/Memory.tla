------------------------------- MODULE Memory -------------------------------
(***************************************************************************)
(* Long-term memory (andino/memory/lancedb_provider.py, memory/tool.py).   *)
(* Every session's agent has a provider of its own; they all use one       *)
(* LanceDB directory.  The tool calls of an agent's turn, and the agents   *)
(* of several sessions, run in one event loop and interleave at the        *)
(* awaits.  A memory is named by the call that stored it.  LanceDB is      *)
(* external: a handle sees every row; an embedding or a write may fail.    *)
(***************************************************************************)
EXTENDS Naturals, Sequences

CONSTANTS
    MaxCalls,   \* bound: calls of the memory tool
    Provider    \* LanceDBProvider objects

ASSUME MemoryAssumption == MaxCalls \in Nat

VARIABLES
    db,         \* _db is not None, per provider
    table,      \* _table is not None, per provider
    exists,     \* the table is on disk
    rows,       \* the memories in it
    call        \* the calls, in the order they were made

memoryVars == <<db, table, exists, rows, call>>

MemoryOp == {"store", "retrieve", "list", "get", "delete"}

\* The await a call is suspended at; "absent": table_names has answered that
\* there is no table, and the call has not gone on.
CallAwait == {"connect", "names", "absent", "open", "embed", "create", "add", "query", "erase"}

\* Ends of a call: its answer, "nothing" for an empty one, or an exception.
CallAnswer == {"stored", "found", "nothing", "deleted", "error"}

MemoryTypeOK ==
    /\ db \in [Provider -> BOOLEAN] /\ table \in [Provider -> BOOLEAN]
    /\ exists \in BOOLEAN
    /\ rows \subseteq DOMAIN call
    /\ call \in Seq([op : MemoryOp \cup {"none"}, by : Provider, id : 1..MaxCalls,
                    at : CallAwait \cup CallAnswer])

MemoryInit ==
    /\ db = [p \in Provider |-> FALSE]
    /\ table = [p \in Provider |-> FALSE]
    /\ exists = FALSE
    /\ rows = {}
    /\ call = <<>>

CallAt(c, a) == call[c].at = a
CallGoes(c, to) == call' = [call EXCEPT ![c].at = to]

\* Where a call goes that has a database: a store embeds its text; the others
\* answer nothing without a table, and retrieve embeds its query first.
AfterDb(op, hasTable) ==
    IF op = "store" THEN "embed"
    ELSE IF ~hasTable THEN "nothing"
    ELSE IF op = "retrieve" THEN "embed" ELSE "query"

\* The tool is called; get and delete name a memory.
Called(op, p, id, at) ==
    /\ Len(call) < MaxCalls
    /\ op \in {"get", "delete"} \/ id = Len(call) + 1
    /\ call' = Append(call, [op |-> op, by |-> p, id |-> id, at |-> at])
    /\ UNCHANGED <<db, table, exists, rows>>

\* _ensure_db returns at once if the provider has a _db.
Begin(op, p, id) == Called(op, p, id, IF db[p] THEN AfterDb(op, table[p]) ELSE "connect")

\* A required argument is missing, or the action is unknown.
BeginRefused(p) == Called("none", p, Len(call) + 1, "error")

Connected(c) ==
    /\ CallAt(c, "connect")
    /\ db' = [db EXCEPT ![call[c].by] = TRUE]
    /\ CallGoes(c, "names")
    /\ UNCHANGED <<table, exists, rows>>

\* table_names answers whether the table is there.
NamesRead(c) ==
    /\ CallAt(c, "names")
    /\ CallGoes(c, IF exists THEN "open" ELSE "absent")
    /\ UNCHANGED <<db, table, exists, rows>>

\* There was no table: _table is None, though it may be there by now.
FoundAbsent(c) ==
    /\ CallAt(c, "absent")
    /\ table' = [table EXCEPT ![call[c].by] = FALSE]
    /\ CallGoes(c, AfterDb(call[c].op, FALSE))
    /\ UNCHANGED <<db, exists, rows>>

Opened(c) ==
    /\ CallAt(c, "open")
    /\ table' = [table EXCEPT ![call[c].by] = TRUE]
    /\ CallGoes(c, AfterDb(call[c].op, TRUE))
    /\ UNCHANGED <<db, exists, rows>>

\* The embedding is there.  A store adds its row, or creates the table; a
\* retrieve searches, or fails on a _table that was set to None meanwhile.
Embedded(c) ==
    /\ CallAt(c, "embed")
    /\ CallGoes(c, IF call[c].op = "store"
               THEN IF table[call[c].by] THEN "add" ELSE "create"
               ELSE IF table[call[c].by] THEN "query" ELSE "error")
    /\ UNCHANGED <<db, table, exists, rows>>

\* Mutant of Created: create_table(..., mode="overwrite").
CreatedOverwriting(c) ==
    /\ CallAt(c, "create")
    /\ exists' = TRUE /\ rows' = {}
    /\ table' = [table EXCEPT ![call[c].by] = TRUE]
    /\ CallGoes(c, "add")
    /\ UNCHANGED db

\* create_table raises when the table is there already.
Created(c) ==
    /\ CallAt(c, "create")
    /\ IF exists
       THEN CallGoes(c, "error") /\ UNCHANGED <<table, exists>>
       ELSE /\ exists' = TRUE
            /\ table' = [table EXCEPT ![call[c].by] = TRUE]
            /\ CallGoes(c, "add")
    /\ UNCHANGED <<db, rows>>

Added(c) ==
    /\ CallAt(c, "add")
    /\ rows' = rows \cup {c}
    /\ CallGoes(c, "stored")
    /\ UNCHANGED <<db, table, exists>>

\* Mutant of Queried: delete does not look whether the memory is there.
QueriedBlindly(c) ==
    /\ CallAt(c, "query")
    /\ CallGoes(c, IF call[c].op = "delete" THEN "erase"
               ELSE IF call[c].id \in rows \/ (call[c].op # "get" /\ rows # {})
               THEN "found" ELSE "nothing")
    /\ UNCHANGED <<db, table, exists, rows>>

\* The rows read: delete goes on if the memory is there, unless _table was
\* set to None meanwhile.
Queried(c) ==
    /\ CallAt(c, "query")
    /\ CallGoes(c, IF call[c].id \in rows \/ (call[c].op \in {"retrieve", "list"} /\ rows # {})
               THEN IF call[c].op # "delete" THEN "found"
                    ELSE IF table[call[c].by] THEN "erase" ELSE "error"
               ELSE "nothing")
    /\ UNCHANGED <<db, table, exists, rows>>

Erased(c) ==
    /\ CallAt(c, "erase")
    /\ rows' = rows \ {call[c].id}
    /\ CallGoes(c, "deleted")
    /\ UNCHANGED <<db, table, exists>>

\* An await raises: the call fails, and nothing is undone; a write that
\* failed may have been done, and the table may have been made.
CallRaised(c) ==
    /\ call[c].at \in CallAwait
    /\ CallGoes(c, "error")
    /\ rows' \in CASE CallAt(c, "add") -> {rows, rows \cup {c}}
                  [] CallAt(c, "erase") -> {rows, rows \ {call[c].id}}
                  [] OTHER -> {rows}
    /\ exists' \in {exists, exists \/ CallAt(c, "create")}
    /\ UNCHANGED <<db, table>>

CallStep(c) ==
    \/ Connected(c) \/ NamesRead(c) \/ FoundAbsent(c) \/ Opened(c) \/ Embedded(c) \/ Created(c)
    \/ Added(c) \/ Queried(c) \/ Erased(c)

MemoryNext ==
    \/ \E p \in Provider :
          \/ BeginRefused(p)
          \/ \E op \in MemoryOp, id \in 1..(Len(call) + 1) : Begin(op, p, id)
    \/ \E c \in DOMAIN call : CallStep(c) \/ CallRaised(c)

MemorySpec == MemoryInit /\ [][MemoryNext]_memoryVars

-----------------------------------------------------------------------------
\* Properties.

\* A memory whose store was acknowledged is in the table unless a delete of
\* it went through, or failed, whatever the first calls of the providers race
\* for.
AcknowledgedStays ==
    \A c \in DOMAIN call : CallAt(c, "stored") =>
        \/ c \in rows
        \/ \E d \in DOMAIN call : /\ call[d].op = "delete" /\ call[d].id = c
                                /\ call[d].at \in {"deleted", "error"}

\* A delete that says it deleted something names a memory whose store was
\* acknowledged, or failed after its row was written.
DeletesAreReal ==
    \A d \in DOMAIN call : CallAt(d, "deleted") =>
        call[call[d].id].op = "store" /\ call[call[d].id].at \in {"stored", "error"}

\* "Store and retrieve long-term memories that persist across conversations":
\* a call that looks for a memory stored before it was made finds it, unless
\* the memory is being deleted.
MemoriesAreFound ==
    [][\A d \in DOMAIN call' \ DOMAIN call, c \in DOMAIN call :
          /\ CallAt(c, "stored") /\ call'[d].op = "get" /\ call'[d].id = c
          /\ \A e \in DOMAIN call : call[e].op # "delete"
          => call'[d].at # "nothing"]_memoryVars
=============================================================================
