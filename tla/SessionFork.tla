---------------------------- MODULE SessionFork ----------------------------
(***************************************************************************)
(* `andino session fork` (andino/session_tools.py): a process of its own   *)
(* copies the files of a session while the agent may go on with it, then   *)
(* rewrites the copy: its id, its messages past the fork point, and the    *)
(* interrupt state of the agent.  It passes over a file it finds missing   *)
(* or malformed, and reports success.  Two forks may have one destination; *)
(* a fork may be killed between two files.  A copy of a file and the       *)
(* listing of a directory are atomic: sessions are small.                  *)
(***************************************************************************)
EXTENDS Naturals, FiniteSets

CONSTANTS
    Fork,         \* fork commands with one destination
    ForkPoints,   \* the values of --at, as numbers of messages kept
    MaxMessages   \* bound: messages of the source session

ASSUME ForkAssumption == ForkPoints \subseteq Nat /\ MaxMessages \in Nat

VARIABLES
    messages,     \* number of messages of the source session
    source,       \* its other files: [there, id, state]
    branch,       \* the destination: [there, id, state, messages]
    fork          \* the forks: [at, keep, todo, kept]

forkVars == <<messages, source, branch, fork>>

\* What session.json says: no file, no JSON, or the id of a session.
IdFile == {"none", "malformed", "source", "branch"}

\* What agent.json says of the agent's interrupts.
StateFile == {"none", "malformed", "clean", "interrupted"}

NoSource == [there |-> FALSE, id |-> "none", state |-> "none"]
NoBranch == [there |-> FALSE, id |-> "none", state |-> "none", messages |-> {}]

SourceRecord == [there : BOOLEAN, id : IdFile \ {"branch"}, state : StateFile]

BranchRecord ==
    [there : BOOLEAN, id : IdFile, state : StateFile, messages : SUBSET (1..MaxMessages)]

ForkRecord ==
    [at : {"idle", "checked", "list", "copy", "trim", "reset", "done", "error", "killed"},
     keep : ForkPoints \cup {0}, todo : SUBSET (1..MaxMessages), kept : Nat]

ForkTypeOK ==
    /\ messages \in 0..MaxMessages /\ source \in SourceRecord
    /\ branch \in BranchRecord
    /\ fork \in [Fork -> ForkRecord]

ForkInit ==
    /\ messages = 0 /\ source = NoSource
    /\ branch = NoBranch
    /\ fork = [f \in Fork |-> [at |-> "idle", keep |-> 0, todo |-> {}, kept |-> 0]]

Moves(f, from, to) == fork[f].at = from /\ fork' = [fork EXCEPT ![f].at = to]

\* The agent makes the session and its files in turn, and goes on: a message
\* more, an interrupt raised or resolved.  A file is malformed in the middle
\* of its write, and stays so when the agent dies there.
AgentWrites ==
    /\ \/ source' = [source EXCEPT !.there = TRUE] /\ UNCHANGED messages
       \/ /\ source.there
          /\ \E id \in {"malformed", "source"} : source' = [source EXCEPT !.id = id]
          /\ UNCHANGED messages
       \/ /\ source.id # "none"
          /\ \E state \in StateFile \ {"none"} : source' = [source EXCEPT !.state = state]
          /\ UNCHANGED messages
       \/ /\ source.state # "none" /\ messages < MaxMessages
          /\ messages' = messages + 1
          /\ UNCHANGED source
    /\ UNCHANGED <<branch, fork>>

\* The command begins: the source must be there and the destination not.
Check(f, keep) ==
    /\ fork[f].at = "idle"
    /\ fork' = [fork EXCEPT ![f].at = IF source.there /\ ~branch.there THEN "checked" ELSE "error",
                            ![f].keep = keep]
    /\ UNCHANGED <<messages, source, branch>>

\* Mutant of MakeBranch: copytree(..., dirs_exist_ok=True).
MakeBranchAnyway(f) ==
    /\ Moves(f, "checked", "list")
    /\ branch' = [branch EXCEPT !.there = TRUE, !.id = source.id]
    /\ UNCHANGED <<messages, source>>

\* copytree makes the destination, and raises if another fork has; it copies
\* session.json as it is.
MakeBranch(f) ==
    /\ IF branch.there
       THEN Moves(f, "checked", "error") /\ UNCHANGED branch
       ELSE /\ Moves(f, "checked", "list")
            /\ branch' = [NoBranch EXCEPT !.there = TRUE, !.id = source.id]
    /\ UNCHANGED <<messages, source>>

\* It copies agent.json as it is, and lists the messages there are.
ListMessages(f) ==
    /\ fork[f].at = "list"
    /\ fork' = [fork EXCEPT ![f].at = "copy", ![f].todo = 1..messages]
    /\ branch' = [branch EXCEPT !.state = source.state]
    /\ UNCHANGED <<messages, source>>

\* It copies the messages, in any order.
CopyMessage(f) ==
    /\ fork[f].at = "copy"
    /\ \E m \in fork[f].todo :
          /\ branch' = [branch EXCEPT !.messages = @ \cup {m}]
          /\ fork' = [fork EXCEPT ![f].todo = @ \ {m}]
    /\ UNCHANGED <<messages, source>>

\* The id in session.json becomes that of the branch.  There may be no file;
\* and of a malformed one there is a warning.
RewriteId(f) ==
    /\ fork[f].todo = {}
    /\ Moves(f, "copy", "trim")
    /\ branch' = IF branch.id = "source" THEN [branch EXCEPT !.id = "branch"] ELSE branch
    /\ UNCHANGED <<messages, source>>

\* The messages past the fork point go, and the others are counted.
Trim(f) ==
    LET keep == {m \in branch.messages : m <= fork[f].keep} IN
        /\ fork[f].at = "trim"
        /\ branch' = [branch EXCEPT !.messages = keep]
        /\ fork' = [fork EXCEPT ![f].at = "reset", ![f].kept = Cardinality(keep)]
        /\ UNCHANGED <<messages, source>>

\* Mutant of Reset: the interrupt state is left as it was copied.
ResetNothing(f) ==
    /\ Moves(f, "reset", "done")
    /\ UNCHANGED <<messages, source, branch>>

\* The interrupt state of the branch's agent is emptied.  There may be no
\* agent.json; and of a malformed one there is a warning.
Reset(f) ==
    /\ Moves(f, "reset", "done")
    /\ branch' = IF branch.state = "interrupted" THEN [branch EXCEPT !.state = "clean"]
                                                ELSE branch
    /\ UNCHANGED <<messages, source>>

\* The command is killed, or a file operation raises: nothing is undone.
Killed(f) ==
    /\ fork[f].at \in {"checked", "list", "copy", "trim", "reset"}
    /\ Moves(f, fork[f].at, "killed")
    /\ UNCHANGED <<messages, source, branch>>

ForkStep(f) ==
    \/ \E keep \in ForkPoints : Check(f, keep)
    \/ MakeBranch(f) \/ ListMessages(f) \/ CopyMessage(f) \/ RewriteId(f)
    \/ Trim(f) \/ Reset(f) \/ Killed(f)

ForkNext == AgentWrites \/ \E f \in Fork : ForkStep(f)

ForkSpec == ForkInit /\ [][ForkNext]_forkVars

-----------------------------------------------------------------------------
\* Properties.

\* A fork that reports success has made a branch that cannot be taken for its
\* source: no session.json that names the source, no interrupt to resume, and
\* a history without gaps up to the fork point, of as many messages as it
\* says, though the agent went on meanwhile and another fork had the same
\* destination.  A session.json or agent.json that is missing or malformed may
\* have been left so.
BranchesAreClean ==
    \A f \in Fork : fork[f].at = "done" =>
        /\ branch.id # "source"
        /\ branch.state # "interrupted"
        /\ branch.messages = 1..fork[f].kept
        /\ fork[f].kept <= fork[f].keep

\* Of two forks with one destination at most one goes past the check: the
\* other finds it or fails to make it.
OneForkCopies ==
    \A f, g \in Fork :
        f # g => fork[f].at \in {"idle", "checked", "error", "killed"}
              \/ fork[g].at \in {"idle", "checked", "error", "killed"}
=============================================================================
