--------------------------- MODULE AgentReference ---------------------------
(***************************************************************************)
(* Building an agent whose tools include other local agents, the           *)
(* references "andino:<name>" of its agent.yaml (tool_loader.py,           *)
(* agent_reference.py).  A reference builds the agent it names, with the   *)
(* references of its file, before the next one; _call_stack, a context     *)
(* variable, holds the names under construction.  It outlives a build that *)
(* fails: a worker builds the agents of all its tasks in one context.      *)
(* Between two builds people write and remove files.                       *)
(***************************************************************************)
EXTENDS Naturals, Sequences, FiniteSets, SequencesExt

CONSTANT Agent   \* names of local agents

ASSUME ReferenceAssumption == IsFiniteSet(Agent)

VARIABLES
    files,     \* the agent.yaml files: the references of each agent that has one
    config,    \* the references of the service's own configuration
    stack,     \* _call_stack
    todo,      \* references left to load, per frame of the construction
    outcome    \* of the build: "idle", "building", "built", "cycle", "missing" or
               \* "error"

referenceVars == <<files, config, stack, todo, outcome>>

ReferenceTypeOK ==
    /\ config \subseteq Agent
    /\ DOMAIN files \subseteq Agent /\ \A a \in DOMAIN files : files[a] \subseteq Agent
    /\ stack \in Seq(Agent)
    /\ todo \in Seq(SUBSET Agent)
    /\ outcome \in {"idle", "building", "built", "cycle", "missing", "error"}

ReferenceInit ==
    /\ files = <<>> /\ config = {} /\ stack = <<>>
    /\ todo = <<>> /\ outcome = "idle"

\* The service starts: its configuration is read once.
Configured ==
    /\ outcome = "idle"
    /\ config' \in SUBSET Agent
    /\ UNCHANGED <<files, stack, todo, outcome>>

\* Somebody writes the file of an agent, or removes it.
FileWritten(a) ==
    /\ outcome # "building"
    /\ \/ \E refs \in SUBSET Agent :
             files' = [b \in DOMAIN files \cup {a} |-> IF b = a THEN refs ELSE files[b]]
       \/ files' = [b \in DOMAIN files \ {a} |-> files[b]]
    /\ outcome' = "idle"
    /\ UNCHANGED <<config, stack, todo>>

BuildStarts ==
    /\ outcome # "building"
    /\ outcome' = "building"
    /\ todo' = <<config>>
    /\ UNCHANGED <<files, config, stack>>

\* Mutant of Fails: the token is reset only when the build succeeds.
FailsUnreset(how) ==
    /\ outcome' = how
    /\ todo' = <<>>
    /\ UNCHANGED <<files, config, stack>>

\* The error leaves every frame, and each resets its token.
Fails(how) ==
    /\ outcome' = how
    /\ todo' = <<>>
    /\ stack' = SubSeq(stack, 1, Len(stack) - (Len(todo) - 1))
    /\ UNCHANGED <<files, config>>

\* The next reference of the innermost frame: a cycle, a missing file or
\* another frame.
Refer(a) ==
    /\ outcome = "building"
    /\ a \in Last(todo)
    /\ IF a \in ToSet(stack) THEN Fails("cycle")
       ELSE IF a \notin DOMAIN files THEN Fails("missing")
       ELSE /\ stack' = Append(stack, a)
            /\ todo' = Append(Front(todo) \o <<Last(todo) \ {a}>>, files[a])
            /\ UNCHANGED <<files, config, outcome>>

\* Anything else that raises in a construction: a file that is no valid YAML
\* or configuration, a tool that is not found.
Raises == outcome = "building" /\ Fails("error")

\* Mutant of FrameEnds: the name stays on the stack.
FrameEndsUnreset ==
    /\ outcome = "building" /\ Last(todo) = {}
    /\ IF Len(todo) = 1
       THEN outcome' = "built" /\ todo' = <<>>
       ELSE todo' = Front(todo) /\ UNCHANGED outcome
    /\ UNCHANGED <<files, config, stack>>

\* All references of a frame are loaded: the agent is built.
FrameEnds ==
    /\ outcome = "building" /\ Last(todo) = {}
    /\ IF Len(todo) = 1
       THEN outcome' = "built" /\ todo' = <<>> /\ UNCHANGED stack
       ELSE todo' = Front(todo) /\ stack' = Front(stack) /\ UNCHANGED outcome
    /\ UNCHANGED <<files, config>>

ReferenceNext ==
    \/ Configured \/ BuildStarts \/ FrameEnds \/ Raises
    \/ \E a \in Agent : FileWritten(a) \/ Refer(a)

ReferenceSpec == ReferenceInit /\ [][ReferenceNext]_referenceVars

-----------------------------------------------------------------------------
\* Properties.

\* A set of agents and the agents named by their references, directly or not:
\* the least set that holds them and what it refers to.
RefsOf(S) == UNION {files[a] : a \in S \cap DOMAIN files}
Named(S) ==
    {a \in Agent : \A T \in SUBSET Agent : S \subseteq T /\ RefsOf(T) \subseteq T => a \in T}

\* Whatever was built or failed before, a build ends in an agent only when the
\* references of the files as they are form no cycle and miss no file; and it
\* fails of a cycle or a missing file only when there is one, though an agent
\* may be named by several.
OutcomesAreTrue ==
    LET cyclic  == \E a \in Named(config) : a \in Named(RefsOf({a}))
        missing == Named(config) \ DOMAIN files # {}
    IN  /\ outcome = "built" => ~cyclic /\ ~missing
        /\ outcome = "cycle" => cyclic
        /\ outcome = "missing" => missing

\* A construction recurses no deeper than there are agents, and ends with the
\* stack as it was.
DepthIsBounded ==
    /\ Len(stack) <= Cardinality(Agent)
    /\ outcome # "building" => stack = <<>>
=============================================================================
