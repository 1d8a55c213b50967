----------------------------- MODULE SlackUpload -----------------------------
(***************************************************************************)
(* The table of upload contexts of andino/channels/slack_upload.py: the    *)
(* channel registers the thread of a workspace before it submits a task    *)
(* and clears it when the task is over; the agent's slack_upload_file tool *)
(* looks for the context of the path it is given.  A workspace is the      *)
(* session's, so it is named by its thread.                                *)
(***************************************************************************)
EXTENDS Naturals, Sequences, SequencesExt

CONSTANTS
    Thread,     \* Slack threads: each is a session with a workspace
    FileName,   \* names of the files agents create
    Nowhere,    \* no thread
    RelativePaths \* whether agents name a file relative to the workspace

ASSUME UploadAssumption == Nowhere \notin Thread /\ RelativePaths \in BOOLEAN

VARIABLES
    contexts,   \* _contexts: the threads registered, in dict order
    files       \* the files in the workspaces: <<thread, name>>

uploadVars == <<contexts, files>>

UploadTypeOK ==
    /\ contexts \in Seq(Thread) /\ IsInjective(contexts)
    /\ files \subseteq Thread \X FileName

UploadInit == contexts = <<>> /\ files = {}

\* Mutant of Register: the workspace is always added at the end.
RegisterAgain(t) == contexts' = Append(contexts, t)

\* register_upload_context: a workspace that is registered keeps its place.
Register(t) ==
    contexts' = IF t \in ToSet(contexts) THEN contexts ELSE Append(contexts, t)

\* clear_upload_context.
Clear(t) == contexts' = RemoveFirst(contexts, t)

\* The first registered thread of a set.
FirstOf(ts) ==
    LET found == SelectSeq(contexts, LAMBDA u : u \in ts)
    IN  IF found = <<>> THEN Nowhere ELSE Head(found)

\* _find_context for an absolute path inside workspace ws.  No workspace of
\* Slack is a string prefix of another: the time stamps have one length.
FindContext(ws) == FirstOf({ws})

\* A relative path: the first registered workspace that has such a file.
FindRelative(name) == FirstOf({t \in Thread : <<t, name>> \in files})

\* The agent of thread t creates a file in its workspace.
WriteFile(t, name) ==
    /\ files' = files \cup {<<t, name>>}
    /\ UNCHANGED contexts

\* slack_upload_file called for thread t now: the thread a file of its
\* workspace is posted to.  (Sizes and Slack's refusals only end it early.)
UploadTarget(t, name) ==
    IF RelativePaths THEN FindRelative(name) ELSE FindContext(t)
=============================================================================
