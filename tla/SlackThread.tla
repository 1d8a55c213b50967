----------------------------- MODULE SlackThread -----------------------------
(***************************************************************************)
(* The Slack channel (andino/channels/slack.py) above the executor.  Every *)
(* event Slack delivers runs _handle_event in a coroutine of its own: it   *)
(* registers the upload context, posts a placeholder, submits a task, and  *)
(* replaces the placeholder by the reply.  The worker calls back for every *)
(* piece of the stream (the placeholder is updated) and when the agent     *)
(* stops for approvals (one message with buttons per interrupt); a press   *)
(* of a button runs a handler of its own.  The executor is what            *)
(* TaskLifecycle says of it, with one task of a session at a time.  Slack  *)
(* may refuse or lose every call.  Left out: the look of the messages.     *)
(***************************************************************************)
EXTENDS Access, SlackUpload, FiniteSets

CONSTANTS
    Delivery,       \* the events Slack delivers, see DeliveryType
    RequireMention, \* SlackConfig.require_mention
    Chunks,         \* the number of chunks of a reply
    NoAnswer,       \* the future has no result
    MaxStops,       \* bound: stops of a task for approvals
    AskAlone        \* bound: a task stops only if its message came alone

DeliveryType ==
    [id : Nat, kind : {"app_mention", "message"}, im : BOOLEAN, thread : Thread,
     bot : BOOLEAN, allowed : BOOLEAN, text : BOOLEAN]

Verdict == {"approved", "denied"}

\* What a press of a button sends to the worker.
Answer == [tool : Gated, verdict : Verdict, by : User]

ASSUME ThreadAssumption ==
    /\ Delivery \subseteq DeliveryType
    /\ RequireMention \in BOOLEAN
    /\ Chunks \in Nat \ {0} /\ MaxStops \in Nat /\ AskAlone \in BOOLEAN
    /\ NoAnswer \notin Answer

VARIABLES
    state, caller,  \* the tasks, one per delivery, as in TaskLifecycle
    handler,        \* the await _handle_event is suspended at
    reply,          \* what the placeholder message shows
    posts,          \* the chunks said in the thread
    next,           \* the chunk the handler sends next
    update,         \* the progress update of the placeholder in flight
    stops,          \* stops of the task for approvals
    open,           \* the interrupts without an answer, one per tool, in order
    wait,           \* where the worker is while the task is interrupted
    answer,         \* the result of the future
    verdict,        \* what the agent was told of each interrupt
    label,          \* what the message of each interrupt shows
    pressing        \* presses whose chat_update is in flight

askVars == <<stops, open, wait, answer, verdict, label, pressing>>
replyVars == <<handler, reply, posts, next, update>>
vars == <<state, caller, replyVars, askVars, uploadVars>>

Life == INSTANCE TaskLifecycle WITH Task <- Delivery

TypeOK ==
    /\ state \in [Delivery -> {"absent", "queued", "running", "interrupted"} \cup Life!Over]
    /\ caller \in [Delivery -> {"none", "waiting", "woken", "returned", "rejected", "keyerror"}]
    /\ handler \in [Delivery -> {"idle", "placeholder", "waiting", "final", "say", "done", "refused"}]
    /\ reply \in [Delivery -> {"none", "thinking", "partial", "final"}]
    /\ posts \in [Delivery -> Seq(1..Chunks)]
    /\ \A d \in Delivery : Len(posts[d]) <= Chunks
    /\ next \in [Delivery -> 1..(Chunks + 1)]
    /\ update \in [Delivery -> {"none", "flying", "late"}]
    /\ stops \in [Delivery -> 0..MaxStops]
    /\ open \in [Delivery -> Seq(Gated)]
    /\ \A d \in Delivery : IsInjective(open[d])
    /\ wait \in [Delivery -> {"no", "posting", "future"}]
    /\ answer \in [Delivery -> Answer \cup {NoAnswer}]
    /\ verdict \in [Delivery -> [Gated -> Verdict \cup {"none"}]]
    /\ label \in [Delivery -> [Gated -> Verdict \cup {"none", "buttons"}]]
    /\ pressing \subseteq Delivery \X Gated \X Verdict
    /\ UploadTypeOK

Init ==
    /\ Life!Init
    /\ handler = [d \in Delivery |-> "idle"]
    /\ reply = [d \in Delivery |-> "none"]
    /\ posts = [d \in Delivery |-> <<>>]
    /\ next = [d \in Delivery |-> 1]
    /\ update = [d \in Delivery |-> "none"]
    /\ stops = [d \in Delivery |-> 0]
    /\ open = [d \in Delivery |-> <<>>]
    /\ wait = [d \in Delivery |-> "no"]
    /\ answer = [d \in Delivery |-> NoAnswer]
    /\ verdict = [d \in Delivery |-> [x \in Gated |-> "none"]]
    /\ label = [d \in Delivery |-> [x \in Gated |-> "none"]]
    /\ pressing = {}
    /\ UploadInit

-----------------------------------------------------------------------------
\* _handle_event.

At(d, h) == handler[d] = h
Goes(d, from, to) == At(d, from) /\ handler' = [handler EXCEPT ![d] = to]

\* The deliveries the channel does not skip: a mention, or a message that
\* needs none; not of a bot; in an allowed channel; with a text.
Handled(d) ==
    /\ d.kind = "message" /\ ~d.im => ~RequireMention
    /\ ~d.bot /\ d.allowed /\ d.text

\* The upload context is registered and the placeholder is on its way.
Arrive(d) ==
    /\ Handled(d)
    /\ AskAlone => \A e \in Delivery : stops[e] = 0
    /\ Goes(d, "idle", "placeholder")
    /\ Register(d.thread)
    /\ UNCHANGED <<state, caller, reply, posts, next, update, askVars, files>>

\* Mutant of ReplyStarts: the upload context is only cleared on success.
ReplyStartsWithoutFinally(d) ==
    /\ handler' = [handler EXCEPT ![d] = IF reply[d] = "none" THEN "say" ELSE "final"]
    /\ IF caller'[d] = "returned" THEN Clear(d.thread) ELSE UNCHANGED contexts

\* Mutant of ReplyStarts: what submit_and_wait raises is not caught.
ReplyStartsWithoutExcept(d) ==
    /\ handler' = [handler EXCEPT ![d] =
          IF caller'[d] # "returned" THEN "gone" ELSE IF reply[d] = "none" THEN "say" ELSE "final"]
    /\ Clear(d.thread)

\* submit_and_wait has returned or raised: the context is cleared, and the
\* final update of the placeholder, or the first chunk, is on its way.
ReplyStarts(d) ==
    /\ handler' = [handler EXCEPT ![d] = IF reply[d] = "none" THEN "say" ELSE "final"]
    /\ Clear(d.thread)

\* The placeholder is posted, or is not; the task is submitted, and the
\* channel waits, or is told at once that the queue is full.
Submit(d) ==
    /\ At(d, "placeholder")
    /\ \E r \in {"thinking", "none"} : reply' = [reply EXCEPT ![d] = r]
    /\ \/ /\ Life!Accept(d) /\ caller'[d] = "waiting"
          /\ Goes(d, "placeholder", "waiting")
          /\ UNCHANGED contexts
       \/ /\ Life!Refuse(d) /\ caller'[d] = "rejected"
          /\ handler' = [handler EXCEPT ![d] = IF reply'[d] = "none" THEN "say" ELSE "final"]
          /\ Clear(d.thread)
    /\ UNCHANGED <<posts, next, update, askVars, files>>

\* The task is over and its caller runs again.
Told(d) ==
    /\ Life!Tell(d)
    /\ ReplyStarts(d)
    /\ UNCHANGED <<reply, posts, next, update, askVars, files>>

\* Mutant of FinalFails: what the update should have shown is not said.
FinalFailsSilently(d) ==
    /\ Goes(d, "final", IF Chunks = 1 THEN "done" ELSE "say")
    /\ next' = [next EXCEPT ![d] = 2]
    /\ UNCHANGED <<state, caller, reply, posts, update, askVars, uploadVars>>

\* The final update fails, though Slack may have applied it: the first chunk
\* is said instead.
FinalFails(d) ==
    /\ Goes(d, "final", "say")
    /\ \E r \in {reply[d], "final"} : reply' = [reply EXCEPT ![d] = r]
    /\ UNCHANGED <<state, caller, posts, next, update, askVars, uploadVars>>

\* The final update replaces the placeholder by the first chunk.
FinalLands(d) ==
    /\ Goes(d, "final", IF Chunks = 1 THEN "done" ELSE "say")
    /\ reply' = [reply EXCEPT ![d] = "final"]
    /\ next' = [next EXCEPT ![d] = 2]
    /\ UNCHANGED <<state, caller, posts, update, askVars, uploadVars>>

\* A chunk is said: the next one is on its way, or the handler is done.
SayChunk(d) ==
    /\ Goes(d, "say", IF next[d] = Chunks THEN "done" ELSE "say")
    /\ posts' = [posts EXCEPT ![d] = Append(@, next[d])]
    /\ next' = [next EXCEPT ![d] = @ + 1]
    /\ UNCHANGED <<state, caller, reply, update, askVars, uploadVars>>

\* Slack refuses a chunk: the handler ends with the exception.
SayRaises(d) ==
    /\ Goes(d, "say", "refused")
    /\ UNCHANGED <<state, caller, reply, posts, next, update, askVars, uploadVars>>

-----------------------------------------------------------------------------
\* The worker and its calls back.

\* The executor's worker takes the task when its session is free.
Start(d) ==
    /\ \A e \in Delivery \ {d} :
          e.thread = d.thread => state[e] \notin {"running", "interrupted"}
    /\ state[d] = "queued" /\ Life!Work(d)
    /\ UNCHANGED <<replyVars, askVars, uploadVars>>

\* The worker is in the agent's stream, with every interrupt answered.
Streaming(d) == state[d] = "running" /\ open[d] = <<>> /\ update[d] = "none"

\* A piece of the stream, not throttled: the worker awaits the update of the
\* placeholder.
Progress(d) ==
    /\ Streaming(d) /\ reply[d] # "none"
    /\ update' = [update EXCEPT ![d] = "flying"]
    /\ UNCHANGED <<state, caller, handler, reply, posts, next, askVars, uploadVars>>

\* The update is applied, in time or after the worker was cancelled; or it
\* fails, and the callback says nothing of it.
UpdateEnds(d) ==
    /\ update[d] # "none"
    /\ update' = [update EXCEPT ![d] = "none"]
    /\ \E r \in {reply[d], "partial"} : reply' = [reply EXCEPT ![d] = r]
    /\ UNCHANGED <<state, caller, handler, posts, next, askVars, uploadVars>>

\* The agent creates a file that slack_upload_file may be called for.
CreateFile(d) ==
    /\ Streaming(d)
    /\ \E name \in FileName : WriteFile(d.thread, name)
    /\ UNCHANGED <<state, caller, replyVars, askVars>>

\* The worker is done with the task.
AskOver(d) ==
    /\ open' = [open EXCEPT ![d] = <<>>]
    /\ wait' = [wait EXCEPT ![d] = "no"]
    /\ answer' = [answer EXCEPT ![d] = NoAnswer]
    /\ UNCHANGED <<stops, verdict, label, pressing>>

\* Mutant of StreamEnds: the worker does not wait for the update in flight.
StreamEndsUnawaited(d) ==
    /\ state[d] = "running" /\ Life!Finish(d)
    /\ AskOver(d)
    /\ UNCHANGED <<replyVars, uploadVars>>

\* The stream ends: with a result or an error, and then no update is in
\* flight; or by the timeout, which leaves the one in flight to Slack.
StreamEnds(d) ==
    /\ state[d] = "running" /\ Life!Finish(d)
    /\ state'[d] # "timeout" => update[d] = "none"
    /\ state'[d] = "completed" => open[d] = <<>>
    /\ update' = [update EXCEPT ![d] = IF @ = "flying" THEN "late" ELSE @]
    /\ AskOver(d)
    /\ UNCHANGED <<handler, reply, posts, next, uploadVars>>

\* The calls of one turn that ask for approval, in order.
CallsThatAsk ==
    {s \in SeqOf({x \in Gated : NeedsApproval(x)}, Cardinality(Gated)) :
        s # <<>> /\ IsInjective(s)}

\* The stream stops for the gated tools it called, one interrupt each, or
\* again for those whose interrupt has no answer yet.  Only the first stop of
\* a task calls the channel back.
Interrupt(d) ==
    /\ state[d] = "running" /\ update[d] = "none" /\ Life!Work(d)
    /\ stops[d] < MaxStops
    /\ AskAlone => \A e \in Delivery \ {d} : handler[e] = "idle"
    /\ stops' = [stops EXCEPT ![d] = @ + 1]
    /\ IF open[d] # <<>>
       THEN UNCHANGED open
       ELSE \E asked \in CallsThatAsk :
               /\ \A x \in ToSet(asked) : verdict[d][x] = "none"
               /\ open' = [open EXCEPT ![d] = asked]
    /\ wait' = [wait EXCEPT ![d] = IF stops[d] = 0 THEN "posting" ELSE "future"]
    /\ UNCHANGED <<replyVars, answer, verdict, label, pressing, uploadVars>>

\* _post_approval_buttons: one message after another, in order.
Unposted(d) == {i \in DOMAIN open[d] : label[d][open[d][i]] = "none"}

PostButtons(d) ==
    /\ wait[d] = "posting"
    /\ \E i \in Unposted(d) :
          /\ \A j \in Unposted(d) : i <= j
          /\ label' = [label EXCEPT ![d][open[d][i]] = "buttons"]
    /\ UNCHANGED <<state, caller, replyVars, stops, open, wait, answer, verdict,
                   pressing, uploadVars>>

\* The last message is there: the callback returns and the future is registered.
Posted(d) ==
    /\ wait[d] = "posting" /\ Unposted(d) = {}
    /\ wait' = [wait EXCEPT ![d] = "future"]
    /\ UNCHANGED <<state, caller, replyVars, stops, open, answer, verdict, label,
                   pressing, uploadVars>>

\* The interrupted task ends: the callback raised, or nobody answered in time.
AskEnds(d) ==
    /\ state[d] = "interrupted" /\ Life!Finish(d)
    /\ wait[d] = "future" => state'[d] = "timeout"
    /\ AskOver(d)
    /\ UNCHANGED <<replyVars, uploadVars>>

\* Mutants of Press: what respond_to_interrupt returned is not looked at; the
\* user is not looked at.
PressUnchecked(d, x, v, user) ==
    /\ label[d][x] = "buttons"
    /\ open[d] # <<>> => CanApprove(user, Head(open[d]))
    /\ answer' = IF wait[d] = "future" /\ answer[d] = NoAnswer
                 THEN [answer EXCEPT ![d] = [tool |-> x, verdict |-> v, by |-> user]]
                 ELSE answer
    /\ pressing' = pressing \cup {<<d, x, v>>}
    /\ UNCHANGED <<state, caller, replyVars, stops, open, wait, verdict, label, uploadVars>>

PressByAnyone(d, x, v, user) ==
    /\ label[d][x] = "buttons"
    /\ wait[d] = "future" /\ answer[d] = NoAnswer
    /\ answer' = [answer EXCEPT ![d] = [tool |-> x, verdict |-> v, by |-> user]]
    /\ pressing' = pressing \cup {<<d, x, v>>}
    /\ UNCHANGED <<state, caller, replyVars, stops, open, wait, verdict, label, uploadVars>>

\* A user presses a button.  The permission looked at is that for the first
\* interrupt of the task's status; the future takes the answer if there is
\* one without a result; only then is the message updated.
Press(d, x, v, user) ==
    /\ label[d][x] = "buttons"
    /\ open[d] # <<>> => CanApprove(user, Head(open[d]))
    /\ wait[d] = "future" /\ answer[d] = NoAnswer
    /\ answer' = [answer EXCEPT ![d] = [tool |-> x, verdict |-> v, by |-> user]]
    /\ pressing' = pressing \cup {<<d, x, v>>}
    /\ UNCHANGED <<state, caller, replyVars, stops, open, wait, verdict, label, uploadVars>>

\* The update of the message with the buttons is applied, or fails.
PressEnds(d, x, v) ==
    /\ <<d, x, v>> \in pressing
    /\ pressing' = pressing \ {<<d, x, v>>}
    /\ \E shown \in {label[d][x], v} : label' = [label EXCEPT ![d][x] = shown]
    /\ UNCHANGED <<state, caller, replyVars, stops, open, wait, answer, verdict, uploadVars>>

\* The worker resumes the agent with the answer: the interrupt it names is
\* settled, unless it was already; the others stay open.
Resume(d) ==
    /\ answer[d] # NoAnswer
    /\ Life!Work(d)
    /\ open' = [open EXCEPT ![d] = RemoveFirst(@, answer[d].tool)]
    /\ verdict' = [verdict EXCEPT ![d][answer[d].tool] =
                      IF @ = "none" THEN answer[d].verdict ELSE @]
    /\ wait' = [wait EXCEPT ![d] = "no"]
    /\ answer' = [answer EXCEPT ![d] = NoAnswer]
    /\ UNCHANGED <<replyVars, stops, label, pressing, uploadVars>>

-----------------------------------------------------------------------------
Handle(d) ==
    Arrive(d) \/ Submit(d) \/ Told(d) \/ FinalFails(d) \/ FinalLands(d) \/ SayChunk(d) \/ SayRaises(d)

Worker(d) ==
    \/ Start(d) \/ Progress(d) \/ CreateFile(d) \/ Interrupt(d)
    \/ PostButtons(d) \/ Posted(d) \/ Resume(d)

Ends(d) == StreamEnds(d) \/ AskEnds(d)

Next ==
    \E d \in Delivery :
        \/ Handle(d) \/ Worker(d) \/ Ends(d) \/ UpdateEnds(d)
        \/ \E x \in Gated, v \in Verdict :
              PressEnds(d, x, v) \/ \E user \in User : Press(d, x, v, user)

Spec == Init /\ [][Next]_vars

(***************************************************************************)
(* Slack answers every call, if only by an error, and the executor ends    *)
(* every task (AcceptedTasksEnd of TaskExecutor).  Nobody presses a button *)
(* unless he wants to, and the event is delivered if Slack likes.          *)
(***************************************************************************)
Fairness ==
    \A d \in Delivery :
        /\ WF_vars(handler[d] # "idle" /\ Handle(d))
        /\ WF_vars(Start(d)) /\ WF_vars(Ends(d))

FairSpec == Spec /\ Fairness

-----------------------------------------------------------------------------
\* Properties.

\* Everything the channel handles is answered, or Slack refuses the answer.
MessagesAreAnswered ==
    \A d \in Delivery :
        handler[d] = "placeholder" ~> handler[d] \in {"done", "refused"}

\* A handler that is done has shown the whole reply: every chunk in order,
\* the first one in the placeholder or said.
RepliesAreWhole ==
    \A d \in Delivery : handler[d] = "done" =>
        \/ posts[d] = [i \in 1..Chunks |-> i]
        \/ posts[d] = [i \in 1..(Chunks - 1) |-> i + 1] /\ (reply[d] = "final" \/ state[d] = "timeout")

\* The reply is not overwritten by an older piece of the stream: only an
\* update that the timeout of its task left in flight can do that.
RepliesStay ==
    [][\A d \in Delivery :
          reply[d] = "final" /\ state[d] # "timeout" => reply'[d] = "final"]_vars

\* A message that says approved or denied says what the agent was told, or
\* is about to be told: while the task has stopped once.
ResolutionsAreTrue ==
    \A d \in Delivery, x \in Gated :
        stops[d] = 1 /\ label[d][x] \in Verdict =>
            \/ verdict[d][x] = label[d][x]
            \/ answer[d] # NoAnswer /\ answer[d].tool = x /\ answer[d].verdict = label[d][x]
            \/ state[d] = "timeout"

\* A gated call goes on only as a user decided whom the first rule for that
\* tool lets decide it, when the task asked for nothing else.
ApproversDecide ==
    [][\A d \in Delivery, x \in Gated :
          verdict'[d][x] # verdict[d][x] /\ Len(open[d]) = 1
              => CanApprove(answer[d].by, x)]_vars

\* A workspace has an upload context only while a handler that registered it
\* waits: no exception leaves one behind.
ContextsAreLive ==
    \A t \in ToSet(contexts) :
        \E d \in Delivery : d.thread = t /\ handler[d] \in {"placeholder", "waiting"}

-----------------------------------------------------------------------------
\* What the documentation says and the code does not do.

\* "The Slack channel registers upload context ... before each task" and "it
\* can upload files to the correct Slack thread": a task that runs would have
\* its files posted to its own thread.
UploadsReachTheirThread ==
    \A d \in Delivery, name \in FileName :
        state[d] = "running" /\ <<d.thread, name>> \in files
            => UploadTarget(d.thread, name) = d.thread
=============================================================================
