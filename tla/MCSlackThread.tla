--------------------------- MODULE MCSlackThread ---------------------------
(***************************************************************************)
(* Instances of SlackThread for TLC: the deliveries and the access rules.  *)
(***************************************************************************)
EXTENDS SlackThread

Event(i, k, t) ==
    [id |-> i, kind |-> k, im |-> FALSE, thread |-> t, bot |-> FALSE,
     allowed |-> TRUE, text |-> TRUE]

\* A mention, which also arrives as a message, in thread t1; the bot's own
\* reply there.
OneThread ==
    {Event(1, "app_mention", "t1"), Event(1, "message", "t1"),
     [Event(2, "message", "t1") EXCEPT !.bot = TRUE]}

\* A mention in each of two threads.
TwoThreads == {Event(1, "app_mention", "t1"), Event(2, "app_mention", "t2")}

\* Approving a deployment is for the operators; the shell is for everyone.
MCGroups == [ops |-> {"ann"}]
NoRules == <<>>
MCRules ==
    <<[tools |-> {"deploy"}, approval |-> TRUE, allow |-> "all", approvers |-> "ops"],
      [tools |-> {"deploy", "shell"}, approval |-> TRUE, allow |-> "all", approvers |-> "all"]>>
=============================================================================
