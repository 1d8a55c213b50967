---------------------------- MODULE RemoteTools ----------------------------
(***************************************************************************)
(* The bundled tools of andino/tools: calls of Jira, Confluence, Datadog,  *)
(* Lusha and Apollo over HTTP.  A tool sends its requests one after the    *)
(* other and renders the last reply.  The calls of one turn, and other     *)
(* agents and people, act on the same pages, issues and credits.  The      *)
(* service is external: it serves a request, refuses it or is late, and    *)
(* may serve a request whose client gave up.  Left out: the arguments, and *)
(* how a reply is rendered.                                                *)
(***************************************************************************)
EXTENDS Naturals, Sequences, FiniteSets

CONSTANTS
    ToolCall,    \* bound: calls of the tools
    MaxVersion   \* bound: versions of the page

ASSUME RemoteAssumption == MaxVersion \in Nat \ {0}

VARIABLES
    remote,      \* the calls: [todo, accepts, at, sent, base, applied]
    version      \* the version of the page at the service

remoteVars == <<remote, version>>

\* The requests of each tool, by what they do at the service: read, write,
\* spend credits, or replace a page of the version that was read before.
JiraStatusTools ==
    [jira_get_issue |-> <<"read">>, jira_get_transitions |-> <<"read">>,
     jira_transition_issue |-> <<"write">>]

JiraIssueTools ==
    [jira_search_issues |-> <<"read">>, jira_assign_issue |-> <<"write">>,
     jira_add_comment |-> <<"write">>, jira_create_issue |-> <<"write">>]

ConfluencePageTools ==
    [confluence_get_page |-> <<"read">>, confluence_create_page |-> <<"write">>,
     confluence_update_page |-> <<"read", "replace">>]

ConfluenceSearchTools ==
    [confluence_search |-> <<"read">>, confluence_list_spaces |-> <<"read">>]

DatadogDataTools ==
    [datadog_search_logs |-> <<"read">>, datadog_query_metrics |-> <<"read">>]

DatadogMonitorTools ==
    [datadog_list_monitors |-> <<"read">>, datadog_get_monitor |-> <<"read">>]

DatadogEventTools ==
    [datadog_search_traces |-> <<"read">>, datadog_list_events |-> <<"read">>]

LushaEnrichTools ==
    [lusha_enrich_person |-> <<"read">>, lusha_enrich_company |-> <<"read">>]

LushaSearchTools == [lusha_search_contacts |-> <<"read">>]

ApolloPersonTools ==
    [apollo_search_people |-> <<"read">>, apollo_enrich_person |-> <<"spend">>]

ApolloCompanyTools ==
    [apollo_search_contacts |-> <<"read">>, apollo_enrich_organization |-> <<"read">>]

AtlassianTools ==
    {JiraStatusTools, JiraIssueTools, ConfluencePageTools, ConfluenceSearchTools}

OtherTools ==
    {DatadogDataTools, DatadogMonitorTools, DatadogEventTools, LushaEnrichTools,
     LushaSearchTools, ApolloPersonTools, ApolloCompanyTools}

Toolsets == AtlassianTools \cup OtherTools

Effects == {"write", "spend", "replace"}
Served == {"200", "201", "202", "204"}

\* Mutant of Accepted: any reply that is not a conflict is a success.
AcceptedAny(tools) == Served \cup {"4xx"}

\* The statuses the _request of a tool's module takes for success.
Accepted(tools) == IF tools \in AtlassianTools THEN {"200", "201", "204"} ELSE {"200"}

NoCall == [todo |-> <<>>, accepts |-> {}, at |-> "idle", sent |-> "none", base |-> 0, applied |-> 0]

RemoteTypeOK ==
    /\ version \in 1..MaxVersion
    /\ remote \in [ToolCall ->
          [todo : Seq({"read"} \cup Effects), accepts : SUBSET Served,
           at : {"idle", "wait", "ok", "error"},
           sent : {"none", "asked", "4xx"} \cup Served,
           base : 0..MaxVersion, applied : Nat]]

RemoteInit ==
    /\ remote = [c \in ToolCall |-> NoCall]
    /\ version = 1

\* A tool is called and sends its first request.
CallTool(c, tools, tool) ==
    /\ remote[c].at = "idle"
    /\ remote' = [remote EXCEPT ![c] =
          [NoCall EXCEPT !.todo = tools[tool], !.accepts = Accepted(tools),
                         !.at = "wait", !.sent = "asked"]]
    /\ UNCHANGED version

\* Without credentials, or with an argument missing, it sends nothing.
ToolRefused(c) ==
    /\ remote[c].at = "idle"
    /\ remote' = [remote EXCEPT ![c].at = "error"]
    /\ UNCHANGED version

Asks(c, effects) == remote[c].sent = "asked" /\ Head(remote[c].todo) \in effects

\* The service answers a read, at a version of the page.
ServeRead(c) ==
    /\ Asks(c, {"read"})
    /\ \E status \in Served :
          remote' = [remote EXCEPT ![c].sent = status, ![c].base = version]
    /\ UNCHANGED version

\* It does what it is asked; a page must be given its next version.
ServeEffect(c) ==
    /\ Asks(c, Effects)
    /\ IF Asks(c, {"replace"})
       THEN remote[c].base = version /\ version < MaxVersion /\ version' = version + 1
       ELSE UNCHANGED version
    /\ \E status \in Served :
          remote' = [remote EXCEPT ![c].sent = status, ![c].applied = @ + 1]

ServeRefusal(c) ==
    /\ Asks(c, Effects \cup {"read"})
    /\ remote' = [remote EXCEPT ![c].sent = "4xx"]
    /\ UNCHANGED version

\* Somebody else edits the page.
OtherEdit ==
    /\ version < MaxVersion
    /\ version' = version + 1
    /\ UNCHANGED remote

\* The reply arrives: an error, the next request or the tool's result.
Replied(c) ==
    /\ remote[c].at = "wait" /\ remote[c].sent \notin {"none", "asked"}
    /\ LET r == remote[c]
       IN  remote' = [remote EXCEPT ![c] =
              IF r.sent \notin r.accepts THEN [r EXCEPT !.at = "error"]
              ELSE IF Len(r.todo) > 1 THEN [r EXCEPT !.todo = Tail(@), !.sent = "asked"]
              ELSE [r EXCEPT !.at = "ok"]]
    /\ UNCHANGED version

\* Mutant of GivesUp: a request that timed out is sent again.
GivesUpLater(c) ==
    /\ remote[c].at = "wait"
    /\ remote' = [remote EXCEPT ![c].sent = "asked"]
    /\ UNCHANGED version

\* The client gives up after 30 seconds, or cannot read the reply: an error,
\* whatever the service does with the request.
GivesUp(c) ==
    /\ remote[c].at = "wait"
    /\ remote' = [remote EXCEPT ![c].at = "error"]
    /\ UNCHANGED version

RemoteNext ==
    \/ \E c \in ToolCall :
          \/ \E tools \in Toolsets : \E tool \in DOMAIN tools : CallTool(c, tools, tool)
          \/ ToolRefused(c) \/ ServeRead(c) \/ ServeEffect(c) \/ ServeRefusal(c)
          \/ Replied(c) \/ GivesUp(c)
    \/ OtherEdit

RemoteSpec == RemoteInit /\ [][RemoteNext]_remoteVars

-----------------------------------------------------------------------------
\* Properties.

\* A tool that reports success has had its effect: no refusal, and no reply
\* of its first request, is reported as done.
SuccessIsApplied ==
    \A c \in ToolCall : remote[c].at = "ok" =>
        remote[c].applied = IF Head(remote[c].todo) \in Effects THEN 1 ELSE 0

\* Whatever is reported, no call has its effect twice: a tool does not repeat
\* a request the service may have served.
NothingTwice == \A c \in ToolCall : remote[c].applied <= 1
=============================================================================
