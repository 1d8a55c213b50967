------------------------------- MODULE Access -------------------------------
(***************************************************************************)
(* The evaluator of access.yaml (andino/access.py): rules are tried in the *)
(* order of the file and the first one whose pattern matches the tool      *)
(* decides.  A pattern is the set of tools it matches (fnmatch); a group   *)
(* is a name of Groups, or "all".                                          *)
(***************************************************************************)
EXTENDS Naturals, Sequences

CONSTANTS
    User,     \* Slack users
    Gated,    \* the tools the agent may call that the rules speak of
    Groups,   \* AccessConfig.groups: name -> set of users
    Rules     \* AccessConfig.rules: sequence of [tools, approval, allow, approvers]

ASSUME AccessAssumption ==
    /\ \A g \in DOMAIN Groups : Groups[g] \subseteq User
    /\ \A i \in DOMAIN Rules :
          Rules[i].tools \subseteq Gated /\ Rules[i].approval \in BOOLEAN

\* The rules whose pattern matches the tool.
Matching(tool) == {i \in DOMAIN Rules : tool \in Rules[i].tools}

\* _find_rule: the first matching rule, as a set of at most one.
FindRule(tool) ==
    {Rules[i] : i \in {j \in Matching(tool) : \A k \in Matching(tool) : j <= k}}

\* _user_in_group: a group nobody defined has no members.
UserInGroup(user, group) ==
    \/ group = "all"
    \/ group \in DOMAIN Groups /\ user \in Groups[group]

\* Without a rule everything is allowed and nothing asks for approval.
CanRequest(user, tool) == \A r \in FindRule(tool) : UserInGroup(user, r.allow)
CanApprove(user, tool) == \A r \in FindRule(tool) : UserInGroup(user, r.approvers)
NeedsApproval(tool) == \E r \in FindRule(tool) : r.approval

\* tools_requiring_approval: what build_agent looks at to install the hook.
ToolsRequiringApproval == {i \in DOMAIN Rules : Rules[i].approval}
=============================================================================
