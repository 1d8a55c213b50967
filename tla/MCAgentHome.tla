----------------------------- MODULE MCAgentHome -----------------------------
(***************************************************************************)
(* The parts beside the executor and the channels share no state: the      *)
(* instance runs one of them, chosen at the start.                         *)
(***************************************************************************)
EXTENDS Memory, RemoteTools, SessionFork, ServiceLifecycle, AgentReference, SlackText, UsageLog

VARIABLE part

homeVars == <<part, memoryVars, remoteVars, forkVars, serviceVars, referenceVars, text, usageVars>>

HomeTypeOK ==
    /\ MemoryTypeOK /\ RemoteTypeOK /\ ForkTypeOK /\ ServiceTypeOK
    /\ ReferenceTypeOK /\ SlackTextTypeOK /\ UsageTypeOK

TwoChannels == <<"slack", "other">>

HomeInit ==
    /\ part \in {"memory", "remote", "fork", "service", "references", "text", "usage"}
    /\ MemoryInit /\ RemoteInit /\ ForkInit /\ ServiceInit /\ ReferenceInit /\ TextInit /\ UsageInit

OnlyMemory ==
    /\ part = "memory" /\ MemoryNext
    /\ UNCHANGED <<part, remoteVars, forkVars, serviceVars, referenceVars, text, usageVars>>

OnlyRemote ==
    /\ part = "remote" /\ RemoteNext
    /\ UNCHANGED <<part, memoryVars, forkVars, serviceVars, referenceVars, text, usageVars>>

OnlyFork ==
    /\ part = "fork" /\ ForkNext
    /\ UNCHANGED <<part, memoryVars, remoteVars, serviceVars, referenceVars, text, usageVars>>

OnlyService ==
    /\ part = "service" /\ ServiceNext
    /\ UNCHANGED <<part, memoryVars, remoteVars, forkVars, referenceVars, text, usageVars>>

OnlyReferences ==
    /\ part = "references" /\ ReferenceNext
    /\ UNCHANGED <<part, memoryVars, remoteVars, forkVars, serviceVars, text, usageVars>>

OnlyText ==
    /\ part = "text" /\ TextNext
    /\ UNCHANGED <<part, memoryVars, remoteVars, forkVars, serviceVars, referenceVars, usageVars>>

OnlyUsage ==
    /\ part = "usage" /\ UsageNext
    /\ UNCHANGED <<part, memoryVars, remoteVars, forkVars, serviceVars, referenceVars, text>>

HomeNext ==
    OnlyMemory \/ OnlyRemote \/ OnlyFork \/ OnlyService \/ OnlyReferences \/ OnlyText \/ OnlyUsage

\* The event loop goes on with what is ready.
HomeSpec == HomeInit /\ [][HomeNext]_homeVars /\ WF_homeVars(part = "service" /\ ServiceStep
    /\ UNCHANGED <<part, memoryVars, remoteVars, forkVars, referenceVars, text, usageVars>>)
=============================================================================
