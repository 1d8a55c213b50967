-------------------------- MODULE ServiceLifecycle --------------------------
(***************************************************************************)
(* AgentService._run_async (andino/service.py): the HTTP server and the    *)
(* channels run as tasks of one event loop until one of them ends or a     *)
(* signal arrives; the others are cancelled and awaited, the channels are  *)
(* stopped one after another, and the loop ends, with the workers in it.   *)
(***************************************************************************)
EXTENDS Naturals, Sequences, FiniteSets, SequencesExt

CONSTANT Channels   \* the channels, in the order they were loaded

ASSUME ServiceAssumption == Channels \in Seq(ToSet(Channels))

Parts == {"server"} \cup ToSet(Channels)

VARIABLES
    partState,  \* the task of each part
    signalled,  \* shutdown_event
    main,       \* where _run_async is
    stopped     \* the number of channels stopped

serviceVars == <<partState, signalled, main, stopped>>

ServiceTypeOK ==
    /\ partState \in [Parts -> {"running", "cancelled", "over"}]
    /\ signalled \in BOOLEAN
    /\ main \in {"wait", "gather", "stop", "returned", "raised", "exit"}
    /\ stopped \in 0..Len(Channels)

ServiceInit ==
    /\ partState = [p \in Parts |-> "running"]
    /\ signalled = FALSE /\ main = "wait"
    /\ stopped = 0

\* The server or a channel returns or raises of itself.
PartEnds(p) ==
    /\ partState[p] = "running" /\ main = "wait"
    /\ partState' = [partState EXCEPT ![p] = "over"]
    /\ UNCHANGED <<signalled, main, stopped>>

Signal ==
    /\ ~signalled /\ main = "wait"
    /\ signalled' = TRUE
    /\ UNCHANGED <<partState, main, stopped>>

\* Mutants of Wakes: it waits for all of them; the cancelled tasks are not
\* awaited.
WakesWhenAllEnd ==
    /\ main = "wait"
    /\ signalled /\ \A p \in Parts : partState[p] = "over"
    /\ partState' = [p \in Parts |-> IF partState[p] = "running" THEN "cancelled" ELSE partState[p]]
    /\ main' = "gather"
    /\ UNCHANGED <<signalled, stopped>>

WakesWithoutGather ==
    /\ main = "wait"
    /\ signalled \/ \E p \in Parts : partState[p] = "over"
    /\ partState' = [p \in Parts |-> IF partState[p] = "running" THEN "cancelled" ELSE partState[p]]
    /\ main' = "stop"
    /\ UNCHANGED <<signalled, stopped>>

\* The first of them ends, or a signal arrives: the others are cancelled.
Wakes ==
    /\ main = "wait"
    /\ signalled \/ \E p \in Parts : partState[p] = "over"
    /\ partState' = [p \in Parts |-> IF partState[p] = "running" THEN "cancelled" ELSE partState[p]]
    /\ main' = "gather"
    /\ UNCHANGED <<signalled, stopped>>

\* A cancelled task ends.
CancelDelivered(p) ==
    /\ partState[p] = "cancelled"
    /\ partState' = [partState EXCEPT ![p] = "over"]
    /\ UNCHANGED <<signalled, main, stopped>>

Gathered ==
    /\ main = "gather" /\ \A p \in Parts : partState[p] = "over"
    /\ main' = "stop"
    /\ UNCHANGED <<partState, signalled, stopped>>

\* Mutant of StopNext: the loop runs once too often.
StopNextPastEnd ==
    /\ main = "stop" /\ stopped <= Len(Channels)
    /\ \/ stopped' = stopped + 1 /\ UNCHANGED main
       \/ main' = "raised" /\ UNCHANGED stopped
    /\ UNCHANGED <<partState, signalled>>

\* The next channel is stopped, or raises, and then the rest are not.
StopNext ==
    /\ main = "stop" /\ stopped < Len(Channels)
    /\ \/ stopped' = stopped + 1 /\ UNCHANGED main
       \/ main' = "raised" /\ UNCHANGED stopped
    /\ UNCHANGED <<partState, signalled>>

Returns ==
    /\ main = "stop" /\ stopped = Len(Channels)
    /\ main' = "returned"
    /\ UNCHANGED <<partState, signalled, stopped>>

\* asyncio.run cancels what is left, the workers with their tasks included,
\* and waits for none of their results.
LoopEnds ==
    /\ main \in {"returned", "raised"}
    /\ main' = "exit"
    /\ UNCHANGED <<partState, signalled, stopped>>

ServiceStep ==
    \/ Wakes \/ Gathered \/ StopNext \/ Returns \/ LoopEnds
    \/ \E p \in Parts : CancelDelivered(p)

ServiceNext == Signal \/ ServiceStep \/ \E p \in Parts : PartEnds(p)

ServiceSpec == ServiceInit /\ [][ServiceNext]_serviceVars

-----------------------------------------------------------------------------
\* Properties.

\* A channel is stopped only when the server and every channel have ended:
\* none of them works with a connection that was closed.
StopsComeLast ==
    stopped > 0 => \A p \in Parts : partState[p] = "over"

\* A signal, and the end of any part, ends the process, also when a
\* channel cannot be stopped.
ServiceEnds ==
    (signalled \/ \E p \in Parts : partState[p] = "over") ~> main = "exit"
=============================================================================
