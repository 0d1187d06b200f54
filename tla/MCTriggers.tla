----------------------------- MODULE MCTriggers -----------------------------
(***************************************************************************)
(* What queues workflow runs by itself, for TLC: event triggers            *)
(* (EventDispatch) and schedules (Schedules).  Both read the status and    *)
(* the owner of workflow definitions and insert runs under dedupe keys of  *)
(* their own; what the one writes of a definition (an exhausted schedule   *)
(* disables its workflow) is among the changes the other allows for, so    *)
(* interleaving them would only multiply their states: part, chosen at the *)
(* start from Parts, says which of them runs.                              *)
(***************************************************************************)
EXTENDS EventDispatch, Schedules

CONSTANTS
    Parts,           \* subset of {"events", "schedules"}
    orders, mirror   \* triggers

\* A workflow that reacts to everything under "order" and writes such an event itself,
\* and one that reacts to that event only.
MCPattern == (orders :> [path |-> <<"order">>, wildcard |-> TRUE]) @@
             (mirror :> [path |-> <<"order", "billed">>, wildcard |-> FALSE])
MCEmits == (orders :> <<"order", "billed">>) @@ (mirror :> <<"mirror", "written">>)
MCRootTypes == {<<"order", "created">>, <<"workflow", "run", "queued">>}

\* One occurrence; one each second from now; one that no other follows within a year.
MCOffer == {[type |-> "once", at |-> 2, every |-> 0],
            [type |-> "interval", at |-> Null, every |-> 1],
            [type |-> "calendar", at |-> {2}, every |-> 0]}

VARIABLE part

TriggersInit ==
    /\ part \in Parts /\ Init /\ TimerInit
    /\ part = "schedules" => cursor = 0

TriggersNext ==
    \/ part = "events" /\ Next /\ UNCHANGED <<part, timerVars>>
    \/ part = "schedules" /\ TimerNext /\ UNCHANGED <<part, vars>>

Triggers == TriggersInit /\ [][TriggersNext]_<<part, vars, timerVars>>
FairTriggers == Triggers /\ Fairness /\ TimerFairness

-----------------------------------------------------------------------------
\* The type invariants of the two modules.
TriggersTypeOK == TypeOK /\ TimerTypeOK
\* The replicas always get done with what is there: through crashes, deadlocks
\* and overlapping requests, every visible event is passed by the cursor
\* (EventDispatch), and every due occurrence is fired or called off (Schedules),
\* unless one that raises on every tick is in their way.  One formula for both,
\* of which one runs.
TriggersFire ==
    []<>(IF part = "events" THEN EventsHandled ELSE OccurrencesHandled)
=============================================================================
