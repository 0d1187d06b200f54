----------------------------- MODULE MCPlatform -----------------------------
(***************************************************************************)
(* The plugin platform for TLC: the jobs of its worker (PluginLifecycle),  *)
(* the events it delivers (EventOutbox) and the calls of hosted plugins    *)
(* that it meters (PluginMetering).  The three write no common row (the    *)
(* outbox rows that installing, updating and reconciling insert are new    *)
(* events, each of which fares like the one EventOutbox follows), so       *)
(* interleaving them would only multiply their states: part, chosen at the *)
(* start from Parts, says which of them runs.                              *)
(***************************************************************************)
EXTENDS PluginLifecycle, EventOutbox, PluginMetering, TLC

CONSTANTS
    Parts,  \* subset of {"jobs", "events", "calls"}
    w1, w2, r1, r2, p1, h1, h2, e1, s1, c1, c2

MCWorker == {w1, w2}
MCRequest == {r1, r2}
MCPackage == {[mode |-> "remote", defect |-> "none"], [mode |-> "sandbox", defect |-> "none"],
              [mode |-> "sandbox", defect |-> "digest"], [mode |-> "sandbox", defect |-> "artifact"]}

\* Two requests that carry the same event.
MCHook == {h1, h2}
MCEventOf == [h \in MCHook |-> e1]

MCCall == {c1, c2}
\* Two windows for outgoing requests, of which one is the canonical one.
MCOffer == {[metric |-> "requests", window |-> 1, limit |-> 1],
            [metric |-> "requests", window |-> 2, limit |-> 1],
            [metric |-> "response", window |-> 1, limit |-> 0],
            [metric |-> "invocations", window |-> 2, limit |-> 1]}

\* Requests and hooks are interchangeable too; normalising for them costs more
\* time than it saves.
Interchangeable == Permutations(MCWorker) \cup Permutations(MCCall)

VARIABLE part

PlatformInit == part \in Parts /\ Init /\ EventInit /\ MeteringInit

PlatformNext ==
    \/ part = "jobs" /\ Next /\ UNCHANGED <<part, eventVars, meteringVars>>
    \/ part = "events" /\ EventNext /\ UNCHANGED <<part, vars, meteringVars>>
    \/ part = "calls" /\ MeteringNext /\ UNCHANGED <<part, vars, eventVars>>

Platform == PlatformInit /\ [][PlatformNext]_<<part, vars, eventVars, meteringVars>>
FairPlatform == Platform /\ Fairness /\ EventFairness

-----------------------------------------------------------------------------
\* The type invariants of the three modules.
PlatformTypeOK == TypeOK /\ EventTypeOK /\ MeteringTypeOK
\* What is handed to the worker is settled, through crashes, stalls, lost
\* answers and retries: a published version gets its verdict or a failed job
\* (PluginLifecycle), an accepted webhook reaches its subscriber (EventOutbox).
\* One formula for both, of which one runs.
WorkIsSettled ==
    (IF part = "jobs" THEN VersionOpen ELSE Owed(e1, s1))
    ~> (IF part = "jobs" THEN VersionSettled ELSE Reached(e1, s1))
=============================================================================
