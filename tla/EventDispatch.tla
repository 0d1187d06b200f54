--------------------------- MODULE EventDispatch ---------------------------
(***************************************************************************)
(* Event triggers (packages/workflow/triggers.py): the dispatchers of all  *)
(* API replicas turn rows of the Kernel event log into workflow runs, one  *)
(* batch per transaction, behind one cursor row that they lock.            *)
(*                                                                         *)
(* The log is kept in the order the dispatcher reads it, by created_at and *)
(* then id: a position is taken when a transaction stamps its event        *)
(* (RuntimeAuditBuffer, the column default), and the row becomes visible   *)
(* when that transaction commits, perhaps much later.  An event that ties  *)
(* with an earlier stamp and has the smaller id is the same case: its      *)
(* position precedes that of a row which was visible before it.            *)
(***************************************************************************)
EXTENDS Naturals, Sequences, FiniteSets, SequencesExt

CONSTANTS
    Dispatcher,  \* replicas
    Trigger,     \* enabled event triggers, each of a workflow of its own
    Pattern,     \* the event pattern of each: [path, wildcard]
    Emits,       \* the event type that the action of each workflow emits
    RootTypes,   \* event types that other activity writes to the log
    BatchSize,   \* OPERLY_WORKFLOW_EVENT_BATCH_SIZE
    MaxDepth,    \* OPERLY_WORKFLOW_EVENT_MAX_DEPTH
    MaxOpen,     \* how many event-writing transactions may overlap
    MaxEvents,   \* bound on the length of the log
    MaxFaults,   \* bound on crashes of dispatchers
    MaxChanges,  \* bound on changes to workflow definitions
    None

ASSUME DispatchAssumption ==
    /\ BatchSize \in Nat \ {0} /\ MaxDepth \in Nat \ {0} /\ MaxOpen \in Nat \ {0}
    /\ MaxEvents \in Nat /\ MaxFaults \in Nat /\ MaxChanges \in Nat
    /\ \A t \in Trigger : /\ Pattern[t].path \in Seq(STRING)
                          /\ Pattern[t].wildcard \in BOOLEAN
                          /\ Emits[t] \in Seq(STRING) \ {<<>>}
    /\ RootTypes \subseteq Seq(STRING) \ {<<>>}
    /\ None \notin Nat

VARIABLES
    log,       \* kernel_events
    cursor,    \* workflow_event_cursors: the last position dealt with, None if null
    ticking,   \* dispatchers in a tick, behind the row lock of the cursor
    batch,     \* the events a dispatcher selected and has not converted yet
    queue,     \* the runs its transaction has inserted
    last,      \* the cursor position its transaction has written
    runs,      \* workflow_runs: rows with the dedupe key event:trigger:event
    emitted,   \* runs whose action has written its event
    workflow,  \* workflow_definitions: status, whether it has an owner
    start,     \* where the cursor started (history)
    touched,   \* workflows changed since the start (history)
    faults, changes

vars == <<log, cursor, ticking, batch, queue, last, runs, emitted, workflow, start, touched,
          faults, changes>>

-----------------------------------------------------------------------------
Position == 1..MaxEvents
Logged == 1..Len(log)
EventRow == [status : {"open", "visible", "aborted"}, type : Seq(STRING),
             depth : Nat, cause : 0..MaxEvents]

TypeOK ==
    /\ log \in Seq(EventRow) /\ Len(log) <= MaxEvents
    /\ cursor \in 0..MaxEvents \cup {None}
    /\ ticking \subseteq Dispatcher
    /\ batch \in [Dispatcher -> SUBSET Position]
    /\ queue \in [Dispatcher -> SUBSET (Trigger \X Position)]
    /\ last \in [Dispatcher -> 0..MaxEvents]
    /\ runs \in [Trigger \X Position -> 0..1]
    /\ emitted \subseteq Trigger \X Position
    /\ workflow \in [Trigger -> [status : {"enabled", "disabled", "archived"}, owned : BOOLEAN]]
    /\ start \in 0..MaxEvents
    /\ touched \subseteq Trigger
    /\ faults \in 0..MaxFaults /\ changes \in 0..MaxChanges

\* The migration seeds the cursor; a partially upgraded database may hold null.
Init ==
    /\ log = <<>>
    /\ cursor \in {0, None}
    /\ ticking = {}
    /\ batch = [d \in Dispatcher |-> {}]
    /\ queue = [d \in Dispatcher |-> {}]
    /\ last = [d \in Dispatcher |-> 0]
    /\ runs = [key \in Trigger \X Position |-> 0]
    /\ emitted = {}
    /\ workflow = [t \in Trigger |-> [status |-> "enabled", owned |-> TRUE]]
    /\ start = 0
    /\ touched = {}
    /\ faults = 0 /\ changes = 0

-----------------------------------------------------------------------------
(* Writers of the log. *)

Open == {n \in Logged : log[n].status = "open"}
Visible == {n \in Logged : log[n].status = "visible"}

Stamp(type, depth, cause) ==
    /\ Len(log) < MaxEvents
    /\ Cardinality(Open) < MaxOpen
    /\ log' = Append(log, [status |-> "open", type |-> type, depth |-> depth, cause |-> cause])

\* Any transaction stamps an event: a capability's, a bridged digital event, a lifecycle
\* event of a workflow or a run.
Publish ==
    /\ \E type \in RootTypes : Stamp(type, 0, 0)
    /\ UNCHANGED <<cursor, ticking, batch, queue, last, runs, emitted, workflow, start, touched,
                   faults, changes>>

\* Mutant: the lineage is not carried into the event.
BugLineage(n) == 0

\* workflow_depth of the events of a run: depth + 1 in the trigger payload, handed on
\* by _resolve_authority and _workflow_lineage.
Lineage(n) == log[n].depth + 1

\* The action of an event-triggered run stamps its own event.
Emit(t, n) ==
    /\ runs[<<t, n>>] > 0
    /\ <<t, n>> \notin emitted
    /\ Stamp(Emits[t], Lineage(n), n)
    /\ emitted' = emitted \cup {<<t, n>>}
    /\ UNCHANGED <<cursor, ticking, batch, queue, last, runs, workflow, start, touched, faults,
                   changes>>

\* The writer's transaction ends.
Settle(n) ==
    /\ n \in Open
    /\ \E status \in {"visible", "aborted"} : log' = [log EXCEPT ![n].status = status]
    /\ UNCHANGED <<cursor, ticking, batch, queue, last, runs, emitted, workflow, start, touched,
                   faults, changes>>

-----------------------------------------------------------------------------
(* The dispatcher. *)

\* Workflow lifecycle events are no triggers.
Lifecycle(type) == Len(type) > 1 /\ type[1] = "workflow"

\* event_matches_pattern on types and patterns split at their dots; "*" has an empty path.
Matches(type, pattern) ==
    /\ ~Lifecycle(type)
    /\ IF pattern.wildcard
         THEN IsPrefix(pattern.path, type) /\ Len(type) > Len(pattern.path)
         ELSE type = pattern.path

WithinDepth(n) == log[n].depth < MaxDepth

\* _triggers_for_event, then the pattern (with the condition and the scope).
Eligible(t, n) ==
    /\ workflow[t].status = "enabled"
    /\ WithinDepth(n)
    /\ Matches(log[n].type, Pattern[t])

\* Mutant: nobody locks the cursor.
BugCanLock(d) == d \notin ticking

\* with_for_update(skip_locked=True)
CanLock(d) == ticking = {}

\* The transaction ends and with it the row lock.
EndTick(d) ==
    /\ ticking' = ticking \ {d}
    /\ batch' = [batch EXCEPT ![d] = {}]
    /\ queue' = [queue EXCEPT ![d] = {}]
    /\ last' = [last EXCEPT ![d] = 0]

\* A null cursor starts at now.
StartNow(d) ==
    /\ CanLock(d)
    /\ cursor = None
    /\ cursor' = Len(log)
    /\ start' = Len(log)
    /\ UNCHANGED <<log, ticking, batch, queue, last, runs, emitted, workflow, touched, faults,
                   changes>>

\* Mutant: the event right after the cursor counts as seen.
BugUnseen == {n \in Visible : n > cursor + 1}

Unseen == {n \in Visible : n > cursor}

\* Mutant: the newest events first.
BugSelection == {n \in Unseen : Cardinality({m \in Unseen : m > n}) < BatchSize}

\* The oldest visible events after the cursor, up to the batch size.
Selection == {n \in Unseen : Cardinality({m \in Unseen : m < n}) < BatchSize}

\* tick takes the lock and selects its batch.  (With no event it returns.)
Select(d) ==
    /\ CanLock(d)
    /\ cursor # None
    /\ Unseen # {}
    /\ ticking' = ticking \cup {d}
    /\ batch' = [batch EXCEPT ![d] = Selection]
    /\ UNCHANGED <<log, cursor, queue, last, runs, emitted, workflow, start, touched, faults,
                   changes>>

\* The triggers of event n that have no run under their dedupe key yet.
Missing(d, n) == {t \in Trigger : /\ Eligible(t, n)
                                  /\ runs[<<t, n>>] = 0
                                  /\ <<t, n>> \notin queue[d]}

\* One round of the loop over the batch: runs for the event, then the cursor.
Convert(d) ==
    /\ d \in ticking
    /\ \E n \in batch[d] :
         /\ \A m \in batch[d] : n <= m
         /\ \A t \in Missing(d, n) : workflow[t].owned
         /\ queue' = [queue EXCEPT ![d] = @ \cup {<<t, n>> : t \in Missing(d, n)}]
         /\ last' = [last EXCEPT ![d] = n]
         /\ batch' = [batch EXCEPT ![d] = @ \ {n}]
    /\ UNCHANGED <<log, cursor, ticking, runs, emitted, workflow, start, touched, faults, changes>>

\* queue_workflow_run raises "no executable authority user": the tick is rolled back.
Unauthorised(d) ==
    /\ d \in ticking
    /\ \E n \in batch[d] :
         /\ \A m \in batch[d] : n <= m
         /\ \E t \in Missing(d, n) : ~workflow[t].owned
    /\ EndTick(d)
    /\ UNCHANGED <<log, cursor, runs, emitted, workflow, start, touched, faults, changes>>

\* Runs and cursor become durable together.
CommitTick(d) ==
    /\ d \in ticking
    /\ batch[d] = {}
    /\ cursor' = last[d]
    /\ runs' = [key \in Trigger \X Position |->
                    IF key \in queue[d] THEN runs[key] + 1 ELSE runs[key]]
    /\ EndTick(d)
    /\ UNCHANGED <<log, emitted, workflow, start, touched, faults, changes>>

Tick(d) == StartNow(d) \/ Select(d) \/ Convert(d) \/ Unauthorised(d) \/ CommitTick(d)

\* The replica dies; the database rolls its transaction back.
Crash(d) ==
    /\ faults < MaxFaults
    /\ d \in ticking
    /\ faults' = faults + 1
    /\ EndTick(d)
    /\ UNCHANGED <<log, cursor, runs, emitted, workflow, start, touched, changes>>

-----------------------------------------------------------------------------
(* Workflow definitions. *)

\* workflow.enable, disable and archive; an archived one stays so.
SetStatus(t) ==
    /\ changes < MaxChanges
    /\ workflow[t].status # "archived"
    /\ \E status \in {"enabled", "disabled", "archived"} \ {workflow[t].status} :
         workflow' = [workflow EXCEPT ![t].status = status]
    /\ touched' = touched \cup {t}
    /\ changes' = changes + 1
    /\ UNCHANGED <<log, cursor, ticking, batch, queue, last, runs, emitted, start, faults>>

\* The owner's account is deleted: owner_user_id is set null.
OwnerDeleted(t) ==
    /\ changes < MaxChanges
    /\ workflow[t].owned
    /\ workflow' = [workflow EXCEPT ![t].owned = FALSE]
    /\ changes' = changes + 1
    /\ UNCHANGED <<log, cursor, ticking, batch, queue, last, runs, emitted, start, touched, faults>>

-----------------------------------------------------------------------------
Next ==
    \/ Publish
    \/ \E t \in Trigger : \/ \E n \in Logged : Emit(t, n)
                          \/ SetStatus(t) \/ OwnerDeleted(t)
    \/ \E n \in Logged : Settle(n)
    \/ \E d \in Dispatcher : Tick(d) \/ Crash(d)

Spec == Init /\ [][Next]_vars

\* Every replica ticks forever, and transactions end.
Fairness ==
    /\ \A d \in Dispatcher : WF_vars(Tick(d))
    /\ \A n \in Position : WF_vars(n \in Logged /\ Settle(n))

-----------------------------------------------------------------------------
(***************************************************************************)
(* Correctness.                                                            *)
(***************************************************************************)

\* "This prevents both event loss and double-dispatch across replicas" (models.py): each
\* event behind the cursor has exactly one run for every trigger that matched it, provided
\* the workflow was enabled all along.
ExactlyOnce ==
    cursor # None =>
        \A t \in Trigger \ touched, n \in Visible :
            start < n /\ n <= cursor /\ Eligible(t, n) => runs[<<t, n>>] = 1

\* Events of the log of which each but the last was emitted by a run that the next one
\* triggered: followed along the causes, not by the depth the rows carry.
Cascade(chain) == \A i \in 1..MaxDepth : log[chain[i - 1]].cause = chain[i]

\* A workflow that triggers itself stops: an event with MaxDepth runs between it and the
\* activity it stems from starts none.
CascadeBounded ==
    \A t \in Trigger, chain \in [0..MaxDepth -> Logged] :
        Cascade(chain) => runs[<<t, chain[0]>>] = 0

\* An event that cannot be turned into a run, because the workflow it triggers has lost
\* its owner, makes every tick roll back.
Poisoned == \E t \in Trigger, n \in Visible :
               Eligible(t, n) /\ ~workflow[t].owned /\ n > cursor /\ runs[<<t, n>>] = 0

\* Nothing visible is left behind the cursor, unless a poisoned event holds it back.
EventsHandled ==
    Visible # {} => cursor # None /\ (Poisoned \/ \A n \in Visible : n <= cursor)
=============================================================================
