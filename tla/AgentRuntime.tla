---------------------------- MODULE AgentRuntime ----------------------------
(***************************************************************************)
(* One durable agent run: its rows and the operations on them              *)
(* (packages/agent_runtime/store.py), the orchestrator that claims the run *)
(* and walks its steps (orchestrator.py) and the Kernel call of a step     *)
(* (runtime.py), for several workers that may overlap.                     *)
(*                                                                         *)
(* A worker keeps one database session for the whole of run_once.  The     *)
(* session factory does not expire rows on commit, and a SELECT ... FOR    *)
(* UPDATE takes the lock but does not refresh a row the session already    *)
(* holds.  So transition_run and record_step_result of a worker see the    *)
(* rows as they were when it claimed the run (cached), until a rollback    *)
(* inside Kernel drops them; single-statement UPDATEs and column reads     *)
(* (claim, renewal, cancellation) always see the database.                 *)
(*                                                                         *)
(* The Kernel is reduced to what a step can observe of it: the durable     *)
(* request claim, the approval and the outcome (see Kernel.tla).           *)
(***************************************************************************)
EXTENDS Naturals, FiniteSets

CONSTANTS
    Worker,      \* callers of run_once; each has its own lease token
    StepCount,   \* steps 1..StepCount in step_order
    ReadOnly,    \* steps whose capability is read-only
    Gated,       \* mutating steps whose capability asks for an approval
    Events,      \* which environment events this instance includes
    MaxFaults,   \* bound on crashes and heartbeat failures
    None

StepId == 1..StepCount

ASSUME AgentAssumption ==
    /\ StepCount \in Nat \ {0} /\ MaxFaults \in Nat
    /\ ReadOnly \subseteq StepId
    /\ Gated \subseteq StepId \ ReadOnly
    /\ Events \subseteq {"stall", "preflight", "providerError", "badOutput"}
    /\ None \notin Worker \cup StepId

VARIABLES
    run,        \* agent_runtime_runs: status, cancellation, lease, current_step_id
    step,       \* agent_runtime_steps: status, attempt_count, approval_id given
    claim,      \* kernel_request_claims of each step's stable request id
    approval,   \* kernel_approvals of each step
    authority,  \* what the run's user may do now
    pc,         \* where each worker is in run_once
    idx,        \* the step a worker is at
    cached,     \* the worker's session still holds the rows it loaded
    snap,       \* those step rows
    ctx,        \* the authority the worker resolved for this step
    res,        \* the AgentStepResult of this step
    cancelSeen, \* cancelled_after_step
    target,     \* the status a worker is about to write
    lost,       \* the heartbeat lost the lease
    faults,     \* faults so far
    effects,    \* times the capability of a step had its effect (history)
    acted,      \* workers whose Kernel call of this step had its effect (history)
    rejected,   \* steps whose effect was followed by an invalid output (history)
    pastCancel, \* workers past the cancellation check when it was requested (history)
    pastLoss    \* workers past resolving when authority was lost (history)

rows == <<run, step, claim, approval, authority>>
local == <<pc, idx, cached, snap, ctx, res, cancelSeen, target, lost>>
history == <<faults, effects, acted, rejected, pastCancel, pastLoss>>
vars == <<rows, local, history>>

-----------------------------------------------------------------------------
Terminal == {"completed", "failed", "cancelled", "budget_exhausted", "execution_uncertain"}
RunStatus == Terminal \cup {"absent", "queued", "running", "waiting_approval"}
StepStatus == {"pending", "completed", "waiting_approval", "failed", "execution_uncertain"}
Mutating == StepId \ ReadOnly

\* _ALLOWED_TRANSITIONS
Allowed(from) ==
    CASE from = "queued" -> {"running", "cancelled"}
      [] from = "running" -> Terminal \cup {"waiting_approval"}
      [] from = "waiting_approval" -> {"queued", "cancelled"}
      [] OTHER -> {}

RunRow == [status : RunStatus, cancel : BOOLEAN, token : Worker \cup {None},
           lease : {"null", "live", "expired"}, cur : StepId \cup {None}]
StepRow == [status : StepStatus, attempt : Nat, approved : BOOLEAN]
NewStep == [status |-> "pending", attempt |-> 0, approved |-> FALSE]

\* The heartbeat runs while the capability does.
InKernel == {"kernel", "reserve", "effect", "answer", "recover"}
WorkerPC == InKernel \cup {"idle", "claimed", "loop", "ready", "resolve", "after", "settle", "finish"}

TypeOK ==
    /\ run \in RunRow
    /\ step \in [StepId -> StepRow]
    /\ claim \in [StepId -> {"none", "running", "completed"}]
    /\ approval \in [StepId -> {"none", "pending", "approved", "denied", "executing"}]
    /\ authority \in {"full", "reduced", "none"}
    /\ pc \in [Worker -> WorkerPC]
    /\ idx \in [Worker -> StepId]
    /\ cached \in [Worker -> BOOLEAN]
    /\ snap \in [Worker -> [StepId -> StepRow]]
    /\ ctx \in [Worker -> {"full", "reduced", "none"}]
    /\ res \in [Worker -> StepStatus]
    /\ cancelSeen \in [Worker -> BOOLEAN]
    /\ target \in [Worker -> RunStatus]
    /\ lost \in [Worker -> BOOLEAN]
    /\ faults \in 0..MaxFaults
    /\ effects \in [StepId -> Nat]
    /\ acted \subseteq Worker
    /\ rejected \subseteq StepId
    /\ pastCancel \subseteq Worker
    /\ pastLoss \subseteq Worker

Init ==
    /\ run = [status |-> "absent", cancel |-> FALSE, token |-> None, lease |-> "null", cur |-> None]
    /\ step = [s \in StepId |-> NewStep]
    /\ claim = [s \in StepId |-> "none"]
    /\ approval = [s \in StepId |-> "none"]
    /\ authority = "full"
    /\ pc = [w \in Worker |-> "idle"]
    /\ idx = [w \in Worker |-> 1]
    /\ cached = [w \in Worker |-> FALSE]
    /\ snap = [w \in Worker |-> [s \in StepId |-> NewStep]]
    /\ ctx = [w \in Worker |-> "none"]
    /\ res = [w \in Worker |-> "pending"]
    /\ cancelSeen = [w \in Worker |-> FALSE]
    /\ target = [w \in Worker |-> "absent"]
    /\ lost = [w \in Worker |-> FALSE]
    /\ faults = 0
    /\ effects = [s \in StepId |-> 0]
    /\ acted = {}
    /\ rejected = {}
    /\ pastCancel = {}
    /\ pastLoss = {}

-----------------------------------------------------------------------------
(* Where a worker goes next.  Its task ends by returning or by raising;    *)
(* either way its session is closed.                                       *)

Ended(w) ==
    /\ pc' = [pc EXCEPT ![w] = "idle"]
    /\ idx' = [idx EXCEPT ![w] = 1]
    /\ cached' = [cached EXCEPT ![w] = FALSE]
    /\ snap' = [snap EXCEPT ![w] = [s \in StepId |-> NewStep]]
    /\ ctx' = [ctx EXCEPT ![w] = "none"]
    /\ res' = [res EXCEPT ![w] = "pending"]
    /\ cancelSeen' = [cancelSeen EXCEPT ![w] = FALSE]
    /\ target' = [target EXCEPT ![w] = "absent"]
    /\ lost' = [lost EXCEPT ![w] = FALSE]
    /\ acted' = acted \ {w}
    /\ pastCancel' = pastCancel \ {w}
    /\ pastLoss' = pastLoss \ {w}

Goto(w, label) ==
    /\ pc' = [pc EXCEPT ![w] = label]
    /\ UNCHANGED <<idx, cached, snap, ctx, res, cancelSeen, target, lost>>

Finish(w, status) ==
    /\ pc' = [pc EXCEPT ![w] = "finish"]
    /\ target' = [target EXCEPT ![w] = status]
    /\ UNCHANGED <<idx, cached, snap, ctx, res, cancelSeen, lost>>

\* The Kernel call is over; an error has rolled the session back.
Answered(w, result, rolledBack) ==
    /\ pc' = [pc EXCEPT ![w] = "after"]
    /\ res' = [res EXCEPT ![w] = result]
    /\ cached' = [cached EXCEPT ![w] = @ /\ ~rolledBack]
    /\ UNCHANGED <<idx, snap, ctx, cancelSeen, target, lost>>

Owns(w) == run.status = "running" /\ run.token = w

\* The status transition_run compares: the session's copy of the row.
SeenStatus(w) == IF cached[w] THEN "running" ELSE run.status

\* transition_run's assignments.
Moved(status, cur) ==
    IF status \in Terminal \cup {"waiting_approval"}
    THEN [run EXCEPT !.status = status, !.cur = cur, !.token = None, !.lease = "null"]
    ELSE [run EXCEPT !.status = status, !.cur = cur]

-----------------------------------------------------------------------------
(* Operations of the API and of people. *)

\* create_run: the run is queued, its steps are pending.
CreateRun ==
    /\ run.status = "absent"
    /\ run' = [run EXCEPT !.status = "queued"]
    /\ UNCHANGED <<step, claim, approval, authority, local, history>>

\* Mutant: a finished run can be cancelled.
BugRequestCancellation ==
    /\ run.status # "absent"
    /\ run' = [run EXCEPT !.cancel = TRUE, !.status = "cancelled", !.token = None, !.lease = "null"]
    /\ pastCancel' = {w \in Worker : pc[w] \in InKernel \cup {"resolve"}}
    /\ UNCHANGED <<step, claim, approval, authority, local, faults, effects, acted, rejected, pastLoss>>

\* request_cancellation: without a live lease the run ends here, with one
\* the worker is told.
RequestCancellation ==
    /\ run.status \notin Terminal \cup {"absent"}
    /\ run' = IF run.status = "running" /\ run.token # None /\ run.lease = "live"
              THEN [run EXCEPT !.cancel = TRUE]
              ELSE [run EXCEPT !.cancel = TRUE, !.status = "cancelled", !.token = None, !.lease = "null"]
    /\ pastCancel' = IF run.cancel THEN pastCancel ELSE {w \in Worker : pc[w] \in InKernel \cup {"resolve"}}
    /\ UNCHANGED <<step, claim, approval, authority, local, faults, effects, acted, rejected, pastLoss>>

\* A person decides the approval of a step.
DecideApproval(s) ==
    /\ approval[s] = "pending"
    /\ \E verdict \in {"approved", "denied"} : approval' = [approval EXCEPT ![s] = verdict]
    /\ UNCHANGED <<run, step, claim, authority, local, history>>

\* Mutant: the run gets the step's new status.
BugQueueAfterApproval ==
    /\ run.status = "waiting_approval"
    /\ run.cur # None
    /\ step' = [step EXCEPT ![run.cur].status = "pending", ![run.cur].approved = TRUE]
    /\ run' = [run EXCEPT !.status = "pending", !.token = None, !.lease = "null"]
    /\ UNCHANGED <<claim, approval, authority, local, history>>

\* queue_after_approval: the id is the caller's; Kernel judges it later.
QueueAfterApproval ==
    /\ run.status = "waiting_approval"
    /\ ~run.cancel
    /\ run.cur # None
    /\ step[run.cur].status = "waiting_approval"
    /\ step' = [step EXCEPT ![run.cur].status = "pending", ![run.cur].approved = TRUE]
    /\ run' = [run EXCEPT !.status = "queued", !.token = None, !.lease = "null"]
    /\ UNCHANGED <<claim, approval, authority, local, history>>

\* The user loses the role, or the membership.
LoseAuthority ==
    /\ authority # "none"
    /\ authority' \in IF authority = "full" THEN {"reduced", "none"} ELSE {"none"}
    /\ pastLoss' = IF authority = "full" THEN {w \in Worker : pc[w] \in InKernel} ELSE pastLoss
    /\ UNCHANGED <<run, step, claim, approval, local, faults, effects, acted, rejected, pastCancel>>

-----------------------------------------------------------------------------
(* run_once *)

\* claim_run and its commit: one UPDATE.
Claim(w) ==
    /\ pc[w] = "idle"
    /\ run.status \in {"queued", "running"}
    /\ ~run.cancel \/ run.status = "running"
    /\ run.lease # "live" \/ run.token = w
    /\ run' = [run EXCEPT !.status = "running", !.token = w, !.lease = "live"]
    /\ pc' = [pc EXCEPT ![w] = "claimed"]
    /\ cached' = [cached EXCEPT ![w] = TRUE]
    /\ UNCHANGED <<step, claim, approval, authority, idx, snap, ctx, res, cancelSeen, target, lost,
                   history>>

\* The cancellation check after the claim, load_plan, preflight_plan and list_steps.
Enter(w) ==
    /\ pc[w] = "claimed"
    /\ \/ run.cancel /\ Finish(w, "cancelled")
       \/ /\ ~run.cancel
          /\ "preflight" \in Events
          /\ \E status \in {"failed", "budget_exhausted"} : Finish(w, status)
       \/ /\ ~run.cancel
          /\ snap' = [snap EXCEPT ![w] = step]
          /\ pc' = [pc EXCEPT ![w] = "loop"]
          /\ UNCHANGED <<idx, cached, ctx, res, cancelSeen, target, lost>>
    /\ UNCHANGED <<rows, history>>

\* Mutant: the last step is left out.
BugNextStep(w) ==
    IF idx[w] >= StepCount - 1
    THEN /\ pc' = [pc EXCEPT ![w] = "finish"]
         /\ target' = [target EXCEPT ![w] = "completed"]
         /\ UNCHANGED idx
    ELSE /\ pc' = [pc EXCEPT ![w] = "loop"]
         /\ idx' = [idx EXCEPT ![w] = @ + 1]
         /\ UNCHANGED target

\* The next step, as the session saw it when it was listed.
NextStep(w) ==
    IF idx[w] = StepCount
    THEN /\ pc' = [pc EXCEPT ![w] = "finish"]
         /\ target' = [target EXCEPT ![w] = "completed"]
         /\ UNCHANGED idx
    ELSE /\ pc' = [pc EXCEPT ![w] = "loop"]
         /\ idx' = [idx EXCEPT ![w] = @ + 1]
         /\ UNCHANGED target

\* The head of the loop over durable_steps.
Loop(w) ==
    LET seen == snap[w][idx[w]] IN
    /\ pc[w] = "loop"
    /\ \/ /\ seen.status = "completed"
          /\ NextStep(w)
          /\ UNCHANGED <<cached, snap, ctx, res, cancelSeen, lost, rows, history>>
       \/ /\ seen.status \notin {"completed", "pending"}
          /\ ~(seen.status = "waiting_approval" /\ seen.approved)
          /\ Finish(w, IF seen.status = "waiting_approval" THEN "waiting_approval" ELSE "failed")
          /\ UNCHANGED <<rows, history>>
       \/ /\ \/ seen.status = "pending"
             \/ seen.status = "waiting_approval" /\ seen.approved
          /\ \/ /\ run.cancel
                /\ Finish(w, "cancelled")
                /\ UNCHANGED <<rows, history>>
             \/ /\ ~run.cancel
                /\ Owns(w)
                /\ run' = [run EXCEPT !.lease = "live"]
                /\ Goto(w, "ready")
                /\ UNCHANGED <<step, claim, approval, authority, history>>
             \/ /\ ~run.cancel
                /\ ~Owns(w)
                /\ Ended(w)
                /\ UNCHANGED <<rows, faults, effects, rejected>>

\* Mutant: cancellation is not looked at again after the renewal.
BugRecheck(w) ==
    /\ pc[w] = "ready"
    /\ Goto(w, "resolve")
    /\ UNCHANGED <<rows, history>>

\* The second cancellation check, after the renewal's commit.
Recheck(w) ==
    /\ pc[w] = "ready"
    /\ IF run.cancel THEN Finish(w, "cancelled") ELSE Goto(w, "resolve")
    /\ UNCHANGED <<rows, history>>

\* Mutant: the authority of an earlier step is used again.
BugResolveContext(w) ==
    /\ pc[w] = "resolve"
    /\ pc' = [pc EXCEPT ![w] = "kernel"]
    /\ ctx' = [ctx EXCEPT ![w] = "full"]
    /\ UNCHANGED <<idx, cached, snap, res, cancelSeen, target, lost, rows, history>>

\* _resolve_current_context
ResolveContext(w) ==
    /\ pc[w] = "resolve"
    /\ IF authority = "none"
       THEN Finish(w, "failed")
       ELSE /\ pc' = [pc EXCEPT ![w] = "kernel"]
            /\ ctx' = [ctx EXCEPT ![w] = authority]
            /\ UNCHANGED <<idx, cached, snap, res, cancelSeen, target, lost>>
    /\ UNCHANGED <<rows, history>>

-----------------------------------------------------------------------------
(* execute_step: Kernel and the classification of its errors. *)

\* Authorization, the replay lookup and, for a read-only capability, the call.
KernelEnter(w) ==
    LET s == idx[w] IN
    /\ pc[w] = "kernel"
    /\ \/ /\ ctx[w] = "reduced"
          /\ Answered(w, "failed", TRUE)
          /\ UNCHANGED <<approval>>
       \/ /\ ctx[w] = "full" /\ s \in ReadOnly
          /\ \/ Answered(w, "completed", FALSE)
             \/ "providerError" \in Events /\ Answered(w, "failed", TRUE)
          /\ UNCHANGED <<approval>>
       \/ /\ ctx[w] = "full" /\ s \in Mutating
          /\ claim[s] = "completed"
          /\ Answered(w, "completed", FALSE)
          /\ UNCHANGED <<approval>>
       \/ /\ ctx[w] = "full" /\ s \in Mutating
          /\ claim[s] = "running"
          /\ pc' = [pc EXCEPT ![w] = "recover"]
          /\ cached' = [cached EXCEPT ![w] = FALSE]
          /\ UNCHANGED <<idx, snap, ctx, res, cancelSeen, target, lost, approval>>
       \/ /\ ctx[w] = "full" /\ s \in Gated
          /\ claim[s] = "none" /\ ~snap[w][s].approved
          /\ approval' = [approval EXCEPT ![s] = "pending"]
          /\ Answered(w, "waiting_approval", TRUE)
       \/ /\ ctx[w] = "full" /\ s \in Gated
          /\ claim[s] = "none" /\ snap[w][s].approved /\ approval[s] # "approved"
          /\ Answered(w, "failed", TRUE)
          /\ UNCHANGED <<approval>>
       \/ /\ ctx[w] = "full" /\ s \in Mutating
          /\ claim[s] = "none"
          /\ s \in Gated => snap[w][s].approved /\ approval[s] = "approved"
          /\ Goto(w, "reserve")
          /\ UNCHANGED <<approval>>
    /\ UNCHANGED <<run, step, claim, authority, history>>

\* Mutant: a running claim of an earlier attempt is taken over.
BugKernelReserve(w) ==
    /\ pc[w] = "reserve"
    /\ claim' = [claim EXCEPT ![idx[w]] = "running"]
    /\ Goto(w, "effect")
    /\ UNCHANGED <<run, step, approval, authority, history>>

\* reserve_request: the claim row is unique; the loser of an insert is rolled back.
KernelReserve(w) ==
    LET s == idx[w] IN
    /\ pc[w] = "reserve"
    /\ \/ /\ claim[s] = "none"
          /\ s \in Gated => approval[s] = "approved"
          /\ claim' = [claim EXCEPT ![s] = "running"]
          /\ approval' = [approval EXCEPT ![s] = IF s \in Gated THEN "executing" ELSE @]
          /\ Goto(w, "effect")
       \/ /\ claim[s] = "running"
          /\ pc' = [pc EXCEPT ![w] = "recover"]
          /\ cached' = [cached EXCEPT ![w] = FALSE]
          /\ UNCHANGED <<idx, snap, ctx, res, cancelSeen, target, lost, claim, approval>>
       \/ /\ claim[s] = "completed"
          /\ \E rolledBack \in BOOLEAN : Answered(w, "completed", rolledBack)
          /\ UNCHANGED <<claim, approval>>
    /\ UNCHANGED <<run, step, authority, history>>

\* provider.execute: it may raise before or after its effect.
KernelEffect(w) ==
    LET s == idx[w] IN
    /\ pc[w] = "effect"
    /\ \/ /\ effects' = [effects EXCEPT ![s] = @ + 1]
          /\ acted' = acted \cup {w}
          /\ Goto(w, "answer")
       \/ /\ "providerError" \in Events
          /\ \/ UNCHANGED <<effects, acted>>
             \/ effects' = [effects EXCEPT ![s] = @ + 1] /\ acted' = acted \cup {w}
          /\ pc' = [pc EXCEPT ![w] = "recover"]
          /\ cached' = [cached EXCEPT ![w] = FALSE]
          /\ UNCHANGED <<idx, snap, ctx, res, cancelSeen, target, lost>>
    /\ UNCHANGED <<rows, faults, rejected, pastCancel, pastLoss>>

\* Output validation and Kernel's final commit.  An output that fails its
\* schema is reported as invalid_request, which execute_step counts among the
\* errors raised before the reservation.
KernelAnswer(w) ==
    LET s == idx[w] IN
    /\ pc[w] = "answer"
    /\ \/ /\ claim' = [claim EXCEPT ![s] = "completed"]
          /\ Answered(w, "completed", FALSE)
          /\ UNCHANGED rejected
       \/ /\ "badOutput" \in Events
          /\ rejected' = rejected \cup {s}
          /\ Answered(w, "failed", TRUE)
          /\ UNCHANGED claim
    /\ UNCHANGED <<run, step, approval, authority, faults, effects, acted, pastCancel, pastLoss>>

\* Mutant: an error after the reservation is a plain failure.
BugRecoveryState(w) ==
    /\ pc[w] = "recover"
    /\ Answered(w, IF claim[idx[w]] = "completed" THEN "completed" ELSE "failed", TRUE)
    /\ UNCHANGED <<rows, history>>

\* Mutant: a running claim is taken for a completed one.
BugRecoveryReplay(w) ==
    /\ pc[w] = "recover"
    /\ Answered(w, IF claim[idx[w]] = "none" THEN "failed" ELSE "completed", TRUE)
    /\ UNCHANGED <<rows, history>>

\* _mutation_recovery_state: a fresh look at the claim decides the outcome.
RecoveryState(w) ==
    /\ pc[w] = "recover"
    /\ Answered(w, CASE claim[idx[w]] = "completed" -> "completed"
                     [] claim[idx[w]] = "running" -> "execution_uncertain"
                     [] OTHER -> "failed", TRUE)
    /\ UNCHANGED <<rows, history>>

-----------------------------------------------------------------------------
(* After the step. *)

\* The heartbeat has been joined; cancellation is read.
AfterStep(w) ==
    /\ pc[w] = "after"
    /\ IF lost[w]
       THEN Ended(w) /\ UNCHANGED <<rows, faults, effects, rejected>>
       ELSE /\ pc' = [pc EXCEPT ![w] = "settle"]
            /\ cancelSeen' = [cancelSeen EXCEPT ![w] = run.cancel]
            /\ pastCancel' = pastCancel \ {w}
            /\ pastLoss' = pastLoss \ {w}
            /\ UNCHANGED <<idx, cached, snap, ctx, res, target, lost, rows, faults, effects, acted, rejected>>

\* Mutant: the attempt number is not unique per step.
BugAttemptIsFree(w) == TRUE

\* uq_agent_runtime_step_attempt: attempt_count of the session's copy plus one
\* must not have been used.
AttemptIsFree(w) == ~cached[w] \/ snap[w][idx[w]].attempt = step[idx[w]].attempt

\* The status the run takes with the step's result; an uncertain outcome
\* dominates cancellation, and cancellation is read a second time.
StatusAfter(w) ==
    CASE res[w] = "execution_uncertain" -> "execution_uncertain"
      [] res[w] # "execution_uncertain" /\ (cancelSeen[w] \/ run.cancel) -> "cancelled"
      [] OTHER -> res[w]

Recorded(w) ==
    step' = [step EXCEPT ![idx[w]] = [status |-> res[w], attempt |-> @.attempt + 1,
                                      approved |-> res[w] = "waiting_approval"]]

\* The transaction after the step: renewal (unless cancellation was seen),
\* record_step_result and transition_run commit together.  The renewal holds
\* the run row until the commit.  After a Kernel rollback the remaining rows of
\* durable_steps are expired, and reading one ends the task.
Settle(w) ==
    LET status == StatusAfter(w) IN
    /\ pc[w] = "settle"
    /\ \/ /\ (~cancelSeen[w] /\ ~Owns(w)) \/ ~AttemptIsFree(w)
          /\ Ended(w)
          /\ UNCHANGED <<run, step>>
       \/ /\ cancelSeen[w] \/ Owns(w)
          /\ AttemptIsFree(w)
          /\ status # "completed"
          /\ \/ /\ status \in Allowed(SeenStatus(w))
                /\ Recorded(w)
                /\ run' = Moved(status, idx[w])
             \/ /\ status \notin Allowed(SeenStatus(w))
                /\ UNCHANGED <<run, step>>
          /\ Ended(w)
       \/ /\ cancelSeen[w] \/ Owns(w)
          /\ AttemptIsFree(w)
          /\ status = "completed"
          /\ Recorded(w)
          /\ run' = [run EXCEPT !.lease = "live"]
          /\ \/ /\ cached[w] \/ idx[w] = StepCount
                /\ NextStep(w)
                /\ ctx' = [ctx EXCEPT ![w] = "none"]
                /\ res' = [res EXCEPT ![w] = "pending"]
                /\ acted' = acted \ {w}
                /\ UNCHANGED <<cached, snap, cancelSeen, lost, pastCancel, pastLoss>>
             \/ /\ ~cached[w] /\ idx[w] < StepCount
                /\ Ended(w)
    /\ UNCHANGED <<claim, approval, authority, faults, effects, rejected>>

\* transition_run and commit outside a step: the end of the loop, _fail_run,
\* _cancel_run, budget_exhausted.
Transition(w) ==
    /\ pc[w] = "finish"
    /\ run' = IF target[w] \in Allowed(SeenStatus(w))
              THEN Moved(target[w], IF target[w] = "completed" THEN None ELSE idx[w])
              ELSE run
    /\ Ended(w)
    /\ UNCHANGED <<step, claim, approval, authority, faults, effects, rejected>>

-----------------------------------------------------------------------------
(* The heartbeat, time and faults. *)

\* _lease_heartbeat: renew, or learn that the lease is gone.
Heartbeat(w) ==
    /\ pc[w] \in InKernel
    /\ ~lost[w]
    /\ IF Owns(w)
       THEN run' = [run EXCEPT !.lease = "live"] /\ UNCHANGED lost
       ELSE lost' = [lost EXCEPT ![w] = TRUE] /\ UNCHANGED run
    /\ UNCHANGED <<step, claim, approval, authority, pc, idx, cached, snap, ctx, res, cancelSeen,
                   target, history>>

\* The heartbeat's own session fails.
HeartbeatFails(w) ==
    /\ pc[w] \in InKernel
    /\ ~lost[w]
    /\ faults < MaxFaults
    /\ faults' = faults + 1
    /\ lost' = [lost EXCEPT ![w] = TRUE]
    /\ UNCHANGED <<rows, pc, idx, cached, snap, ctx, res, cancelSeen, target, effects, acted, rejected,
                   pastCancel, pastLoss>>

\* lease_until passes: the holder is gone, or stalls without its heartbeat.
Expire ==
    /\ run.lease = "live"
    /\ "stall" \in Events \/ (run.token # None /\ pc[run.token] = "idle")
    /\ run' = [run EXCEPT !.lease = "expired"]
    /\ UNCHANGED <<step, claim, approval, authority, local, history>>

\* A worker's process dies; its open transaction rolls back.
Crash(w) ==
    /\ pc[w] # "idle"
    /\ faults < MaxFaults
    /\ faults' = faults + 1
    /\ Ended(w)
    /\ UNCHANGED <<rows, effects, rejected>>

-----------------------------------------------------------------------------
WorkerStep(w) ==
    \/ Claim(w) \/ Enter(w) \/ Loop(w) \/ Recheck(w) \/ ResolveContext(w)
    \/ KernelEnter(w) \/ KernelReserve(w) \/ KernelEffect(w) \/ KernelAnswer(w)
    \/ RecoveryState(w) \/ AfterStep(w) \/ Settle(w) \/ Transition(w)

Next ==
    \/ CreateRun \/ RequestCancellation \/ QueueAfterApproval \/ LoseAuthority \/ Expire
    \/ \E s \in StepId : DecideApproval(s)
    \/ \E w \in Worker : WorkerStep(w) \/ Heartbeat(w) \/ HeartbeatFails(w) \/ Crash(w)

Spec == Init /\ [][Next]_vars

\* A worker that runs comes to the end of its pass.
FairSpec == Spec /\ \A w \in Worker : WF_vars(WorkerStep(w))

-----------------------------------------------------------------------------
(* Properties. *)

\* However leases expire, workers overlap or die, the capability of a mutating
\* step has its effect at most once: the request id of a step is stable and
\* Kernel's claim outlives the worker (execute_step, reserve_request).
EffectAtMostOnce == \A s \in Mutating : effects[s] <= 1

\* A mutation has its effect only after every earlier mutation of the plan is
\* durably done: two workers at different steps never reorder the plan, although
\* each walks a list of rows it read once (run_once's loop over durable_steps).
EffectsInOrder ==
    \A s, t \in Mutating : t < s /\ effects[s] > 0 => effects[t] = 1 /\ claim[t] = "completed"

\* A run reported as completed did all of its work: each mutation really had its
\* effect, and every step is recorded as completed (unless a cancellation let a
\* worker without the lease rewrite a step, see OutcomeIsFinal).
CompletedIsTrue ==
    run.status = "completed" =>
        /\ \A s \in Mutating : effects[s] = 1 /\ claim[s] = "completed"
        /\ run.cancel \/ \A s \in StepId : step[s].status = "completed"

\* A worker whose own capability call had its effect never reports the step as
\* failed: whatever error follows, the claim turns it into completed or
\* execution_uncertain.  The one exception is an output rejected after the
\* effect, which execute_step files with the errors raised before the reservation.
FailureIsNotAnEffect ==
    \A w \in Worker : w \in acted /\ res[w] = "failed" => idx[w] \in rejected

\* Once cancellation is requested only the capability that was already past
\* its last check may still have its effect; no worker starts a later one
\* ("the run stops before any later step").
CancelStopsLaterSteps ==
    \A w \in Worker : run.cancel /\ pc[w] \in InKernel => w \in pastCancel

\* A lost role or membership holds for the next capability, also for a worker
\* that took the run over (run_once resolves authority before each step).
AuthorityIsCurrent ==
    \A w \in Worker : authority # "full" /\ pc[w] \in {"reserve", "effect", "answer"}
                        => w \in pastLoss

\* A recorded outcome of a step is final: neither the lease check nor the unique
\* attempt number lets a worker that was overtaken write its own result over it.
\* One way round both remains: cancellation was requested, so run_once skips the
\* lease check, and a Kernel error rolled the session back, so the attempt number
\* is read afresh.
OutcomeIsFinal ==
    [][\A s \in StepId :
         /\ step[s].status \in {"completed", "failed", "execution_uncertain"}
         /\ step'[s].status # step[s].status
         => \E w \in Worker : /\ pc[w] = "settle" /\ cancelSeen[w] /\ ~cached[w]
                              /\ pc'[w] = "idle"]_vars

\* A finished run is never reopened, by no API call, claim or transition
\* (test_run_state_machine_rejects_terminal_reopen has this for one session), although
\* transition_run compares the copy of the row that a worker may hold since before the
\* end.  Such a worker, and nobody else, can still replace one final status by another.
FinishedIsNotReopened ==
    [][run.status \in Terminal =>
         /\ run'.status \in Terminal
         /\ run'.status # run.status =>
              \E w \in Worker : cached[w] /\ pc[w] \in {"finish", "settle"} /\ pc'[w] = "idle"]_vars

\* "Losing the heartbeat/lease fails closed before durable step completion is
\* recorded" (docs/unified-agent-runtime.md): only the worker that holds the run
\* writes the outcome of a step (run_once, record_step_result).
LeaseLossFailsClosed ==
    [][\A w \in Worker : pc[w] = "settle" /\ pc'[w] # "settle" /\ step' # step => Owns(w)]_vars
=============================================================================
