------------------------------ MODULE Workflow ------------------------------
(***************************************************************************)
(* The runs of one workflow: the run state machine of the engine           *)
(* (packages/workflow/engine.py), the scheduler that releases, orphans and *)
(* claims runs (scheduler.py, concurrency.py) and the human operations on  *)
(* runs (provider.py).                                                     *)
(*                                                                         *)
(* Workers, schedulers and API requests are separate database sessions at  *)
(* READ COMMITTED.  A worker reads a run row (execute_run's first load,    *)
(* _still_owned's refresh), and writes it in a later commit without        *)
(* looking again; an API request does the same.  Such a read and its write *)
(* are two actions here.  So are the two statements of a claim that counts *)
(* the active runs and then scans the queue: it locks the definition row   *)
(* and the queued rows, not the rows it counts.  The scheduler's other     *)
(* queries lock the rows they change from the read to the commit, and each *)
(* is one action.                                                          *)
(*                                                                         *)
(* lease_until is kept as null, live (not yet past) or expired.            *)
(***************************************************************************)
EXTENDS Naturals, FiniteSets

CONSTANTS
    RunCount,       \* runs 1..RunCount, numbered in order of created_at
    Worker,         \* worker tasks; a free one stands for a fresh lease token
    StepCount,      \* steps 1..StepCount of the workflow specification
    WaitSteps,      \* steps of kind "wait"; the others are actions
    GatedSteps,     \* actions whose capability needs an approval
    ContinueSteps,  \* actions with on_error = "continue"
    ConditionalSteps, \* steps with a "when" condition
    DependsOn,      \* depends_on of each step
    Limit,          \* max_concurrent_runs, 0 for no limit
    Overflow,       \* values overflow_policy has: the owner may change it between claims
    Events,         \* which environment events this instance includes
    MaxFaults,      \* bound on crashes and shutdowns of workers
    MaxCancels,     \* bound on cancellation requests
    MaxRetries,     \* bound on human retries per run
    None

Run == 1..RunCount
StepId == 1..StepCount

ASSUME WorkflowAssumption ==
    /\ RunCount \in Nat /\ StepCount \in Nat /\ Limit \in Nat
    /\ MaxFaults \in Nat /\ MaxCancels \in Nat /\ MaxRetries \in Nat
    /\ IsFiniteSet(Worker)
    /\ WaitSteps \subseteq StepId
    /\ GatedSteps \cup ContinueSteps \subseteq StepId \ WaitSteps
    /\ ConditionalSteps \subseteq StepId
    /\ DependsOn \in [StepId -> SUBSET StepId]
    /\ \A s \in StepId : \A d \in DependsOn[s] : d < s
    /\ Overflow # {} /\ Overflow \subseteq {"queue", "drop"}
    /\ Events \subseteq {"cancel", "retry", "stall", "crash", "preflight"}
    /\ None \notin Worker \cup Run \cup StepId

VARIABLES
    run,      \* workflow_runs: status, lease_token, lease_until, current_step_key
    step,     \* workflow_step_runs: status, attempt, the approval it waits for, timer due
    pc,       \* where each worker is in _execute_claimed_run / execute_run
    wrun,     \* the run a worker holds
    idx,      \* the step a worker is at
    api,      \* an API request between its read and its commit
    claim,    \* a claim between its count and its scan: the runs counted, free workers
    faults,   \* workers lost so far
    cancels,  \* cancellation requests so far
    retries,  \* human retries of each run (history)
    effects   \* attempts of a step whose capability had its effect (history)

vars == <<run, step, pc, wrun, idx, api, faults, cancels, retries, effects, claim>>

-----------------------------------------------------------------------------
Terminal == {"completed", "completed_with_errors", "failed", "cancelled", "orphaned"}
RunStatus == Terminal \cup {"absent", "queued", "running", "waiting", "waiting_approval"}
StepStatus == {"pending", "running", "waiting", "waiting_approval", "completed",
               "skipped", "failed", "cancelled"}

\* Mutant: pauses give their slot up.
BugOccupying == {"running"}

\* OCCUPYING_RUN_STATES and, below, what counts against the workflow's limit.
Occupying == {"running", "waiting", "waiting_approval"}
Active == {r \in Run : \/ run[r].status \in Occupying
                       \/ run[r].status = "queued" /\ run[r].lease = "live"}

RunRow == [status : RunStatus, token : Worker \cup {None},
           lease : {"null", "live", "expired"}, cur : StepId \cup {None}]
StepRow == [status : StepStatus, attempt : Nat,
            approval : {"none", "pending", "approved", "denied"}, due : BOOLEAN]
WorkerPC == {"idle", "claimed", "starting", "loop", "step", "kernel", "effect",
             "after", "end", "fail"}
NoApi == [op |-> "none"]
NoClaim == [counted |-> {}, budget |-> 0]

TypeOK ==
    /\ run \in [Run -> RunRow]
    /\ step \in [Run -> [StepId -> StepRow]]
    /\ pc \in [Worker -> WorkerPC]
    /\ wrun \in [Worker -> Run \cup {None}]
    /\ idx \in [Worker -> 1..StepCount + 1]
    /\ \/ api = NoApi
       \/ api \in [op : {"cancel", "retry"}, run : Run, status : RunStatus, leased : BOOLEAN,
                 cur : StepId \cup {None}]
    /\ faults \in 0..MaxFaults
    /\ cancels \in 0..MaxCancels
    /\ retries \in [Run -> 0..MaxRetries]
    /\ effects \in [Run -> [StepId -> SUBSET Nat]]
    /\ claim \in [counted : SUBSET Run, budget : Nat]

NewStep == [status |-> "pending", attempt |-> 0, approval |-> "none", due |-> FALSE]

Init ==
    /\ run = [r \in Run |-> [status |-> "absent", token |-> None, lease |-> "null", cur |-> None]]
    /\ step = [r \in Run |-> [s \in StepId |-> NewStep]]
    /\ pc = [w \in Worker |-> "idle"]
    /\ wrun = [w \in Worker |-> None]
    /\ idx = [w \in Worker |-> 1]
    /\ api = NoApi
    /\ faults = 0
    /\ cancels = 0
    /\ retries = [r \in Run |-> 0]
    /\ effects = [r \in Run |-> [s \in StepId |-> {}]]
    /\ claim = NoClaim

-----------------------------------------------------------------------------
(* Row updates. *)

\* A commit that gives the lease up together with a new status.
Unleased(r, status, cur) ==
    run' = [run EXCEPT ![r] = [status |-> status, token |-> None, lease |-> "null", cur |-> cur]]

SetStep(r, s, fields) == step' = [step EXCEPT ![r][s] = fields]

\* The worker's task ends.
Finished(w) ==
    /\ pc' = [pc EXCEPT ![w] = "idle"]
    /\ wrun' = [wrun EXCEPT ![w] = None]
    /\ idx' = [idx EXCEPT ![w] = 1]

Goto(w, label) == pc' = [pc EXCEPT ![w] = label] /\ UNCHANGED <<wrun, idx>>

NextStep(w) ==
    /\ pc' = [pc EXCEPT ![w] = "loop"]
    /\ idx' = [idx EXCEPT ![w] = idx[w] + 1]
    /\ UNCHANGED wrun

\* Mutant: a worker that lost its token carries on.
BugStillOwned(w) == run[wrun[w]].status \notin {"cancelled", "orphaned"}

\* _still_owned: a fresh read of the row.
StillOwned(w) ==
    /\ run[wrun[w]].status \notin {"cancelled", "orphaned"}
    /\ run[wrun[w]].token = w

Resolved(r, s) == step[r][s].status \in {"completed", "skipped"}

-----------------------------------------------------------------------------
(* The scheduler. *)

\* queue_workflow_run for a manual, scheduled or event-triggered run.
Enqueue(r) ==
    /\ run[r].status = "absent"
    /\ \A q \in Run : q < r => run[q].status # "absent"
    /\ run' = [run EXCEPT ![r].status = "queued"]
    /\ UNCHANGED <<step, pc, wrun, idx, api, faults, cancels, retries, effects, claim>>

\* Mutant: decided approvals are not looked for.
BugRelease(r) ==
    /\ run[r].status = "waiting"
    /\ step[r][run[r].cur].due
    /\ run' = [run EXCEPT ![r].status = "queued"]
    /\ UNCHANGED <<step, pc, wrun, idx, api, faults, cancels, retries, effects, claim>>

\* _release_decided_approvals_and_waits
Release(r) ==
    /\ \/ /\ run[r].status = "waiting"
          /\ step[r][run[r].cur].due
       \/ /\ run[r].status = "waiting_approval"
          /\ step[r][run[r].cur].approval \notin {"none", "pending"}
    /\ run' = [run EXCEPT ![r].status = "queued"]
    /\ UNCHANGED <<step, pc, wrun, idx, api, faults, cancels, retries, effects, claim>>

\* Mutant: a run whose worker is gone goes back to the queue.
BugMarkOrphaned(r) ==
    /\ run[r].status = "running"
    /\ run[r].lease = "expired"
    /\ Unleased(r, "queued", run[r].cur)
    /\ UNCHANGED <<step, pc, wrun, idx, api, faults, cancels, retries, effects, claim>>

\* _mark_orphaned_running_runs: a null lease never matches.
MarkOrphaned(r) ==
    /\ run[r].status = "running"
    /\ run[r].lease = "expired"
    /\ Unleased(r, "orphaned", run[r].cur)
    /\ UNCHANGED <<step, pc, wrun, idx, api, faults, cancels, retries, effects, claim>>

\* A worker task whose token no row carries: claiming with it is a fresh uuid4.
FreeWorker == {w \in Worker : pc[w] = "idle" /\ \A r \in Run : run[r].token # w}

\* Queued, and unleased at the claim's own "now": a lease that ran out since the count was
\* live then, and its run counted.
Claimable == {r \in Run : /\ run[r].status = "queued"
                          /\ \/ run[r].lease = "null"
                             \/ run[r].lease = "expired" /\ r \notin claim.counted}
QueuePosition(r) == Cardinality({q \in Claimable : q < r})

\* per_workflow_available
Available == IF Limit = 0 THEN claim.budget
             ELSE IF Cardinality(claim.counted) >= Limit THEN 0
             ELSE Limit - Cardinality(claim.counted)

\* ConcurrentWorkflowScheduler._claim_runs for this workflow, up to the count of its active
\* runs.  The lock of the definition row keeps other claims out to the commit; releases,
\* workers and requests do not take it.
CountActive ==
    /\ claim = NoClaim
    /\ FreeWorker # {} /\ Claimable # {}
    /\ claim' = [counted |-> Active, budget |-> Cardinality(FreeWorker)]
    /\ UNCHANGED <<run, step, pc, wrun, idx, api, faults, cancels, retries, effects>>

\* The oldest, up to what the workflow and the workers have room for, and the runs beyond
\* the workflow's own limit.
Claimed == {r \in Claimable : QueuePosition(r) < Available /\ QueuePosition(r) < claim.budget}
Surplus == {r \in Claimable \ Claimed : Limit > 0 /\ QueuePosition(r) >= Available}

\* ... and from the scan of its queue, a later statement, to the commit: the oldest get a
\* lease, and the surplus is cancelled if the current version's policy is to drop.
ClaimRuns ==
    /\ claim # NoClaim
    /\ \E w \in [Claimed -> FreeWorker], policy \in Overflow :
         /\ \A r, q \in Claimed : r # q => w[r] # w[q]
         /\ run' = [r \in Run |->
              IF r \in Claimed THEN [run[r] EXCEPT !.token = w[r], !.lease = "live"]
              ELSE IF r \in Surplus /\ policy = "drop"
                THEN [run[r] EXCEPT !.status = "cancelled", !.token = None, !.lease = "null"]
              ELSE run[r]]
         /\ pc' = [v \in Worker |-> IF \E r \in Claimed : w[r] = v THEN "claimed" ELSE pc[v]]
         /\ wrun' = [v \in Worker |-> IF \E r \in Claimed : w[r] = v
                                        THEN CHOOSE r \in Claimed : w[r] = v ELSE wrun[v]]
    /\ claim' = NoClaim
    /\ UNCHANGED <<step, idx, api, faults, cancels, retries, effects>>

\* _lease_heartbeat, as long as the task lives and the row is still its own.
Heartbeat(w) ==
    /\ pc[w] # "idle"
    /\ run[wrun[w]].token = w
    /\ run[wrun[w]].status \in {"queued", "running"}
    /\ run[wrun[w]].lease = "expired"
    /\ run' = [run EXCEPT ![wrun[w]].lease = "live"]
    /\ UNCHANGED <<step, pc, wrun, idx, api, faults, cancels, retries, effects, claim>>

\* Time passes the lease: that of a dead worker, or of one whose heartbeats stall.
Expire(r) ==
    /\ run[r].lease = "live"
    /\ \/ "stall" \in Events
       \/ run[r].token = None
       \/ run[r].token # None /\ pc[run[r].token] = "idle"
    /\ run' = [run EXCEPT ![r].lease = "expired"]
    /\ UNCHANGED <<step, pc, wrun, idx, api, faults, cancels, retries, effects, claim>>

-----------------------------------------------------------------------------
(* A worker: _execute_claimed_run and WorkflowEngine.execute_run. *)

\* The ownership query and execute_run's load of the row.
Begin(w) ==
    /\ pc[w] = "claimed"
    /\ IF run[wrun[w]].token = w /\ run[wrun[w]].status = "queued"
         THEN Goto(w, "starting")
         ELSE Finished(w)
    /\ UNCHANGED <<run, step, api, faults, cancels, retries, effects, claim>>

\* The commit that starts or resumes the run, on the strength of that load.
Start(w) ==
    /\ pc[w] = "starting"
    /\ run' = [run EXCEPT ![wrun[w]].status = "running"]
    /\ Goto(w, "loop")
    /\ UNCHANGED <<step, api, faults, cancels, retries, effects, claim>>

\* Definition or version missing, scope changed, archived, no authority, invalid spec.
Preflight(w) ==
    /\ "preflight" \in Events
    /\ pc[w] = "starting"
    /\ Unleased(wrun[w], "failed", run[wrun[w]].cur)
    /\ Finished(w)
    /\ UNCHANGED <<step, api, faults, cancels, retries, effects, claim>>

\* Mutant: dependencies are not looked at again.
BugUnmet(r, s) == FALSE

\* A dependency of the step is not resolved in this run.
Unmet(r, s) == \E d \in DependsOn[s] : ~Resolved(r, d)

\* The top of the step loop: ownership, steps already resolved, dependencies.
Loop(w) ==
    /\ pc[w] = "loop"
    /\ LET r == wrun[w]  s == idx[w] IN
       IF ~StillOwned(w) THEN Finished(w)
       ELSE IF s > StepCount THEN Goto(w, "end")
       ELSE IF Resolved(r, s) THEN NextStep(w)
       ELSE IF Unmet(r, s) THEN Goto(w, "fail")
       ELSE Goto(w, "step")
    /\ UNCHANGED <<run, step, api, faults, cancels, retries, effects, claim>>

\* The step's condition is false.
Skip(w) ==
    /\ pc[w] = "step"
    /\ idx[w] \in ConditionalSteps
    /\ SetStep(wrun[w], idx[w], [step[wrun[w]][idx[w]] EXCEPT !.status = "skipped"])
    /\ run' = [run EXCEPT ![wrun[w]].cur = idx[w]]
    /\ NextStep(w)
    /\ UNCHANGED <<api, faults, cancels, retries, effects, claim>>

\* The condition, or the time of a wait not yet set, cannot be evaluated.
StepInvalid(w) ==
    /\ pc[w] = "step"
    /\ \/ idx[w] \in ConditionalSteps
       \/ idx[w] \in WaitSteps /\ step[wrun[w]][idx[w]].status = "pending"
    /\ Goto(w, "fail")
    /\ UNCHANGED <<run, step, api, faults, cancels, retries, effects, claim>>

\* _wait_step before wait_until: the run pauses and gives its lease up.
WaitStep(w) ==
    /\ pc[w] = "step"
    /\ idx[w] \in WaitSteps
    /\ ~step[wrun[w]][idx[w]].due
    /\ SetStep(wrun[w], idx[w], [step[wrun[w]][idx[w]] EXCEPT !.status = "waiting"])
    /\ Unleased(wrun[w], "waiting", idx[w])
    /\ Finished(w)
    /\ UNCHANGED <<api, faults, cancels, retries, effects, claim>>

\* ... and after it.
WaitOver(w) ==
    /\ pc[w] = "step"
    /\ idx[w] \in WaitSteps
    /\ step[wrun[w]][idx[w]].due
    /\ SetStep(wrun[w], idx[w], [step[wrun[w]][idx[w]] EXCEPT !.status = "completed"])
    /\ run' = [run EXCEPT ![wrun[w]].cur = idx[w]]
    /\ NextStep(w)
    /\ UNCHANGED <<api, faults, cancels, retries, effects, claim>>

\* _action_step continues an attempt that waited for an approval, decided by then: no
\* step queues the run of a pending one, so the branch for it is not reached ...
Resuming(r, s) == step[r][s].status = "waiting_approval" /\ step[r][s].approval # "none"

\* Mutant: a status outside the vocabulary of the column.
BugNewAttempt(r, s) == [status |-> "dispatched", attempt |-> step[r][s].attempt + 1,
                        approval |-> "none", due |-> step[r][s].due]

\* ... or opens a new attempt, with a request id of its own.
NewAttempt(r, s) == [status |-> "running", attempt |-> step[r][s].attempt + 1,
                     approval |-> "none", due |-> step[r][s].due]

ActionStep(w) ==
    LET r == wrun[w]  s == idx[w] IN
    /\ pc[w] = "step"
    /\ s \notin WaitSteps
    /\ IF Resuming(r, s) THEN /\ step[r][s].approval = "approved"
                              /\ SetStep(r, s, [step[r][s] EXCEPT !.status = "running"])
                         ELSE SetStep(r, s, NewAttempt(r, s))
    /\ run' = [run EXCEPT ![r].cur = s]
    /\ Goto(w, "kernel")
    /\ UNCHANGED <<api, faults, cancels, retries, effects, claim>>

\* The human rejected the step, or its arguments cannot be rendered.
ActionRefused(w) ==
    LET r == wrun[w]  s == idx[w] IN
    /\ pc[w] = "step"
    /\ s \notin WaitSteps
    /\ IF Resuming(r, s) THEN /\ step[r][s].approval = "denied"
                              /\ SetStep(r, s, [step[r][s] EXCEPT !.status = "failed"])
                              /\ run' = [run EXCEPT ![r].cur = s]
                         ELSE /\ SetStep(r, s, [NewAttempt(r, s) EXCEPT !.status = "failed"])
                              /\ UNCHANGED run
    /\ Goto(w, "after")
    /\ UNCHANGED <<api, faults, cancels, retries, effects, claim>>

\* The Kernel answers approval_required: the row is loaded again after its rollback,
\* and set to waiting_approval whatever it says.
ApprovalRequired(w) ==
    LET r == wrun[w]  s == idx[w] IN
    /\ pc[w] = "kernel"
    /\ s \in GatedSteps
    /\ step[r][s].approval = "none"
    /\ SetStep(r, s, [step[r][s] EXCEPT !.status = "waiting_approval", !.approval = "pending"])
    /\ Unleased(r, "waiting_approval", s)
    /\ Finished(w)
    /\ UNCHANGED <<api, faults, cancels, retries, effects, claim>>

\* The Kernel may run the capability under this attempt's request id.
Authorised(r, s) == s \in GatedSteps => step[r][s].approval = "approved"

Effect(w) ==
    LET r == wrun[w]  s == idx[w] IN
    /\ pc[w] = "kernel"
    /\ Authorised(r, s)
    /\ effects' = [effects EXCEPT ![r][s] = effects[r][s] \cup {step[r][s].attempt}]
    /\ Goto(w, "effect")
    /\ UNCHANGED <<run, step, api, faults, cancels, retries, claim>>

\* The Kernel committed and returned; the step row follows in a transaction of its own.
StepCompleted(w) ==
    LET r == wrun[w]  s == idx[w] IN
    /\ pc[w] = "effect"
    /\ SetStep(r, s, [step[r][s] EXCEPT !.status = "completed"])
    /\ NextStep(w)
    /\ UNCHANGED <<run, api, faults, cancels, retries, effects, claim>>

\* The Kernel call, or resolving the authority for it, fails, before or after the effect.
StepFailed(w) ==
    LET r == wrun[w]  s == idx[w] IN
    /\ pc[w] \in {"kernel", "effect"}
    /\ SetStep(r, s, [step[r][s] EXCEPT !.status = "failed"])
    /\ Goto(w, "after")
    /\ UNCHANGED <<run, api, faults, cancels, retries, effects, claim>>

\* An exception the engine does not catch: _mark_dispatch_failure.
DispatchFailure(w) ==
    /\ pc[w] # "idle"
    /\ IF run[wrun[w]].token = w /\ run[wrun[w]].status \in {"queued", "running"}
         THEN Unleased(wrun[w], "failed", run[wrun[w]].cur)
         ELSE UNCHANGED run
    /\ Finished(w)
    /\ UNCHANGED <<step, api, faults, cancels, retries, effects, claim>>

\* Back in the loop with a failed action.
AfterFailure(w) ==
    /\ pc[w] = "after"
    /\ IF ~StillOwned(w) THEN Finished(w)
       ELSE IF idx[w] \in ContinueSteps THEN NextStep(w)
       ELSE Goto(w, "fail")
    /\ UNCHANGED <<run, step, api, faults, cancels, retries, effects, claim>>

\* _fail
FailRun(w) ==
    /\ pc[w] = "fail"
    /\ Unleased(wrun[w], "failed", run[wrun[w]].cur)
    /\ Finished(w)
    /\ UNCHANGED <<step, api, faults, cancels, retries, effects, claim>>

\* The last commit of execute_run.
CompleteRun(w) ==
    /\ pc[w] = "end"
    /\ Unleased(wrun[w], IF \E s \in StepId : step[wrun[w]][s].status = "failed"
                           THEN "completed_with_errors" ELSE "completed", None)
    /\ Finished(w)
    /\ UNCHANGED <<step, api, faults, cancels, retries, effects, claim>>

Work(w) ==
    \/ Begin(w) \/ Start(w) \/ Preflight(w) \/ Loop(w)
    \/ Skip(w) \/ StepInvalid(w) \/ WaitStep(w) \/ WaitOver(w)
    \/ ActionStep(w) \/ ActionRefused(w) \/ ApprovalRequired(w)
    \/ Effect(w) \/ StepCompleted(w) \/ StepFailed(w) \/ DispatchFailure(w)
    \/ AfterFailure(w) \/ FailRun(w) \/ CompleteRun(w)

\* The process of the worker dies.
Crash(w) ==
    /\ "crash" \in Events /\ faults < MaxFaults
    /\ pc[w] # "idle"
    /\ faults' = faults + 1
    /\ Finished(w)
    /\ UNCHANGED <<run, step, api, cancels, retries, effects, claim>>

\* The process shuts down: _handle_cancelled_worker.
Shutdown(w) ==
    /\ "crash" \in Events /\ faults < MaxFaults
    /\ pc[w] # "idle"
    /\ faults' = faults + 1
    /\ LET r == wrun[w] IN
       IF run[r].token = w /\ run[r].status = "queued" THEN Unleased(r, "queued", run[r].cur)
       ELSE IF run[r].token = w /\ run[r].status = "running"
         THEN Unleased(r, "orphaned", run[r].cur)
       ELSE UNCHANGED run
    /\ Finished(w)
    /\ UNCHANGED <<step, api, cancels, retries, effects, claim>>

-----------------------------------------------------------------------------
(* Humans: API requests on a run, decisions; and the passing of time. *)

RequestCancel(r) ==
    /\ "cancel" \in Events /\ cancels < MaxCancels
    /\ cancels' = cancels + 1
    /\ api = NoApi
    /\ run[r].status \notin Terminal \cup {"absent"}
    /\ api' = [op |-> "cancel", run |-> r, status |-> run[r].status,
               leased |-> run[r].token # None, cur |-> run[r].cur]
    /\ UNCHANGED <<run, step, pc, wrun, idx, faults, retries, effects, claim>>

\* The commit of _cancel_run.  Only columns that differ from what was read are
\* written: the lease is cleared if the row had one then.
CancelRun ==
    LET r == api.run IN
    /\ api.op = "cancel"
    /\ run' = [run EXCEPT ![r] = [status |-> "cancelled",
                    token |-> IF api.leased THEN None ELSE run[r].token,
                    lease |-> IF api.leased THEN "null" ELSE run[r].lease, cur |-> run[r].cur]]
    /\ IF api.status \in {"waiting", "waiting_approval"}
         THEN SetStep(r, api.cur, [step[r][api.cur] EXCEPT !.status = "cancelled"])
         ELSE UNCHANGED step
    /\ api' = NoApi
    /\ UNCHANGED <<pc, wrun, idx, faults, cancels, retries, effects, claim>>

RequestRetry(r) ==
    /\ "retry" \in Events
    /\ api = NoApi
    /\ run[r].status = "failed"
    /\ retries[r] < MaxRetries
    /\ api' = [op |-> "retry", run |-> r, status |-> "failed", leased |-> FALSE, cur |-> run[r].cur]
    /\ UNCHANGED <<run, step, pc, wrun, idx, faults, cancels, retries, effects, claim>>

\* _retry_run: the last failed step becomes pending, its attempt number stays.
LastFailed(r) ==
    {s \in StepId : /\ step[r][s].status = "failed"
                    /\ \A t \in StepId : step[r][t].status = "failed" => t <= s}

RetryRun ==
    LET r == api.run IN
    /\ api.op = "retry"
    /\ step' = [step EXCEPT ![r] = [s \in StepId |->
                   IF s \in LastFailed(r)
                     THEN [step[r][s] EXCEPT !.status = "pending", !.approval = "none"]
                     ELSE step[r][s]]]
    /\ run' = [run EXCEPT ![r].status = "queued"]
    /\ retries' = [retries EXCEPT ![r] = retries[r] + 1]
    /\ api' = NoApi
    /\ UNCHANGED <<pc, wrun, idx, faults, cancels, effects, claim>>

Decide(r, s) ==
    /\ step[r][s].approval = "pending"
    /\ \E decision \in {"approved", "denied"} :
         SetStep(r, s, [step[r][s] EXCEPT !.approval = decision])
    /\ UNCHANGED <<run, pc, wrun, idx, api, faults, cancels, retries, effects, claim>>

Elapse(r, s) ==
    /\ s \in WaitSteps
    /\ step[r][s].status = "waiting"
    /\ ~step[r][s].due
    /\ SetStep(r, s, [step[r][s] EXCEPT !.due = TRUE])
    /\ UNCHANGED <<run, pc, wrun, idx, api, faults, cancels, retries, effects, claim>>

-----------------------------------------------------------------------------
Schedule(r) == Release(r) \/ MarkOrphaned(r) \/ Expire(r)
Human(r) == \E s \in StepId : Decide(r, s) \/ Elapse(r, s)
Api == CancelRun \/ RetryRun

Next ==
    \/ \E r \in Run : \/ Enqueue(r) \/ Schedule(r) \/ Human(r)
                      \/ RequestCancel(r) \/ RequestRetry(r)
    \/ CountActive \/ ClaimRuns
    \/ Api
    \/ \E w \in Worker : Work(w) \/ Heartbeat(w) \/ Crash(w) \/ Shutdown(w)

Spec == Init /\ [][Next]_vars
\* Schedulers tick forever, worker coroutines are scheduled, API transactions commit,
\* the lease of a dead worker runs out, and humans eventually decide.
FairSpec ==
    /\ Spec
    /\ WF_vars(CountActive) /\ WF_vars(ClaimRuns) /\ WF_vars(Api)
    /\ \A r \in Run : WF_vars(Schedule(r)) /\ WF_vars(Human(r))
    /\ \A w \in Worker : WF_vars(Work(w))

-----------------------------------------------------------------------------
(***************************************************************************)
(* Correctness.                                                            *)
(***************************************************************************)

\* The lease token does its job: a run is never inside the Kernel on behalf of two
\* workers, however leases expire, workers stall or die, and humans cancel or retry.
\* (Up to a preflight failure that an overtaken worker commits: _fail clears the lease
\* of its successor, and a human retry then hands the run to a third worker.)
SingleExecutor ==
    \A v, w \in Worker :
        pc[v] \in {"kernel", "effect"} /\ pc[w] \in {"kernel", "effect"} /\ wrun[v] = wrun[w]
        => v = w

\* Fail closed (scheduler.py): "never guess a write did not happen".  A capability whose
\* attempt had its effect is attempted again only after a human asked for a retry.
\* (Not so for on_error=continue, nor when a cancellation that read an approval pause
\* commits after the step completed and a later pause writes over the cancellation.)
NoAutomaticReplay ==
    \A r \in Run, s \in StepId : Cardinality(effects[r][s]) <= 1 + retries[r]

\* No resume, retry or recovery runs a step ahead of the steps it depends on.  (A late
\* cancellation may mark a dependency cancelled after its dependent has run.)
DependenciesFirst ==
    \A r \in Run, s \in StepId : effects[r][s] # {} => \A d \in DependsOn[s] : Resolved(r, d)

\* Two replicas cannot both consume the last slot, and durable waits and approval pauses
\* keep theirs (concurrency.py): the runs that are under way never exceed the limit.
\* (Of runs that start while the claim that counted them holds: one that starts after
\* its lease ran out, or after it was cancelled, is counted too late.)
ConcurrencyLimit ==
    Limit > 0 => Cardinality({r \in Run : run[r].status \in
                                {"running", "waiting", "waiting_approval"}}) <= Limit

\* A queued run reaches an end: it is not lost between a crash, a lease, a wait, an
\* approval and the queue behind a full workflow.
EveryRunSettles == \A r \in Run : run[r].status = "queued" ~> run[r].status \in Terminal

\* A cancelled or orphaned run stays so: "Only failed workflow runs can be retried;
\* orphaned runs require manual reconciliation" (_retry_run).
StoppedIsFinal ==
    [][\A r \in Run : run[r].status \in {"cancelled", "orphaned"} =>
          run'[r].status = run[r].status]_vars

\* "Durable waits and approval pauses occupy a slot" (normalize_concurrency_policy): the
\* drop policy cancels runs that would have to start beyond the limit, never one that
\* started, paused, was released into the queue and has to be claimed again to resume.
StartedIsNotDropped ==
    [][\A r \in Run :
          run[r].status = "queued" /\ run'[r].status = "cancelled" /\ api' = api
          => \A s \in StepId : step[r][s].status = "pending"]_vars

\* What the count under the definition row's lock does give: a run that started is dropped
\* only by a claim that counted a run which has come back to the queue since, so that one
\* run stands in a slot and in the queue at once.
DropNeedsLateRelease ==
    [][\A r \in Run :
          run[r].status = "queued" /\ run'[r].status = "cancelled" /\ api' = api
          => \/ \A s \in StepId : step[r][s].status = "pending"
             \/ \E q \in claim.counted : run[q].status = "queued" /\ run[q].lease # "live"]_vars
=============================================================================
