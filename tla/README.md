# Formal models of Operly

TLA+ models of the parts of Operly that decide whether something with consequences happens once,
with permission, and eventually: the Kernel's governed execution boundary, the workflow engine with
its scheduler, what starts workflows by itself (event triggers and schedules), the durable runs of
agents, and the plugin platform (jobs, event delivery, budgets). TLC checks them on small instances;
TLAPS proves the safety properties of all of them, a few under stated hypotheses, and that the Kernel
implements its abstract specification, for every instance. `PROJECT.json` maps each definition to
the source lines it models and lists the runs, mutants, findings, hazards and theorems.

    tlc -workers 2 -config MCKernel.cfg MCKernel             # one run
    tlapm KernelProofs.tla                                   # proofs, with no output on success

## 1. Inventory

| component | state | operations | what is hard |
|---|---|---|---|
| **Kernel runtime** `packages/kernel/{runtime,idempotency,approvals,policy}.py` | `kernel_request_claims`, `kernel_approvals` | `execute()` (resolve, admit, authorise, reserve, claim, provider, finish), approve, deny | retries and duplicate deliveries racing; a provider whose outcome is unknown; commit order of claim, approval and effect; row locks held across awaits |
| **Workflow engine** `packages/workflow/engine.py` | `workflow_runs`, `workflow_step_runs` | `execute_run`: load, start, step loop, waits, approvals, finish, fail | state read before an await and written after it; resuming in the middle of a run |
| **Scheduler, concurrency policy** `scheduler.py`, `concurrency.py` | leases (token, `lease_until`), per-workflow limits | release, orphan, claim, heartbeat, shutdown | lost workers, late heartbeats, limits that pauses count against |
| **Workflow operations for humans** `provider.py`, `concurrency.py` | definitions, versions, schedules, runs | create, update, enable, disable, archive, cancel, retry | requests that overlap the worker, the scheduler and each other, with copies of rows that have changed |
| **Event triggers** `triggers.py`, `kernel/audit.py`, `plugins/events.py` | `kernel_events`, cursor row, dedupe keys | publish, tick | replicas, commit order against timestamp order, self-triggering workflows, poisoned batches |
| **Schedules** `scheduler.py`, `spec.py` | `workflow_schedules`, dedupe keys | select due rows, fire, advance, exhaust | replicas, missed occurrences, a row that makes every tick raise |
| **Workflow specifications** `spec.py` | none | validation, conditions, templates, next occurrence | boundary values |
| **Agent runtime** `packages/agent_runtime/{store,orchestrator,runtime}.py` | `agent_runtime_runs`, `_steps`, `_step_attempts`; leases | create, claim, step loop, heartbeat, cancel, resume after approval | expired leases, late results, uncertain outcomes, a session that keeps old rows |
| **Plugin jobs** `plugins/{jobs,worker,concurrent_worker}.py` | `digital_platform_jobs` | enqueue, lease, complete, fail, retry | work longer than its lease, which nobody renews |
| **Plugin packages and runtimes** `plugins/{service,builds,runtime_reconciler,runtime_router}.py` | versions, installations, runtime instances | publish, validate, build, install, reconcile, activate | a verdict written by an overtaken task; checks made before a write |
| **Events of plugins** `plugins/{webhooks,events,deliveries,event_router}.py` | receipts, outbox, subscriptions, deliveries | receive, fan out, deliver, retry, dead-letter | duplicate hooks, lost answers, two workers on one delivery |
| **Plugin budgets** `plugins/{budgets,egress_router,gateway,gateway_router}.py` | budgets, buckets, ledger | configure, consume; egress and gateway calls | the first use of a window, the clock at its edge, rollback after a request has left |
| **Authority, delegation; MCP, OAuth** | grants, tokens | resolve a context | enter the Kernel as ingress and principal |
| **Connectors, workspace modules, HTTP API, web client, sandbox runner, database** | rows, files | I/O around the above | external I/O |

How they interact: the HTTP API, MCP, agents, hosted plugins and workflow workers all call the Kernel's
`execute()`, which is the only way to a provider. The scheduler claims runs and starts worker tasks; a
worker calls the Kernel once per attempt of a step, under a request id of that attempt. An agent run
does the same under one request id per step, for good. An approval that the Kernel asks for pauses the
run; the scheduler polls for the decision, and `queue_after_approval` puts an agent run back. Kernel calls write events; the
dispatcher turns events, and the scheduler due occurrences, into queued runs. The plugin worker polls
three queues (jobs, outbox, deliveries); what hosted plugins call is metered before it leaves.
Processes share nothing but the database, at READ COMMITTED, so every await is a point where another
process may have changed a row that was read.

The properties that make the parts correct:

- Kernel: one effect per idempotency key; no gated effect without its approval; an approval is spent
  once; a replay answers with the result of the same request; doubt never releases a claim; calls end.
- Workflow: one worker per run inside the Kernel; no effect repeated unless a human asks; the limit
  holds; dependencies first; a stopped run stays stopped; a run that has begun is not dropped for want
  of a slot; every queued run settles.
- Events: each event starts each matching workflow exactly once; cascades stop; the cursor advances.
- Schedules: every occurrence passed over has its run, whatever crashed or raced; a disabled workflow
  queues nothing more; what is due is fired.
- Agent runs: each mutation has its effect at most once and in the order of the plan; `completed` is
  true; a step that acted is not called failed; cancellation and lost authority hold for later steps;
  a finished run is not reopened; outcomes of steps and runs are final, up to the stated exceptions.
- Plugin platform: a passed version has its promoted artifact and keeps its verdict; an enabled plugin
  is active and backed; `delivered` means accepted, for good; a bucket equals the ledger; what leaves
  stays within the budget; everything handed to the worker is settled.

The hazards behind these properties, each at its line, are under `hazards` in `PROJECT.json`.

## 2. Modules

`Kernel` — *OperlyKernelRuntime.execute and everything it commits.* A call is one invocation of
`execute()`. `pc[c]` is the point between two database round trips; `claims` and `approvals` are the
tables; `rowLock` is what `SELECT ... FOR UPDATE` holds until the transaction ends; `effects` is a
history variable, the calls whose provider acted. The actions follow the code: `Receive`, the early
rejections, the lookup of an existing claim, authorisation by a supplied approval, asking for a new
approval (with its search for a reusable row), reserving, claiming (the unique key), the provider
(effect and success, error before or after the effect, crash), finishing. Humans decide approvals at
any time; a process may die at every point.

`PermitLedger` — *what the Kernel promises*, without locks, rows or program points: permits are
granted once, spent once, and an outcome is recorded once. `Kernel!ImplementsLedger` states that the
Kernel, under a refinement mapping, implements it.

`Workflow` — *the runs of one workflow.* `run` and `step` are the two tables; `pc`, `wrun`, `idx` are
a worker task; `api` is a human request between its read and its commit. Where the code reads a row
and writes it after an await, the model has two actions (`Begin` and `Start`, an API request's read and
its commit). A claim is two statements at READ COMMITTED, `CountActive` (the slots in use) and `ClaimRuns`
(the scan of the queue and the commit); between them the lock of the definition row keeps other claims
out, but not releases, workers or requests, which do not take it. The scheduler's other queries lock the
rows they change from the read to the commit and are one action each (`Release`, `MarkOrphaned`). `Loop`, `Skip`, `StepInvalid`, `WaitStep`, `WaitOver` and the
attempt actions are the body of the step loop. `effects` records the attempts that had their effect.

`EventDispatch` — *the event log, the cursor and the dispatchers.* The log is ordered as the dispatcher
reads it (`created_at`, id); a position is taken when a writer stamps its event and becomes visible
when that writer commits. A tick is `Select`, one `Convert` per event, `CommitTick`; a crash or an
ownerless workflow (`Unauthorised`) rolls it back.

`Schedules` — *the schedules and the requests that arm them.* `definition` and `schedule` are the rows,
`scheduled` the occurrences that have a run under the dedupe key of the schedule row. A tick of a scheduler
is `SelectDue` (FOR UPDATE SKIP LOCKED), one `Fire` per due row, `CommitBatch`; `Abort` is an exception in
between, after which nothing of the batch remains. A request is `Load` (the workflow), `Read` (the
schedule, for an update behind the row lock of the workflow, which does not refresh the copy loaded
before) and `Commit`. An UPDATE sets the columns that differ from the loaded ones (`Column`), may fail
on the unique version number or a deleted row (`Conflict`), and waits for row locks; `Deadlock` is
PostgreSQL's choice of a victim.

`AgentRuntime` — *the durable run of one plan.* `run`, `step` and `attempts` are the rows, `pc`, `idx`,
`res` a worker's task. The Kernel appears reduced to what a step can tell apart: its claim, its approval
and whether the provider acted. A worker's session keeps the run row it loaded until a rollback expires
it (`cached`, `snap`), so `transition_run` and `record_step_result` compare against that copy, not the
locked row; that is where overtaken workers show.

`PluginLifecycle` — *one plugin version from publication to activation*: its jobs (validate, isolated
build, and a reconcile job for each endpoint a request has named, or none, all for one instance row), the version, installation and runtime rows, two workers and two overlapping
PATCH requests. `EventOutbox` — *webhooks to subscribers*: receipts, the outbox, subscriptions and
deliveries, with answers that are lost. `PluginMetering` — *budgets*: an egress or gateway call consumes
under row locks, leaves, and commits or rolls back, while the owner configures and the clock moves on. The
ledger and what left are sets of rows, one per charge, named by metric, time and call; a call charges a
metric once, so no two charges are the same row.

`MCKernel`, `MCWorkflow`, `MCAgentRuntime` give the constants for TLC. `MCTriggers` extends `EventDispatch`
and `Schedules`, `MCPlatform` the three platform modules, and puts them into one specification (which is
why the names of these modules are disjoint: `TimerSpec`, `EventSpec`, `MeteringSpec`). Their parts write no
common row (or only in ways the other part allows for anyway), so a variable `part`, chosen at the
start, says which of them runs: interleaving them would multiply the states and add no behaviour.

The theorems about a module are in its proof module: `KernelProofs`, `WorkflowProofs`,
`EventDispatchProofs`, `SchedulesProofs`, `AgentRuntimeProofs`, `PluginLifecycleProofs`,
`EventOutboxProofs` and `PluginMeteringProofs`.

Operators named `Bug...` are mutations of the definition that follows them. Each property has a mutant
under which TLC finds it violated, so none of them holds vacuously.

### What is abstracted

- Kernel: capability and arguments are one `Operation`; the payload hash is injective on operations;
  scope, principal and namespace are one `Ingress`; schema, policy and authority checks are one choice
  between passing and being rejected.
- Workflow: one workflow; `lease_until` is null, live or expired; rendering of arguments and conditions
  is a choice of outcome; one API request is between read and commit at a time; the short
  read-and-write transactions of the heartbeat, of a failed dispatch and of a shutdown are atomic; the
  firing of schedules and triggers is the arrival of a queued run; the limit is a constant, the overflow
  rule any of a set at each claim. A claim that dies between its count and its scan is one that did not
  count; a queued run whose lease ran out after it was counted is not claimable by that claim, as in the
  code, where both statements compare with the time the claim began.
- EventDispatch: a tie in `created_at` is folded into the position; a trigger's condition and scope are
  taken to hold; the other steps of a triggered run matter only through the event it emits.
- Schedules: a daily, weekly or cron calendar is the set of times it names within the horizon of the
  search; the clock counts seconds; the lease columns of a schedule row, set and cleared in one
  transaction, are invisible to everyone else and left out; of the updates of a workflow only those that
  change its schedule are followed, as the others take the same lock and only raise the version.
- AgentRuntime: one run and one plan; a lease is null, live or expired; planning is over before the run
  is created. `release_run_lease` has no caller and is left out.
- PluginLifecycle: one version and installation; of the endpoint of an instance only that there is one;
  "disabled" stands for every state a PATCH
  can set that is not active; backoff times, the expiry of health and the inside of a build are left out;
  attempts saturate at their maximum. `record_validation`, `record_runtime_instance` and the heartbeat of
  jobs have no caller and are left out.
- EventOutbox: subscribers answer in four ways (accepted, refused for good, to be retried, lost); the
  pattern of a subscription matches.
- PluginMetering: charges of one unit; the charge for request bytes and the checks before the first
  charge, which only read, are left out.

## 3. Runs

Every count below is of distinct states. `CHECK_DEADLOCK FALSE` is set because the bounded supply of
calls, runs or events really ends, after which nothing is left to do.

| run | instance | shows |
|---|---|---|
| `kernel` | 3 calls, 2 ingresses, 3 approval rows, 1 request id, a write, a gated read, a gated write; 310,715 states | the Kernel's safety properties and the refinement of `PermitLedger`, with crashes and provider failures anywhere, and that every received call returns: no deadlock on row locks |
| `workflow_ownership` | 1 run of 3 steps, 2 workers; stalled heartbeats, crash, cancel, retry; 945,630 states | one worker per run inside the Kernel, no automatic repetition |
| `workflow_slots` | 2 runs of 3 steps, limit 1, queueing or dropping; crash, preflight failures; 128,387 states | the limit, dependencies, that every run settles, and when alone a run that has started can be dropped |
| `triggers_serial` | events: 2 dispatchers, 2 triggers feeding each other, 3 events, writers one at a time; schedules: 2 replicas, 2 workflows, 3 requests of which at most 2 overlap, 3 kinds of schedule, 2 seconds; a crash or a deleted owner; 422,151 states | exactly one run per event and trigger, bounded cascades, caught-up occurrences, quiet disabled workflows, and that what is due is handled |
| `agent_runs` | 2 workers, a write, a read and a gated write; stalls, preflight and provider errors, rejected outputs, a crash, cancellation, loss of authority; 1,532,225 states | effects once and in order, truthful outcomes, and who can still rewrite them |
| `platform_safety` | jobs: 2 workers, 4 packages, reconcile with one endpoint or none, 2 PATCH requests, 1 attempt, 1 fault; events: 2 hooks of one event, 1 subscription, 2 faults; calls: 2 calls, windows of 1 and 2, 3 instants, 2 budget changes; 534,973 states | final deliveries, backed activation, exact metering, limits |
| `platform_live` | jobs and events, no endpoint, no PATCH, 2 attempts, 2 faults each; 210,008 states | verdicts are final and have their artifact; every version and every accepted webhook is settled |
| `workflow_stopped`, `workflow_continue`, `workflow_drop`, `agent_lease`, `events_overlap` | the smallest instances that show it | the divergences of section 5 |

Why the bounds are enough. Two calls are needed for a race on a key and a third for one that arrives
after the winner is recorded; each call may ask for an approval of its own, and concurrent askers create
a duplicate row;
the second ingress shares the principal, so an approval can be presented under a key it was not asked
for. Calls and rows differ only by name, so `MCKernel` numbers them in the order of their arrival
(`Numbered`), which is sound for liveness where a symmetry set is not. Two workers are a stale owner and
its successor. Three steps are a dependency, a pause and a dependent. Two triggers that match each
other's events and depth two make a cascade that has to be stopped; three events exceed the batch.
Two schedules make a batch in which one poisons the other, or in which two replicas share the work;
two overlapping requests after a create are a disable or update against a stale copy. Three agent steps
are an effect, a step after it and one that pauses for approval; the second worker is the successor, and
one fault leaves it behind a lost lease. Two attempts distinguish a retry from the last one (in `platform_live`; `platform_safety`, where
a permanent error and not a retry ends the reconcile jobs that matter, has one, because two jobs and two
PATCH requests with retries exceed what TLC does in minutes). One endpoint and none are two reconcile jobs
for one instance row; two hooks
with one event id are the duplicate; two calls race for a limit of one; three instants hold the end of
one window and the whole of the next, of either length.

What the passing runs leave out, on purpose and with a hazard entry each: `workflow_slots` has no
stalled heartbeats, because a claimed run whose lease expires before its start commit is counted
against the limit only after another has been claimed, and `ConcurrencyLimit` then fails in twelve
steps; `workflow_ownership` has no preflight failures, because a late preflight commit clears the lease
of a successor and `SingleExecutor` then fails; for `DropNeedsLateRelease` `workflow_slots` has no human
retries or cancellations either: a retried older run may take the slot of a released one, and so may a
claimed run that starts after it was cancelled or after its lease ran out.

Where the code does let something happen, the property says exactly when instead of leaving the case
out:

- `OutcomeIsFinal` excepts a worker that saw a cancellation and lost its cached rows to a rollback;
  `FinishedIsNotReopened` lets a worker that claimed the run before it ended, and nobody else, replace one
  final status by another; `FailureIsNotAnEffect` excepts an output rejected after the effect (`rejected`).
- `DropNeedsLateRelease` excepts the claim that counted a run which is back in the queue at its scan;
  without it, `StartedIsNotDropped` fails (`workflow_drop`).
- `VerdictIsFinal`, `PassedIsPromoted`, `EnabledIsBacked` except a task that commits after its lease was
  given to another one (`lateCommit`), and `EnabledIsBacked` also two overlapping PATCH requests (`raced`)
  and a reconcile job of a remote runtime that failed for good after it had reset the instance
  (`RuntimeReset`); `DeliveredIsFinal` a late commit (`late`).
- `MeteringIsExact` and `SendsWithinLimit` speak of windows that began under the budget (`Governed`), and
  `SendsWithinLimit` not of sends whose charge was rolled back.
- `OccurrencesCatchUp` holds from an arming that nothing overlapped (`first`); `DisabledIsQuiet` excepts a
  disabling request with an old copy of the schedule row (`blind`); `TriggersFire` a row that makes every
  tick raise (`PoisonedRow`).

### Fairness

- `Kernel`: weak fairness of each call's own steps, for the event loop resumes a coroutine whose await
  is done. None for humans, crashes or arrivals.
- `Workflow`: weak fairness of `CountActive` and `ClaimRuns`, of an API commit, of release, expiry and orphaning of a run
  (the scheduler ticks forever and time passes), of the human deciding an approval and timers becoming
  due, and of each worker's steps. None for enqueueing, cancelling, retrying, crashes or stalls.
- `EventDispatch`: weak fairness of each dispatcher's tick and of writers ending their transactions.
- `Schedules`: weak fairness of each replica's tick and of a request that has begun; the database
  resolves deadlocks. None for the clock, the owner, or crashes.
- `PluginLifecycle`, `EventOutbox`: a free worker polls (it has no other waiting), a task it began goes
  on (every request and build has a timeout), a lease runs out. None for owners, hooks, PATCH requests,
  crashes or stalls.
- `AgentRuntime` and `PluginMetering` state no liveness: whether a run goes on is up to whoever calls
  `run_once`, and a call ends by its own steps. (`agent_lease` assumes that a worker's steps go on.)

`TriggersFire` and `WorkIsSettled` are one formula each for two modules, of which `part` selects one.

## 4. Proofs

Each module assumes about its constants only that they have their types, that bounds are numbers, and
that `None` (`Null`, `Nil`, `Unset`) is none of the other values (`ConstantAssumption`,
`WorkflowAssumption`, `DispatchAssumption`, `AgentAssumption`, `LifecycleAssumption`, `EventAssumption`; in
`Schedules` and `PluginMetering` `TimeAssumption`, `OfferAssumption` and the rest of them, one per constant).
`Schedules` also takes intervals to be no longer than the time the model covers, so that the next time of a
schedule is a time; windows of a budget are any positive lengths. The sets of calls, workers, replicas,
requests, keys, events and subscriptions are arbitrary (the workers of `Workflow` are finitely many); plans,
dependencies, calendars and limits are any.
A theorem with a further hypothesis says so; each of these hypotheses excludes a behaviour under which
TLC shows the property to be false (sections 3 and 5).

None of the properties is inductive as it stands. The proofs have one lemma per kind of step, which says
once what the step does to types and locals, and then one step per action and conjunct of the invariant.

**Kernel.** `CoreInv` of `KernelProofs` ties effects to claims. `AtMostOnceEffect` speaks of calls that
have acted; that a second one cannot act follows from what a call at the provider holds, and that from
the claim: a mutating call at its provider or finishing is the `run` of the claim of its key (`Received`,
`Identified`, `Owned`), a claim names the call that made it (`ClaimsSound`), a mutating call that acted is
the `run` of its claim (`EffectsSound`), and a replay names the run of a completed claim
(`AnswersSound`). For the approvals it is extended to `Inv`, with what locks, rows and claims say about
each other (`AskingGated`, `RowsSound`, `LocksSound`, `LocksHeld`, `PermitsSpent`, `PermitsUnique`,
`ExecutingClaimed`, `ReadsBound`, `CompletedConsumed`). The heart of it is that a mutating call which passed
authorisation holds the lock of its row until claim and reservation commit together, so that of two calls
with one approval the second sees `executing`. The refinement maps every action to a step of
`PermitLedger` or to a stutter: committing a claim is `Authorise`, with the permit it spends, the
provider's effect is `Perform`, a recorded outcome `Settle`; `Inv` supplies what the ledger's guards ask for.

**Workflow.** `PlaceInv` says where a worker's locals are meaningful. `OwnerInv`: a worker that executes
keeps its run from everybody, also when it has lost the lease, because nobody else holds the token, the run
is not in a status that is released, and no retry is under way for it. `DepInv`: a worker at a step found
its dependencies resolved, and resolved steps are not reopened. `HoldInv` and `SlotInv`: a claimed run has a
live lease and a slot from its claim on, so that the runs under way are among those the claim counted; a
claim between its count and its scan has counted every run that is active then, since only a claim, of which
the lock lets one through at a time, makes a run active.
`ReplayInv`: while an effect is not recorded as completed (`Unsettled`), the run is not released and
only the worker that caused the effect is at work on it; an attempt begins only with an effect less than
the humans' retries allow. For the drop policy it is not enough to count slots, because a run that is
released from a pause gives its slot up and has to be claimed again. `QueueInv` counts the runs that hold a
slot or have begun, together with everything that comes before one of them in the queue (`Needed`): with
the runs that a claim under way has counted, they fit the limit. So a claim whose count is still right
has room for all that began. A claim serves the queue in its order, so either it takes nothing but `Needed` runs or it takes all of
them; a new run is last in the queue and has begun nothing (`FreshInv`).

**EventDispatch.** `TickInv`: one transaction at a time is behind the lock of the cursor, and what it
inserts is not there yet. `DepthInv`: the depth of a row counts the runs along its causes, and no row as
deep as the limit gets a run. `CascadeBounded` follows by the least-number principle, which the library
has as a theorem without operator parameters (`WFMin`). `OnceInv`: an event that is not visible yet is
the last one and not behind the cursor; a tick takes the events after the cursor in order and leaves none
out. It needs writers that do not overlap (`MaxOpen = 1`), the condition whose failure is finding 5.

**Schedules.** A due row is in the hands of one scheduler from its selection to the end of the batch, also
through requests, which wait for it (`LockInv`); what the batch decided for a row follows from the row as it
still is (`PlanInv`); the time that a request which arms a schedule has computed is one that the
schedule names (`RequestInv`). `CatchUpInv` adds to `OccurrencesCatchUp` that the time a schedule waits for is an occurrence
of it at or after the first one. The step that carries it is `Following`: the next time after the fired
occurrence leaves none out. For a calendar this is the least named time after it, for an interval the least
later multiple, also where the code jumps over the time it was down; both come from the least-number principle
(`Least`) and a few facts about multiples (`Jump`, `JumpOn`, `MultipleGap`). For `DisabledIsQuiet` the
argument is the lock: what disables a workflow with a current copy of its schedule writes that row, so it
waits for the batch that read the workflow as enabled.

**AgentRuntime.** `Inv` has seven parts beside the types: a claim is in the hands of one worker until its call
is over, and counts its effect (`ClaimInv`); what a worker says of its step is backed by the claim
(`ResultInv`); a mutation that a row, a worker or the run takes for completed has a completed claim, and
mutations are claimed in the order of the plan (`PlanInv`); cancellation and lost authority reach every
worker that was not already past its check (`StopInv`); the copy of the lease holder is current from its
step on, any other is dated by its attempt number (`CopyInv`); without a cancellation a step passed by is
recorded as completed (`RecordInv`); and a step that waits carries its approval in its row and in every copy
of it, so that no worker, however old its copy, ends its pass by making the run wait (`EndInv`). No lease appears in the argument for `EffectAtMostOnce` and
`EffectsInOrder`: the claims, which outlive the workers, carry it.

**PluginLifecycle, EventOutbox.** A task commits whatever its own copy of the row says. Until one commits
after its lease was given away (`lateCommit`, `late`), a task that was not overtaken owns its row (`OwnInv`).
Then validation and build of a version come one after the other (`PhaseInv`), a task's copy of the version is
current (`SeenInv`), and what a PATCH checked stays true until it writes (`PatchInv`). Reconcile jobs for
different endpoints do overlap; a healthy instance stops being healthy only in the commit of one that failed for
good (`ResetKept`, `BackedKept`); in the outbox a row that is
delivered is owned by nobody, and an event without a receipt has no row and no task (`ReceiptInv`).
`DeliveredIsTrue` needs none of this: it holds through late commits as well, because a success is recorded
only by the task that got the answer (`TaskInv`).

**PluginMetering.** Calls that are open at the same time hold disjoint rows (`LockInv`), so that what an open
charge projects is still one more than its bucket holds (`ProjectedInv`), and a commit touches no bucket that
another open charge will write. An open charge covers every window that began under a budget and is within
its limit there (`CoverInv`): a budget that is configured later governs only windows that start after every
stamp read so far (`TimeInv`), and a budget once configured stays (`BudgetInv`). A commit then adds one row to
a governed window exactly when it adds one to its bucket (`ExactInv`, with `LedgerInv` for the row being new).
What left has its row in the ledger or an open charge (`SentInv`); of the latter a governed window has at most
one, because both would hold its bucket (`OneOpen`), and that one is within the limit.

| module | theorem | for every instance | under |
|---|---|---|---|
| `KernelProofs` | `TypeCorrect`, `CoreInvariant` | `TypeOK`, the inductive invariant | |
| | `AtMostOnce`, `ReplayIsFaithful` | `AtMostOnceEffect`, `FaithfulReplay` | |
| | `ApprovalsGuard`, `ApprovalsSingleUse`, `ClaimsAgree` | `ApprovalGuardsEffect`, `SingleUseApproval`, `ClaimApprovalAgreement` | |
| | `AuthorityNeverReturns` | the action property `NoResurrection` | |
| | `Refinement` | `ImplementsLedger` | |
| `WorkflowProofs` | `TypeCorrect` | `TypeOK` | |
| | `ExecutorIsSingle` | `SingleExecutor` | `NoStalePreflight`: preflight failures and human retries are not both there |
| | `DependenciesComeFirst` | `DependenciesFirst` | `NoStalePreflight`, no cancellation |
| | `LimitHolds` | `ConcurrencyLimit` | `NoLateStart`: no stalled heartbeat, no cancellation |
| | `StartedIsKept` | the action property `DropNeedsLateRelease` | `NoLateStart`, no human retry |
| | `NothingIsReplayed` | `NoAutomaticReplay` | `NoStalePreflight`, no cancellation, no `on_error=continue` |
| `EventDispatchProofs` | `TypeCorrect`, `CascadesEnd` | `TypeOK`, `CascadeBounded` | |
| | `DispatchedOnce` | `ExactlyOnce` | writers that do not overlap |
| `SchedulesProofs` | `TypeCorrect`, `Invariance`, `SchedulesCatchUp` | `TimerTypeOK`, the inductive invariant, `OccurrencesCatchUp` | |
| | `DisabledStaysQuiet` | the action property `DisabledIsQuiet` | |
| `AgentRuntimeProofs` | `TypeCorrect`, `EffectOnce`, `PlanOrder`, `CompletionIsTrue`, `FailureIsHonest`, `CancelStops`, `AuthorityHolds` | `TypeOK`, `EffectAtMostOnce`, `EffectsInOrder`, `CompletedIsTrue`, `FailureIsNotAnEffect`, `CancelStopsLaterSteps`, `AuthorityIsCurrent` | |
| | `OutcomesAreFinal`, `FinishedStaysFinished` | the action properties `OutcomeIsFinal`, `FinishedIsNotReopened` | |
| `PluginLifecycleProofs` | `TypeCorrect`, `PassedHasArtifact`, `EnabledHasBacking` | `TypeOK`, `PassedIsPromoted`, `EnabledIsBacked` | |
| | `VerdictsAreFinal` | the action property `VerdictIsFinal` | |
| `EventOutboxProofs` | `TypeCorrect`, `DeliveriesAreTrue` | `EventTypeOK`, `DeliveredIsTrue` | |
| | `DeliveriesAreFinal` | the action property `DeliveredIsFinal` | |
| `PluginMeteringProofs` | `TypeCorrect`, `Invariance` | `MeteringTypeOK`, the inductive invariant | |
| | `BucketsMatchTheLedger`, `SendsStayWithinTheBudget` | `MeteringIsExact`, `SendsWithinLimit` | |

Only model-checked:

- the liveness properties `EveryCallReturns`, `EveryRunSettles`, `TriggersFire` and `WorkIsSettled`, because
  the prover does not reason about fairness and ENABLED;
- `SingleExecutor` and `NoAutomaticReplay` with cancellations and without preflight failures (the run
  `workflow_ownership`), in so far as the theorems above exclude them.

`TriggersTypeOK` and `PlatformTypeOK` are the conjunctions of the type invariants of the modules that
`MCTriggers` and `MCPlatform` extend, each of which is a theorem.

## 5. Findings

1. **A cancellation can be overwritten** (`workflow_stopped`). `execute_run` writes `running` at
   `engine.py:291` on the strength of a load made earlier. A cancellation that read the row before the
   claim, and commits between that load and this write, keeps the token in place: the cancelled run
   becomes running and its step is dispatched. `provider.py:318` promises "Cancel a queued, waiting, or
   running workflow before another step is dispatched."
2. **A continued failure is attempted again** (`workflow_continue`). On a resume the loop at
   `engine.py:328` skips completed and skipped steps only. A failed step with `on_error=continue` gets
   a new attempt and a new request id after every later pause, although it may have had its effect;
   compare `README.md:321` and `scheduler.py:305`.
3. **A run can be dropped for the slot it holds itself** (`workflow_drop`). `_claim_runs` counts the active
   runs (`concurrency.py:527`) and scans the queue in a later statement (line 552). The release of paused
   runs (`scheduler.py:202`) does not take the lock of the definition row, so it may commit in between:
   the run is counted as waiting and fetched as queued, and under the drop policy with one slot it is
   cancelled half way, although nothing else is under way. Line 46 says "Durable waits and approval pauses
   occupy a slot.", and the run is told (line 458) "This run was suppressed because the workflow
   concurrency limit was full."
4. **A step is recorded without the lease** (`agent_lease`). With a cancellation requested `run_once` skips
   the renewal of the lease before it records a step (`orchestrator.py:430`), so a worker whose lease ran
   out and was taken over still writes the outcome of its step and the status of the run.
   `docs/unified-agent-runtime.md:106` says "Losing the heartbeat/lease fails closed before durable step
   completion is recorded."
5. **An event can be skipped** (`events_overlap`). The cursor follows `created_at`, which is stamped
   before the writer commits (`audit.py:149`). An event that commits after a later one was dispatched
   lies behind the cursor (`triggers.py:192`); `models.py:125` says "This prevents both event loss and
   double-dispatch across replicas."

### Observations

Met while modelling and proving, and delimited by the properties named; no run is devoted to them.

- Workflow runs. Each of these came out as a step of a proof that does not go through, and is a hypothesis
  of the theorem. A worker that stalls between its load and a preflight failure commits that failure
  without looking at the token again (`engine.py:258-286`) and clears the lease of its successor; a human
  retry then hands the run to a third worker (`SingleExecutor`, and with it `DependenciesFirst` and
  `NoAutomaticReplay`). A cancellation that read an approval or
  wait pause and commits after that step completed marks it cancelled (`provider.py`, `_cancel_run`):
  its dependents have then run without it (`DependenciesFirst`), and when the worker writes a later pause over
  the cancellation, the resumed run attempts the step again (`NoAutomaticReplay`, with two steps, the first
  gated and the second a wait). A run that is started after its lease ran out, or after it was cancelled, takes
  a slot that may be taken (`ConcurrencyLimit`).
- Agent runs. `transition_run` (`store.py:379`) compares the copy the session already holds: an overtaken
  worker can replace the final status of a run by another one. It cannot reopen the run, which
  `tests/test_agent_runtime_store.py:262` rejects within one session: no worker with an old copy has a status
  to write that is not final (`FinishedIsNotReopened`). An output that fails its schema after the effect
  is recorded as a plain failure (`runtime.py:170`, `FailureIsNotAnEffect`).
- Schedules. A cron expression whose next occurrence is more than a year away (29 February) raises inside
  the tick (`spec.py:346`), and so does a schedule whose owner is gone (`scheduler.py:418`). Either
  rolls back the batch and ends the tick before runs are claimed, on every tick of every replica
  (`TriggersFire`). An enable that overlaps an update can leave an enabled workflow whose schedule is off,
  because the update goes on with the copy it loaded before its own FOR UPDATE (`concurrency.py:166`).
  Re-enabling skips the occurrences that were due meanwhile.
- Plugin jobs. Nobody renews a job lease and `complete` looks at the session's old copy (`jobs.py:136`),
  so a build longer than its lease runs twice and the later commit wins; a build timeout is a permanent
  failure (`builds.py:310`), so two overlapping builds can reverse a verdict (`VerdictIsFinal`).
  `lease_batch` does not look at `max_attempts`; only `fail` does.
- Runtimes. The key of a reconcile request is fixed by its endpoint (`runtime_router.py:146`): once its job has
  completed, the request that `runtime_provider.py:187` asks for on stale health checks nothing. A request with
  another endpoint, or with none, queues another job, which resets the same instance row
  (`runtime_reconciler.py:142-151`); a permanent error after that (a health answer above 64 KiB, line 240)
  commits the reset, and an enabled plugin is left without a healthy runtime (`EnabledIsBacked`). Evidence of an
  unhealthy runtime is rolled back with the failing job (`runtime_reconciler.py:319`).
- Installations. A PATCH to `disabled` without `enabled=false` is refused, which makes the block at
  `service.py:383-389` unreachable; a PATCH to `active` with `enabled=false` enables.
- Webhooks. The `duplicate` flag of the answer is always false (`webhook_router.py:95`).
- Budgets. Nothing disables a budget once configured; in the window in which it is configured, counting
  begins at that moment; a request that left and then timed out is not charged (`egress_router.py:388`).

## 6. Not modelled

The repository has some 64,000 lines in 320 implementation files. Most of them hold no protocol: routers
that parse and render, connectors and workspace modules that call external services, planning, inference
and prompts, the web client, sandbox and container plumbing, schema and migrations. What a model checker
can say something about is the part that keeps durable state under concurrency and failure, and of that
the modules here cover the Kernel, workflows, triggers, schedules, agent runs and the plugin platform.

- *Authority, delegation, permissions*: stateless resolution from rows; it enters as an ingress with a
  principal, and as rejection or loss of authority.
- *MCP gateway and OAuth*: an ingress of the Kernel. The authorisation-code flow keeps state of its own
  and is the next candidate.
- *Interactive agent loop, planning, objectives*: a language model decides, and nothing durable is kept
  between requests.
- *Connectors, workspace modules, sandbox runner*: providers; an effect that happens, fails or is
  uncertain.
- *HTTP API, web client, database models and migrations*: I/O and schema around the modelled operations.

## 7. Plan

Done, in this order: `Kernel` and its runs, `PermitLedger`, `Workflow`, `EventDispatch`, the Kernel
proofs; then `AgentRuntime`, `PluginLifecycle`, `EventOutbox`, `PluginMetering` and `Schedules`; then the
refinement of `PermitLedger` and the theorems about `AgentRuntime`, `Workflow`, `EventDispatch`,
`PluginLifecycle`, `EventOutbox`, `Schedules` and `PluginMetering`. Next, by importance:

1. Theorems: `SingleExecutor` and `NoAutomaticReplay` under weaker hypotheses than the absence of
   cancellations or preflight failures (a gated step before no wait step, for one).
2. `Workflow`: the heartbeat split into read and write (`scheduler.py:189`), and a second API request
   (`provider.py:987`).
3. Conditions and templates of `spec.py` as operators against reference definitions.
4. The expiry of health in `PluginLifecycle`; the OAuth code flow.
