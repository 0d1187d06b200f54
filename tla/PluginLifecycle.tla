--------------------------- MODULE PluginLifecycle ---------------------------
(***************************************************************************)
(* One plugin version of a workspace on its way from publication to use:   *)
(* the platform job queue (packages/plugins/jobs.py), the worker and its   *)
(* three job handlers (worker.py, builds.py, runtime_reconciler.py), and   *)
(* the owner's operations on the version and its installation (service.py, *)
(* router.py, runtime_router.py).                                          *)
(*                                                                         *)
(* An element of Worker is one _process_job task together with the lease   *)
(* it works under.  A task keeps one database session: it checks that it   *)
(* owns its job when it starts, and complete and fail, which read the row  *)
(* with db.get, see that same copy again.  Only the path that rolls back   *)
(* reads the row afresh.  Nothing renews a lease (heartbeat has no caller),*)
(* so a task may go on after its lease was given to another one.  A        *)
(* process waits for its whole batch before it leases again, so the other  *)
(* one belongs to another process, with another worker_id.                 *)
(*                                                                         *)
(* SQLAlchemy writes a column only when its value differs from the one the *)
(* session loaded (Column).  A task writes its rows and commits in one     *)
(* step: the row lock its UPDATE takes is held until the commit.           *)
(* The event rows it inserts besides are left to EventOutbox.              *)
(***************************************************************************)
EXTENDS Naturals, Sequences, FiniteSets

CONSTANTS
    Worker,       \* _process_job tasks
    Request,      \* PATCH requests of the workspace owner, one update each
    Package,      \* the versions that may be published: [mode, defect]
    Endpoint,     \* the endpoints that the owner may name for the runtime
    MaxAttempts,  \* max_attempts of a job
    MaxFaults,    \* bound on crashes and on leases that run out under a task
    None

\* The idempotency key of a reconcile job ends in the digest of the endpoint, or of
\* the word "existing" when the request names none.
Reconcile == Endpoint \cup {"existing"}
Job == {"validate", "isolated"} \cup Reconcile
Validation == {"pending", "awaiting_isolated_build", "passed", "failed"}
Health == {"warming", "healthy"}
\* "disabled" stands for every state a request may ask for other than active:
\* set_installation_state treats them alike (see Refused).
Status == {"installed", "active", "disabled"}
PackageKind == [mode : {"remote", "sandbox"}, defect : {"none", "digest", "artifact"}]

ASSUME LifecycleAssumption ==
    /\ Package \subseteq PackageKind
    /\ MaxAttempts \in Nat \ {0} /\ MaxFaults \in Nat
    /\ Endpoint \cap {"validate", "isolated", "existing"} = {}
    /\ None \notin Worker \cup Request \cup Job \cup PackageKind \cup Validation \cup Status

VARIABLES
    package,      \* the published manifest; immutable
    version,      \* plugin_versions: validation_status; the report names a promoted artifact
    job,          \* digital_platform_jobs, one row per idempotency key
    installation, \* plugin_installations: status, enabled
    instances,    \* plugin_runtime_instances: the health of each row by its id, and the
                  \* row with the latest updated_at (0: there is none)
    pc,           \* where each task is in _process_job
    doing,        \* its job
    seen,         \* the version row and the attempt its session loaded
    found,        \* the instance row its session loaded, or None
    patch,        \* each PATCH request: what it will write and the row it read
    faults,       \* faults so far
    overtaken,    \* tasks whose job was leased to another one meanwhile (history)
    lateCommit,   \* an overtaken task has committed (history)
    raced         \* a PATCH wrote over a row that had changed since it read it (history)

rows == <<package, version, job, installation, instances>>
local == <<pc, doing, seen, found, patch>>
history == <<faults, overtaken, lateCommit, raced>>
vars == <<rows, local, history>>

-----------------------------------------------------------------------------
JobRow == [state : {"absent", "queued", "retry", "running", "completed", "failed"},
           owner : Worker \cup {None}, lease : {"null", "live", "expired"},
           attempt : 0..MaxAttempts]
VersionRow == [status : Validation \cup {None}, promoted : BOOLEAN]
InstallationRow == [status : Status \cup {None}, enabled : BOOLEAN]
Asked == [status : Status \ {"installed"}, enabled : BOOLEAN \cup {None}]
PatchState == [at : {"unsent", "read", "answered"}, new : InstallationRow \cup {None},
               row : InstallationRow \cup {None}]

Init ==
    /\ package = None
    /\ version = [status |-> None, promoted |-> FALSE]
    /\ job = [j \in Job |-> [state |-> "absent", owner |-> None, lease |-> "null", attempt |-> 0]]
    /\ installation = [status |-> None, enabled |-> FALSE]
    /\ instances = [health |-> <<>>, latest |-> 0]
    /\ pc = [w \in Worker |-> "idle"]
    /\ doing = [w \in Worker |-> None]
    /\ seen = [w \in Worker |-> None]
    /\ found = [w \in Worker |-> None]
    /\ patch = [r \in Request |-> [at |-> "unsent", new |-> None, row |-> None]]
    /\ faults = 0 /\ overtaken = {} /\ lateCommit = FALSE
    /\ raced = FALSE

-----------------------------------------------------------------------------
(* The job queue.                                                          *)

\* enqueue: a row with the idempotency key is returned as it is, whatever its state.
Enqueue(jobs, j) ==
    IF jobs[j].state = "absent" THEN [jobs EXCEPT ![j].state = "queued"] ELSE jobs

\* Mutant: the state is not part of the filter.
BugAvailable(j) == job[j].state # "absent" /\ job[j].lease # "live"
\* What lease_batch selects: there is no test of the attempts made.
Available(j) ==
    \/ job[j].state \in {"queued", "retry"}
    \/ job[j].state = "running" /\ job[j].lease = "expired"

\* The attempt is only ever compared with max_attempts, so it saturates there.
Leased(row, w) ==
    [state |-> "running", owner |-> w, lease |-> "live",
     attempt |-> IF row.attempt < MaxAttempts THEN row.attempt + 1 ELSE MaxAttempts]

\* Mutant: fail forgets to clear locked_by.
BugReleased(row, state) == [row EXCEPT !.state = state, !.lease = "null"]
Released(row, state) == [row EXCEPT !.state = state, !.owner = None, !.lease = "null"]

Owns(w, j) == job[j].state = "running" /\ job[j].owner = w

\* lease_batch, for one of the rows it returns.
Lease(w, j) ==
    /\ pc[w] = "idle" /\ Available(j)
    /\ job' = [job EXCEPT ![j] = Leased(job[j], w)]
    /\ pc' = [pc EXCEPT ![w] = "leased"]
    /\ doing' = [doing EXCEPT ![w] = j]
    /\ overtaken' = overtaken \cup {v \in Worker : doing[v] = j}
    /\ UNCHANGED <<package, version, installation, instances, seen, found, patch,
                   faults, lateCommit, raced>>

\* A lease that runs out under the task that works on it counts as a fault: a
\* build longer than the lease, or a stall.
Expire(j) ==
    /\ job[j].lease = "live"
    /\ IF \E w \in Worker : job[j].owner = w /\ doing[w] = j
       THEN faults < MaxFaults /\ faults' = faults + 1
       ELSE UNCHANGED faults
    /\ job' = [job EXCEPT ![j].lease = "expired"]
    /\ UNCHANGED <<package, version, installation, instances, local, overtaken,
                   lateCommit, raced>>

-----------------------------------------------------------------------------
(* _process_job: from its start to one of its ends.                        *)

Done(w) ==
    /\ pc' = [pc EXCEPT ![w] = "idle"]
    /\ doing' = [doing EXCEPT ![w] = None]
    /\ seen' = [seen EXCEPT ![w] = None]
    /\ found' = [found EXCEPT ![w] = None]
    /\ overtaken' = overtaken \ {w}
    /\ UNCHANGED <<package, installation, patch, faults, raced>>

\* The task loads its job and checks that it owns it, then loads the version.
Start(w) ==
    /\ pc[w] = "leased"
    /\ IF Owns(w, doing[w])
       THEN /\ pc' = [pc EXCEPT ![w] = "handling"]
            /\ seen' = [seen EXCEPT ![w] = [status |-> version.status,
                                            promoted |-> version.promoted,
                                            attempt |-> job[doing[w]].attempt]]
            /\ UNCHANGED <<package, version, job, installation, instances, doing, found,
                           patch, history>>
       ELSE Done(w) /\ UNCHANGED <<version, job, instances, lateCommit>>

\* complete or fail on the task's own copy of the job, and the commit.
Commit(w, state, jobs) ==
    /\ job' = [jobs EXCEPT ![doing[w]] = Released(jobs[doing[w]], state)]
    /\ lateCommit' = (lateCommit \/ w \in overtaken)
    /\ Done(w)

\* The columns of the version row after this task's UPDATE: the report always
\* changes, the status only when it differs from the loaded one.
Column(loaded, current, new) == IF new = loaded THEN current ELSE new
WriteVersion(w, status, promoted) ==
    version' = [status |-> Column(seen[w].status, version.status, status), promoted |-> promoted]

\* An exception that is not permanent: roll back, read the job again.
RollBack(w) ==
    /\ pc[w] \in {"handling", "checking"}
    /\ IF Owns(w, doing[w])
       THEN /\ pc' = [pc EXCEPT ![w] = "failing"]
            /\ seen' = [seen EXCEPT ![w].attempt = job[doing[w]].attempt]
            /\ UNCHANGED <<rows, doing, found, patch, history>>
       ELSE Done(w) /\ UNCHANGED <<version, job, instances, lateCommit>>

RetryOrFail(w) ==
    /\ pc[w] = "failing"
    /\ Commit(w, IF seen[w].attempt >= MaxAttempts THEN "failed" ELSE "retry", job)
    /\ UNCHANGED <<version, instances>>

\* The worker process dies; its leases stay until they expire.
Crash(w) ==
    /\ pc[w] # "idle" /\ faults < MaxFaults
    /\ faults' = faults + 1
    /\ pc' = [pc EXCEPT ![w] = "idle"]
    /\ doing' = [doing EXCEPT ![w] = None]
    /\ seen' = [seen EXCEPT ![w] = None]
    /\ found' = [found EXCEPT ![w] = None]
    /\ overtaken' = overtaken \ {w}
    /\ UNCHANGED <<rows, patch, lateCommit, raced>>

-----------------------------------------------------------------------------
(* plugin.validate: checks of the immutable manifest, then either the      *)
(* verdict itself (remote) or a job for the isolated build (sandbox).  It  *)
(* does not look at the status the version already has.                    *)

Handling(w, j) == pc[w] = "handling" /\ doing[w] = j
Reconciling(w) == pc[w] = "handling" /\ doing[w] \in Reconcile

\* Mutant: the isolated job is not queued.
BugValidate(w) ==
    /\ Handling(w, "validate") /\ package.defect = "none"
    /\ WriteVersion(w, IF package.mode = "remote" THEN "passed" ELSE "awaiting_isolated_build", FALSE)
    /\ Commit(w, "completed", job)
    /\ UNCHANGED <<instances>>
Validate(w) ==
    /\ Handling(w, "validate") /\ package.defect = "none"
    /\ IF package.mode = "remote"
       THEN WriteVersion(w, "passed", FALSE) /\ Commit(w, "completed", job)
       ELSE /\ WriteVersion(w, "awaiting_isolated_build", FALSE)
            /\ Commit(w, "completed", Enqueue(job, "isolated"))
    /\ UNCHANGED <<instances>>

\* A manifest that is invalid, unsupported or altered marks the version as
\* failed; an artifact that does not match only fails the job.
ValidateRejects(w) ==
    /\ Handling(w, "validate") /\ package.defect # "none"
    /\ IF package.defect = "digest"
       THEN WriteVersion(w, "failed", FALSE)
       ELSE UNCHANGED version
    /\ Commit(w, "failed", job)
    /\ UNCHANGED <<instances>>

-----------------------------------------------------------------------------
(* plugin.isolated_validate: a build in a sandbox, which may take far      *)
(* longer than the lease.  A build command that times out is a permanent   *)
(* failure, so two builds of one package can end differently.              *)

MayBuild(status) == status \in {"awaiting_isolated_build", "pending"}

BuildSkipped(w) ==
    /\ Handling(w, "isolated") /\ seen[w].status = "passed"
    /\ Commit(w, "completed", job)
    /\ UNCHANGED <<version, instances>>

BuildRefused(w) ==
    /\ Handling(w, "isolated") /\ seen[w].status # "passed" /\ ~MayBuild(seen[w].status)
    /\ Commit(w, "failed", job)
    /\ UNCHANGED <<version, instances>>

\* Mutant: the report does not name the promoted artifact.
BugBuildPassed(w) ==
    /\ Handling(w, "isolated") /\ MayBuild(seen[w].status)
    /\ WriteVersion(w, "passed", FALSE)
    /\ Commit(w, "completed", job)
    /\ UNCHANGED <<instances>>
BuildPassed(w) ==
    /\ Handling(w, "isolated") /\ MayBuild(seen[w].status)
    /\ WriteVersion(w, "passed", TRUE)
    /\ Commit(w, "completed", job)
    /\ UNCHANGED <<instances>>

BuildFailed(w) ==
    /\ Handling(w, "isolated") /\ MayBuild(seen[w].status)
    /\ WriteVersion(w, "failed", seen[w].promoted)
    /\ Commit(w, "failed", job)
    /\ UNCHANGED <<instances>>

-----------------------------------------------------------------------------
(* plugin.runtime.reconcile.  Several of these jobs, one for each endpoint, *)
(* work on one instance row.                                               *)

\* What ends it before the instance row: no promoted artifact, an endpoint that
\* is missing or that policy refuses.  Without a passed version, without a runner
\* or without an answer from DNS it rolls back and retries.
ReconcileRefused(w) ==
    /\ Reconciling(w) /\ seen[w].status = "passed"
    /\ package.mode = "sandbox" => ~seen[w].promoted
    /\ Commit(w, "failed", job)
    /\ UNCHANGED <<version, instances>>

\* The instance with the latest updated_at, if there is one.  Without an endpoint
\* in the request, a remote runtime must have one to take it from.
FindInstance(w) ==
    /\ Reconciling(w) /\ seen[w].status = "passed"
    /\ IF package.mode = "sandbox" THEN seen[w].promoted
       ELSE doing[w] = "existing" => instances.latest # 0
    /\ found' = [found EXCEPT ![w] =
                    [id |-> instances.latest,
                     health |-> IF instances.latest = 0 THEN "warming"
                                ELSE instances.health[instances.latest]]]
    /\ pc' = [pc EXCEPT ![w] = "checking"]
    /\ UNCHANGED <<rows, doing, seen, patch, history>>

\* Insert a row (id 0: none was found) or update the one that was found.  Its
\* updated_at is taken before the commit, so another row may be later.
PutInstance(w, health) ==
    LET id == IF found[w].id = 0 THEN Len(instances.health) + 1 ELSE found[w].id
    IN \E last \in {id, instances.latest} \ {0} :
        instances' =
            [health |-> IF found[w].id = 0 THEN Append(instances.health, health)
                        ELSE [instances.health EXCEPT ![id] = health],
             latest |-> last]

\* The health of that row while the request is under way: the reset to warming is
\* flushed before it, and writes nothing when warming is what the session loaded.
Provisioned(w) ==
    IF found[w].id = 0 THEN "warming"
    ELSE Column(found[w].health, instances.health[found[w].id], "warming")

\* After that flush healthy is always a change (and a sandbox row has no other state).
ReconcileHealthy(w) ==
    /\ pc[w] = "checking"
    /\ PutInstance(w, "healthy")
    /\ Commit(w, "completed", job)
    /\ UNCHANGED version

\* A health answer above 64 KiB is a permanent error: the reset is committed, also
\* on a row that another endpoint had made healthy.  (An unhealthy answer is flushed
\* but then raises an error that is not permanent, so RollBack discards it.)
ReconcileOversized(w) ==
    /\ pc[w] = "checking" /\ package.mode = "remote"
    /\ PutInstance(w, Provisioned(w))
    /\ Commit(w, "failed", job)
    /\ UNCHANGED <<version>>

-----------------------------------------------------------------------------
(* The owner's operations.                                                 *)

PublishWorkspaceVersion ==
    /\ package = None
    /\ package' \in Package
    /\ version' = [status |-> "pending", promoted |-> FALSE]
    /\ job' = Enqueue(job, "validate")
    /\ UNCHANGED <<installation, instances, local, history>>

InstallVersion ==
    /\ package # None /\ installation.status = None
    /\ installation' = [status |-> "installed", enabled |-> FALSE]
    /\ UNCHANGED <<package, version, job, instances, local, history>>

\* POST .../runtime/reconcile: the idempotency key is made of the installation,
\* the version and the endpoint, so the same request finds the same job, and a
\* request with another endpoint or with none queues another one.
ReconcileRuntime(e) ==
    /\ installation.status # None
    /\ job' = Enqueue(job, e)
    /\ UNCHANGED <<package, version, installation, instances, local, history>>

\* Mutant: a validated version is enough.
BugActivationReady == version.status = "passed"
\* _assert_activation_ready
ActivationReady ==
    /\ version.status = "passed"
    /\ \E n \in 1..Len(instances.health) : instances.health[n] = "healthy"

\* set_installation_state.  A row stays enabled unless the request says
\* otherwise; active always enables.
WantsEnabled(ask, row) ==
    \/ ask.status = "active"
    \/ IF ask.enabled = None THEN row.enabled ELSE ask.enabled

\* Mutant: the state of an enabled row is not checked.
BugRefused(ask, row) == ask.status = "active" /\ ~ActivationReady
\* "Enabled plugins must be in active lifecycle state" (so the branch that
\* clears enabled for disabled states is never needed), and activation needs a
\* validated version with a healthy runtime.
Refused(ask, row) ==
    /\ WantsEnabled(ask, row)
    /\ ask.status # "active" \/ ~ActivationReady

Answered == [at |-> "answered", new |-> None, row |-> None]

PatchRead(r, ask) ==
    /\ patch[r].at = "unsent" /\ installation.status # None
    /\ patch' = [patch EXCEPT ![r] =
                    IF Refused(ask, installation) THEN Answered
                    ELSE [at |-> "read", row |-> installation,
                          new |-> [status |-> ask.status,
                                   enabled |-> WantsEnabled(ask, installation)]]]
    /\ UNCHANGED <<rows, pc, doing, seen, found, history>>

PatchWrite(r) ==
    /\ patch[r].at = "read"
    /\ LET new == patch[r].new
           row == patch[r].row
       IN installation' =
            [status |-> Column(row.status, installation.status, new.status),
             enabled |-> Column(row.enabled, installation.enabled, new.enabled)]
    /\ raced' = (raced \/ installation # patch[r].row)
    /\ patch' = [patch EXCEPT ![r] = Answered]
    /\ UNCHANGED <<package, version, job, instances, pc, doing, seen, found, faults,
                   overtaken, lateCommit>>

-----------------------------------------------------------------------------
Handle(w) ==
    \/ Validate(w) \/ ValidateRejects(w)
    \/ BuildSkipped(w) \/ BuildRefused(w) \/ BuildPassed(w) \/ BuildFailed(w)
    \/ ReconcileRefused(w) \/ FindInstance(w) \/ ReconcileHealthy(w) \/ ReconcileOversized(w)
    \/ RollBack(w)

Task(w) == Start(w) \/ Handle(w) \/ RetryOrFail(w)

Next ==
    \/ PublishWorkspaceVersion \/ InstallVersion \/ \E e \in Reconcile : ReconcileRuntime(e)
    \/ \E r \in Request : (\E ask \in Asked : PatchRead(r, ask)) \/ PatchWrite(r)
    \/ \E w \in Worker : (\E j \in Job : Lease(w, j)) \/ Task(w) \/ Crash(w)
    \/ \E j \in Job : Expire(j)

\* A free worker polls for jobs, a task comes to an end (every call it makes has
\* a timeout), and a lease that is not renewed runs out.
Fairness ==
    /\ \A w \in Worker : WF_vars((\E j \in Job : Lease(w, j)) \/ Task(w))
    /\ WF_vars(\E j \in Job : Expire(j))

Spec == Init /\ [][Next]_vars /\ Fairness

-----------------------------------------------------------------------------
(* Properties.                                                             *)

\* Every variable has its type, and a job row is either running under a lease
\* of its owner or has neither owner nor lease (lease_batch, complete, fail).
TypeOK ==
    /\ package \in PackageKind \cup {None}
    /\ version \in VersionRow
    /\ job \in [Job -> JobRow]
    /\ \A j \in Job : /\ (job[j].state = "running") = (job[j].owner # None)
                      /\ (job[j].state = "running") = (job[j].lease # "null")
    /\ installation \in InstallationRow
    /\ instances \in [health : Seq(Health), latest : Nat]
    /\ instances.latest \in 0..Len(instances.health)
    /\ pc \in [Worker -> {"idle", "leased", "handling", "checking", "failing"}]
    /\ doing \in [Worker -> Job \cup {None}]
    /\ patch \in [Request -> PatchState]
    /\ faults \in 0..MaxFaults
    /\ overtaken \subseteq Worker /\ lateCommit \in BOOLEAN /\ raced \in BOOLEAN

\* A version that executes packaged code is passed only with the artifact that
\* the isolated build promoted (isolated_validate_plugin_job writes both, and
\* validate_plugin_job replaces the whole report); a late commit can lose it.
PassedIsPromoted ==
    package # None /\ package.mode = "sandbox" /\ version.status = "passed" =>
        version.promoted \/ lateCommit

\* As long as no task commits after its lease was given away, a verdict on a
\* version is final: neither a retry nor an overlapping build reverses it.
VerdictIsFinal ==
    [][version.status \in {"passed", "failed"} /\ version'.status # version.status
       => lateCommit']_vars

\* A reconcile job of a remote runtime has failed for good, so the instance may have
\* been left as it was reset (worker.py commits what a permanent error left behind).
RuntimeReset ==
    /\ package # None /\ package.mode = "remote"
    /\ \E e \in Reconcile : job[e].state = "failed"

\* "Enabled plugins must be in active lifecycle state", and an active one has a
\* validated version and a healthy runtime behind it, although activation checks
\* all of them before it writes.  The flag and the state part only when two updates
\* of the row overlap, because each writes only the columns it changed.  The verdict
\* is lost only through a late commit, the healthy runtime also through a reconcile
\* job for another endpoint that failed for good: nothing retries or disables then.
EnabledIsBacked ==
    installation.enabled =>
        /\ installation.status = "active" \/ raced
        /\ installation.status = "active" =>
             \/ /\ version.status = "passed"
                /\ \/ \E n \in 1..Len(instances.health) : instances.health[n] = "healthy"
                   \/ RuntimeReset
             \/ lateCommit

\* Every published version gets its verdict or its job is reported as failed,
\* through crashes, expired leases and retries, unless a late commit puts it
\* back to a state whose job is over.
VersionOpen == version.status = "pending"
VersionSettled ==
    \/ version.status \in {"passed", "failed"}
    \/ job["validate"].state = "failed" \/ job["isolated"].state = "failed"
    \/ lateCommit
=============================================================================
