------------------------ MODULE PluginLifecycleProofs ------------------------
(***************************************************************************)
(* Proofs about PluginLifecycle, for any number of tasks and requests.     *)
(*                                                                         *)
(* A task commits whatever its own copy of the job says, so the properties *)
(* hold until one commits after its lease was given away; from then on     *)
(* they say nothing.  Up to there a task that was not overtaken still owns *)
(* its job (OwnInv), so the jobs of a version run one after the other and  *)
(* no two of them write it (PhaseInv, SeenInv).                            *)
(***************************************************************************)
EXTENDS PluginLifecycle, TLAPS

\* The copy of a version row that a session holds, with the attempt of the job.
SeenRow == [status : Validation \cup {None}, promoted : BOOLEAN, attempt : 0..MaxAttempts]

\* A task past its start.
Under == {"handling", "checking", "failing"}

\* What a task holds at each place, and that before a publication there is nothing
\* to hold.
TaskInv ==
    /\ \A w \in Worker :
         /\ pc[w] = "idle" => doing[w] = None /\ w \notin overtaken
         /\ pc[w] # "idle" => doing[w] \in Job /\ job[doing[w]].state # "absent"
         /\ pc[w] \in Under => seen[w] \in SeenRow
         /\ pc[w] = "checking" => /\ found[w] \in [id : 0..Len(instances.health), health : Health]
                                  /\ doing[w] \in Reconcile
    /\ seen \in [Worker -> SeenRow \cup {None}]
    /\ found \in [Worker -> [id : Nat, health : Health] \cup {None}]
    /\ package = None => /\ version.status = None /\ installation.status = None
                         /\ \A j \in Job : job[j].state = "absent"
    /\ \A r \in Request : patch[r].at = "read" =>
         patch[r].new \in InstallationRow /\ patch[r].row \in InstallationRow /\ package # None

\* A task that was not overtaken owns its job.
OwnInv ==
    ~lateCommit => \A w \in Worker : pc[w] # "idle" /\ w \notin overtaken => Owns(w, doing[w])

\* The jobs of a version come one after the other, and the status of the version
\* says how far they are.
PhaseInv ==
    ~lateCommit =>
        /\ job["validate"].state \notin {"completed", "failed"} => version.status \in {None, "pending"}
        /\ job["isolated"].state # "absent" => job["validate"].state = "completed"
        /\ job["isolated"].state \in {"queued", "retry", "running"} =>
             version.status = "awaiting_isolated_build"
        /\ package # None /\ package.mode = "sandbox" /\ version.status = "passed" => version.promoted

\* The copy of a task that may write the version is up to date.
SeenInv ==
    ~lateCommit => \A w \in Worker :
        pc[w] \in Under /\ w \notin overtaken /\ doing[w] \notin Reconcile =>
            seen[w].status = version.status /\ seen[w].promoted = version.promoted

\* What stays of a version that was ready for activation: its verdict, and its healthy
\* instance until a reconcile job fails for good.
Backed ==
    /\ version.status = "passed"
    /\ \/ \E n \in 1..Len(instances.health) : instances.health[n] = "healthy"
       \/ RuntimeReset

\* A PATCH that enables the plugin found it ready, and it stays backed.
PatchInv ==
    \A r \in Request : patch[r].at = "read" =>
        /\ patch[r].new.enabled => patch[r].new.status = "active"
        /\ patch[r].new.status = "active" => Backed \/ lateCommit

Inv == TypeOK /\ TaskInv /\ OwnInv /\ PhaseInv /\ SeenInv /\ PatchInv /\ EnabledIsBacked

-----------------------------------------------------------------------------
(* What the steps of a task do to it, and that they leave the other tasks  *)
(* alone.                                                                  *)

\* A job is one of the three kinds.
LEMMA Jobs ==
    /\ "validate" \in Job /\ "isolated" \in Job /\ Reconcile \subseteq Job
    /\ "validate" \notin Reconcile /\ "isolated" \notin Reconcile
    /\ \A j \in Job : j = "validate" \/ j = "isolated" \/ j \in Reconcile
<1>1. "validate" \notin Endpoint /\ "isolated" \notin Endpoint BY LifecycleAssumption
<1> QED BY <1>1 DEF Job, Reconcile

\* The types of the tasks' locals.
LocalOK ==
    /\ pc \in [Worker -> {"idle", "leased", "handling", "checking", "failing"}]
    /\ doing \in [Worker -> Job \cup {None}]
    /\ seen \in [Worker -> SeenRow \cup {None}]
    /\ found \in [Worker -> [id : Nat, health : Health] \cup {None}]

\* The locals of a task are as they were.
Same(v) == pc'[v] = pc[v] /\ doing'[v] = doing[v] /\ seen'[v] = seen[v] /\ found'[v] = found[v]

\* A step of task w.
Others(w) == \A v \in Worker \ {w} : Same(v)

\* A task that ends holds nothing.
LEMMA DoneAt ==
    ASSUME LocalOK, NEW w \in Worker, Done(w)
    PROVE  /\ LocalOK' /\ Others(w) /\ pc'[w] = "idle" /\ doing'[w] = None
           /\ overtaken' = overtaken \ {w}
           /\ UNCHANGED <<package, installation, patch, faults, raced>>
BY DEF LocalOK, Done, Others, Same

\* A row of the queue is leased, or has neither owner nor lease.
JobOK ==
    /\ job \in [Job -> JobRow]
    /\ \A j \in Job : /\ (job[j].state = "running") = (job[j].owner # None)
                      /\ (job[j].state = "running") = (job[j].lease # "null")

\* What a commit does: the job gets its new state, the isolated job may be queued,
\* and the task ends.
Ends(w, state) ==
    /\ pc[w] \in Under
    /\ job'[doing[w]].state = state
    /\ \A j \in Job \ {doing[w]} :
         \/ job'[j] = job[j]
         \/ /\ j = "isolated" /\ doing[w] = "validate"
            /\ job[j].state = "absent" /\ job'[j].state = "queued"
    /\ lateCommit' = (lateCommit \/ w \in overtaken)
    /\ Others(w) /\ pc'[w] = "idle" /\ doing'[w] = None /\ overtaken' = overtaken \ {w}
    /\ UNCHANGED <<package, installation, patch, faults, raced>>

\* Released takes owner and lease from the row.
LEMMA ReleasedAt ==
    ASSUME NEW row \in JobRow, NEW state \in {"retry", "completed", "failed"}
    PROVE  /\ Released(row, state) \in JobRow
           /\ Released(row, state).state = state
           /\ Released(row, state).owner = None /\ Released(row, state).lease = "null"
BY DEF Released, JobRow

\* A row that is enqueued keeps its other columns.
LEMMA EnqueueAt ==
    ASSUME JobOK, NEW i \in Job
    PROVE  /\ Enqueue(job, i) \in [Job -> JobRow]
           /\ \A j \in Job \ {i} : Enqueue(job, i)[j] = job[j]
           /\ job[i].state # "absent" => Enqueue(job, i) = job
           /\ job[i].state = "absent" => /\ Enqueue(job, i)[i].state = "queued"
                                         /\ Enqueue(job, i)[i].owner = None
                                         /\ Enqueue(job, i)[i].lease = "null"
<1>1. job[i] \in JobRow BY DEF JobOK
<1>2. CASE job[i].state = "absent"
  <2>1. [job[i] EXCEPT !.state = "queued"] \in JobRow /\ [job[i] EXCEPT !.state = "queued"].state = "queued"
    BY <1>1 DEF JobRow
  <2>2. [job[i] EXCEPT !.state = "queued"].owner = None /\ [job[i] EXCEPT !.state = "queued"].lease = "null"
    BY <1>1, <1>2 DEF JobRow, JobOK
  <2>3. Enqueue(job, i) = [job EXCEPT ![i] = [job[i] EXCEPT !.state = "queued"]] BY <1>2 DEF Enqueue
  <2> QED BY <1>2, <2>1, <2>2, <2>3 DEF JobOK
<1>3. CASE job[i].state # "absent" BY <1>3 DEF Enqueue, JobOK
<1> QED BY <1>2, <1>3

\* A commit ends the task and keeps the queue in order.
LEMMA CommitAt ==
    ASSUME LocalOK, JobOK, TaskInv, NEW w \in Worker, pc[w] \in Under,
           NEW state \in {"retry", "completed", "failed"},
           \/ Commit(w, state, job)
           \/ doing[w] = "validate" /\ Commit(w, state, Enqueue(job, "isolated"))
    PROVE  LocalOK' /\ JobOK' /\ Ends(w, state)
<1> DEFINE j == doing[w]
<1>1. j \in Job /\ "isolated" \in Job /\ "validate" \in Job BY DEF TaskInv, Under, Job
<1>2. PICK jobs : /\ jobs = job \/ (j = "validate" /\ jobs = Enqueue(job, "isolated"))
                  /\ Commit(w, state, jobs)
  OBVIOUS
<1>3. /\ jobs \in [Job -> JobRow] /\ jobs[j] = job[j]
      /\ \A i \in Job : (jobs[i].state = "running") = (jobs[i].owner # None)
                        /\ (jobs[i].state = "running") = (jobs[i].lease # "null")
      /\ \A i \in Job \ {j} : \/ jobs[i] = job[i]
                              \/ /\ i = "isolated" /\ j = "validate"
                                 /\ job[i].state = "absent" /\ jobs[i].state = "queued"
  <2>1. CASE jobs = job BY <2>1 DEF JobOK
  <2>2. CASE j = "validate" /\ jobs = Enqueue(job, "isolated")
    <3>1. "validate" # "isolated" OBVIOUS
    <3> QED BY <1>1, <2>2, <3>1, EnqueueAt DEF JobOK
  <2> QED BY <1>2, <2>1, <2>2
<1>4. /\ job' = [jobs EXCEPT ![j] = Released(jobs[j], state)]
      /\ lateCommit' = (lateCommit \/ w \in overtaken) /\ Done(w)
  BY <1>2 DEF Commit
<1>5. /\ job' \in [Job -> JobRow] /\ job'[j].state = state
      /\ job'[j].owner = None /\ job'[j].lease = "null"
      /\ \A i \in Job \ {j} : job'[i] = jobs[i]
  BY <1>1, <1>3, <1>4, ReleasedAt
<1>6. JobOK' BY <1>3, <1>5 DEF JobOK
<1>7. Ends(w, state) BY <1>3, <1>4, <1>5, DoneAt DEF Ends
<1> QED BY <1>4, <1>6, <1>7, DoneAt

\* The version row a task writes.
LEMMA VersionAt ==
    ASSUME version \in VersionRow, NEW w \in Worker, NEW status \in Validation, NEW promoted \in BOOLEAN,
           WriteVersion(w, status, promoted)
    PROVE  /\ version' \in VersionRow /\ version'.promoted = promoted
           /\ version'.status \in {status, version.status}
           /\ seen[w].status = version.status => version'.status = status
<1>1. version.status \in Validation \cup {None} BY DEF VersionRow
<1>2. version' = [status |-> Column(seen[w].status, version.status, status), promoted |-> promoted]
  BY DEF WriteVersion
<1>3. /\ Column(seen[w].status, version.status, status) \in {status, version.status}
      /\ seen[w].status = version.status => Column(seen[w].status, version.status, status) = status
  BY DEF Column
<1> QED BY <1>1, <1>2, <1>3 DEF VersionRow

\* The instance rows a task leaves.
InstancesOK ==
    /\ instances \in [health : Seq(Health), latest : Nat]
    /\ instances.latest \in 0..Len(instances.health)

LEMMA InstanceAt ==
    ASSUME InstancesOK, NEW w \in Worker, NEW health \in Health,
           found[w] \in [id : 0..Len(instances.health), health : Health], PutInstance(w, health)
    PROVE  /\ InstancesOK' /\ Len(instances.health) <= Len(instances'.health)
           /\ \E n \in 1..Len(instances'.health) : instances'.health[n] = health
<1> DEFINE old == instances.health
           id == IF found[w].id = 0 THEN Len(old) + 1 ELSE found[w].id
           new == IF found[w].id = 0 THEN Append(old, health) ELSE [old EXCEPT ![id] = health]
<1>1. /\ old \in Seq(Health) /\ Len(old) \in Nat /\ found[w].id \in 0..Len(old)
      /\ instances.latest \in 0..Len(old)
  BY DEF InstancesOK
<1>2. /\ new \in Seq(Health) /\ Len(old) <= Len(new) /\ id \in 1..Len(new) /\ new[id] = health
      /\ instances.latest \in 0..Len(new)
  <2>1. CASE found[w].id = 0
    <3>1. Append(old, health) \in Seq(Health) /\ Len(Append(old, health)) = Len(old) + 1
          /\ Append(old, health)[Len(old) + 1] = health
      BY <1>1
    <3> QED BY <1>1, <2>1, <3>1
  <2>2. CASE found[w].id # 0
    <3>1. found[w].id \in 1..Len(old) BY <1>1, <2>2
    <3>2. [old EXCEPT ![found[w].id] = health] \in Seq(Health)
          /\ Len([old EXCEPT ![found[w].id] = health]) = Len(old)
          /\ [old EXCEPT ![found[w].id] = health][found[w].id] = health
      BY <1>1, <3>1
    <3> QED BY <1>1, <2>2, <3>1, <3>2
  <2> QED BY <2>1, <2>2
<1>3. PICK last \in {id, instances.latest} \ {0} : instances' = [health |-> new, latest |-> last]
  BY DEF PutInstance
<1> HIDE DEF new, id
<1>4. instances'.health = new /\ instances'.latest = last BY <1>3
<1>5. Len(new) \in Nat /\ last \in 0..Len(new) /\ last \in Nat BY <1>2, <1>3
<1>6. InstancesOK' BY <1>2, <1>3, <1>5 DEF InstancesOK
<1> QED BY <1>2, <1>4, <1>6

\* The health a reset leaves is one.
LEMMA ProvisionedAt ==
    ASSUME InstancesOK, NEW w \in Worker, found[w] \in [id : 0..Len(instances.health), health : Health]
    PROVE  Provisioned(w) \in Health
<1>1. instances.health \in Seq(Health) /\ Len(instances.health) \in Nat BY DEF InstancesOK
<1>2. found[w].id # 0 => instances.health[found[w].id] \in Health BY <1>1
<1>3. "warming" \in Health BY DEF Health
<1> QED BY <1>2, <1>3 DEF Provisioned, Column

\* The steps of a task that commit.
Commits(w) ==
    \/ RetryOrFail(w) \/ Validate(w) \/ ValidateRejects(w)
    \/ BuildSkipped(w) \/ BuildRefused(w) \/ BuildPassed(w) \/ BuildFailed(w)
    \/ ReconcileRefused(w) \/ ReconcileHealthy(w) \/ ReconcileOversized(w)

\* A commit keeps the types.
LEMMA CommitTypes ==
    ASSUME TypeOK, TaskInv, NEW w \in Worker, Commits(w)
    PROVE  /\ (TypeOK /\ TaskInv)'
           /\ \E state \in {"retry", "completed", "failed"} : Ends(w, state)
           /\ version' = version \/ (doing[w] = "validate" /\ (Validate(w) \/ ValidateRejects(w)))
                                 \/ (doing[w] = "isolated" /\ (BuildPassed(w) \/ BuildFailed(w)))
           /\ instances' = instances \/ doing[w] \in Reconcile
<1>0. LocalOK /\ JobOK /\ InstancesOK /\ version \in VersionRow
  BY DEF TypeOK, TaskInv, LocalOK, JobOK, InstancesOK
<1>1. pc[w] \in Under
  BY DEF Commits, RetryOrFail, Validate, ValidateRejects, BuildSkipped, BuildRefused, BuildPassed, BuildFailed,
         ReconcileRefused, ReconcileHealthy, ReconcileOversized, Handling, Reconciling, Under
<1>2. PICK state \in {"retry", "completed", "failed"} :
        \/ Commit(w, state, job)
        \/ doing[w] = "validate" /\ Commit(w, state, Enqueue(job, "isolated"))
  BY DEF Commits, RetryOrFail, Validate, ValidateRejects, BuildSkipped, BuildRefused, BuildPassed, BuildFailed,
         ReconcileRefused, ReconcileHealthy, ReconcileOversized, Handling
<1>3. LocalOK' /\ JobOK' /\ Ends(w, state) BY <1>0, <1>1, <1>2, CommitAt
<1>4. /\ version' \in VersionRow
      /\ version' = version \/ (doing[w] = "validate" /\ (Validate(w) \/ ValidateRejects(w)))
                            \/ (doing[w] = "isolated" /\ (BuildPassed(w) \/ BuildFailed(w)))
  <2>1. seen[w] \in SeenRow BY <1>1 DEF TaskInv
  <2>2. seen[w].promoted \in BOOLEAN BY <2>1 DEF SeenRow
  <2>3. {"passed", "failed", "awaiting_isolated_build"} \subseteq Validation BY DEF Validation
  <2>4. version' = version \/ \E status \in Validation, promoted \in BOOLEAN : WriteVersion(w, status, promoted)
    BY <2>2, <2>3 DEF Commits, RetryOrFail, Validate, ValidateRejects, BuildSkipped, BuildRefused, BuildPassed,
                      BuildFailed, ReconcileRefused, ReconcileHealthy, ReconcileOversized
  <2>5. version' = version \/ (doing[w] = "validate" /\ (Validate(w) \/ ValidateRejects(w)))
                           \/ (doing[w] = "isolated" /\ (BuildPassed(w) \/ BuildFailed(w)))
    BY DEF Commits, RetryOrFail, Validate, ValidateRejects, BuildSkipped, BuildRefused, BuildPassed, BuildFailed,
           ReconcileRefused, ReconcileHealthy, ReconcileOversized, Handling
  <2> QED BY <1>0, <2>4, <2>5, VersionAt
<1>5. /\ InstancesOK' /\ Len(instances.health) <= Len(instances'.health)
      /\ instances' = instances \/ doing[w] \in Reconcile
  <2>1. CASE instances' = instances BY <1>0, <2>1 DEF InstancesOK
  <2>2. CASE instances' # instances
    <3>1. pc[w] = "checking" /\ \E health \in {"healthy", Provisioned(w)} : PutInstance(w, health)
      BY <2>2 DEF Commits, RetryOrFail, Validate, ValidateRejects, BuildSkipped, BuildRefused, BuildPassed,
                  BuildFailed, ReconcileRefused, ReconcileHealthy, ReconcileOversized
    <3>2. found[w] \in [id : 0..Len(instances.health), health : Health] /\ doing[w] \in Reconcile
      BY <3>1 DEF TaskInv
    <3>3. {"healthy", Provisioned(w)} \subseteq Health BY <1>0, <3>2, ProvisionedAt DEF Health
    <3> QED BY <1>0, <3>1, <3>2, <3>3, InstanceAt
  <2> QED BY <2>1, <2>2
<1>6. TypeOK'
  <2>1. UNCHANGED <<package, installation, patch, faults, raced>> /\ overtaken' \subseteq Worker
    BY <1>3 DEF Ends, TypeOK
  <2>2. lateCommit' \in BOOLEAN BY <1>3 DEF Ends
  <2> QED BY <1>3, <1>4, <1>5, <2>1, <2>2 DEF TypeOK, LocalOK, JobOK, InstancesOK
<1>7. TaskInv'
  <2>1. doing[w] \in Job /\ job[doing[w]].state # "absent" BY <1>1 DEF TaskInv, Under
  <2>2. \A j \in Job : job[j].state # "absent" => job'[j].state # "absent"
    BY <1>3, <2>1 DEF Ends
  <2>3. package # None BY <2>1 DEF TaskInv
  <2>4. package' = package /\ patch' = patch BY <1>3 DEF Ends
  <2>5. ASSUME NEW v \in Worker
        PROVE  /\ pc'[v] = "idle" => doing'[v] = None /\ v \notin overtaken'
               /\ pc'[v] # "idle" => doing'[v] \in Job /\ job'[doing'[v]].state # "absent"
               /\ pc'[v] \in Under => seen'[v] \in SeenRow
               /\ pc'[v] = "checking" => /\ found'[v] \in [id : 0..Len(instances'.health), health : Health]
                                         /\ doing'[v] \in Reconcile
    <3>1. CASE v = w BY <1>3, <3>1 DEF Ends, Under
    <3>2. CASE v # w
      <4>1. Same(v) /\ overtaken' = overtaken \ {w} BY <1>3, <3>2 DEF Ends, Others
      <4>2. Len(instances.health) \in Nat /\ Len(instances'.health) \in Nat BY <1>0, <1>5 DEF InstancesOK
      <4>3. pc[v] = "checking" => found[v] \in [id : 0..Len(instances'.health), health : Health]
        BY <1>5, <4>2 DEF TaskInv
      <4> QED BY <2>2, <4>1, <4>3 DEF Same, TaskInv
    <3> QED BY <3>1, <3>2
  <2> QED BY <1>3, <2>3, <2>4, <2>5 DEF TaskInv, LocalOK
<1> QED BY <1>3, <1>4, <1>5, <1>6, <1>7

\* What is said of the tasks other than w, when the rows they depend on are as they
\* were.
LEMMA TaskKept ==
    ASSUME TypeOK, TaskInv, LocalOK', NEW w \in Worker, Others(w),
           UNCHANGED <<package, version, installation, instances, patch>>,
           \A j \in Job : job'[j].state = "absent" <=> job[j].state = "absent",
           \A v \in Worker \ {w} : v \in overtaken' => v \in overtaken \/ doing[v] # None,
           pc'[w] = "idle" => doing'[w] = None /\ w \notin overtaken',
           pc'[w] # "idle" => doing'[w] \in Job /\ job[doing'[w]].state # "absent",
           pc'[w] \in Under => seen'[w] \in SeenRow,
           pc'[w] = "checking" => /\ found'[w] \in [id : 0..Len(instances.health), health : Health]
                                  /\ doing'[w] \in Reconcile
    PROVE  TaskInv'
<1>1. ASSUME NEW v \in Worker
      PROVE  /\ pc'[v] = "idle" => doing'[v] = None /\ v \notin overtaken'
             /\ pc'[v] # "idle" => doing'[v] \in Job /\ job'[doing'[v]].state # "absent"
             /\ pc'[v] \in Under => seen'[v] \in SeenRow
             /\ pc'[v] = "checking" => /\ found'[v] \in [id : 0..Len(instances'.health), health : Health]
                                       /\ doing'[v] \in Reconcile
  <2>1. CASE v = w BY <2>1
  <2>2. CASE v # w
    <3>1. Same(v) BY <2>2 DEF Others
    <3> QED BY <2>2, <3>1 DEF Same, TaskInv
  <2> QED BY <2>1, <2>2
<1> QED BY <1>1 DEF TaskInv, LocalOK


\* Where such a step leaves the task.
Stays(w) ==
    \/ pc'[w] = "idle" /\ overtaken' = overtaken \ {w}
    \/ /\ pc[w] # "idle" /\ pc'[w] \in Under /\ doing'[w] = doing[w] /\ overtaken' = overtaken
       /\ \/ /\ seen'[w].status = version.status /\ seen'[w].promoted = version.promoted
          \/ /\ pc[w] \in Under
             /\ seen'[w].status = seen[w].status /\ seen'[w].promoted = seen[w].promoted

LEMMA QuietTypes ==
    ASSUME TypeOK, TaskInv, NEW w \in Worker, Start(w) \/ RollBack(w) \/ FindInstance(w) \/ Crash(w)
    PROVE  /\ (TypeOK /\ TaskInv)' /\ Others(w) /\ Stays(w)
           /\ UNCHANGED <<rows, patch, lateCommit, raced>>
<1>0. /\ LocalOK /\ InstancesOK /\ version \in VersionRow /\ job \in [Job -> JobRow]
      /\ MaxFaults \in Nat /\ faults \in 0..MaxFaults /\ overtaken \subseteq Worker
  BY LifecycleAssumption DEF TypeOK, TaskInv, LocalOK, InstancesOK
<1>1. pc[w] # "idle" BY DEF Start, RollBack, FindInstance, Crash, Reconciling
<1>2. doing[w] \in Job /\ job[doing[w]].state # "absent" BY <1>1 DEF TaskInv
<1>3. job[doing[w]].attempt \in 0..MaxAttempts BY <1>0, <1>2 DEF JobRow
<1>4. UNCHANGED <<rows, patch, lateCommit, raced>>
  BY DEF Start, RollBack, FindInstance, Crash, Done, rows, local, history
<1>5. faults' \in 0..MaxFaults /\ (faults' = faults \/ Crash(w))
  BY <1>0 DEF Start, RollBack, FindInstance, Crash, Done, rows, local, history
<1>6. /\ LocalOK' /\ Others(w) /\ Stays(w) /\ overtaken' \in {overtaken, overtaken \ {w}}
      /\ pc'[w] = "idle" => doing'[w] = None /\ w \notin overtaken'
      /\ pc'[w] # "idle" => doing'[w] = doing[w]
      /\ pc'[w] \in Under => seen'[w] \in SeenRow
      /\ pc'[w] = "checking" => /\ found'[w] \in [id : 0..Len(instances.health), health : Health]
                                /\ doing'[w] \in Reconcile
  <2>1. CASE Crash(w)
    BY <1>0, <2>1 DEF Crash, LocalOK, Others, Same, Stays, Under
  <2>2. CASE Start(w) /\ ~Owns(w, doing[w])
    BY <1>0, <2>2, DoneAt DEF Start, Stays, Under
  <2>3. CASE RollBack(w) /\ ~Owns(w, doing[w])
    BY <1>0, <2>3, DoneAt DEF RollBack, Stays, Under
  <2>4. CASE Start(w) /\ Owns(w, doing[w])
    <3> DEFINE new == [status |-> version.status, promoted |-> version.promoted,
                       attempt |-> job[doing[w]].attempt]
    <3>1. new \in SeenRow BY <1>0, <1>3 DEF SeenRow, VersionRow
    <3>2. /\ pc' = [pc EXCEPT ![w] = "handling"] /\ seen' = [seen EXCEPT ![w] = new]
          /\ UNCHANGED <<doing, found, overtaken>>
      BY <2>4 DEF Start, history
    <3>3. LocalOK' /\ Others(w) BY <1>0, <3>1, <3>2 DEF LocalOK, Others, Same
    <3>4. seen'[w] = new /\ pc'[w] = "handling" BY <1>0, <3>2 DEF LocalOK
    <3> QED BY <1>1, <3>1, <3>2, <3>3, <3>4 DEF Stays, Under
  <2>5. CASE RollBack(w) /\ Owns(w, doing[w])
    <3> DEFINE new == [seen[w] EXCEPT !.attempt = job[doing[w]].attempt]
    <3>1. seen[w] \in SeenRow /\ pc[w] \in Under BY <2>5 DEF RollBack, TaskInv, Under
    <3>2. new \in SeenRow /\ new.status = seen[w].status /\ new.promoted = seen[w].promoted
      BY <1>3, <3>1 DEF SeenRow
    <3>3. /\ pc' = [pc EXCEPT ![w] = "failing"] /\ seen' = [seen EXCEPT ![w] = new]
          /\ UNCHANGED <<doing, found, overtaken>>
      BY <2>5 DEF RollBack, history
    <3>4. LocalOK' /\ Others(w) BY <1>0, <3>2, <3>3 DEF LocalOK, Others, Same
    <3>5. seen'[w] = new /\ pc'[w] = "failing" BY <1>0, <3>3 DEF LocalOK
    <3> QED BY <1>1, <3>1, <3>2, <3>3, <3>4, <3>5 DEF Stays, Under
  <2>6. CASE FindInstance(w)
    <3> DEFINE new == [id |-> instances.latest,
                       health |-> IF instances.latest = 0 THEN "warming"
                                  ELSE instances.health[instances.latest]]
    <3>1. instances.latest \in 0..Len(instances.health) /\ instances.health \in Seq(Health)
      BY <1>0 DEF InstancesOK
    <3>2. Len(instances.health) \in Nat BY <3>1
    <3>3. (IF instances.latest = 0 THEN "warming" ELSE instances.health[instances.latest]) \in Health
      BY <3>1, <3>2 DEF Health
    <3>4. new \in [id : 0..Len(instances.health), health : Health] /\ new \in [id : Nat, health : Health]
      BY <3>1, <3>2, <3>3
    <3>5. /\ pc' = [pc EXCEPT ![w] = "checking"] /\ found' = [found EXCEPT ![w] = new]
          /\ UNCHANGED <<doing, seen, overtaken>> /\ pc[w] = "handling" /\ doing[w] \in Reconcile
      BY <2>6 DEF FindInstance, Reconciling, history
    <3> HIDE DEF new
    <3>6. LocalOK' /\ Others(w) BY <1>0, <3>4, <3>5 DEF LocalOK, Others, Same
    <3>7. found'[w] = new /\ pc'[w] = "checking" BY <1>0, <3>5 DEF LocalOK
    <3>8. seen[w] \in SeenRow BY <3>5 DEF TaskInv, Under
    <3> QED BY <1>1, <3>4, <3>5, <3>6, <3>7, <3>8 DEF Stays, Under
  <2> QED BY <2>1, <2>2, <2>3, <2>4, <2>5, <2>6
<1>7. UNCHANGED <<package, version, installation, instances, job, patch>> BY <1>4 DEF rows
<1>8. TaskInv' BY <1>2, <1>6, <1>7, TaskKept
<1>9. TypeOK' BY <1>0, <1>4, <1>5, <1>6, <1>7 DEF TypeOK, LocalOK
<1> QED BY <1>4, <1>6, <1>8, <1>9

\* A lease hands a waiting job to an idle task, and marks the tasks that had it.
Leases(w, j) ==
    /\ pc[w] = "idle" /\ Available(j)
    /\ job'[j].state = "running" /\ job'[j].owner = w
    /\ \A i \in Job \ {j} : job'[i] = job[i]
    /\ Others(w) /\ pc'[w] = "leased" /\ doing'[w] = j
    /\ overtaken' = overtaken \cup {v \in Worker : doing[v] = j}
    /\ UNCHANGED <<package, version, installation, instances, patch, lateCommit, raced>>

LEMMA LeaseTypes ==
    ASSUME TypeOK, TaskInv, NEW w \in Worker, NEW j \in Job, Lease(w, j)
    PROVE  (TypeOK /\ TaskInv)' /\ Leases(w, j)
<1>0. LocalOK /\ JobOK /\ None \notin Worker /\ MaxAttempts \in Nat /\ overtaken \subseteq Worker
  BY LifecycleAssumption DEF TypeOK, TaskInv, LocalOK, JobOK
<1>1. /\ pc[w] = "idle" /\ Available(j) /\ job' = [job EXCEPT ![j] = Leased(job[j], w)]
      /\ pc' = [pc EXCEPT ![w] = "leased"] /\ doing' = [doing EXCEPT ![w] = j]
      /\ overtaken' = overtaken \cup {v \in Worker : doing[v] = j}
      /\ UNCHANGED <<package, version, installation, instances, seen, found, patch, faults, lateCommit, raced>>
  BY DEF Lease
<1>2. job[j] \in JobRow BY <1>0 DEF JobOK
<1>3. /\ Leased(job[j], w) \in JobRow /\ Leased(job[j], w).state = "running"
      /\ Leased(job[j], w).owner = w /\ Leased(job[j], w).lease = "live"
  <2>1. job[j].attempt \in 0..MaxAttempts BY <1>2 DEF JobRow
  <2>2. (IF job[j].attempt < MaxAttempts THEN job[j].attempt + 1 ELSE MaxAttempts) \in 0..MaxAttempts
    BY <1>0, <2>1
  <2> QED BY <2>2 DEF Leased, JobRow
<1> HIDE DEF Leased
<1>4. /\ job' \in [Job -> JobRow] /\ job'[j] = Leased(job[j], w)
      /\ \A i \in Job \ {j} : job'[i] = job[i]
  BY <1>0, <1>1, <1>3 DEF JobOK
<1>5. JobOK' BY <1>0, <1>3, <1>4 DEF JobOK
<1>6. LocalOK' /\ Others(w) /\ pc'[w] = "leased" /\ doing'[w] = j
  BY <1>0, <1>1 DEF LocalOK, Others, Same
<1>7. Leases(w, j) BY <1>1, <1>3, <1>4, <1>6 DEF Leases
<1>8. TypeOK' BY <1>1, <1>5, <1>6 DEF TypeOK, LocalOK, JobOK
<1>9. job[j].state # "absent" BY <1>1 DEF Available
<1>10. \A i \in Job : job'[i].state = "absent" <=> job[i].state = "absent"
  BY <1>3, <1>4, <1>9
<1>11. None \notin Job BY LifecycleAssumption
<1>12. \A v \in Worker \ {w} : v \in overtaken' => v \in overtaken \/ doing[v] # None BY <1>1, <1>11
<1>13. TaskInv' BY <1>1, <1>6, <1>9, <1>10, <1>12, TaskKept DEF Under
<1> QED BY <1>7, <1>8, <1>13

\* A step outside the tasks: the queue keeps its owners, and the version and its
\* instances stay, except that a publication creates the version.
Outside ==
    /\ UNCHANGED <<instances, pc, doing, seen, found, overtaken, lateCommit>>
    /\ \A j \in Job : /\ job[j].state # "absent" => /\ job'[j].state = job[j].state
                                                    /\ job'[j].owner = job[j].owner
                      /\ job[j].state = "absent" => job'[j].state \in {"absent", "queued"}
    /\ job["isolated"].state = "absent" => job'["isolated"].state = "absent"
    /\ \/ UNCHANGED <<package, version>>
       \/ package = None /\ package' # None /\ version' = [status |-> "pending", promoted |-> FALSE]

LEMMA OutsideTypes ==
    ASSUME TypeOK, TaskInv,
           \/ PublishWorkspaceVersion \/ InstallVersion \/ \E e \in Reconcile : ReconcileRuntime(e)
           \/ \E r \in Request : (\E ask \in Asked : PatchRead(r, ask)) \/ PatchWrite(r)
           \/ \E j \in Job : Expire(j)
           \/ UNCHANGED vars
    PROVE  (TypeOK /\ TaskInv)' /\ Outside
<1>0. /\ LocalOK /\ JobOK /\ "validate" \in Job /\ "isolated" \in Job /\ None \notin PackageKind
      /\ MaxFaults \in Nat /\ Package \subseteq PackageKind /\ None \notin Status
  BY LifecycleAssumption, Jobs DEF TypeOK, TaskInv, LocalOK, JobOK
<1>1. UNCHANGED <<instances, pc, doing, seen, found, overtaken, lateCommit>>
  BY DEF PublishWorkspaceVersion, InstallVersion, ReconcileRuntime, PatchRead, PatchWrite, Expire,
         vars, rows, local, history
<1>2. LocalOK' BY <1>0, <1>1 DEF LocalOK
<1>3. ASSUME JobOK', Outside, package' \in PackageKind \cup {None}, version' \in VersionRow,
             installation' \in InstallationRow, patch' \in [Request -> PatchState],
             faults' \in 0..MaxFaults, raced' \in BOOLEAN,
             package' = None => installation'.status = None /\ \A j \in Job : job'[j].state = "absent",
             \A r \in Request : patch'[r].at = "read" => \/ patch'[r] = patch[r]
                                                       \/ /\ package # None
                                                          /\ patch'[r].new \in InstallationRow
                                                          /\ patch'[r].row \in InstallationRow
      PROVE  (TypeOK /\ TaskInv)' /\ Outside
  <2>1. TypeOK' BY <1>1, <1>2, <1>3 DEF TypeOK, LocalOK, JobOK
  <2>2. \A j \in Job : job[j].state # "absent" => job'[j].state # "absent" BY <1>3 DEF Outside
  <2>3. package' = None => package = None /\ version' = version BY <1>3 DEF Outside
  <2> QED BY <1>1, <1>3, <2>1, <2>2, <2>3 DEF TaskInv
<1>4. CASE PublishWorkspaceVersion
  <2>1. /\ package = None /\ package' \in Package /\ version' = [status |-> "pending", promoted |-> FALSE]
        /\ job' = Enqueue(job, "validate") /\ UNCHANGED <<installation, patch, faults, raced>>
    BY <1>4 DEF PublishWorkspaceVersion, local, history
  <2>2. JobOK' /\ \A j \in Job : job'[j] = job[j] \/ (j = "validate" /\ job[j].state = "absent" /\ job'[j].state = "queued")
    BY <1>0, <2>1, EnqueueAt DEF JobOK
  <2>3. version' \in VersionRow BY <2>1 DEF VersionRow, Validation
  <2>4. package' # None /\ package' \in PackageKind BY <1>0, <2>1
  <2>5. Outside BY <1>0, <1>1, <2>1, <2>2, <2>4 DEF Outside
  <2> QED BY <1>3, <2>1, <2>2, <2>3, <2>4, <2>5 DEF TypeOK
<1>5. ASSUME NEW e \in Reconcile, ReconcileRuntime(e) PROVE (TypeOK /\ TaskInv)' /\ Outside
  <2>0. e \in Job /\ e # "isolated" BY Jobs
  <2>1. /\ installation.status # None /\ job' = Enqueue(job, e)
        /\ UNCHANGED <<package, version, installation, patch, faults, raced>>
    BY <1>5 DEF ReconcileRuntime, local, history
  <2>2. JobOK' /\ \A j \in Job : job'[j] = job[j] \/ (j = e /\ job[j].state = "absent" /\ job'[j].state = "queued")
    BY <1>0, <2>0, <2>1, EnqueueAt DEF JobOK
  <2>3. Outside BY <1>0, <1>1, <2>0, <2>1, <2>2 DEF Outside
  <2>4. package # None BY <2>1 DEF TaskInv
  <2> QED BY <1>3, <2>1, <2>2, <2>3, <2>4 DEF TypeOK
<1>6. ASSUME NEW j \in Job, Expire(j) PROVE (TypeOK /\ TaskInv)' /\ Outside
  <2>1. /\ job' = [job EXCEPT ![j].lease = "expired"] /\ job[j].lease = "live"
        /\ UNCHANGED <<package, version, installation, patch, raced>>
    BY <1>6 DEF Expire, local
  <2>2. faults' \in 0..MaxFaults BY <1>0, <1>6 DEF Expire, TypeOK
  <2>3. job[j] \in JobRow BY <1>0 DEF JobOK
  <2>4. /\ job' \in [Job -> JobRow] /\ job'[j].state = job[j].state /\ job'[j].owner = job[j].owner
        /\ job'[j].lease = "expired" /\ \A i \in Job \ {j} : job'[i] = job[i]
    BY <1>0, <2>1, <2>3 DEF JobRow, JobOK
  <2>5. JobOK' BY <1>0, <2>1, <2>4 DEF JobOK
  <2>6. Outside BY <1>0, <1>1, <2>1, <2>4 DEF Outside
  <2> QED BY <1>3, <2>1, <2>2, <2>4, <2>5, <2>6 DEF TypeOK, TaskInv
<1>7. ASSUME UNCHANGED <<package, version, job>>, installation' \in InstallationRow,
             patch' \in [Request -> PatchState], faults' = faults, raced' \in BOOLEAN,
             package = None => installation'.status = None,
             \A r \in Request : patch'[r].at = "read" => \/ patch'[r] = patch[r]
                                                       \/ /\ package # None
                                                          /\ patch'[r].new \in InstallationRow
                                                          /\ patch'[r].row \in InstallationRow
      PROVE  (TypeOK /\ TaskInv)' /\ Outside
  <2>1. JobOK' BY <1>0, <1>7 DEF JobOK
  <2>2. Outside BY <1>0, <1>1, <1>7 DEF Outside
  <2> QED BY <1>3, <1>7, <2>1, <2>2 DEF TypeOK, TaskInv
<1>8. CASE InstallVersion
  <2>1. installation' \in InstallationRow /\ package # None
    BY <1>8 DEF InstallVersion, InstallationRow, Status
  <2> QED BY <1>7, <1>8, <2>1 DEF InstallVersion, local, history, TypeOK
<1>9. ASSUME NEW r \in Request, NEW ask \in Asked, PatchRead(r, ask) PROVE (TypeOK /\ TaskInv)' /\ Outside
  <2> DEFINE new == [status |-> ask.status, enabled |-> WantsEnabled(ask, installation)]
             state == IF Refused(ask, installation) THEN Answered
                      ELSE [at |-> "read", row |-> installation, new |-> new]
  <2>1. patch' = [patch EXCEPT ![r] = state] BY <1>9 DEF PatchRead
  <2>2. new \in InstallationRow
    <3>1. WantsEnabled(ask, installation) \in BOOLEAN BY DEF WantsEnabled
    <3>2. ask.status \in Status BY DEF Asked
    <3> QED BY <3>1, <3>2 DEF InstallationRow
  <2>3. state \in PatchState
    <3>1. Answered \in PatchState BY DEF Answered, PatchState
    <3>2. [at |-> "read", row |-> installation, new |-> new] \in PatchState
      BY <2>2 DEF PatchState, TypeOK
    <3> QED BY <3>1, <3>2
  <2> HIDE DEF state
  <2>4. /\ patch' \in [Request -> PatchState] /\ patch'[r] = state
        /\ \A q \in Request \ {r} : patch'[q] = patch[q]
    BY <2>1, <2>3 DEF TypeOK
  <2>5. package # None /\ installation \in InstallationRow BY <1>9 DEF PatchRead, TaskInv, TypeOK
  <2>6. state.at = "read" => state.new \in InstallationRow /\ state.row \in InstallationRow
    BY <2>2, <2>5 DEF state, Answered
  <2> QED BY <1>7, <1>9, <2>4, <2>5, <2>6 DEF PatchRead, rows, history, TypeOK, TaskInv
<1>10. ASSUME NEW r \in Request, PatchWrite(r) PROVE (TypeOK /\ TaskInv)' /\ Outside
  <2> DEFINE new == patch[r].new
             row == patch[r].row
  <2>1. /\ installation' = [status |-> Column(row.status, installation.status, new.status),
                            enabled |-> Column(row.enabled, installation.enabled, new.enabled)]
        /\ raced' = (raced \/ installation # patch[r].row)
        /\ patch' = [patch EXCEPT ![r] = Answered] /\ patch[r].at = "read"
    BY <1>10 DEF PatchWrite
  <2>2. new \in InstallationRow /\ installation \in InstallationRow BY <2>1 DEF TaskInv, TypeOK
  <2>3. installation' \in InstallationRow BY <2>1, <2>2 DEF InstallationRow, Column
  <2>4. Answered \in PatchState BY DEF Answered, PatchState
  <2>5. /\ patch' \in [Request -> PatchState] /\ patch'[r].at = "answered"
        /\ \A q \in Request \ {r} : patch'[q] = patch[q]
    BY <2>1, <2>4 DEF TypeOK, Answered
  <2>6. package # None BY <2>1 DEF TaskInv
  <2> QED BY <1>7, <1>10, <2>1, <2>3, <2>5, <2>6 DEF PatchWrite
<1>11. CASE UNCHANGED vars
  BY <1>7, <1>11 DEF vars, rows, local, history, TypeOK, TaskInv
<1> QED BY <1>4, <1>5, <1>6, <1>8, <1>9, <1>10, <1>11

-----------------------------------------------------------------------------
(* The invariant.                                                          *)

LEMMA InitInv == Init => Inv
<1> SUFFICES ASSUME Init PROVE Inv
  OBVIOUS
<1>1. /\ MaxAttempts \in Nat /\ MaxFaults \in Nat /\ None \notin Worker /\ None \notin Job
  BY LifecycleAssumption
<1>2. /\ instances = [health |-> <<>>, latest |-> 0] /\ <<>> \in Seq(Health) /\ Len(<<>>) = 0
      /\ \A n : n \notin 1..0
  BY DEF Init
<1>3. TypeOK
  <2>1. [state |-> "absent", owner |-> None, lease |-> "null", attempt |-> 0] \in JobRow
    BY <1>1 DEF JobRow
  <2>2. [at |-> "unsent", new |-> None, row |-> None] \in PatchState BY DEF PatchState
  <2>3. [status |-> None, promoted |-> FALSE] \in VersionRow BY DEF VersionRow
  <2>4. [status |-> None, enabled |-> FALSE] \in InstallationRow BY DEF InstallationRow
  <2>5. JobOK BY <2>1 DEF Init, JobOK
  <2>6. InstancesOK
    <3>1. instances.health = <<>> /\ instances.latest = 0 BY <1>2
    <3>2. 0 \in 0..Len(<<>>) BY <1>2
    <3> QED BY <1>2, <3>1, <3>2 DEF InstancesOK
  <2>7. /\ package = None /\ version \in VersionRow /\ installation \in InstallationRow
        /\ patch \in [Request -> PatchState]
    BY <2>2, <2>3, <2>4 DEF Init
  <2>8. /\ pc \in [Worker -> {"idle", "leased", "handling", "checking", "failing"}]
        /\ doing \in [Worker -> Job \cup {None}]
        /\ faults = 0 /\ 0 \in 0..MaxFaults /\ overtaken = {} /\ lateCommit = FALSE /\ raced = FALSE
    BY <1>1 DEF Init
  <2> QED BY <2>5, <2>6, <2>7, <2>8 DEF TypeOK, JobOK, InstancesOK
<1>4. TaskInv
  <2>1. \A w \in Worker : pc[w] = "idle" /\ doing[w] = None /\ w \notin overtaken BY DEF Init
  <2>2. seen \in [Worker -> SeenRow \cup {None}] BY DEF Init
  <2>3. found \in [Worker -> [id : Nat, health : Health] \cup {None}] BY DEF Init
  <2>4. version.status = None /\ installation.status = None /\ \A j \in Job : job[j].state = "absent"
    BY DEF Init
  <2>5. \A r \in Request : patch[r].at # "read" BY DEF Init
  <2> QED BY <2>1, <2>2, <2>3, <2>4, <2>5 DEF TaskInv, Under
<1>5. OwnInv /\ SeenInv BY DEF Init, OwnInv, SeenInv, Under
<1>6. PhaseInv
  <2>1. \A j \in Job : job[j].state = "absent" BY DEF Init
  <2>2. version.status = None /\ package = None BY DEF Init
  <2> QED BY <2>1, <2>2, Jobs DEF PhaseInv
<1>7. PatchInv BY DEF Init, PatchInv
<1>8. EnabledIsBacked BY DEF Init, EnabledIsBacked
<1> QED BY <1>3, <1>4, <1>5, <1>6, <1>7, <1>8 DEF Inv

\* A commit in time: the task owns its job, so the version is where that job begins.
LEMMA InTime ==
    ASSUME TypeOK, TaskInv, OwnInv, PhaseInv, SeenInv, NEW w \in Worker, Commits(w), ~lateCommit'
    PROVE  /\ ~lateCommit /\ w \notin overtaken /\ pc[w] \in Under
           /\ doing[w] \in Job /\ job[doing[w]].state = "running" /\ job[doing[w]].owner = w
           /\ doing[w] = "validate" => /\ version.status \in {None, "pending"}
                                       /\ job["isolated"].state = "absent"
           /\ doing[w] = "isolated" => /\ version.status = "awaiting_isolated_build"
                                       /\ job["validate"].state = "completed"
           /\ doing[w] \notin Reconcile => /\ seen[w].status = version.status
                                           /\ seen[w].promoted = version.promoted
<1>1. \E state \in {"retry", "completed", "failed"} : Ends(w, state) BY CommitTypes
<1>2. pc[w] \in Under /\ lateCommit' = (lateCommit \/ w \in overtaken) BY <1>1 DEF Ends
<1>3. ~lateCommit /\ w \notin overtaken BY <1>2, Zenon
<1>4. Owns(w, doing[w]) /\ doing[w] \in Job BY <1>2, <1>3 DEF OwnInv, TaskInv, Under
<1>5. job[doing[w]].state = "running" /\ job[doing[w]].owner = w BY <1>4 DEF Owns
<1> QED BY <1>2, <1>3, <1>4, <1>5 DEF PhaseInv, SeenInv

\* The tasks that were not overtaken keep their jobs.
LEMMA OwnStep ==
    ASSUME TypeOK, TaskInv, OwnInv, PhaseInv, SeenInv, [Next]_vars
    PROVE  OwnInv'
<1>1. ASSUME NEW w \in Worker, Commits(w), ~lateCommit', NEW v \in Worker, pc'[v] # "idle", v \notin overtaken'
      PROVE  Owns(v, doing[v])'
  <2>1. PICK state \in {"retry", "completed", "failed"} : Ends(w, state) BY <1>1, CommitTypes
  <2>2. v # w /\ v \notin overtaken BY <1>1, <2>1 DEF Ends
  <2>3. Same(v) BY <2>1, <2>2 DEF Ends, Others
  <2>4. ~lateCommit /\ job[doing[w]].owner = w BY <1>1, InTime
  <2>5. Owns(v, doing[v]) /\ doing[v] \in Job BY <1>1, <2>2, <2>3, <2>4 DEF OwnInv, TaskInv, Same
  <2>6. doing[v] # doing[w] BY <2>2, <2>4, <2>5 DEF Owns
  <2>7. job'[doing[v]] = job[doing[v]] BY <2>1, <2>5, <2>6 DEF Ends, Owns
  <2> QED BY <2>3, <2>5, <2>7 DEF Owns, Same
<1>2. ASSUME NEW w \in Worker, Start(w) \/ RollBack(w) \/ FindInstance(w) \/ Crash(w), ~lateCommit',
             NEW v \in Worker, pc'[v] # "idle", v \notin overtaken'
      PROVE  Owns(v, doing[v])'
  <2>1. Others(w) /\ Stays(w) /\ UNCHANGED <<rows, lateCommit>> BY <1>2, QuietTypes
  <2>2. doing'[v] = doing[v] /\ pc[v] # "idle" /\ v \notin overtaken
    BY <1>2, <2>1 DEF Others, Same, Stays
  <2>3. Owns(v, doing[v]) BY <1>2, <2>1, <2>2 DEF OwnInv
  <2> QED BY <2>1, <2>2, <2>3 DEF Owns, rows
<1>3. ASSUME NEW w \in Worker, NEW j \in Job, Lease(w, j), ~lateCommit',
             NEW v \in Worker, pc'[v] # "idle", v \notin overtaken'
      PROVE  Owns(v, doing[v])'
  <2>1. Leases(w, j) BY <1>3, LeaseTypes
  <2>2. CASE v = w BY <2>1, <2>2 DEF Leases, Owns
  <2>3. CASE v # w
    <3>1. Same(v) /\ v \notin overtaken /\ doing[v] # j /\ lateCommit' = lateCommit
      BY <1>3, <2>1, <2>3 DEF Leases, Others
    <3>2. Owns(v, doing[v]) /\ doing[v] \in Job BY <1>3, <3>1 DEF OwnInv, TaskInv, Same
    <3>3. job'[doing[v]] = job[doing[v]] BY <2>1, <3>1, <3>2 DEF Leases
    <3> QED BY <3>1, <3>2, <3>3 DEF Owns, Same
  <2> QED BY <2>2, <2>3
<1>4. ASSUME Outside, ~lateCommit', NEW v \in Worker, pc'[v] # "idle", v \notin overtaken'
      PROVE  Owns(v, doing[v])'
  <2>1. UNCHANGED <<pc, doing, overtaken, lateCommit>> BY <1>4 DEF Outside
  <2>2. Owns(v, doing[v]) /\ doing[v] \in Job BY <1>4, <2>1 DEF OwnInv, TaskInv
  <2> QED BY <1>4, <2>1, <2>2 DEF Owns, Outside
<1>5. ASSUME ~lateCommit', NEW v \in Worker, pc'[v] # "idle", v \notin overtaken'
      PROVE  Owns(v, doing[v])'
  BY <1>1, <1>2, <1>3, <1>4, <1>5, OutsideTypes DEF Next, Task, Handle, Commits
<1> QED BY <1>5 DEF OwnInv

\* What a commit in time makes of the version.
LEMMA VerdictAt ==
    ASSUME TypeOK, TaskInv, OwnInv, PhaseInv, SeenInv, NEW w \in Worker, Commits(w), ~lateCommit'
    PROVE  \/ version' = version
           \/ /\ doing[w] = "validate" /\ job'["validate"].state \in {"completed", "failed"}
              /\ version'.status = "passed" => package.mode = "remote"
              /\ \/ job'["isolated"].state = "absent"
                 \/ version'.status = "awaiting_isolated_build"
           \/ /\ doing[w] = "isolated" /\ job'["isolated"].state \in {"completed", "failed"}
              /\ version'.status = "passed" => version'.promoted
<1>0. version \in VersionRow /\ JobOK /\ LocalOK /\ seen[w] \in SeenRow
  BY InTime DEF TypeOK, JobOK, TaskInv, LocalOK
<1>1. PICK state \in {"retry", "completed", "failed"} : Ends(w, state) BY CommitTypes
<1>2. /\ doing[w] \in {"validate", "isolated"} => seen[w].status = version.status
      /\ doing[w] = "validate" => job["isolated"].state = "absent"
  BY InTime, Jobs
<1>3. {"passed", "failed", "awaiting_isolated_build"} \subseteq Validation /\ seen[w].promoted \in BOOLEAN
  BY <1>0 DEF Validation, SeenRow
<1>4. \A s \in {"retry", "completed", "failed"} :
        (\/ Commit(w, s, job)
         \/ doing[w] = "validate" /\ Commit(w, s, Enqueue(job, "isolated"))) => job'[doing[w]].state = s
  BY <1>0, <1>1, CommitAt DEF Ends, TaskInv
<1>5. ASSUME doing[w] = "validate", Validate(w) \/ ValidateRejects(w), version' # version
      PROVE  /\ job'["validate"].state \in {"completed", "failed"}
             /\ version'.status = "passed" => package.mode = "remote"
             /\ \/ job'["isolated"].state = "absent"
                \/ version'.status = "awaiting_isolated_build"
  <2>1. CASE Validate(w) /\ package.mode = "remote"
    <3>1. Commit(w, "completed", job) BY <2>1 DEF Validate
    <3>2. job'["validate"].state = "completed" BY <1>4, <1>5, <3>1
    <3>3. job'["isolated"] = job["isolated"]
      BY <1>0, <1>5, <3>1, Jobs DEF Commit, JobOK
    <3> QED BY <1>2, <1>5, <2>1, <3>2, <3>3
  <2>2. CASE Validate(w) /\ package.mode # "remote"
    <3>1. /\ Commit(w, "completed", Enqueue(job, "isolated"))
          /\ WriteVersion(w, "awaiting_isolated_build", FALSE)
      BY <2>2 DEF Validate
    <3>2. job'["validate"].state = "completed" BY <1>4, <1>5, <3>1
    <3>3. version'.status = "awaiting_isolated_build" BY <1>0, <1>2, <1>3, <1>5, <3>1, VersionAt
    <3> QED BY <3>2, <3>3
  <2>3. CASE ValidateRejects(w)
    <3>1. Commit(w, "failed", job) /\ WriteVersion(w, "failed", FALSE) BY <1>5, <2>3 DEF ValidateRejects
    <3>2. job'["validate"].state = "failed" BY <1>4, <1>5, <3>1
    <3>3. job'["isolated"] = job["isolated"]
      BY <1>0, <1>5, <3>1, Jobs DEF Commit, JobOK
    <3>4. version'.status = "failed" BY <1>0, <1>2, <1>3, <1>5, <3>1, VersionAt
    <3> QED BY <1>2, <1>5, <3>2, <3>3, <3>4
  <2> QED BY <1>5, <2>1, <2>2, <2>3
<1>6. ASSUME doing[w] = "isolated", BuildPassed(w) \/ BuildFailed(w)
      PROVE  /\ job'["isolated"].state \in {"completed", "failed"}
             /\ version'.status = "passed" => version'.promoted
  <2>1. CASE BuildPassed(w)
    <3>1. Commit(w, "completed", job) /\ WriteVersion(w, "passed", TRUE) BY <2>1 DEF BuildPassed
    <3> QED BY <1>0, <1>3, <1>4, <1>6, <3>1, VersionAt
  <2>2. CASE BuildFailed(w)
    <3>1. Commit(w, "failed", job) /\ WriteVersion(w, "failed", seen[w].promoted) BY <2>2 DEF BuildFailed
    <3>2. version'.status = "failed" BY <1>0, <1>2, <1>3, <1>6, <3>1, VersionAt
    <3> QED BY <1>4, <1>6, <3>1, <3>2
  <2> QED BY <1>6, <2>1, <2>2
<1> QED BY <1>5, <1>6, CommitTypes

\* The jobs of a version come one after the other.
LEMMA PhaseStep ==
    ASSUME TypeOK, TaskInv, OwnInv, PhaseInv, SeenInv, [Next]_vars
    PROVE  PhaseInv'
<1>0. "validate" \in Job /\ "isolated" \in Job /\ None \notin Validation
  BY LifecycleAssumption, Jobs
<1>1. ASSUME NEW w \in Worker, Commits(w), ~lateCommit' PROVE PhaseInv'
  <2>1. PICK state \in {"retry", "completed", "failed"} : Ends(w, state) BY <1>1, CommitTypes
  <2>2. package' = package /\ job'[doing[w]].state = state BY <2>1 DEF Ends
  <2>3. ~lateCommit /\ doing[w] \in Job /\ job[doing[w]].state = "running" BY <1>1, InTime
  <2>4. CASE doing[w] = "validate"
    <3>1. version.status \in {None, "pending"} /\ job["isolated"].state = "absent" BY <1>1, <2>4, InTime
    <3>2. job'["isolated"].state \in {"absent", "queued"} BY <1>0, <2>1, <2>4, <3>1 DEF Ends
    <3>3. CASE version' = version
      <4>1. job'["isolated"].state = "absent"
        <5>1. RetryOrFail(w) \/ ValidateRejects(w) \/ (Validate(w) /\ package.mode = "remote")
              \/ (Validate(w) /\ package.mode # "remote")
          BY <1>1, <2>4, Jobs DEF Commits, BuildSkipped, BuildRefused, BuildPassed, BuildFailed, ReconcileRefused,
                            ReconcileHealthy, ReconcileOversized, Handling, Reconciling, TaskInv
        <5>2. ASSUME Validate(w), package.mode # "remote" PROVE FALSE
          <6>1. version \in VersionRow /\ "awaiting_isolated_build" \in Validation /\ FALSE \in BOOLEAN
            BY DEF TypeOK, Validation
          <6>2. WriteVersion(w, "awaiting_isolated_build", FALSE) BY <5>2 DEF Validate
          <6>3. seen[w].status = version.status BY <1>1, <2>4, InTime, Jobs
          <6>4. version'.status = "awaiting_isolated_build" BY <6>1, <6>2, <6>3, VersionAt
          <6> QED BY <1>0, <3>1, <3>3, <6>1, <6>4
        <5>3. \E s : Commit(w, s, job)
          BY <5>1, <5>2 DEF RetryOrFail, ValidateRejects, Validate
        <5>4. job'["isolated"] = job["isolated"]
          BY <1>0, <2>4, <5>3 DEF Commit, TypeOK
        <5> QED BY <3>1, <5>4
      <4> QED BY <1>0, <2>2, <2>3, <3>1, <3>2, <3>3, <4>1 DEF PhaseInv, Validation
    <3>4. CASE version' # version
      <4>1. /\ job'["validate"].state \in {"completed", "failed"}
            /\ version'.status = "passed" => package.mode = "remote"
            /\ job'["isolated"].state = "absent" \/ version'.status = "awaiting_isolated_build"
        BY <1>1, <2>4, <3>4, VerdictAt
      <4>2. job'["isolated"].state # "absent" => job'["validate"].state = "completed"
        <5>1. Validate(w) \/ ValidateRejects(w) BY <1>1, <2>4, <3>4, CommitTypes
        <5>2. CASE ValidateRejects(w)
          <6>1. Commit(w, "failed", job) BY <5>2 DEF ValidateRejects
          <6>2. job'["isolated"] = job["isolated"] BY <1>0, <2>4, <6>1 DEF Commit, TypeOK
          <6> QED BY <3>1, <6>2
        <5>3. CASE Validate(w)
          <6>1. Commit(w, "completed", job) \/ Commit(w, "completed", Enqueue(job, "isolated"))
            BY <5>3 DEF Validate
          <6>2. LocalOK /\ JobOK /\ pc[w] \in Under
            BY <5>3 DEF TypeOK, TaskInv, LocalOK, JobOK, Validate, Handling, Under
          <6>3. Ends(w, "completed") BY <2>4, <6>1, <6>2, CommitAt
          <6> QED BY <2>4, <6>3 DEF Ends
        <5> QED BY <5>1, <5>2, <5>3
      <4> QED BY <2>2, <2>3, <3>2, <4>1, <4>2 DEF PhaseInv
    <3> QED BY <3>3, <3>4
  <2>5. CASE doing[w] = "isolated"
    <3>1. version.status = "awaiting_isolated_build" /\ job["validate"].state = "completed"
      BY <1>1, <2>5, InTime
    <3>2. job'["validate"] = job["validate"] BY <1>0, <2>1, <2>5 DEF Ends
    <3>3. CASE version' = version
      BY <1>0, <2>2, <2>3, <2>5, <3>1, <3>2, <3>3 DEF PhaseInv
    <3>4. CASE version' # version
      <4>1. /\ job'["isolated"].state \in {"completed", "failed"}
            /\ version'.status = "passed" => version'.promoted
        BY <1>1, <2>5, <3>4, VerdictAt
      <4> QED BY <2>2, <2>3, <3>1, <3>2, <4>1 DEF PhaseInv
    <3> QED BY <3>3, <3>4
  <2>6. CASE doing[w] \in Reconcile
    <3>1. /\ version' = version /\ job'["validate"] = job["validate"]
          /\ job'["isolated"] = job["isolated"]
      BY <1>0, <1>1, <2>1, <2>6, CommitTypes, Jobs DEF Ends
    <3> QED BY <2>2, <2>3, <3>1 DEF PhaseInv
  <2> QED BY <2>3, <2>4, <2>5, <2>6, Jobs
<1>2. ASSUME NEW w \in Worker, Start(w) \/ RollBack(w) \/ FindInstance(w) \/ Crash(w) PROVE PhaseInv'
  <2>1. UNCHANGED <<rows, lateCommit>> BY <1>2, QuietTypes
  <2> QED BY <2>1 DEF PhaseInv, rows
<1>3. ASSUME NEW w \in Worker, NEW j \in Job, Lease(w, j) PROVE PhaseInv'
  <2>1. Leases(w, j) BY <1>3, LeaseTypes
  <2>2. /\ UNCHANGED <<package, version, instances, lateCommit>> /\ job'[j].state = "running"
        /\ job[j].state \in {"queued", "retry", "running"} /\ \A i \in Job \ {j} : job'[i] = job[i]
    BY <2>1 DEF Leases, Available
  <2> QED BY <1>0, <2>2 DEF PhaseInv
<1>4. CASE Outside
  <2>1. lateCommit' = lateCommit BY <1>4 DEF Outside
  <2>2. CASE UNCHANGED <<package, version>> BY <1>0, <1>4, <2>1, <2>2 DEF PhaseInv, Outside
  <2>3. CASE package = None /\ version' = [status |-> "pending", promoted |-> FALSE]
    <3>1. \A j \in Job : job[j].state = "absent" BY <2>3 DEF TaskInv
    <3>2. version'.status = "pending" /\ job'["isolated"].state = "absent"
          /\ job'["validate"].state \in {"absent", "queued"}
      BY <1>0, <1>4, <2>3, <3>1 DEF Outside
    <3> QED BY <2>1, <3>2 DEF PhaseInv
  <2> QED BY <1>4, <2>2, <2>3 DEF Outside
<1>5. \A w \in Worker : Commits(w) /\ lateCommit' => PhaseInv' BY DEF PhaseInv
<1> QED BY <1>1, <1>2, <1>3, <1>4, <1>5, OutsideTypes DEF Next, Task, Handle, Commits

\* The tasks that may write the version have it up to date.
LEMMA SeenStep ==
    ASSUME TypeOK, TaskInv, OwnInv, PhaseInv, SeenInv, [Next]_vars
    PROVE  SeenInv'
<1>1. ASSUME NEW w \in Worker, Commits(w), ~lateCommit', NEW v \in Worker,
             pc'[v] \in Under, v \notin overtaken', doing'[v] \notin Reconcile
      PROVE  seen'[v].status = version'.status /\ seen'[v].promoted = version'.promoted
  <2>1. PICK state \in {"retry", "completed", "failed"} : Ends(w, state) BY <1>1, CommitTypes
  <2>2. v # w /\ v \notin overtaken BY <1>1, <2>1 DEF Ends, Under
  <2>3. Same(v) BY <2>1, <2>2 DEF Ends, Others
  <2>4. ~lateCommit /\ job[doing[w]].owner = w BY <1>1, InTime
  <2>5. Owns(v, doing[v]) /\ doing[v] \in {"validate", "isolated"}
    BY <1>1, <2>2, <2>3, <2>4, Jobs DEF OwnInv, TaskInv, Same, Under
  <2>6. doing[w] \in Reconcile BY <1>1, <2>2, <2>4, <2>5, InTime, Jobs DEF Owns, PhaseInv
  <2>7. version' = version BY <1>1, <2>6, CommitTypes, Jobs
  <2> QED BY <1>1, <2>2, <2>3, <2>4, <2>7 DEF SeenInv, Same
<1>2. ASSUME NEW w \in Worker, Start(w) \/ RollBack(w) \/ FindInstance(w) \/ Crash(w), ~lateCommit',
             NEW v \in Worker, pc'[v] \in Under, v \notin overtaken', doing'[v] \notin Reconcile
      PROVE  seen'[v].status = version'.status /\ seen'[v].promoted = version'.promoted
  <2>1. Others(w) /\ Stays(w) /\ version' = version /\ lateCommit' = lateCommit
    BY <1>2, QuietTypes DEF rows
  <2>2. CASE v # w BY <1>2, <2>1, <2>2 DEF Others, Same, Stays, SeenInv
  <2>3. CASE v = w BY <1>2, <2>1, <2>3 DEF Stays, SeenInv, Under
  <2> QED BY <2>2, <2>3
<1>3. ASSUME NEW w \in Worker, NEW j \in Job, Lease(w, j), ~lateCommit',
             NEW v \in Worker, pc'[v] \in Under, v \notin overtaken', doing'[v] \notin Reconcile
      PROVE  seen'[v].status = version'.status /\ seen'[v].promoted = version'.promoted
  <2>1. Leases(w, j) BY <1>3, LeaseTypes
  <2> QED BY <1>3, <2>1 DEF Leases, Others, Same, SeenInv, Under
<1>4. ASSUME Outside, ~lateCommit',
             NEW v \in Worker, pc'[v] \in Under, v \notin overtaken', doing'[v] \notin Reconcile
      PROVE  seen'[v].status = version'.status /\ seen'[v].promoted = version'.promoted
  <2>1. UNCHANGED <<pc, doing, seen, overtaken, lateCommit>> BY <1>4 DEF Outside
  <2>2. package # None BY <1>4, <2>1 DEF TaskInv, Under
  <2> QED BY <1>4, <2>1, <2>2 DEF SeenInv, Outside
<1>5. ASSUME ~lateCommit', NEW v \in Worker, pc'[v] \in Under, v \notin overtaken', doing'[v] \notin Reconcile
      PROVE  seen'[v].status = version'.status /\ seen'[v].promoted = version'.promoted
  BY <1>1, <1>2, <1>3, <1>4, <1>5, OutsideTypes DEF Next, Task, Handle, Commits
<1> QED BY <1>5 DEF SeenInv

\* A reconcile job that failed for good stays so.
LEMMA ResetKept ==
    ASSUME TypeOK, TaskInv, OwnInv, PhaseInv, SeenInv, [Next]_vars, RuntimeReset
    PROVE  RuntimeReset' \/ lateCommit'
<1>1. PICK e \in Reconcile : job[e].state = "failed" BY DEF RuntimeReset
<1>2. e \in Job /\ package # None /\ package.mode = "remote" BY Jobs DEF RuntimeReset
<1>3. ASSUME package' = package, job'[e].state = "failed" PROVE RuntimeReset' BY <1>2, <1>3 DEF RuntimeReset
<1>4. ASSUME NEW w \in Worker, Commits(w), ~lateCommit' PROVE RuntimeReset'
  <2>1. PICK state \in {"retry", "completed", "failed"} : Ends(w, state) BY <1>4, CommitTypes
  <2>2. job[doing[w]].state = "running" BY <1>4, InTime
  <2>3. package' = package /\ job'[e] = job[e] BY <1>1, <1>2, <2>1, <2>2 DEF Ends
  <2> QED BY <1>1, <1>3, <2>3
<1>5. ASSUME NEW w \in Worker, Start(w) \/ RollBack(w) \/ FindInstance(w) \/ Crash(w) PROVE RuntimeReset'
  BY <1>1, <1>3, <1>5, QuietTypes DEF rows
<1>6. ASSUME NEW w \in Worker, NEW j \in Job, Lease(w, j) PROVE RuntimeReset'
  <2>1. Leases(w, j) BY <1>6, LeaseTypes
  <2>2. job'[e] = job[e] /\ package' = package BY <1>1, <1>2, <2>1 DEF Leases, Available
  <2> QED BY <1>1, <1>3, <2>2
<1>7. ASSUME Outside PROVE RuntimeReset' BY <1>1, <1>2, <1>3, <1>7 DEF Outside
<1> QED BY <1>4, <1>5, <1>6, <1>7, OutsideTypes DEF Next, Task, Handle, Commits

\* What a commit in time does to a healthy runtime: it leaves one, or the job that reset
\* it has failed for good.
LEMMA HealthAt ==
    ASSUME TypeOK, TaskInv, NEW w \in Worker, Commits(w),
           \E n \in 1..Len(instances.health) : instances.health[n] = "healthy"
    PROVE  \/ \E n \in 1..Len(instances'.health) : instances'.health[n] = "healthy"
           \/ RuntimeReset'
<1>1. CASE instances' = instances BY <1>1
<1>2. CASE instances' # instances
  <2>1. ReconcileHealthy(w) \/ ReconcileOversized(w)
    BY <1>2 DEF Commits, RetryOrFail, Validate, ValidateRejects, BuildSkipped, BuildRefused,
                BuildPassed, BuildFailed, ReconcileRefused
  <2>2. pc[w] = "checking" BY <2>1 DEF ReconcileHealthy, ReconcileOversized
  <2>3. /\ found[w] \in [id : 0..Len(instances.health), health : Health] /\ doing[w] \in Reconcile
        /\ InstancesOK /\ LocalOK /\ JobOK /\ pc[w] \in Under
    BY <2>2 DEF TaskInv, TypeOK, InstancesOK, LocalOK, JobOK, Under
  <2>4. CASE ReconcileHealthy(w)
    <3>1. PutInstance(w, "healthy") /\ "healthy" \in Health BY <2>4 DEF ReconcileHealthy, Health
    <3> QED BY <2>3, <3>1, InstanceAt
  <2>5. CASE ReconcileOversized(w)
    <3>1. Commit(w, "failed", job) /\ package.mode = "remote" BY <2>5 DEF ReconcileOversized
    <3>2. Ends(w, "failed") BY <2>3, <3>1, CommitAt
    <3>3. package # None BY <2>2, <2>3 DEF TaskInv
    <3>4. package' = package /\ job'[doing[w]].state = "failed" BY <3>2 DEF Ends
    <3> QED BY <2>3, <3>1, <3>3, <3>4 DEF RuntimeReset
  <2> QED BY <2>1, <2>4, <2>5
<1> QED BY <1>1, <1>2

\* What backs an active installation stays.
LEMMA BackedKept ==
    ASSUME TypeOK, TaskInv, OwnInv, PhaseInv, SeenInv, [Next]_vars, Backed
    PROVE  Backed' \/ lateCommit'
<1>0. version.status = "passed" /\ None \notin Validation BY LifecycleAssumption DEF Backed
<1>1. package # None BY <1>0 DEF TaskInv, Validation
<1>2. CASE RuntimeReset
  <2>1. RuntimeReset' \/ lateCommit' BY <1>2, ResetKept
  <2>2. ASSUME ~lateCommit' PROVE version' = version
    <3>1. ASSUME NEW w \in Worker, Commits(w) PROVE version' = version
      <4>1. doing[w] # "validate" /\ doing[w] # "isolated" BY <1>0, <2>2, <3>1, InTime DEF Validation
      <4> QED BY <3>1, <4>1, CommitTypes
    <3>2. ASSUME NEW w \in Worker, Start(w) \/ RollBack(w) \/ FindInstance(w) \/ Crash(w)
          PROVE  version' = version
      BY <3>2, QuietTypes DEF rows
    <3>3. ASSUME NEW w \in Worker, NEW j \in Job, Lease(w, j) PROVE version' = version
      BY <3>3, LeaseTypes DEF Leases
    <3>4. ASSUME Outside PROVE version' = version BY <1>1, <3>4 DEF Outside
    <3> QED BY <3>1, <3>2, <3>3, <3>4, OutsideTypes DEF Next, Task, Handle, Commits
  <2> QED BY <1>0, <2>1, <2>2 DEF Backed
<1>3. CASE \E n \in 1..Len(instances.health) : instances.health[n] = "healthy"
  <2>1. ASSUME UNCHANGED <<version, instances>> PROVE Backed' BY <1>0, <1>3, <2>1 DEF Backed
  <2>2. ASSUME NEW w \in Worker, Commits(w), ~lateCommit' PROVE Backed'
    <3>1. doing[w] # "validate" /\ doing[w] # "isolated" BY <1>0, <2>2, InTime DEF Validation
    <3>2. version' = version BY <2>2, <3>1, CommitTypes
    <3> QED BY <1>0, <1>3, <2>2, <3>2, HealthAt DEF Backed
  <2>3. ASSUME NEW w \in Worker, Start(w) \/ RollBack(w) \/ FindInstance(w) \/ Crash(w)
        PROVE  UNCHANGED <<version, instances>>
    BY <2>3, QuietTypes DEF rows
  <2>4. ASSUME NEW w \in Worker, NEW j \in Job, Lease(w, j) PROVE UNCHANGED <<version, instances>>
    BY <2>4, LeaseTypes DEF Leases
  <2>5. ASSUME Outside PROVE UNCHANGED <<version, instances>> BY <1>1, <2>5 DEF Outside
  <2> QED BY <2>1, <2>2, <2>3, <2>4, <2>5, OutsideTypes DEF Next, Task, Handle, Commits
<1> QED BY <1>2, <1>3 DEF Backed

\* A late commit is never taken back.
LEMMA LateStays ==
    ASSUME TypeOK, TaskInv, [Next]_vars, lateCommit PROVE lateCommit'
<1>1. ASSUME NEW w \in Worker, Commits(w) PROVE lateCommit'
  <2>1. \E state \in {"retry", "completed", "failed"} : Ends(w, state) BY <1>1, CommitTypes
  <2>2. lateCommit' = (lateCommit \/ w \in overtaken) BY <2>1 DEF Ends
  <2> QED BY <2>2, Zenon
<1>2. ASSUME NEW w \in Worker, Start(w) \/ RollBack(w) \/ FindInstance(w) \/ Crash(w) PROVE lateCommit'
  BY <1>2, QuietTypes
<1>3. ASSUME NEW w \in Worker, NEW j \in Job, Lease(w, j) PROVE lateCommit'
  BY <1>3, LeaseTypes DEF Leases
<1>4. ASSUME Outside PROVE lateCommit' BY <1>4 DEF Outside
<1> QED BY <1>1, <1>2, <1>3, <1>4, OutsideTypes DEF Next, Task, Handle, Commits

\* Requests and the installation change only by the owner's operations.
LEMMA TasksLeaveInstallation ==
    ASSUME TypeOK, TaskInv, [Next]_vars
    PROVE  \/ UNCHANGED <<installation, patch, raced>>
           \/ InstallVersion
           \/ \E r \in Request : (\E ask \in Asked : PatchRead(r, ask)) \/ PatchWrite(r)
<1>1. ASSUME NEW w \in Worker, Commits(w) PROVE UNCHANGED <<installation, patch, raced>>
  BY <1>1, CommitTypes DEF Ends
<1>2. ASSUME NEW w \in Worker, Start(w) \/ RollBack(w) \/ FindInstance(w) \/ Crash(w)
      PROVE  UNCHANGED <<installation, patch, raced>>
  BY <1>2, QuietTypes DEF rows
<1>3. ASSUME NEW w \in Worker, NEW j \in Job, Lease(w, j) PROVE UNCHANGED <<installation, patch, raced>>
  BY <1>3, LeaseTypes DEF Leases
<1>4. ASSUME PublishWorkspaceVersion \/ (\E e \in Reconcile : ReconcileRuntime(e)) \/ (\E j \in Job : Expire(j))
             \/ UNCHANGED vars
      PROVE  UNCHANGED <<installation, patch, raced>>
  BY <1>4 DEF PublishWorkspaceVersion, ReconcileRuntime, Expire, vars, rows, local, history
<1> QED BY <1>1, <1>2, <1>3, <1>4 DEF Next, Task, Handle, Commits

\* The updates of the installation, and what backs it.
LEMMA PatchStep ==
    ASSUME TypeOK, TaskInv, OwnInv, PhaseInv, SeenInv, PatchInv, EnabledIsBacked, [Next]_vars
    PROVE  PatchInv' /\ EnabledIsBacked'
<1>0. Backed \/ lateCommit => Backed' \/ lateCommit' BY BackedKept, LateStays
<1>1. EnabledIsBacked <=> (installation.enabled =>
        /\ installation.status = "active" \/ raced
        /\ installation.status = "active" => Backed \/ lateCommit)
  BY DEF EnabledIsBacked, Backed
<1>2. EnabledIsBacked' <=> (installation'.enabled =>
        /\ installation'.status = "active" \/ raced'
        /\ installation'.status = "active" => Backed' \/ lateCommit')
  BY DEF EnabledIsBacked, Backed
<1>3. CASE UNCHANGED <<installation, patch, raced>>
  BY <1>0, <1>1, <1>2, <1>3 DEF PatchInv
<1>4. CASE InstallVersion
  <2>1. installation' = [status |-> "installed", enabled |-> FALSE] /\ patch' = patch
    BY <1>4 DEF InstallVersion, local
  <2> QED BY <1>0, <1>2, <2>1 DEF PatchInv
<1>5. ASSUME NEW r \in Request, NEW ask \in Asked, PatchRead(r, ask) PROVE PatchInv' /\ EnabledIsBacked'
  <2> DEFINE new == [status |-> ask.status, enabled |-> WantsEnabled(ask, installation)]
             state == IF Refused(ask, installation) THEN Answered
                      ELSE [at |-> "read", row |-> installation, new |-> new]
  <2>1. patch' = [patch EXCEPT ![r] = state] /\ UNCHANGED <<package, job, installation, raced, version, instances, lateCommit>>
    BY <1>5 DEF PatchRead, rows, history
  <2>2. Backed' <=> Backed BY <2>1 DEF Backed, RuntimeReset
  <2>3. ASSUME state.at = "read"
        PROVE  /\ state.new.enabled => state.new.status = "active"
               /\ state.new.status = "active" => Backed
    <3>1. ~Refused(ask, installation) BY <2>3 DEF Answered
    <3>2. state.new = new BY <3>1
    <3>3. WantsEnabled(ask, installation) => ask.status = "active" /\ Backed BY <3>1 DEF Refused, Backed, ActivationReady
    <3>4. ask.status = "active" => WantsEnabled(ask, installation) BY DEF WantsEnabled
    <3> QED BY <3>2, <3>3, <3>4
  <2> HIDE DEF state
  <2>4. patch'[r] = state /\ \A q \in Request \ {r} : patch'[q] = patch[q] BY <2>1 DEF TypeOK
  <2>5. PatchInv' BY <2>1, <2>2, <2>3, <2>4 DEF PatchInv
  <2> QED BY <1>1, <1>2, <2>1, <2>2, <2>5
<1>6. ASSUME NEW r \in Request, PatchWrite(r) PROVE PatchInv' /\ EnabledIsBacked'
  <2> DEFINE new == patch[r].new
             row == patch[r].row
  <2>1. /\ installation' = [status |-> Column(row.status, installation.status, new.status),
                            enabled |-> Column(row.enabled, installation.enabled, new.enabled)]
        /\ raced' = (raced \/ installation # patch[r].row)
        /\ patch' = [patch EXCEPT ![r] = Answered] /\ patch[r].at = "read"
        /\ UNCHANGED <<package, job, version, instances, lateCommit>>
    BY <1>6 DEF PatchWrite
  <2>2. Backed' <=> Backed BY <2>1 DEF Backed, RuntimeReset
  <2>3. patch'[r].at = "answered" /\ \A q \in Request \ {r} : patch'[q] = patch[q]
    BY <2>1 DEF TypeOK, Answered
  <2>4. PatchInv' BY <2>1, <2>2, <2>3 DEF PatchInv
  <2>5. /\ new.enabled => new.status = "active"
        /\ new.status = "active" => Backed \/ lateCommit
    BY <2>1 DEF PatchInv
  <2>6. /\ installation'.status \in {installation.status, new.status}
        /\ installation'.enabled \in {installation.enabled, new.enabled}
        /\ installation = row => installation'.status = new.status /\ installation'.enabled = new.enabled
    BY <2>1 DEF Column
  <2>7. raced' <=> raced \/ installation # row BY <2>1, Zenon DEF TypeOK
  <2>8. ASSUME installation'.enabled
        PROVE  /\ installation'.status = "active" \/ raced'
               /\ installation'.status = "active" => Backed' \/ lateCommit'
    <3>1. installation'.status = "active" \/ raced'
      <4>1. CASE raced' BY <4>1
      <4>2. CASE ~raced'
        <5>1. installation = row BY <2>7, <4>2
        <5> QED BY <2>5, <2>6, <2>8, <5>1
      <4> QED BY <4>1, <4>2
    <3>2. ASSUME installation'.status = "active" PROVE Backed \/ lateCommit
      <4>1. CASE new.status = "active" \/ new.enabled BY <2>5, <4>1
      <4>2. CASE ~(new.status = "active" \/ new.enabled)
        <5>1. installation.status = "active" BY <2>6, <3>2, <4>2
        <5>2. installation.enabled BY <2>6, <2>8, <4>2
        <5> QED BY <1>1, <5>1, <5>2
      <4> QED BY <4>1, <4>2
    <3> QED BY <2>1, <2>2, <3>1, <3>2
  <2> QED BY <1>2, <2>4, <2>8
<1> QED BY <1>3, <1>4, <1>5, <1>6, TasksLeaveInstallation

LEMMA NextInv == Inv /\ [Next]_vars => Inv'
<1> SUFFICES ASSUME Inv, [Next]_vars PROVE Inv'
  OBVIOUS
<1>1. TypeOK /\ TaskInv /\ OwnInv /\ PhaseInv /\ SeenInv /\ PatchInv /\ EnabledIsBacked BY DEF Inv
<1>2. (TypeOK /\ TaskInv)'
  BY <1>1, CommitTypes, QuietTypes, LeaseTypes, OutsideTypes DEF Next, Task, Handle, Commits
<1> QED BY <1>1, <1>2, OwnStep, PhaseStep, SeenStep, PatchStep DEF Inv

\* Every reachable state satisfies the invariant.
THEOREM Invariance == Spec => []Inv
BY InitInv, NextInv, PTL DEF Spec

\* Every reachable state is well typed, and a job is running exactly while it has an
\* owner and a lease.
THEOREM TypeCorrect == Spec => []TypeOK
<1>1. Inv => TypeOK BY DEF Inv
<1> QED BY <1>1, Invariance, PTL

\* Until a task commits after its lease was given away, packaged code that passed has
\* the artifact its isolated build promoted.
THEOREM PassedHasArtifact == Spec => []PassedIsPromoted
<1>1. Inv => PassedIsPromoted BY DEF Inv, PhaseInv, PassedIsPromoted
<1> QED BY <1>1, Invariance, PTL

\* An enabled plugin is active unless two updates overlapped, and an active one has a
\* passed version until a late commit, and a healthy instance until a late commit or until
\* a reconcile job of a remote runtime fails for good.
THEOREM EnabledHasBacking == Spec => []EnabledIsBacked
<1>1. Inv => EnabledIsBacked BY DEF Inv
<1> QED BY <1>1, Invariance, PTL

\* A step that reverses a verdict is a late commit, or comes after one.
THEOREM VerdictsAreFinal == Spec => VerdictIsFinal
<1>1. ASSUME Inv, [Next]_vars
      PROVE  [version.status \in {"passed", "failed"} /\ version'.status # version.status => lateCommit']_vars
  <2> SUFFICES ASSUME version.status \in {"passed", "failed"}, version'.status # version.status, ~lateCommit'
               PROVE  FALSE
    OBVIOUS
  <2>1. TypeOK /\ TaskInv /\ OwnInv /\ PhaseInv /\ SeenInv BY <1>1 DEF Inv
  <2>2. ASSUME NEW w \in Worker, Commits(w) PROVE FALSE
    <3>1. None \notin Validation BY LifecycleAssumption
    <3>2. doing[w] # "validate" /\ doing[w] # "isolated" BY <2>1, <2>2, <3>1, InTime DEF Validation
    <3>3. version' = version BY <2>1, <2>2, <3>2, CommitTypes
    <3> QED BY <3>3
  <2>3. ASSUME NEW w \in Worker, Start(w) \/ RollBack(w) \/ FindInstance(w) \/ Crash(w) PROVE FALSE
    BY <2>1, <2>3, QuietTypes DEF rows
  <2>4. ASSUME NEW w \in Worker, NEW j \in Job, Lease(w, j) PROVE FALSE
    BY <2>1, <2>4, LeaseTypes DEF Leases
  <2>5. ASSUME Outside PROVE FALSE
    <3>1. package # None
      <4>1. None \notin Validation BY LifecycleAssumption
      <4> QED BY <2>1, <4>1 DEF TaskInv, Validation
    <3> QED BY <2>5, <3>1 DEF Outside
  <2> QED BY <1>1, <2>1, <2>2, <2>3, <2>4, <2>5, OutsideTypes DEF Next, Task, Handle, Commits
<1>2. Spec => [][Next]_vars BY DEF Spec
<1> QED BY <1>1, <1>2, Invariance, PTL DEF VerdictIsFinal

=============================================================================
