--------------------------- MODULE WorkflowProofs ---------------------------
(***************************************************************************)
(* Proofs about Workflow, for any number of runs, workers and steps.       *)
(***************************************************************************)
EXTENDS Workflow, FiniteSetTheorems, WellFoundedInduction, TLAPS

\* A worker past the ownership check of the loop.
Executing == {"step", "kernel", "effect", "after", "fail", "end"}

\* A run that a scheduler may still give to a worker.
Waiting == {"absent", "queued", "waiting", "waiting_approval"}

\* Where a worker is says what it holds, and a retry was counted.
PlaceInv ==
    /\ \A w \in Worker :
         /\ pc[w] # "idle" => wrun[w] \in Run
         /\ pc[w] \in {"step", "kernel", "effect", "after"} => idx[w] \in StepId
    /\ api.op = "retry" => retries[api.run] < MaxRetries /\ "retry" \in Events

\* A worker that executes keeps its run from everybody else, also when it has
\* lost the lease: nobody else holds the token, and the run waits for nobody.
OwnerInv ==
    /\ \A w \in Worker : pc[w] \in Executing =>
         /\ run[wrun[w]].token \in {w, None}
         /\ run[wrun[w]].status \notin Waiting
         /\ run[wrun[w]].status = "failed" => "retry" \notin Events
         /\ api.op = "retry" => api.run # wrun[w]
    /\ \A w \in Worker : pc[w] = "loop" /\ run[wrun[w]].token = w
         => run[wrun[w]].status \notin Waiting
    /\ \A r \in Run : run[r].status = "failed" => run[r].token = None
    /\ api.op = "retry" => run[api.run].token = None /\ run[api.run].status \notin Waiting
    /\ \A v, w \in Worker :
         pc[v] \in Executing /\ pc[w] \in Executing /\ wrun[v] = wrun[w] => v = w

-----------------------------------------------------------------------------
(* What the ways a worker can go on do to it, and that they leave the      *)
(* other workers alone.                                                    *)

\* The locals of a worker are as they were.
Same(v) == pc'[v] = pc[v] /\ wrun'[v] = wrun[v] /\ idx'[v] = idx[v]

\* A step of worker w.
Others(w) == \A v \in Worker \ {w} : Same(v)

\* The types of the workers' locals.
LocalOK ==
    /\ pc \in [Worker -> WorkerPC]
    /\ wrun \in [Worker -> Run \cup {None}]
    /\ idx \in [Worker -> 1..StepCount + 1]

\* A task that ends holds nothing.
LEMMA FinishedAt ==
    ASSUME LocalOK, NEW w \in Worker, Finished(w)
    PROVE  LocalOK' /\ Others(w) /\ pc'[w] = "idle"
<1>1. 1 \in 1..StepCount + 1 BY WorkflowAssumption
<1> QED BY <1>1 DEF LocalOK, Finished, Others, Same, WorkerPC

\* A task that moves on keeps its run and its step.
LEMMA GotoAt ==
    ASSUME LocalOK, NEW w \in Worker, NEW label \in WorkerPC, Goto(w, label)
    PROVE  /\ LocalOK' /\ Others(w)
           /\ pc'[w] = label /\ wrun' = wrun /\ idx' = idx
BY DEF LocalOK, Goto, Others, Same

\* A task that takes the next step keeps its run.
LEMMA NextStepAt ==
    ASSUME LocalOK, NEW w \in Worker, idx[w] \in StepId, NextStep(w)
    PROVE  /\ LocalOK' /\ Others(w)
           /\ pc'[w] = "loop" /\ wrun' = wrun
<1>1. idx[w] + 1 \in 1..StepCount + 1 BY WorkflowAssumption DEF StepId
<1> QED BY <1>1 DEF LocalOK, NextStep, Others, Same, WorkerPC

\* A commit that gives the lease up.
LEMMA UnleasedAt ==
    ASSUME run \in [Run -> RunRow], NEW r \in Run, NEW status \in RunStatus,
           NEW cur \in StepId \cup {None}, Unleased(r, status, cur)
    PROVE  /\ run' \in [Run -> RunRow]
           /\ run'[r].status = status /\ run'[r].token = None
           /\ \A q \in Run \ {r} : run'[q] = run[q]
<1>1. [status |-> status, token |-> None, lease |-> "null", cur |-> cur] \in RunRow BY DEF RunRow
<1> QED BY <1>1 DEF Unleased

\* A commit that changes one step row.
LEMMA SetStepAt ==
    ASSUME step \in [Run -> [StepId -> StepRow]], NEW r \in Run, NEW s \in StepId,
           NEW fields \in StepRow, SetStep(r, s, fields)
    PROVE  /\ step' \in [Run -> [StepId -> StepRow]]
           /\ step'[r][s] = fields
           /\ \A q \in Run, t \in StepId : q # r \/ t # s => step'[q][t] = step[q][t]
BY DEF SetStep

\* A commit that changes one column of one run row.
LEMMA RunFieldAt ==
    ASSUME run \in [Run -> RunRow], NEW r \in Run
    PROVE  /\ \A status \in RunStatus : [run EXCEPT ![r].status = status] \in [Run -> RunRow]
           /\ \A lease \in {"null", "live", "expired"} :
                [run EXCEPT ![r].lease = lease] \in [Run -> RunRow]
           /\ \A cur \in StepId : [run EXCEPT ![r].cur = cur] \in [Run -> RunRow]
<1>1. run[r] \in RunRow OBVIOUS
<1>2. \A status \in RunStatus : [run[r] EXCEPT !.status = status] \in RunRow BY <1>1 DEF RunRow
<1>3. \A lease \in {"null", "live", "expired"} : [run[r] EXCEPT !.lease = lease] \in RunRow
  BY <1>1 DEF RunRow
<1>4. \A cur \in StepId : [run[r] EXCEPT !.cur = cur] \in RunRow BY <1>1 DEF RunRow
<1> QED BY <1>2, <1>3, <1>4

\* The columns of a step row keep their types.
LEMMA StepFields ==
    ASSUME NEW row \in StepRow
    PROVE  /\ \A status \in StepStatus : [row EXCEPT !.status = status] \in StepRow
           /\ \A status \in StepStatus, a \in {"none", "pending", "approved", "denied"} :
                [row EXCEPT !.status = status, !.approval = a] \in StepRow
           /\ \A a \in {"none", "pending", "approved", "denied"} :
                [row EXCEPT !.approval = a] \in StepRow
           /\ [row EXCEPT !.due = TRUE] \in StepRow
           /\ [status |-> "running", attempt |-> row.attempt + 1, approval |-> "none", due |-> row.due]
                \in StepRow
           /\ [status |-> "failed", attempt |-> row.attempt + 1, approval |-> "none", due |-> row.due]
                \in StepRow
<1>1. /\ row.status \in StepStatus /\ row.attempt \in Nat /\ row.due \in BOOLEAN
      /\ row.approval \in {"none", "pending", "approved", "denied"}
      /\ row = [status |-> row.status, attempt |-> row.attempt, approval |-> row.approval, due |-> row.due]
  BY DEF StepRow
<1>2. "running" \in StepStatus /\ "failed" \in StepStatus /\ row.attempt + 1 \in Nat
  BY <1>1 DEF StepStatus
<1>3. \A status \in StepStatus : [row EXCEPT !.status = status] \in StepRow BY DEF StepRow
<1>4. \A a \in {"none", "pending", "approved", "denied"} : [row EXCEPT !.approval = a] \in StepRow
  BY DEF StepRow
<1>5. [row EXCEPT !.due = TRUE] \in StepRow BY DEF StepRow
<1>6. \A status \in StepStatus, a \in {"none", "pending", "approved", "denied"} :
        [row EXCEPT !.status = status, !.approval = a] \in StepRow
  BY DEF StepRow
<1>7. \A status \in StepStatus :
        [status |-> status, attempt |-> row.attempt + 1, approval |-> "none", due |-> row.due] \in StepRow
  BY <1>1, <1>2 DEF StepRow
<1> QED BY <1>2, <1>3, <1>4, <1>5, <1>6, <1>7

-----------------------------------------------------------------------------
(* Type correctness.                                                       *)

\* The initial state is well typed.
LEMMA TypeInit == Init => TypeOK /\ PlaceInv
<1> SUFFICES ASSUME Init PROVE TypeOK /\ PlaceInv
  OBVIOUS
<1>1. 1 \in 1..StepCount + 1 BY WorkflowAssumption
<1>2. NewStep \in StepRow BY DEF NewStep, StepRow, StepStatus
<1>3. [status |-> "absent", token |-> None, lease |-> "null", cur |-> None] \in RunRow
  BY DEF RunRow, RunStatus
<1>4. TypeOK BY <1>1, <1>2, <1>3, WorkflowAssumption DEF Init, TypeOK, WorkerPC, NoClaim
<1>5. PlaceInv BY DEF Init, PlaceInv, NoApi
<1> QED BY <1>4, <1>5

\* The steps of schedulers, humans and API requests other than a claim keep the
\* types; they leave the workers alone.
LEMMA SystemTypes ==
    ASSUME TypeOK, PlaceInv,
           \/ UNCHANGED vars \/ CountActive
           \/ \E r \in Run : \/ Enqueue(r) \/ Schedule(r) \/ Human(r)
                             \/ RequestCancel(r) \/ RequestRetry(r)
           \/ Api
    PROVE  (TypeOK /\ PlaceInv)' /\ UNCHANGED <<pc, wrun, idx>>
<1>0. /\ run \in [Run -> RunRow] /\ step \in [Run -> [StepId -> StepRow]]
      /\ None \notin StepId
  BY WorkflowAssumption DEF TypeOK
<1>1. CASE UNCHANGED vars BY <1>1 DEF vars, TypeOK, PlaceInv
<1>11. CASE CountActive
  <2>1. FreeWorker \in SUBSET Worker /\ Active \in SUBSET Run BY DEF FreeWorker, Active
  <2>2. IsFiniteSet(FreeWorker) BY <2>1, FS_Subset, WorkflowAssumption
  <2>3. Cardinality(FreeWorker) \in Nat BY <2>2, FS_CardinalityType
  <2>4. claim' \in [counted : SUBSET Run, budget : Nat] BY <1>11, <2>1, <2>3 DEF CountActive
  <2> QED BY <1>11, <2>4 DEF CountActive, TypeOK, PlaceInv
<1>2. ASSUME NEW r \in Run, Enqueue(r) \/ Release(r) PROVE (TypeOK /\ PlaceInv)' /\ UNCHANGED <<pc, wrun, idx>>
  <2>1. "queued" \in RunStatus BY DEF RunStatus
  <2>2. run' \in [Run -> RunRow]
    <3>1. run' = [run EXCEPT ![r].status = "queued"] BY <1>2 DEF Enqueue, Release
    <3> QED BY <1>0, <2>1, <3>1, RunFieldAt
  <2> QED BY <1>2, <2>2 DEF Enqueue, Release, TypeOK, PlaceInv
<1>3. ASSUME NEW r \in Run, MarkOrphaned(r) PROVE (TypeOK /\ PlaceInv)' /\ UNCHANGED <<pc, wrun, idx>>
  <2>1. run[r].cur \in StepId \cup {None} BY <1>0 DEF RunRow
  <2>2. run' \in [Run -> RunRow]
    BY <1>0, <1>3, <2>1, UnleasedAt DEF MarkOrphaned, RunStatus, Terminal
  <2> QED BY <1>3, <2>2 DEF MarkOrphaned, TypeOK, PlaceInv
<1>4. ASSUME NEW r \in Run, Expire(r) PROVE (TypeOK /\ PlaceInv)' /\ UNCHANGED <<pc, wrun, idx>>
  <2>1. run' \in [Run -> RunRow] BY <1>0, <1>4, RunFieldAt DEF Expire
  <2> QED BY <1>4, <2>1 DEF Expire, TypeOK, PlaceInv
<1>5. ASSUME NEW r \in Run, NEW s \in StepId, Decide(r, s) \/ Elapse(r, s)
      PROVE  (TypeOK /\ PlaceInv)' /\ UNCHANGED <<pc, wrun, idx>>
  <2>1. step[r][s] \in StepRow BY <1>0
  <2>2. \E fields \in StepRow : SetStep(r, s, fields) BY <1>5, <2>1, StepFields DEF Decide, Elapse
  <2>3. step' \in [Run -> [StepId -> StepRow]] BY <1>0, <2>2, SetStepAt
  <2> QED BY <1>5, <2>3 DEF Decide, Elapse, TypeOK, PlaceInv
<1>6. ASSUME NEW r \in Run, RequestCancel(r) PROVE (TypeOK /\ PlaceInv)' /\ UNCHANGED <<pc, wrun, idx>>
  <2>1. run[r] \in RunRow BY <1>0
  <2>2. api' \in [op : {"cancel", "retry"}, run : Run, status : RunStatus, leased : BOOLEAN,
                  cur : StepId \cup {None}]
    BY <1>6, <2>1 DEF RequestCancel, RunRow
  <2>3. cancels' \in 0..MaxCancels BY <1>6, WorkflowAssumption DEF RequestCancel, TypeOK
  <2> QED BY <1>6, <2>2, <2>3 DEF RequestCancel, TypeOK, PlaceInv
<1>7. ASSUME NEW r \in Run, RequestRetry(r) PROVE (TypeOK /\ PlaceInv)' /\ UNCHANGED <<pc, wrun, idx>>
  <2>1. run[r] \in RunRow BY <1>0
  <2>2. api' \in [op : {"cancel", "retry"}, run : Run, status : RunStatus, leased : BOOLEAN,
                  cur : StepId \cup {None}]
    BY <1>7, <2>1 DEF RequestRetry, RunRow, RunStatus, Terminal
  <2> QED BY <1>7, <2>2 DEF RequestRetry, TypeOK, PlaceInv
<1>8. api.op \in {"cancel", "retry"} =>
        /\ api.run \in Run /\ api.cur \in StepId \cup {None}
  BY DEF TypeOK, NoApi
<1>9. CASE CancelRun
  <2> DEFINE r == api.run
  <2>1. r \in Run /\ run[r] \in RunRow BY <1>0, <1>8, <1>9 DEF CancelRun
  <2>2. run' \in [Run -> RunRow]
    <3>1. "cancelled" \in RunStatus BY DEF RunStatus, Terminal
    <3> DEFINE row == [status |-> "cancelled",
                       token |-> IF api.leased THEN None ELSE run[r].token,
                       lease |-> IF api.leased THEN "null" ELSE run[r].lease, cur |-> run[r].cur]
    <3>2. run' = [run EXCEPT ![r] = row] BY <1>9 DEF CancelRun
    <3>3. row \in RunRow BY <2>1, <3>1 DEF RunRow
    <3> QED BY <1>0, <3>2, <3>3
  <2>3. step' \in [Run -> [StepId -> StepRow]]
    <3>1. CASE api.cur \in StepId
      <4>1. [step[r][api.cur] EXCEPT !.status = "cancelled"] \in StepRow
        <5>1. step[r][api.cur] \in StepRow /\ "cancelled" \in StepStatus BY <1>0, <2>1, <3>1 DEF StepStatus
        <5> QED BY <5>1, StepFields
      <4>2. CASE SetStep(r, api.cur, [step[r][api.cur] EXCEPT !.status = "cancelled"])
        BY <1>0, <2>1, <3>1, <4>1, <4>2, SetStepAt
      <4> QED BY <1>0, <1>9, <4>2 DEF CancelRun
    <3>2. CASE api.cur = None
      BY <1>0, <1>9, <2>1, <3>2 DEF CancelRun, SetStep
    <3> QED BY <1>8, <1>9, <3>1, <3>2 DEF CancelRun
  <2> QED BY <1>9, <2>2, <2>3 DEF CancelRun, TypeOK, PlaceInv, NoApi
<1>10. CASE RetryRun
  <2> DEFINE r == api.run
  <2>1. r \in Run BY <1>8, <1>10 DEF RetryRun
  <2>2. run' \in [Run -> RunRow]
    <3>1. "queued" \in RunStatus BY DEF RunStatus
    <3> QED BY <1>0, <1>10, <2>1, <3>1, RunFieldAt DEF RetryRun
  <2>3. \A s \in StepId : [step[r][s] EXCEPT !.status = "pending", !.approval = "none"] \in StepRow
    <3>1. "pending" \in StepStatus BY DEF StepStatus
    <3>2. \A s \in StepId : step[r][s] \in StepRow BY <1>0, <2>1
    <3> HIDE DEF r
    <3> QED BY <3>1, <3>2, StepFields
  <2>4. step' \in [Run -> [StepId -> StepRow]]
    <3> DEFINE new == [s \in StepId |->
                         IF s \in LastFailed(r)
                           THEN [step[r][s] EXCEPT !.status = "pending", !.approval = "none"]
                           ELSE step[r][s]]
    <3>1. new \in [StepId -> StepRow] BY <1>0, <2>1, <2>3
    <3>2. step' = [step EXCEPT ![r] = new] BY <1>10 DEF RetryRun
    <3> QED BY <1>0, <3>1, <3>2
  <2>5. retries' \in [Run -> 0..MaxRetries]
    <3>1. retries[r] \in 0..MaxRetries /\ retries[r] < MaxRetries
      BY <1>10, <2>1 DEF RetryRun, TypeOK, PlaceInv
    <3>2. retries[r] + 1 \in 0..MaxRetries BY <3>1, WorkflowAssumption
    <3> QED BY <1>10, <2>1, <3>2 DEF RetryRun, TypeOK
  <2> QED BY <1>10, <2>2, <2>4, <2>5 DEF RetryRun, TypeOK, PlaceInv, NoApi
<1> QED BY <1>1, <1>2, <1>3, <1>4, <1>5, <1>6, <1>7, <1>9, <1>10, <1>11 DEF Schedule, Human, Api

\* A claim in one piece: it serves Claimed and drops some of the surplus, or none.
LEMMA ClaimForm ==
    ASSUME ClaimRuns
    PROVE  \E w \in [Claimed -> FreeWorker], dropped \in SUBSET Surplus :
             /\ \A r, q \in Claimed : r # q => w[r] # w[q]
             /\ run' = [r \in Run |->
                  IF r \in Claimed THEN [run[r] EXCEPT !.token = w[r], !.lease = "live"]
                  ELSE IF r \in dropped
                    THEN [run[r] EXCEPT !.status = "cancelled", !.token = None, !.lease = "null"]
                  ELSE run[r]]
             /\ pc' = [v \in Worker |-> IF \E r \in Claimed : w[r] = v THEN "claimed" ELSE pc[v]]
             /\ wrun' = [v \in Worker |-> IF \E r \in Claimed : w[r] = v
                                            THEN CHOOSE r \in Claimed : w[r] = v ELSE wrun[v]]
<1>1. PICK w \in [Claimed -> FreeWorker], policy \in Overflow :
         /\ \A r, q \in Claimed : r # q => w[r] # w[q]
         /\ run' = [r \in Run |->
              IF r \in Claimed THEN [run[r] EXCEPT !.token = w[r], !.lease = "live"]
              ELSE IF r \in Surplus /\ policy = "drop"
                THEN [run[r] EXCEPT !.status = "cancelled", !.token = None, !.lease = "null"]
              ELSE run[r]]
         /\ pc' = [v \in Worker |-> IF \E r \in Claimed : w[r] = v THEN "claimed" ELSE pc[v]]
         /\ wrun' = [v \in Worker |-> IF \E r \in Claimed : w[r] = v
                                        THEN CHOOSE r \in Claimed : w[r] = v ELSE wrun[v]]
  BY Zenon DEF ClaimRuns
<1> DEFINE dropped == {r \in Surplus : policy = "drop"}
<1>2. run' = [r \in Run |->
              IF r \in Claimed THEN [run[r] EXCEPT !.token = w[r], !.lease = "live"]
              ELSE IF r \in dropped
                THEN [run[r] EXCEPT !.status = "cancelled", !.token = None, !.lease = "null"]
              ELSE run[r]]
  BY <1>1
<1>3. dropped \in SUBSET Surplus OBVIOUS
<1> HIDE DEF dropped
<1> QED BY <1>1, <1>2, <1>3, Zenon

\* A claim gives queued runs, and only those, to workers that were idle.
LEMMA ClaimMove ==
    ASSUME TypeOK, PlaceInv, ClaimRuns
    PROVE  /\ (TypeOK /\ PlaceInv)'
           /\ UNCHANGED <<step, api, effects>>
           /\ \A r \in Run : \/ run'[r] = run[r]
                             \/ /\ run[r].status = "queued" /\ run'[r].status = "queued"
                                /\ \A w \in Worker : run'[r].token = w => pc'[w] = "claimed"
                             \/ /\ run[r].status = "queued" /\ run'[r].status = "cancelled"
           /\ \A w \in Worker : Same(w) \/ pc'[w] = "claimed"
<1>1. Claimed \subseteq Run /\ Surplus \subseteq Run /\ FreeWorker \subseteq Worker
  BY DEF Claimable, Claimed, Surplus, FreeWorker
<1>2. \A r \in Claimed \cup Surplus : run[r].status = "queued"
  BY DEF Claimable, Claimed, Surplus
<1>3. PICK w \in [Claimed -> FreeWorker], dropped \in SUBSET Surplus :
         /\ run' = [r \in Run |->
              IF r \in Claimed THEN [run[r] EXCEPT !.token = w[r], !.lease = "live"]
              ELSE IF r \in dropped
                THEN [run[r] EXCEPT !.status = "cancelled", !.token = None, !.lease = "null"]
              ELSE run[r]]
         /\ pc' = [v \in Worker |-> IF \E r \in Claimed : w[r] = v THEN "claimed" ELSE pc[v]]
         /\ wrun' = [v \in Worker |-> IF \E r \in Claimed : w[r] = v
                                        THEN CHOOSE r \in Claimed : w[r] = v ELSE wrun[v]]
  BY ClaimForm
<1>4. UNCHANGED <<step, idx, api, faults, cancels, retries, effects>> /\ claim' = NoClaim
  BY DEF ClaimRuns
<1>5. \A r \in Claimed : w[r] \in Worker BY <1>1, <1>3
<1>6. \A r \in Run : run[r] \in RunRow BY DEF TypeOK
<1>7. run' \in [Run -> RunRow]
  <2>1. \A r \in Claimed : [run[r] EXCEPT !.token = w[r], !.lease = "live"] \in RunRow
    BY <1>1, <1>5, <1>6 DEF RunRow
  <2>2. \A r \in dropped : [run[r] EXCEPT !.status = "cancelled", !.token = None, !.lease = "null"] \in RunRow
    BY <1>1, <1>6 DEF RunRow, RunStatus, Terminal
  <2> QED BY <1>3, <1>6, <2>1, <2>2
<1>8. \A v \in Worker : (\E r \in Claimed : w[r] = v) => (CHOOSE r \in Claimed : w[r] = v) \in Run
  BY <1>1
<1>9. pc' \in [Worker -> WorkerPC] /\ wrun' \in [Worker -> Run \cup {None}]
  BY <1>3, <1>8 DEF TypeOK, WorkerPC
<1>10. \A v \in Worker : \/ Same(v)
                         \/ pc'[v] = "claimed" /\ wrun'[v] \in Run
  BY <1>3, <1>4, <1>8 DEF Same
<1>11. TypeOK' BY <1>4, <1>7, <1>9 DEF TypeOK, NoClaim
<1>12. PlaceInv' BY <1>4, <1>10 DEF PlaceInv, Same
<1>13. ASSUME NEW r \in Run
       PROVE  \/ run'[r] = run[r]
              \/ /\ run[r].status = "queued" /\ run'[r].status = "queued"
                 /\ \A v \in Worker : run'[r].token = v => pc'[v] = "claimed"
              \/ /\ run[r].status = "queued" /\ run'[r].status = "cancelled"
  <2>1. CASE r \in Claimed
    <3>1. run'[r].status = "queued" /\ run'[r].token = w[r]
      BY <1>2, <1>3, <1>6, <2>1 DEF RunRow
    <3> QED BY <1>2, <1>3, <2>1, <3>1
  <2>2. CASE r \in dropped /\ r \notin Claimed
    BY <1>2, <1>3, <1>6, <2>2 DEF RunRow
  <2>3. CASE r \notin Claimed \cup dropped BY <1>3, <2>3
  <2> QED BY <2>1, <2>2, <2>3
<1> QED BY <1>4, <1>10, <1>11, <1>12, <1>13

\* The places where a worker is about to do or has done something with its step.
AtStep == {"step", "kernel", "effect", "after"}

\* A worker's step, as far as runs are concerned: it ends, moves on, or passes
\* the ownership check.
Moves(w) ==
    \/ pc'[w] = "idle"
    \/ pc[w] = "claimed" /\ pc'[w] = "starting"
    \/ pc[w] = "starting" /\ pc'[w] = "loop"
    \/ pc[w] = "loop" /\ pc'[w] = "loop" /\ wrun'[w] = wrun[w]
    \/ pc[w] = "loop" /\ pc'[w] \in Executing /\ wrun'[w] = wrun[w] /\ StillOwned(w)
    \/ pc[w] \in Executing /\ pc'[w] \in Executing \cup {"loop"} /\ wrun'[w] = wrun[w]

\* The rows of the runs are as they were, as far as ownership is concerned.
SameRuns == \A r \in Run : run'[r].status = run[r].status /\ run'[r].token = run[r].token

\* Locals alone say whether a worker is well placed.
LEMMA PlaceMove ==
    ASSUME PlaceInv, NEW w \in Worker, Others(w), UNCHANGED <<api, retries>>,
           pc'[w] # "idle" => wrun'[w] \in Run,
           pc'[w] \in AtStep => idx'[w] \in StepId
    PROVE  PlaceInv'
BY DEF PlaceInv, Others, Same, AtStep

\* Steps of a worker that write neither the status nor the token of a run.
LEMMA QuietMove ==
    ASSUME TypeOK, PlaceInv, NEW w \in Worker,
           \/ Begin(w) \/ Loop(w) \/ Skip(w) \/ StepInvalid(w) \/ WaitOver(w) \/ ActionStep(w)
           \/ ActionRefused(w) \/ Effect(w) \/ StepCompleted(w) \/ StepFailed(w) \/ AfterFailure(w)
           \/ Crash(w) \/ Heartbeat(w)
    PROVE  /\ (TypeOK /\ PlaceInv)' /\ Others(w) /\ UNCHANGED api /\ SameRuns
           /\ Moves(w) \/ Same(w)
<1> DEFINE r == wrun[w]
           s == idx[w]
<1>1. pc[w] # "idle"
  BY DEF Begin, Loop, Skip, StepInvalid, WaitOver, ActionStep, ActionRefused, Effect, StepCompleted,
         StepFailed, AfterFailure, Crash, Heartbeat
<1>2. r \in Run /\ LocalOK /\ run \in [Run -> RunRow] /\ step \in [Run -> [StepId -> StepRow]]
  BY <1>1 DEF PlaceInv, TypeOK, LocalOK
<1>3. run[r] \in RunRow /\ s \in 1..StepCount + 1 BY <1>2 DEF LocalOK
<1>4. pc[w] \in AtStep => s \in StepId BY DEF PlaceInv, AtStep
<1>5. UNCHANGED <<api, cancels, retries, claim>>
  BY DEF Begin, Loop, Skip, StepInvalid, WaitOver, ActionStep, ActionRefused, Effect, StepCompleted,
         StepFailed, AfterFailure, Crash, Heartbeat
<1> USE DEF AtStep, Executing, Moves
<1>6. /\ LocalOK' /\ Others(w)
      /\ Moves(w) \/ Same(w)
      /\ pc'[w] # "idle" => wrun'[w] \in Run
      /\ pc'[w] \in AtStep => idx'[w] \in StepId
  <2>1. CASE Finished(w) BY <1>2, <2>1, FinishedAt
  <2>2. CASE Begin(w) /\ Goto(w, "starting")
    BY <1>2, <2>2, GotoAt DEF Begin, WorkerPC
  <2>3. CASE Loop(w) /\ ~Finished(w)
    <3>1. pc[w] = "loop" /\ StillOwned(w) BY <2>3 DEF Loop
    <3>2. CASE s > StepCount BY <1>2, <2>3, <3>1, <3>2, GotoAt DEF Loop, WorkerPC
    <3>3. CASE ~(s > StepCount)
      <4>1. s \in StepId BY <1>3, <3>3, WorkflowAssumption DEF StepId
      <4>2. CASE NextStep(w) BY <1>2, <3>1, <4>1, <4>2, NextStepAt
      <4>3. CASE Goto(w, "fail") \/ Goto(w, "step")
        BY <1>2, <3>1, <4>1, <4>3, GotoAt DEF WorkerPC
      <4> QED BY <2>3, <3>1, <3>3, <4>2, <4>3 DEF Loop
    <3> QED BY <3>2, <3>3
  <2>4. CASE pc[w] \in AtStep /\ NextStep(w) BY <1>2, <1>4, <2>4, NextStepAt
  <2>5. CASE pc[w] \in AtStep /\ \E label \in {"fail", "kernel", "effect", "after"} : Goto(w, label)
    BY <1>2, <1>4, <2>5, GotoAt DEF WorkerPC
  <2>6. CASE Heartbeat(w) BY <1>2, <1>4, <2>6 DEF Heartbeat, LocalOK, Others, Same
  <2> QED
    BY <2>1, <2>2, <2>3, <2>4, <2>5, <2>6
       DEF Begin, Skip, StepInvalid, WaitOver, ActionStep, ActionRefused, Effect,
           StepCompleted, StepFailed, AfterFailure, Crash
<1>7. run' \in [Run -> RunRow] /\ SameRuns
  <2>1. CASE run' = run BY <1>2, <2>1 DEF SameRuns
  <2>2. CASE pc[w] \in AtStep /\ run' = [run EXCEPT ![r].cur = s]
    <3>1. run' \in [Run -> RunRow] BY <1>2, <1>4, <2>2, RunFieldAt
    <3> QED BY <1>2, <1>3, <2>2, <3>1 DEF SameRuns, RunRow
  <2>3. CASE run' = [run EXCEPT ![r].lease = "live"]
    <3>1. run' \in [Run -> RunRow] BY <1>2, <2>3, RunFieldAt
    <3> QED BY <1>2, <1>3, <2>3, <3>1 DEF SameRuns, RunRow
  <2> QED
    BY <2>1, <2>2, <2>3
       DEF Begin, Loop, Skip, StepInvalid, WaitOver, ActionStep, ActionRefused, Effect, StepCompleted,
           StepFailed, AfterFailure, Crash, Heartbeat
<1>8. step' \in [Run -> [StepId -> StepRow]]
  <2>1. CASE step' = step BY <1>2, <2>1
  <2>2. CASE pc[w] \in AtStep /\ step' # step
    <3>1. s \in StepId /\ step[r][s] \in StepRow BY <1>2, <1>4, <2>2
    <3>2. {"skipped", "completed", "running", "failed"} \subseteq StepStatus BY DEF StepStatus
    <3>3. \E fields \in StepRow : SetStep(r, s, fields)
      <4>1. CASE \E status \in {"skipped", "completed", "running", "failed"} :
                   SetStep(r, s, [step[r][s] EXCEPT !.status = status])
        BY <3>1, <3>2, <4>1, StepFields
      <4>2. CASE SetStep(r, s, NewAttempt(r, s)) BY <3>1, <4>2, StepFields DEF NewAttempt
      <4>3. CASE SetStep(r, s, [NewAttempt(r, s) EXCEPT !.status = "failed"])
        <5>1. NewAttempt(r, s) \in StepRow BY <3>1, StepFields DEF NewAttempt
        <5> QED BY <3>2, <4>3, <5>1, StepFields
      <4> QED
        BY <2>2, <4>1, <4>2, <4>3
           DEF Begin, Loop, Skip, StepInvalid, WaitOver, ActionStep, ActionRefused, Effect,
               StepCompleted, StepFailed, AfterFailure, Crash, Heartbeat
    <3> QED BY <1>2, <3>1, <3>3, SetStepAt
  <2> QED
    BY <2>1, <2>2
       DEF Begin, Loop, Skip, StepInvalid, WaitOver, ActionStep, ActionRefused, Effect, StepCompleted,
           StepFailed, AfterFailure, Crash, Heartbeat
<1>9. effects' \in [Run -> [StepId -> SUBSET Nat]]
  <2>1. CASE effects' = effects BY <2>1 DEF TypeOK
  <2>2. CASE Effect(w)
    <3>1. s \in StepId /\ step[r][s] \in StepRow BY <1>2, <1>4, <2>2 DEF Effect
    <3>2. step[r][s].attempt \in Nat BY <3>1 DEF StepRow
    <3> QED BY <1>2, <2>2, <3>1, <3>2 DEF Effect, TypeOK
  <2> QED
    BY <2>1, <2>2
       DEF Begin, Loop, Skip, StepInvalid, WaitOver, ActionStep, ActionRefused, StepCompleted,
           StepFailed, AfterFailure, Crash, Heartbeat
<1>10. faults' \in 0..MaxFaults
  <2>1. CASE faults' = faults BY <2>1 DEF TypeOK
  <2>2. CASE Crash(w) BY <2>2, WorkflowAssumption DEF Crash, TypeOK
  <2> QED
    BY <2>1, <2>2
       DEF Begin, Loop, Skip, StepInvalid, WaitOver, ActionStep, ActionRefused, Effect, StepCompleted,
           StepFailed, AfterFailure, Heartbeat
<1>11. TypeOK' BY <1>5, <1>6, <1>7, <1>8, <1>9, <1>10 DEF TypeOK, LocalOK
<1>12. PlaceInv' BY <1>5, <1>6, PlaceMove
<1> QED BY <1>5, <1>6, <1>7, <1>11, <1>12

\* Steps with which a worker gives its run up: an unconditional write of a worker
\* past its ownership check or in preflight, or one under the worker's own token.
LEMMA GiveUpMove ==
    ASSUME TypeOK, PlaceInv, NEW w \in Worker,
           \/ WaitStep(w) \/ ApprovalRequired(w) \/ FailRun(w) \/ CompleteRun(w)
           \/ Preflight(w) \/ DispatchFailure(w) \/ Shutdown(w)
    PROVE  /\ (TypeOK /\ PlaceInv)' /\ Others(w) /\ UNCHANGED api
           /\ pc'[w] = "idle" /\ wrun[w] \in Run
           /\ \/ run' = run
              \/ /\ \A q \in Run \ {wrun[w]} : run'[q] = run[q]
                 /\ run'[wrun[w]].token = None
                 /\ \/ pc[w] \in Executing
                    \/ run'[wrun[w]].status = "failed" /\ "preflight" \in Events
                    \/ run[wrun[w]].token = w
<1> DEFINE r == wrun[w]
           s == idx[w]
<1>1. pc[w] # "idle"
  BY DEF WaitStep, ApprovalRequired, FailRun, CompleteRun, Preflight, DispatchFailure, Shutdown
<1>2. r \in Run /\ LocalOK /\ run \in [Run -> RunRow] /\ step \in [Run -> [StepId -> StepRow]]
  BY <1>1 DEF PlaceInv, TypeOK, LocalOK
<1>3. Finished(w) /\ UNCHANGED <<api, cancels, retries, effects, claim>>
  BY DEF WaitStep, ApprovalRequired, FailRun, CompleteRun, Preflight, DispatchFailure, Shutdown
<1>4. LocalOK' /\ Others(w) /\ pc'[w] = "idle" BY <1>2, <1>3, FinishedAt
<1>5. run[r].cur \in StepId \cup {None} BY <1>2 DEF RunRow
<1>6. {"waiting", "waiting_approval", "failed", "completed", "completed_with_errors", "queued", "orphaned"}
        \subseteq RunStatus
  BY DEF RunStatus, Terminal
<1>7. CASE WaitStep(w) \/ ApprovalRequired(w)
  <2>1. s \in StepId /\ pc[w] \in Executing
    BY <1>7 DEF WaitStep, ApprovalRequired, PlaceInv, Executing
  <2>2. step[r][s] \in StepRow /\ {"waiting", "waiting_approval"} \subseteq StepStatus
    BY <1>2, <2>1 DEF StepStatus
  <2>3. \E fields \in StepRow : SetStep(r, s, fields)
    BY <1>7, <2>2, StepFields DEF WaitStep, ApprovalRequired
  <2>4. step' \in [Run -> [StepId -> StepRow]] BY <1>2, <2>1, <2>3, SetStepAt
  <2>5. \E status \in {"waiting", "waiting_approval"} : Unleased(r, status, s)
    BY <1>7 DEF WaitStep, ApprovalRequired
  <2>6. run' \in [Run -> RunRow] /\ run'[r].token = None /\ \A q \in Run \ {r} : run'[q] = run[q]
    BY <1>2, <1>6, <2>1, <2>5, UnleasedAt
  <2>7. faults' = faults BY <1>7 DEF WaitStep, ApprovalRequired
  <2>8. TypeOK' BY <1>3, <1>4, <2>4, <2>6, <2>7 DEF TypeOK, LocalOK
  <2>9. PlaceInv' BY <1>3, <1>4, PlaceMove DEF AtStep
  <2> QED BY <1>2, <1>3, <1>4, <2>1, <2>6, <2>8, <2>9
<1>8. CASE ~(WaitStep(w) \/ ApprovalRequired(w))
  <2>1. step' = step
    BY <1>8 DEF FailRun, CompleteRun, Preflight, DispatchFailure, Shutdown
  <2>2. faults' \in 0..MaxFaults
    BY <1>8, WorkflowAssumption DEF FailRun, CompleteRun, Preflight, DispatchFailure, Shutdown, TypeOK
  <2>3. \/ run' = run
        \/ /\ \E status \in {"failed", "completed", "completed_with_errors", "queued", "orphaned"},
                 cur \in StepId \cup {None} : Unleased(r, status, cur)
           /\ \/ pc[w] \in Executing
              \/ Unleased(r, "failed", run[r].cur) /\ "preflight" \in Events
              \/ run[r].token = w
    BY <1>5, <1>8 DEF FailRun, CompleteRun, Preflight, DispatchFailure, Shutdown, Executing
  <2>4. CASE run' = run
    <3>1. TypeOK' BY <1>3, <1>4, <2>1, <2>2, <2>4 DEF TypeOK, LocalOK
    <3>2. PlaceInv' BY <1>3, <1>4, PlaceMove DEF AtStep
    <3> QED BY <1>2, <1>3, <1>4, <2>4, <3>1, <3>2
  <2>5. CASE run' # run
    <3>1. run' \in [Run -> RunRow] /\ run'[r].token = None /\ \A q \in Run \ {r} : run'[q] = run[q]
      BY <1>2, <1>6, <2>3, <2>5, UnleasedAt
    <3>2. TypeOK' BY <1>3, <1>4, <2>1, <2>2, <3>1 DEF TypeOK, LocalOK
    <3>3. PlaceInv' BY <1>3, <1>4, PlaceMove DEF AtStep
    <3>4. Unleased(r, "failed", run[r].cur) => run'[r].status = "failed"
      BY <1>2, <1>5, <1>6, UnleasedAt
    <3> QED BY <1>2, <1>3, <1>4, <2>3, <2>5, <3>1, <3>2, <3>3, <3>4
  <2> QED BY <2>4, <2>5
<1> QED BY <1>7, <1>8

\* The start of a run.
LEMMA StartMove ==
    ASSUME TypeOK, PlaceInv, NEW w \in Worker, Start(w)
    PROVE  /\ (TypeOK /\ PlaceInv)' /\ Others(w) /\ UNCHANGED api
           /\ pc[w] = "starting" /\ pc'[w] = "loop" /\ wrun' = wrun /\ wrun[w] \in Run
           /\ run'[wrun[w]].status = "running" /\ run'[wrun[w]].token = run[wrun[w]].token
           /\ \A q \in Run \ {wrun[w]} : run'[q] = run[q]
<1> DEFINE r == wrun[w]
<1>1. r \in Run /\ LocalOK /\ run \in [Run -> RunRow]
  BY DEF Start, PlaceInv, TypeOK, LocalOK
<1>2. run' = [run EXCEPT ![r].status = "running"] /\ Goto(w, "loop") /\ pc[w] = "starting"
  BY DEF Start
<1>3. UNCHANGED <<step, api, faults, cancels, retries, effects, claim>> BY DEF Start
<1>4. "running" \in RunStatus /\ "loop" \in WorkerPC BY DEF RunStatus, WorkerPC
<1>5. LocalOK' /\ Others(w) /\ pc'[w] = "loop" /\ wrun' = wrun BY <1>1, <1>2, <1>4, GotoAt
<1>6. run' \in [Run -> RunRow] BY <1>1, <1>2, <1>4, RunFieldAt
<1>7. /\ run'[r].status = "running" /\ run'[r].token = run[r].token
      /\ \A q \in Run \ {r} : run'[q] = run[q]
  <2>1. run[r] \in RunRow BY <1>1
  <2> QED BY <1>1, <1>2, <2>1 DEF RunRow
<1>8. TypeOK' BY <1>3, <1>5, <1>6 DEF TypeOK, LocalOK
<1>9. PlaceInv' BY <1>1, <1>3, <1>5, PlaceMove DEF AtStep
<1> QED BY <1>1, <1>2, <1>3, <1>5, <1>7, <1>8, <1>9

\* Every step keeps the types and the places.
LEMMA TypeStep == TypeOK /\ PlaceInv /\ [Next]_vars => (TypeOK /\ PlaceInv)'
BY SystemTypes, ClaimMove, QuietMove, GiveUpMove, StartMove DEF Next, Work

\* Every reachable state is well typed.
THEOREM TypeCorrect == Spec => []TypeOK
<1>1. Spec => [](TypeOK /\ PlaceInv) BY TypeInit, TypeStep, PTL DEF Spec
<1> QED BY <1>1, PTL

-----------------------------------------------------------------------------
(* A run is executed by one worker.                                        *)

\* A failure before the start and a human retry do not meet: a worker that stalls
\* between loading a run and failing it (archived meanwhile, say) clears the lease
\* of its successor, and a retry then gives the run to a third worker.
NoStalePreflight == "preflight" \notin Events \/ "retry" \notin Events

\* One run row is rewritten, the others are not.
LEMMA RowStatusAt ==
    ASSUME run \in [Run -> RunRow], NEW r \in Run, NEW status,
           run' = [run EXCEPT ![r].status = status]
    PROVE  /\ run'[r].status = status /\ run'[r].token = run[r].token
           /\ \A q \in Run \ {r} : run'[q] = run[q]
<1>1. run[r] \in RunRow OBVIOUS
<1> QED BY <1>1 DEF RunRow

\* Steps outside the workers keep OwnerInv.
LEMMA SystemOwner ==
    ASSUME TypeOK, PlaceInv, OwnerInv, NoStalePreflight,
           \/ UNCHANGED vars \/ CountActive
           \/ \E r \in Run : \/ Enqueue(r) \/ Schedule(r) \/ Human(r)
                             \/ RequestCancel(r) \/ RequestRetry(r)
           \/ Api
    PROVE  OwnerInv'
<1>0. /\ run \in [Run -> RunRow] /\ UNCHANGED <<pc, wrun>>
      /\ \A w \in Worker : pc[w] \in Executing \cup {"loop"} => wrun[w] \in Run
  BY SystemTypes DEF TypeOK, PlaceInv, Executing
<1>1. None \notin Worker BY WorkflowAssumption
<1>2. ASSUME SameRuns, api' = api PROVE OwnerInv'
  <2>1. api.op = "retry" => api.run \in Run BY DEF TypeOK, NoApi
  <2> QED BY <1>0, <1>2, <2>1 DEF OwnerInv, SameRuns
<1>3. CASE UNCHANGED vars \/ CountActive BY <1>2, <1>3 DEF vars, CountActive, SameRuns
<1>4. ASSUME NEW r \in Run, Enqueue(r) \/ Release(r) PROVE OwnerInv'
  <2>1. run[r].status \in Waiting /\ api' = api /\ run' = [run EXCEPT ![r].status = "queued"]
    BY <1>4 DEF Enqueue, Release, Waiting
  <2>2. /\ run'[r].status = "queued" /\ run'[r].token = run[r].token
        /\ \A q \in Run \ {r} : run'[q] = run[q]
    BY <1>0, <2>1, RowStatusAt
  <2>3. api.op = "retry" => api.run \in Run /\ api.run # r BY <2>1 DEF TypeOK, NoApi, OwnerInv
  <2>4. \A w \in Worker : pc[w] \in Executing => wrun[w] # r BY <2>1 DEF OwnerInv
  <2>5. \A w \in Worker : pc[w] = "loop" /\ run[wrun[w]].token = w => wrun[w] # r BY <2>1 DEF OwnerInv
  <2> QED BY <1>0, <2>1, <2>2, <2>3, <2>4, <2>5 DEF OwnerInv
<1>5. ASSUME NEW r \in Run, MarkOrphaned(r) PROVE OwnerInv'
  <2>1. run[r].cur \in StepId \cup {None} /\ "orphaned" \in RunStatus
    BY <1>0 DEF RunRow, RunStatus, Terminal
  <2>2. /\ run'[r].status = "orphaned" /\ run'[r].token = None
        /\ \A q \in Run \ {r} : run'[q] = run[q]
    BY <1>0, <1>5, <2>1, UnleasedAt DEF MarkOrphaned
  <2>3. api' = api BY <1>5 DEF MarkOrphaned
  <2>4. api.op = "retry" => api.run \in Run BY DEF TypeOK, NoApi
  <2> QED BY <1>0, <1>1, <2>2, <2>3, <2>4 DEF OwnerInv, Waiting
<1>6. ASSUME NEW r \in Run, Expire(r) PROVE OwnerInv'
  <2>1. run[r] \in RunRow BY <1>0
  <2>2. SameRuns BY <1>0, <1>6, <2>1 DEF Expire, SameRuns, RunRow
  <2> QED BY <1>2, <1>6, <2>2 DEF Expire
<1>7. ASSUME NEW r \in Run, NEW s \in StepId, Decide(r, s) \/ Elapse(r, s) PROVE OwnerInv'
  BY <1>2, <1>7 DEF Decide, Elapse, SameRuns
<1>8. ASSUME NEW r \in Run, RequestCancel(r) PROVE OwnerInv'
  <2>1. api'.op = "cancel" /\ run' = run BY <1>8 DEF RequestCancel
  <2> QED BY <1>0, <2>1 DEF OwnerInv
<1>9. ASSUME NEW r \in Run, RequestRetry(r) PROVE OwnerInv'
  <2>1. /\ api'.op = "retry" /\ api'.run = r /\ run' = run
        /\ run[r].status = "failed" /\ "retry" \in Events
    BY <1>9 DEF RequestRetry
  <2>2. \A w \in Worker : pc[w] \in Executing => wrun[w] # r BY <2>1 DEF OwnerInv
  <2>3. run[r].token = None /\ "failed" \notin Waiting BY <2>1 DEF OwnerInv, Waiting
  <2> QED BY <1>0, <2>1, <2>2, <2>3 DEF OwnerInv
<1>10. CASE CancelRun
  <2> DEFINE r == api.run
  <2>0. api.op = "cancel" /\ api' = NoApi BY <1>10 DEF CancelRun
  <2>1. r \in Run /\ api'.op = "none" BY <2>0 DEF TypeOK, NoApi
  <2>2. /\ run'[r].status = "cancelled" /\ run'[r].token \in {None, run[r].token}
        /\ \A q \in Run \ {r} : run'[q] = run[q]
    BY <1>0, <1>10, <2>1 DEF CancelRun
  <2> QED BY <1>0, <1>1, <2>1, <2>2 DEF OwnerInv, Waiting
<1>11. CASE RetryRun
  <2> DEFINE r == api.run
  <2>0. api.op = "retry" /\ api' = NoApi BY <1>11 DEF RetryRun
  <2>1. r \in Run /\ api'.op = "none" /\ api.op = "retry" BY <2>0 DEF TypeOK, NoApi
  <2>2. /\ run'[r].status = "queued" /\ run'[r].token = run[r].token
        /\ \A q \in Run \ {r} : run'[q] = run[q]
    BY <1>0, <1>11, <2>1, RowStatusAt DEF RetryRun
  <2>3. run[r].token = None /\ \A w \in Worker : pc[w] \in Executing => wrun[w] # r
    BY <2>1 DEF OwnerInv
  <2> QED BY <1>0, <1>1, <2>1, <2>2, <2>3 DEF OwnerInv
<1> QED
  BY <1>3, <1>4, <1>5, <1>6, <1>7, <1>8, <1>9, <1>10, <1>11 DEF Schedule, Human, Api

\* Every step keeps OwnerInv.
LEMMA OwnerStep ==
    ASSUME TypeOK, PlaceInv, OwnerInv, NoStalePreflight, [Next]_vars
    PROVE  OwnerInv'
<1>0. /\ \A w \in Worker : pc[w] \in Executing \cup {"loop"} => wrun[w] \in Run
      /\ api.op = "retry" => api.run \in Run /\ "retry" \in Events
      /\ None \notin Worker /\ "idle" \notin Executing /\ "loop" \notin Executing
      /\ "claimed" \notin Executing /\ "starting" \notin Executing
  BY WorkflowAssumption DEF TypeOK, NoApi, PlaceInv, Executing
<1>1. CASE ClaimRuns
  <2>1. /\ api' = api
        /\ \A w \in Worker : Same(w) \/ pc'[w] = "claimed"
        /\ \A r \in Run : \/ run'[r] = run[r]
                          \/ /\ run[r].status = "queued" /\ run'[r].status = "queued"
                             /\ \A w \in Worker : run'[r].token = w => pc'[w] = "claimed"
                          \/ /\ run[r].status = "queued" /\ run'[r].status = "cancelled"
    BY <1>1, ClaimMove
  <2>2. \A w \in Worker : pc'[w] \in Executing => Same(w) /\ run'[wrun[w]] = run[wrun[w]]
    BY <1>0, <2>1 DEF OwnerInv, Same, Waiting
  <2>3. api.op = "retry" => run'[api.run] = run[api.run] BY <1>0, <2>1 DEF OwnerInv, Waiting
  <2>4. \A w \in Worker : pc'[w] = "loop" /\ run'[wrun'[w]].token = w => run'[wrun'[w]].status \notin Waiting
    BY <1>0, <2>1 DEF OwnerInv, Same, Waiting
  <2>5. \A r \in Run : run'[r].status = "failed" => run'[r].token = None BY <2>1 DEF OwnerInv
  <2> QED BY <2>1, <2>2, <2>3, <2>4, <2>5 DEF OwnerInv, Same
<1>2. ASSUME NEW w \in Worker, Others(w), api' = api, SameRuns, Moves(w) \/ Same(w),
             pc[w] # "starting"
      PROVE  OwnerInv'
  <2>1. \A v \in Worker : pc'[v] \in Executing =>
          /\ wrun'[v] = wrun[v]
          /\ pc[v] \in Executing \/ (v = w /\ pc[v] = "loop" /\ StillOwned(w))
    BY <1>0, <1>2 DEF Others, Same, Moves
  <2>2. \A v \in Worker : pc'[v] = "loop" => wrun'[v] = wrun[v] /\ pc[v] \in Executing \cup {"loop"}
    BY <1>0, <1>2 DEF Others, Same, Moves
  <2>3. ASSUME StillOwned(w), pc[w] = "loop"
        PROVE  /\ run[wrun[w]].token = w /\ run[wrun[w]].status \notin Waiting
               /\ run[wrun[w]].status # "failed"
               /\ api.op = "retry" => api.run # wrun[w]
               /\ \A v \in Worker : pc[v] \in Executing => wrun[v] # wrun[w]
    BY <1>0, <2>3 DEF OwnerInv, StillOwned
  <2> QED BY <1>0, <1>2, <2>1, <2>2, <2>3 DEF OwnerInv, SameRuns
<1>3. ASSUME NEW w \in Worker, Start(w) PROVE OwnerInv'
  <2>1. /\ Others(w) /\ api' = api /\ pc[w] = "starting" /\ pc'[w] = "loop" /\ wrun' = wrun /\ wrun[w] \in Run
        /\ run'[wrun[w]].status = "running" /\ run'[wrun[w]].token = run[wrun[w]].token
        /\ \A q \in Run \ {wrun[w]} : run'[q] = run[q]
    BY <1>3, StartMove
  <2> QED BY <1>0, <2>1 DEF OwnerInv, Others, Same, Waiting
<1>4. ASSUME NEW w \in Worker,
             \/ WaitStep(w) \/ ApprovalRequired(w) \/ FailRun(w) \/ CompleteRun(w)
             \/ Preflight(w) \/ DispatchFailure(w) \/ Shutdown(w)
      PROVE  OwnerInv'
  <2>1. Others(w) /\ api' = api /\ pc'[w] = "idle" /\ wrun[w] \in Run BY <1>4, GiveUpMove
  <2>2. CASE run' = run BY <1>0, <2>1, <2>2 DEF OwnerInv, Others, Same
  <2>3. CASE /\ \A q \in Run \ {wrun[w]} : run'[q] = run[q]
             /\ run'[wrun[w]].token = None
             /\ \/ pc[w] \in Executing
                \/ run'[wrun[w]].status = "failed" /\ "preflight" \in Events
                \/ run[wrun[w]].token = w
    <3>1. \A v \in Worker \ {w} : pc[v] \in Executing /\ wrun[v] = wrun[w] =>
            run'[wrun[w]].status = "failed" /\ "retry" \notin Events
      BY <1>0, <2>3 DEF OwnerInv, NoStalePreflight
    <3>2. ASSUME api.op = "retry", api.run = wrun[w] PROVE FALSE
      BY <1>0, <2>3, <3>2 DEF OwnerInv, NoStalePreflight
    <3>3. "failed" \notin Waiting BY DEF Waiting
    <3> QED BY <1>0, <2>1, <2>3, <3>1, <3>2, <3>3 DEF OwnerInv, Others, Same
  <2> QED BY <1>4, <2>2, <2>3, GiveUpMove
<1>5. ASSUME NEW w \in Worker,
             \/ Begin(w) \/ Loop(w) \/ Skip(w) \/ StepInvalid(w) \/ WaitOver(w) \/ ActionStep(w)
             \/ ActionRefused(w) \/ Effect(w) \/ StepCompleted(w) \/ StepFailed(w) \/ AfterFailure(w)
             \/ Crash(w) \/ Heartbeat(w)
      PROVE  OwnerInv'
  <2>1. Others(w) /\ api' = api /\ SameRuns /\ (Moves(w) \/ Same(w)) BY <1>5, QuietMove
  <2>2. CASE pc[w] # "starting" BY <1>2, <2>1, <2>2
  <2>3. CASE pc[w] = "starting"
    <3>1. Crash(w) \/ Heartbeat(w)
      BY <1>5, <2>3 DEF Begin, Loop, Skip, StepInvalid, WaitOver, ActionStep, ActionRefused, Effect,
                        StepCompleted, StepFailed, AfterFailure
    <3>2. pc'[w] \in {"idle", "starting"}
      BY <2>3, <3>1 DEF Crash, Heartbeat, Finished, TypeOK
    <3> QED BY <1>0, <2>1, <3>2 DEF OwnerInv, SameRuns, Others, Same
  <2> QED BY <2>2, <2>3
<1> QED BY <1>1, <1>3, <1>4, <1>5, SystemOwner DEF Next, Work

\* A run is never inside the Kernel on behalf of two workers.
THEOREM ExecutorIsSingle == NoStalePreflight => (Spec => []SingleExecutor)
<1> SUFFICES ASSUME NoStalePreflight PROVE Spec => []SingleExecutor
  OBVIOUS
<1> DEFINE Inv == TypeOK /\ PlaceInv /\ OwnerInv
<1>1. Init => OwnerInv BY DEF Init, OwnerInv, Executing, NoApi
<1>2. Inv /\ [Next]_vars => Inv' BY TypeStep, OwnerStep
<1>3. Inv => SingleExecutor BY DEF OwnerInv, SingleExecutor, Executing
<1> QED BY TypeInit, <1>1, <1>2, <1>3, PTL DEF Spec

-----------------------------------------------------------------------------
(* A step runs after the steps it depends on.                              *)

\* The places where a worker is about to run, or runs, the step it is at.
AtWork == {"step", "kernel", "effect"}

\* A worker that is about to run a step found it open and its dependencies
\* resolved, and so they stay until it is done.
DepInv ==
    /\ \A w \in Worker : pc[w] \in AtWork => ~Resolved(wrun[w], idx[w]) /\ ~Unmet(wrun[w], idx[w])
    /\ DependenciesFirst
    /\ api.op = "cancel" => "cancel" \in Events

\* No resolved step is reopened and no open one resolved.
SameResolved == \A r \in Run, s \in StepId : Resolved(r, s)' <=> Resolved(r, s)

\* What is said of a worker depends on its locals and on what is resolved.
LEMMA DepKept ==
    ASSUME TypeOK, PlaceInv, DepInv, SameResolved, effects' = effects,
           \A w \in Worker : Same(w) \/ pc'[w] \notin AtWork,
           api'.op = "cancel" => "cancel" \in Events
    PROVE  DepInv'
<1>1. DependsOn \in [StepId -> SUBSET StepId] BY WorkflowAssumption
<1>2. ASSUME NEW w \in Worker, pc'[w] \in AtWork
      PROVE  (~Resolved(wrun[w], idx[w]) /\ ~Unmet(wrun[w], idx[w]))'
  <2>1. wrun'[w] = wrun[w] /\ idx'[w] = idx[w] /\ pc[w] \in AtWork BY <1>2 DEF Same
  <2>2. wrun[w] \in Run /\ idx[w] \in StepId BY <2>1 DEF PlaceInv, AtWork
  <2>3. ~Resolved(wrun[w], idx[w]) /\ \A d \in DependsOn[idx[w]] : Resolved(wrun[w], d)
    BY <2>1 DEF DepInv, Unmet
  <2>4. \A d \in DependsOn[idx[w]] : d \in StepId BY <1>1, <2>2
  <2> QED BY <2>1, <2>2, <2>3, <2>4 DEF SameResolved, Resolved, Unmet
<1>3. DependenciesFirst' BY <1>1 DEF DepInv, DependenciesFirst, SameResolved, Resolved
<1> QED BY <1>2, <1>3 DEF DepInv

\* Steps outside the workers, cancellations aside, resolve and reopen nothing:
\* a retry touches a failed step.
LEMMA SystemDeps ==
    ASSUME TypeOK, PlaceInv, DepInv, "cancel" \notin Events,
           \/ UNCHANGED vars \/ CountActive
           \/ \E r \in Run : \/ Enqueue(r) \/ Schedule(r) \/ Human(r)
                             \/ RequestCancel(r) \/ RequestRetry(r)
           \/ Api
    PROVE  DepInv'
<1>0. step \in [Run -> [StepId -> StepRow]] BY DEF TypeOK
<1>1. ASSUME NEW r \in Run, NEW s \in StepId, Decide(r, s) \/ Elapse(r, s) PROVE SameResolved
  <2>1. step[r][s] \in StepRow BY <1>0
  <2>2. /\ step'[r][s].status = step[r][s].status
        /\ \A t \in StepId \ {s} : step'[r][t] = step[r][t]
        /\ \A q \in Run \ {r} : step'[q] = step[q]
    BY <1>0, <1>1, <2>1 DEF Decide, Elapse, SetStep, StepRow
  <2> QED BY <2>2 DEF SameResolved, Resolved
<1>2. ASSUME RetryRun PROVE SameResolved
  <2>1. api.op = "retry" BY <1>2 DEF RetryRun
  <2>2. api.run \in Run BY <2>1 DEF TypeOK, NoApi
  <2>3. \A s \in StepId : step[api.run][s] \in StepRow BY <1>0, <2>2
  <2>4. \A s \in StepId : step'[api.run][s].status =
            IF s \in LastFailed(api.run) THEN "pending" ELSE step[api.run][s].status
    BY <1>0, <1>2, <2>2, <2>3 DEF RetryRun, StepRow
  <2>5. \A s \in LastFailed(api.run) : step[api.run][s].status = "failed" BY DEF LastFailed
  <2>6. \A r \in Run \ {api.run} : step'[r] = step[r] BY <1>0, <1>2 DEF RetryRun
  <2> QED BY <2>4, <2>5, <2>6 DEF SameResolved, Resolved
<1>3. ~CancelRun /\ \A r \in Run : ~RequestCancel(r) BY DEF CancelRun, RequestCancel, DepInv
<1>4. SameResolved
  <2>1. CASE step' = step BY <2>1 DEF SameResolved, Resolved
  <2> QED
    BY <1>1, <1>2, <1>3, <2>1
       DEF vars, CountActive, Enqueue, Schedule, Release, MarkOrphaned, Expire, Human, RequestRetry, Api
<1>5. UNCHANGED <<pc, wrun, idx, effects>>
  BY <1>3 DEF vars, CountActive, Enqueue, Schedule, Release, MarkOrphaned, Expire, Human, Decide, Elapse,
              RequestRetry, Api, RetryRun
<1>6. api' = api \/ api'.op \in {"none", "retry"}
  <2>1. CASE RetryRun BY <2>1 DEF RetryRun, NoApi
  <2>2. CASE \E r \in Run : RequestRetry(r)
    <3>1. PICK r \in Run : RequestRetry(r) BY <2>2
    <3>2. api'.op = "retry" BY <3>1 DEF RequestRetry
    <3> QED BY <3>2
  <2> QED
    BY <1>3, <2>1, <2>2
       DEF vars, CountActive, Enqueue, Schedule, Release, MarkOrphaned, Expire, Human, Decide, Elapse, Api
<1> QED BY <1>4, <1>5, <1>6, DepKept DEF Same, DepInv

\* A worker writes the row of the step it is at, and is the only one at work
\* on its run.
LEMMA WriteDeps ==
    ASSUME TypeOK, PlaceInv, OwnerInv, DepInv, NEW w \in Worker, NEW fields,
           pc[w] \in AtWork, SetStep(wrun[w], idx[w], fields),
           Others(w), api' = api, effects' = effects,
           \/ pc'[w] \notin AtWork
           \/ wrun'[w] = wrun[w] /\ idx'[w] = idx[w] /\ fields.status \notin {"completed", "skipped"}
    PROVE  DepInv'
<1> DEFINE r == wrun[w]
           s == idx[w]
<1>1. /\ DependsOn \in [StepId -> SUBSET StepId] /\ \A t \in StepId : \A d \in DependsOn[t] : d < t
      /\ step \in [Run -> [StepId -> StepRow]] /\ StepId \subseteq Nat
  BY WorkflowAssumption DEF TypeOK, StepId
<1>2. r \in Run /\ s \in StepId /\ ~Resolved(r, s) /\ \A d \in DependsOn[s] : Resolved(r, d)
  BY DEF PlaceInv, DepInv, AtWork, Unmet
<1>3. /\ step'[r][s] = fields
      /\ \A t \in StepId \ {s} : step'[r][t] = step[r][t]
      /\ \A q \in Run \ {r} : step'[q] = step[q]
  BY <1>1, <1>2 DEF SetStep
<1>4. \A q \in Run, t \in StepId : Resolved(q, t) => step'[q][t] = step[q][t]
  BY <1>2, <1>3
<1>5. ASSUME NEW v \in Worker, pc'[v] \in AtWork
      PROVE  (~Resolved(wrun[v], idx[v]) /\ ~Unmet(wrun[v], idx[v]))'
  <2>1. CASE v = w
    <3>1. wrun'[w] = r /\ idx'[w] = s /\ fields.status \notin {"completed", "skipped"} BY <1>5, <2>1
    <3>2. \A d \in DependsOn[s] : d \in StepId BY <1>1, <1>2
    <3> QED BY <1>2, <1>3, <1>4, <2>1, <3>1, <3>2 DEF Resolved, Unmet
  <2>2. CASE v # w
    <3>1. wrun'[v] = wrun[v] /\ idx'[v] = idx[v] /\ pc[v] \in AtWork BY <1>5, <2>2 DEF Others, Same
    <3>2. wrun[v] \in Run /\ idx[v] \in StepId BY <3>1 DEF PlaceInv, AtWork
    <3>3. wrun[v] # r BY <2>2, <3>1 DEF OwnerInv, Executing, AtWork
    <3>4. step'[wrun[v]] = step[wrun[v]] BY <1>3, <3>2, <3>3
    <3> QED BY <3>1, <3>4 DEF DepInv, Resolved, Unmet
  <2> QED BY <2>1, <2>2
<1>6. DependenciesFirst'
  <2>1. ASSUME NEW q \in Run, NEW t \in StepId, effects[q][t] # {}, NEW d \in DependsOn[t]
        PROVE  Resolved(q, d)'
    <3>1. Resolved(q, d) /\ d \in StepId BY <1>1, <2>1 DEF DepInv, DependenciesFirst
    <3> QED BY <1>4, <3>1 DEF Resolved
  <2> QED BY <2>1 DEF DependenciesFirst
<1> QED BY <1>5, <1>6 DEF DepInv

\* Every step, cancellations aside, keeps DepInv.
LEMMA DepStep ==
    ASSUME TypeOK, PlaceInv, OwnerInv, DepInv, "cancel" \notin Events, [Next]_vars
    PROVE  DepInv'
<1>0. LocalOK /\ step \in [Run -> [StepId -> StepRow]] /\ effects \in [Run -> [StepId -> SUBSET Nat]]
  BY DEF TypeOK, LocalOK
<1>1. step' = step => SameResolved BY DEF SameResolved, Resolved
<1>2. CASE ClaimRuns
  <2>1. api' = api /\ \A w \in Worker : Same(w) \/ pc'[w] = "claimed" BY <1>2, ClaimMove
  <2>2. step' = step /\ effects' = effects BY <1>2 DEF ClaimRuns
  <2> QED BY <1>1, <2>1, <2>2, DepKept DEF AtWork, DepInv
<1>3. ASSUME NEW w \in Worker,
             \/ Begin(w) \/ StepInvalid(w) \/ AfterFailure(w) \/ Crash(w) \/ Heartbeat(w)
      PROVE  DepInv'
  <2>1. Others(w) /\ api' = api BY <1>3, QuietMove
  <2>2. step' = step /\ effects' = effects
    BY <1>3 DEF Begin, StepInvalid, AfterFailure, Crash, Heartbeat
  <2>3. Same(w) \/ pc'[w] \notin AtWork
    BY <1>0, <1>3 DEF Begin, StepInvalid, AfterFailure, Crash, Heartbeat, Goto, Finished, NextStep,
                      LocalOK, AtWork, Same
  <2> QED BY <1>1, <2>1, <2>2, <2>3, DepKept DEF Others, DepInv
<1>4. ASSUME NEW w \in Worker, Loop(w) PROVE DepInv'
  <2>1. Others(w) /\ api' = api BY <1>4, QuietMove
  <2>2. step' = step /\ effects' = effects BY <1>4 DEF Loop
  <2>3. CASE pc'[w] \notin AtWork BY <1>1, <2>1, <2>2, <2>3, DepKept DEF Others, DepInv
  <2>4. CASE pc'[w] \in AtWork
    <3>1. Goto(w, "step") /\ ~Resolved(wrun[w], idx[w]) /\ ~Unmet(wrun[w], idx[w])
      BY <1>0, <1>4, <2>4 DEF Loop, Goto, Finished, NextStep, LocalOK, AtWork
    <3>2. wrun' = wrun /\ idx' = idx BY <3>1 DEF Goto
    <3> QED BY <2>1, <2>2, <3>1, <3>2 DEF DepInv, DependenciesFirst, Resolved, Unmet, Others, Same
  <2> QED BY <2>3, <2>4
<1>5. ASSUME NEW w \in Worker, Effect(w) PROVE DepInv'
  <2> DEFINE r == wrun[w]
             s == idx[w]
  <2>1. Others(w) /\ api' = api BY <1>5, QuietMove
  <2>2. step' = step /\ pc[w] = "kernel" /\ wrun' = wrun /\ idx' = idx BY <1>5 DEF Effect, Goto
  <2>3. ~Resolved(r, s) /\ ~Unmet(r, s) BY <2>2 DEF DepInv, AtWork
  <2>4. \A q \in Run, t \in StepId : effects'[q][t] = effects[q][t] \/ (q = r /\ t = s)
    BY <1>0, <1>5 DEF Effect
  <2>5. DependenciesFirst' BY <2>2, <2>3, <2>4 DEF DepInv, DependenciesFirst, Unmet, Resolved
  <2> QED BY <2>1, <2>2, <2>3, <2>5 DEF DepInv, Resolved, Unmet, Others, Same
<1>6. ASSUME NEW w \in Worker,
             \/ Skip(w) \/ WaitOver(w) \/ ActionRefused(w) \/ StepCompleted(w) \/ StepFailed(w)
             \/ ActionStep(w)
      PROVE  DepInv'
  <2> DEFINE r == wrun[w]
             s == idx[w]
  <2>1. Others(w) /\ api' = api BY <1>6, QuietMove
  <2>2. pc[w] \in AtWork /\ effects' = effects
    BY <1>6 DEF Skip, WaitOver, ActionRefused, StepCompleted, StepFailed, ActionStep, AtWork
  <2>3. CASE ~ActionStep(w)
    <3>1. pc'[w] \notin AtWork
      BY <1>0, <1>6, <2>3 DEF Skip, WaitOver, ActionRefused, StepCompleted, StepFailed, Goto, NextStep,
                              LocalOK, AtWork
    <3>2. \E fields : SetStep(r, s, fields)
      BY <1>6, <2>3 DEF Skip, WaitOver, ActionRefused, StepCompleted, StepFailed
    <3> QED BY <2>1, <2>2, <3>1, <3>2, WriteDeps
  <2>4. CASE ActionStep(w)
    <3>1. wrun' = wrun /\ idx' = idx BY <2>4 DEF ActionStep, Goto
    <3>2. r \in Run /\ s \in StepId BY <2>2 DEF PlaceInv, AtWork
    <3>3. step[r][s] \in StepRow BY <1>0, <3>2
    <3>4. \E fields : SetStep(r, s, fields) /\ fields.status = "running"
      <4>1. [step[r][s] EXCEPT !.status = "running"].status = "running" BY <3>3 DEF StepRow
      <4>2. NewAttempt(r, s).status = "running" BY DEF NewAttempt
      <4> QED BY <2>4, <4>1, <4>2 DEF ActionStep
    <3> QED BY <2>1, <2>2, <3>1, <3>4, WriteDeps
  <2> QED BY <2>3, <2>4
<1>7. ASSUME NEW w \in Worker,
             \/ WaitStep(w) \/ ApprovalRequired(w) \/ FailRun(w) \/ CompleteRun(w)
             \/ Preflight(w) \/ DispatchFailure(w) \/ Shutdown(w)
      PROVE  DepInv'
  <2>1. Others(w) /\ api' = api /\ pc'[w] = "idle" BY <1>7, GiveUpMove
  <2>2. effects' = effects
    BY <1>7 DEF WaitStep, ApprovalRequired, FailRun, CompleteRun, Preflight, DispatchFailure, Shutdown
  <2>3. CASE step' = step BY <1>1, <2>1, <2>2, <2>3, DepKept DEF Others, AtWork, DepInv
  <2>4. CASE step' # step
    <3>1. pc[w] \in AtWork /\ \E fields : SetStep(wrun[w], idx[w], fields)
      BY <1>7, <2>4 DEF WaitStep, ApprovalRequired, FailRun, CompleteRun, Preflight, DispatchFailure,
                        Shutdown, AtWork
    <3> QED BY <2>1, <2>2, <3>1, WriteDeps DEF AtWork
  <2> QED BY <2>3, <2>4
<1>8. ASSUME NEW w \in Worker, Start(w) PROVE DepInv'
  <2>1. Others(w) /\ api' = api /\ pc'[w] = "loop" BY <1>8, StartMove
  <2>2. step' = step /\ effects' = effects BY <1>8 DEF Start
  <2> QED BY <1>1, <2>1, <2>2, DepKept DEF Others, AtWork, DepInv
<1> QED BY <1>2, <1>3, <1>4, <1>5, <1>6, <1>7, <1>8, SystemDeps DEF Next, Work

\* A capability has its effect after the steps its step depends on, and they stay
\* resolved, through waits, approvals, crashes and retries.  A cancellation that was
\* read while the run waited marks the wait step cancelled also after the run went on.
THEOREM DependenciesComeFirst ==
    NoStalePreflight /\ "cancel" \notin Events => (Spec => []DependenciesFirst)
<1> SUFFICES ASSUME NoStalePreflight, "cancel" \notin Events PROVE Spec => []DependenciesFirst
  OBVIOUS
<1> DEFINE Inv == TypeOK /\ PlaceInv /\ OwnerInv /\ DepInv
<1>1. Init => OwnerInv BY DEF Init, OwnerInv, Executing, NoApi
<1>2. Init => DepInv BY DEF Init, DepInv, DependenciesFirst, AtWork, NoApi
<1>3. Inv /\ [Next]_vars => Inv' BY TypeStep, OwnerStep, DepStep
<1>4. Inv => DependenciesFirst BY DEF DepInv
<1> QED BY TypeInit, <1>1, <1>2, <1>3, <1>4, PTL DEF Spec

-----------------------------------------------------------------------------
(* The limit on concurrent runs.                                           *)

\* While heartbeats are in time and nobody cancels, a worker holds its run by a live
\* lease from the claim to the last commit.
HoldInv ==
    /\ \A w \in Worker : pc[w] # "idle" =>
         /\ run[wrun[w]].token = w /\ run[wrun[w]].lease = "live"
         /\ run[wrun[w]].status = IF pc[w] \in {"claimed", "starting"} THEN "queued" ELSE "running"
    /\ \A r \in Run : run[r].status \in {"absent", "failed"} => run[r].lease = "null"
    /\ api.op = "retry" => run[api.run].status = "failed"
    /\ api.op # "cancel"

\* The runs that occupy a slot or have been claimed fit the limit, and a claim under way
\* has counted all of them: between the count and the scan slots are given up only.
SlotInv ==
    /\ Limit > 0 => Cardinality(Active) <= Limit
    /\ claim # NoClaim => Active \subseteq claim.counted

\* No stalls and no cancellations: both let a claimed run go on that holds no slot.
NoLateStart == "stall" \notin Events /\ "cancel" \notin Events

\* A nonempty set of runs has a last one.
LEMMA LastRun ==
    ASSUME NEW S \in SUBSET Run, S # {}
    PROVE  \E m \in S : \A k \in S : k <= m
<1> DEFINE R == {p \in Nat \X Nat : p[1] < p[2]}
           left == {RunCount - r : r \in S}
<1>0. RunCount \in Nat /\ \A r \in S : r \in Nat /\ r <= RunCount /\ RunCount - r \in Nat
  BY WorkflowAssumption DEF Run
<1>1. IsWellFoundedOn(R, Nat) BY NatLessThanWellFounded DEF OpToRel
<1>2. left \subseteq Nat /\ left # {} BY <1>0
<1>3. PICK least \in left : \A k \in left : ~(<<k, least>> \in R) BY <1>1, <1>2, WFMin
<1>4. PICK m \in S : least = RunCount - m BY <1>3
<1>5. ASSUME NEW k \in S PROVE k <= m
  <2>1. RunCount - k \in left /\ RunCount - k \in Nat /\ least \in Nat BY <1>0, <1>2
  <2>2. <<RunCount - k, least>> \in Nat \X Nat BY <2>1
  <2>3. ~(RunCount - k < least) BY <1>3, <2>1, <2>2
  <2> QED BY <1>0, <1>4, <2>3
<1> QED BY <1>5

\* The first k of the queue are k at most.
LEMMA FirstOfQueue ==
    ASSUME NEW k \in Nat, NEW S \in SUBSET Claimable, \A r \in S : QueuePosition(r) < k
    PROVE  IsFiniteSet(S) /\ Cardinality(S) <= k
<1>0. RunCount \in Int /\ Claimable \in SUBSET Run BY WorkflowAssumption DEF Claimable
<1>1. IsFiniteSet(Run) BY <1>0, FS_Interval DEF Run
<1>2. IsFiniteSet(S)
  <2>1. S \in SUBSET Run BY <1>0
  <2> QED BY <1>1, <2>1, FS_Subset
<1>3. CASE S = {} BY <1>2, <1>3, FS_EmptySet
<1>4. CASE S # {}
  <2>1. PICK m \in S : \A q \in S : q <= m BY <1>0, <1>4, LastRun
  <2> DEFINE before == {q \in Claimable : q < m}
  <2>2. S \ {m} \in SUBSET before
    <3>1. \A q \in S : q \in Nat BY <1>0 DEF Run
    <3> QED BY <2>1, <3>1
  <2>3. before \in SUBSET Run BY <1>0
  <2>4. IsFiniteSet(before) BY <1>1, <2>3, FS_Subset
  <2>5. Cardinality(S \ {m}) <= Cardinality(before) BY <2>2, <2>4, FS_Subset
  <2>6. Cardinality(S \ {m}) = Cardinality(S) - 1 BY <1>2, FS_RemoveElement
  <2>7. Cardinality(before) < k BY DEF QueuePosition
  <2>8. Cardinality(S) \in Nat /\ Cardinality(before) \in Nat BY <1>2, <2>4, FS_CardinalityType
  <2> QED BY <1>2, <2>5, <2>6, <2>7, <2>8
<1> QED BY <1>3, <1>4

\* Only a claim touches the record of the claim.
LEMMA ClaimKept == [Next]_vars /\ ~ClaimRuns => claim' = claim \/ CountActive
BY DEF vars, Next, Enqueue, Schedule, Release, MarkOrphaned, Expire, Human, Decide, Elapse,
       RequestCancel, RequestRetry, Api, CancelRun, RetryRun, Heartbeat, Crash, Shutdown,
       Work, Begin, Start, Preflight, Loop, Skip, StepInvalid, WaitStep, WaitOver, ActionStep,
       ActionRefused, ApprovalRequired, Effect, StepCompleted, StepFailed, DispatchFailure,
       AfterFailure, FailRun, CompleteRun

\* Fewer runs fit as well.
LEMMA SlotsKept ==
    ASSUME SlotInv, Active' \subseteq Active, claim' = claim \/ CountActive
    PROVE  SlotInv'
<1>1. RunCount \in Int /\ Active \in SUBSET Run BY WorkflowAssumption DEF Active
<1>2. IsFiniteSet(Run) BY <1>1, FS_Interval DEF Run
<1>3. IsFiniteSet(Active) BY <1>1, <1>2, FS_Subset
<1>4. Cardinality(Active') <= Cardinality(Active) /\ IsFiniteSet(Active') BY <1>3, FS_Subset
<1>5. Cardinality(Active) \in Nat /\ Cardinality(Active') \in Nat BY <1>3, <1>4, FS_CardinalityType
<1>6. claim' # NoClaim => Active' \subseteq claim'.counted
  <2>1. CASE claim' = claim BY <2>1 DEF SlotInv
  <2>2. CASE CountActive
    <3>1. claim'.counted = Active BY <2>2 DEF CountActive
    <3> QED BY <3>1
  <2> QED BY <2>1, <2>2
<1> QED BY <1>4, <1>5, <1>6, WorkflowAssumption DEF SlotInv, NoClaim

\* A step that rewrites the row of one run, which nobody holds or whose holder acts.
LEMMA RowSlots ==
    ASSUME NEW r \in Run, \A q \in Run \ {r} : run'[q] = run[q],
           \/ r \in Active
           \/ run'[r].status \notin Occupying /\ ~(run'[r].status = "queued" /\ run'[r].lease = "live")
    PROVE  Active' \subseteq Active
BY DEF Active

\* Steps outside the workers give nobody a slot, and touch no run that is held.
LEMMA SystemHold ==
    ASSUME TypeOK, PlaceInv, HoldInv, NoLateStart,
           \/ UNCHANGED vars \/ CountActive
           \/ \E r \in Run : \/ Enqueue(r) \/ Schedule(r) \/ Human(r)
                             \/ RequestCancel(r) \/ RequestRetry(r)
           \/ Api
    PROVE  HoldInv' /\ Active' \subseteq Active
<1>0. /\ run \in [Run -> RunRow] /\ UNCHANGED <<pc, wrun>>
      /\ \A w \in Worker : pc[w] # "idle" => wrun[w] \in Run
      /\ api.op = "retry" => api.run \in Run
  BY SystemTypes DEF TypeOK, PlaceInv, NoApi
<1>1. ASSUME run' = run, api' = api PROVE HoldInv' /\ Active' \subseteq Active
  BY <1>0, <1>1 DEF HoldInv, Active
<1>2. CASE UNCHANGED vars \/ CountActive BY <1>1, <1>2 DEF vars, CountActive
<1>3. ASSUME NEW r \in Run, NEW status, run' = [run EXCEPT ![r].status = status]
      PROVE  /\ run'[r].status = status /\ run'[r].lease = run[r].lease
             /\ \A q \in Run \ {r} : run'[q] = run[q]
  <2>1. run[r] \in RunRow BY <1>0
  <2> QED BY <1>0, <1>3, <2>1 DEF RunRow
<1>4. ASSUME NEW r \in Run, Enqueue(r) \/ Release(r) PROVE HoldInv' /\ Active' \subseteq Active
  <2>1. run[r].status \in {"absent", "waiting", "waiting_approval"} /\ api' = api
        /\ run' = [run EXCEPT ![r].status = "queued"]
    BY <1>4 DEF Enqueue, Release
  <2>2. /\ run'[r].status = "queued" /\ run'[r].lease = run[r].lease
        /\ \A q \in Run \ {r} : run'[q] = run[q]
    BY <1>3, <2>1
  <2>3. \A w \in Worker : pc[w] # "idle" => wrun[w] # r BY <2>1 DEF HoldInv
  <2>4. api.op = "retry" => api.run # r BY <2>1 DEF HoldInv
  <2>5. HoldInv' BY <1>0, <2>1, <2>2, <2>3, <2>4 DEF HoldInv
  <2>6. r \in Active \/ run[r].lease = "null" BY <2>1 DEF HoldInv, Active, Occupying
  <2> QED BY <2>2, <2>5, <2>6, RowSlots DEF Occupying
<1>5. ASSUME NEW r \in Run, MarkOrphaned(r) PROVE HoldInv' /\ Active' \subseteq Active
  <2>1. run[r].cur \in StepId \cup {None} /\ "orphaned" \in RunStatus
    BY <1>0 DEF RunRow, RunStatus, Terminal
  <2>2. run'[r].status = "orphaned" /\ \A q \in Run \ {r} : run'[q] = run[q]
    BY <1>0, <1>5, <2>1, UnleasedAt DEF MarkOrphaned
  <2>3. api' = api /\ run[r].status = "running" /\ run[r].lease = "expired" BY <1>5 DEF MarkOrphaned
  <2>4. \A w \in Worker : pc[w] # "idle" => wrun[w] # r BY <2>3 DEF HoldInv
  <2>5. HoldInv' BY <1>0, <2>2, <2>3, <2>4 DEF HoldInv
  <2> QED BY <2>2, <2>5, RowSlots DEF Occupying
<1>6. ASSUME NEW r \in Run, Expire(r) PROVE HoldInv' /\ Active' \subseteq Active
  <2>1. run[r] \in RunRow BY <1>0
  <2>2. api' = api /\ run[r].lease = "live" /\ run' = [run EXCEPT ![r].lease = "expired"]
    BY <1>6 DEF Expire
  <2>3. /\ run'[r].status = run[r].status /\ run'[r].lease = "expired"
        /\ \A q \in Run \ {r} : run'[q] = run[q]
    BY <1>0, <2>1, <2>2 DEF RunRow
  <2>4. run[r].token = None \/ pc[run[r].token] = "idle" BY <1>6 DEF Expire, NoLateStart
  <2>5. \A w \in Worker : pc[w] # "idle" => wrun[w] # r BY <2>4, WorkflowAssumption DEF HoldInv
  <2>6. HoldInv' BY <1>0, <2>2, <2>3, <2>5 DEF HoldInv
  <2>7. Active' \subseteq Active BY <2>3 DEF Active
  <2> QED BY <2>6, <2>7
<1>7. ASSUME NEW r \in Run, NEW s \in StepId, Decide(r, s) \/ Elapse(r, s)
      PROVE  HoldInv' /\ Active' \subseteq Active
  BY <1>1, <1>7 DEF Decide, Elapse
<1>8. ~CancelRun /\ \A r \in Run : ~RequestCancel(r) BY DEF CancelRun, RequestCancel, HoldInv, NoLateStart
<1>9. ASSUME NEW r \in Run, RequestRetry(r) PROVE HoldInv' /\ Active' \subseteq Active
  <2>1. api'.op = "retry" /\ api'.run = r /\ run' = run /\ run[r].status = "failed"
    BY <1>9 DEF RequestRetry
  <2> QED BY <1>0, <2>1 DEF HoldInv, Active
<1>10. CASE RetryRun
  <2> DEFINE r == api.run
  <2>0. api.op = "retry" /\ api' = NoApi BY <1>10 DEF RetryRun
  <2>1. r \in Run /\ api'.op = "none" /\ run[r].status = "failed" /\ run[r].lease = "null"
    BY <1>0, <2>0 DEF NoApi, HoldInv
  <2>2. run' = [run EXCEPT ![r].status = "queued"] BY <1>10 DEF RetryRun
  <2>3. /\ run'[r].status = "queued" /\ run'[r].lease = "null"
        /\ \A q \in Run \ {r} : run'[q] = run[q]
    BY <1>3, <2>1, <2>2
  <2>4. \A w \in Worker : pc[w] # "idle" => wrun[w] # r BY <2>1 DEF HoldInv
  <2>5. HoldInv' BY <1>0, <2>1, <2>3, <2>4 DEF HoldInv
  <2> QED BY <2>1, <2>3, <2>5, RowSlots DEF Occupying
<1> QED BY <1>2, <1>4, <1>5, <1>6, <1>7, <1>8, <1>9, <1>10 DEF Schedule, Human, Api

\* A worker rewrites the row of the run it holds, which has its slot.
LEMMA WorkerHold ==
    ASSUME TypeOK, PlaceInv, HoldInv, NEW w \in Worker,
           Work(w) \/ Heartbeat(w) \/ Crash(w) \/ Shutdown(w)
    PROVE  HoldInv' /\ Active' \subseteq Active
<1> DEFINE r == wrun[w]
           s == idx[w]
<1>0. pc[w] # "idle"
  BY DEF Work, Begin, Start, Preflight, Loop, Skip, StepInvalid, WaitStep, WaitOver, ActionStep,
         ActionRefused, ApprovalRequired, Effect, StepCompleted, StepFailed, DispatchFailure,
         AfterFailure, FailRun, CompleteRun, Heartbeat, Crash, Shutdown
<1>1. /\ r \in Run /\ LocalOK /\ run \in [Run -> RunRow] /\ run[r] \in RunRow
      /\ run[r].token = w /\ run[r].lease = "live"
      /\ run[r].status = IF pc[w] \in {"claimed", "starting"} THEN "queued" ELSE "running"
  BY <1>0 DEF PlaceInv, TypeOK, LocalOK, HoldInv
<1>2. r \in Active BY <1>1 DEF Active, Occupying
<1>3. \A v \in Worker \ {w} : pc[v] # "idle" => wrun[v] # r BY <1>1 DEF HoldInv
<1>4. /\ api.op = "retry" => api.run \in Run /\ api.run # r
      /\ \A v \in Worker : pc[v] # "idle" => wrun[v] \in Run
  BY <1>1 DEF HoldInv, TypeOK, NoApi, PlaceInv
<1>5. ASSUME Others(w), api' = api, \A q \in Run \ {r} : run'[q] = run[q],
             run'[r].status \in {"absent", "failed"} => run'[r].lease = "null",
             \/ pc'[w] = "idle"
             \/ /\ wrun'[w] = r /\ run'[r].token = w /\ run'[r].lease = "live"
                /\ run'[r].status = IF pc'[w] \in {"claimed", "starting"} THEN "queued" ELSE "running"
      PROVE  HoldInv' /\ Active' \subseteq Active
  <2>1. HoldInv' BY <1>3, <1>4, <1>5 DEF HoldInv, Others, Same
  <2> QED BY <1>1, <1>2, <1>5, <2>1, RowSlots
<1>6. CASE \/ WaitStep(w) \/ ApprovalRequired(w) \/ FailRun(w) \/ CompleteRun(w)
           \/ Preflight(w) \/ DispatchFailure(w) \/ Shutdown(w)
  <2>1. Others(w) /\ api' = api /\ pc'[w] = "idle" BY <1>6, GiveUpMove
  <2>2. \E status, cur : Unleased(r, status, cur)
    BY <1>1, <1>6 DEF WaitStep, ApprovalRequired, FailRun, CompleteRun, Preflight, DispatchFailure, Shutdown
  <2>3. run'[r].lease = "null" /\ \A q \in Run \ {r} : run'[q] = run[q] BY <1>1, <2>2 DEF Unleased
  <2> QED BY <1>5, <2>1, <2>3
<1>7. CASE Start(w)
  <2>1. /\ Others(w) /\ api' = api /\ pc'[w] = "loop" /\ wrun' = wrun
        /\ run'[r].status = "running" /\ run'[r].token = run[r].token
        /\ \A q \in Run \ {r} : run'[q] = run[q]
    BY <1>7, StartMove
  <2>2. run'[r].lease = run[r].lease BY <1>1, <1>7 DEF Start, RunRow
  <2> QED BY <1>1, <1>5, <2>1, <2>2
<1>8. CASE \/ Begin(w) \/ Loop(w) \/ Skip(w) \/ StepInvalid(w) \/ WaitOver(w) \/ ActionStep(w)
           \/ ActionRefused(w) \/ Effect(w) \/ StepCompleted(w) \/ StepFailed(w) \/ AfterFailure(w)
           \/ Crash(w) \/ Heartbeat(w)
  <2>1. Others(w) /\ api' = api BY <1>8, QuietMove
  <2>2. run' = run \/ run' = [run EXCEPT ![r].cur = s]
    BY <1>1, <1>8 DEF Begin, Loop, Skip, StepInvalid, WaitOver, ActionStep, ActionRefused, Effect,
                      StepCompleted, StepFailed, AfterFailure, Crash, Heartbeat
  <2>3. /\ run'[r].status = run[r].status /\ run'[r].token = w /\ run'[r].lease = "live"
        /\ \A q \in Run \ {r} : run'[q] = run[q]
    BY <1>1, <2>2 DEF RunRow
  <2>4. \/ pc'[w] = "idle"
        \/ wrun'[w] = r /\ (pc'[w] \in {"claimed", "starting"} <=> pc[w] \in {"claimed", "starting"})
    <3>1. CASE Finished(w) BY <1>1, <3>1, FinishedAt
    <3>2. CASE Heartbeat(w) BY <3>2 DEF Heartbeat
    <3>3. CASE Begin(w) /\ Goto(w, "starting") BY <1>1, <3>3 DEF Begin, Goto, LocalOK
    <3>4. CASE pc[w] \notin {"claimed", "starting"}
               /\ (NextStep(w) \/ \E label \in WorkerPC \ {"claimed", "starting"} : Goto(w, label))
      BY <1>1, <3>4 DEF NextStep, Goto, LocalOK
    <3> QED
      BY <1>8, <3>1, <3>2, <3>3, <3>4
         DEF Begin, Loop, Skip, StepInvalid, WaitOver, ActionStep, ActionRefused, Effect,
             StepCompleted, StepFailed, AfterFailure, Crash, WorkerPC
  <2> QED BY <1>1, <1>5, <2>1, <2>3, <2>4
<1> QED BY <1>6, <1>7, <1>8 DEF Work

\* A claim serves no more runs than its count left room for.
LEMMA ClaimFits ==
    ASSUME TypeOK, Limit > 0
    PROVE  /\ IsFiniteSet(Claimed) /\ IsFiniteSet(claim.counted)
           /\ Cardinality(Claimed) <= Available /\ Available \in Nat
<1>1. claim.counted \in SUBSET Run /\ RunCount \in Int BY WorkflowAssumption DEF TypeOK
<1>2. IsFiniteSet(Run) BY <1>1, FS_Interval DEF Run
<1>3. IsFiniteSet(claim.counted) BY <1>1, <1>2, FS_Subset
<1>4. Cardinality(claim.counted) \in Nat BY <1>3, FS_CardinalityType
<1>5. Available \in Nat BY <1>4, WorkflowAssumption DEF Available
<1>6. Claimed \in SUBSET Claimable /\ \A r \in Claimed : QueuePosition(r) < Available BY DEF Claimed
<1> QED BY <1>3, <1>5, <1>6, FirstOfQueue

\* A claim gives out no more slots than are free.
LEMMA ClaimHold ==
    ASSUME TypeOK, PlaceInv, HoldInv, SlotInv, ClaimRuns
    PROVE  (HoldInv /\ SlotInv)'
<1>1. Claimed \subseteq Run /\ Surplus \subseteq Run /\ FreeWorker \subseteq Worker
  BY DEF Claimable, Claimed, Surplus, FreeWorker
<1>2. \A r \in Claimed \cup Surplus : run[r].status = "queued" /\ run[r].lease # "live"
  BY DEF Claimable, Claimed, Surplus
<1>3. PICK w \in [Claimed -> FreeWorker], dropped \in SUBSET Surplus :
         /\ \A r, q \in Claimed : r # q => w[r] # w[q]
         /\ run' = [r \in Run |->
              IF r \in Claimed THEN [run[r] EXCEPT !.token = w[r], !.lease = "live"]
              ELSE IF r \in dropped
                THEN [run[r] EXCEPT !.status = "cancelled", !.token = None, !.lease = "null"]
              ELSE run[r]]
         /\ pc' = [v \in Worker |-> IF \E r \in Claimed : w[r] = v THEN "claimed" ELSE pc[v]]
         /\ wrun' = [v \in Worker |-> IF \E r \in Claimed : w[r] = v
                                        THEN CHOOSE r \in Claimed : w[r] = v ELSE wrun[v]]
  BY ClaimForm
<1>4. api' = api BY DEF ClaimRuns
<1>5. Limit > 0 => /\ IsFiniteSet(Claimed) /\ IsFiniteSet(claim.counted)
                   /\ Cardinality(Claimed) <= Available
  BY ClaimFits
<1>6. \A r \in Run : run[r] \in RunRow BY DEF TypeOK
<1>7. \A r \in Claimed : /\ w[r] \in Worker /\ pc[w[r]] = "idle"
                         /\ run'[r].status = "queued" /\ run'[r].token = w[r] /\ run'[r].lease = "live"
  BY <1>1, <1>2, <1>3, <1>6 DEF RunRow, FreeWorker
<1>8. \A r \in dropped \ Claimed : run'[r].status = "cancelled" BY <1>1, <1>3, <1>6 DEF RunRow
<1>9. \A r \in Run \ (Claimed \cup dropped) : run'[r] = run[r] BY <1>3
<1>10. ASSUME NEW v \in Worker, pc'[v] # "idle"
       PROVE  /\ run'[wrun'[v]].token = v /\ run'[wrun'[v]].lease = "live"
              /\ run'[wrun'[v]].status = IF pc'[v] \in {"claimed", "starting"} THEN "queued" ELSE "running"
  <2>1. CASE \E r \in Claimed : w[r] = v
    <3>1. wrun'[v] \in Claimed /\ w[wrun'[v]] = v /\ pc'[v] = "claimed" BY <1>3, <2>1
    <3> QED BY <1>7, <3>1
  <2>2. CASE ~\E r \in Claimed : w[r] = v
    <3>1. pc'[v] = pc[v] /\ wrun'[v] = wrun[v] BY <1>3, <2>2
    <3>2. wrun[v] \in Run \ (Claimed \cup dropped) BY <1>2, <1>10, <3>1 DEF HoldInv, PlaceInv
    <3> QED BY <1>9, <1>10, <3>1, <3>2 DEF HoldInv
  <2> QED BY <2>1, <2>2
<1>11. HoldInv'
  <2>1. \A r \in Run : run'[r].status \in {"absent", "failed"} => run'[r].lease = "null"
    BY <1>7, <1>8, <1>9 DEF HoldInv
  <2>2. api.op = "retry" => run'[api.run].status = "failed"
    BY <1>2, <1>9 DEF HoldInv, TypeOK, NoApi
  <2> QED BY <1>4, <1>10, <2>1, <2>2 DEF HoldInv
<1>12. SlotInv'
  <2>0. claim' = NoClaim BY DEF ClaimRuns
  <2> SUFFICES ASSUME Limit > 0 PROVE Cardinality(Active') <= Limit
    BY <2>0 DEF SlotInv, NoClaim
  <2>1. Active' \in SUBSET (Active \cup Claimed)
    BY <1>7, <1>8, <1>9 DEF Active, Occupying
  <2>2. /\ IsFiniteSet(Claimed) /\ IsFiniteSet(claim.counted) /\ Cardinality(Claimed) <= Available
        /\ Active \subseteq claim.counted
    BY <1>5 DEF SlotInv, ClaimRuns
  <2>3. IsFiniteSet(Active) /\ Cardinality(Active) <= Cardinality(claim.counted) BY <2>2, FS_Subset
  <2>4. Active \cap Claimed = {} BY <1>2 DEF Active, Occupying
  <2>5. /\ IsFiniteSet(Active \cup Claimed)
        /\ Cardinality(Active \cup Claimed) = Cardinality(Active) + Cardinality(Claimed)
    <3>1. /\ IsFiniteSet(Active \cup Claimed)
          /\ Cardinality(Active \cup Claimed)
               = Cardinality(Active) + Cardinality(Claimed) - Cardinality(Active \cap Claimed)
      BY <2>2, <2>3, FS_Union
    <3>2. Cardinality(Active \cap Claimed) = 0 BY <2>4, FS_EmptySet
    <3>3. Cardinality(Active) \in Nat /\ Cardinality(Claimed) \in Nat BY <2>2, <2>3, FS_CardinalityType
    <3> QED BY <3>1, <3>2, <3>3
  <2>6. IsFiniteSet(Active') /\ Cardinality(Active') <= Cardinality(Active \cup Claimed)
    BY <2>1, <2>5, FS_Subset
  <2>7. /\ Cardinality(Active) \in Nat /\ Cardinality(Claimed) \in Nat
        /\ Cardinality(Active') \in Nat /\ Cardinality(Active \cup Claimed) \in Nat
        /\ Cardinality(claim.counted) \in Nat
    BY <2>2, <2>3, <2>5, <2>6, FS_CardinalityType
  <2>8. Cardinality(Active) <= Limit BY DEF SlotInv
  <2>9. Available = IF Cardinality(claim.counted) >= Limit THEN 0 ELSE Limit - Cardinality(claim.counted)
    BY WorkflowAssumption DEF Available
  <2> QED BY <2>2, <2>3, <2>5, <2>6, <2>7, <2>8, <2>9, WorkflowAssumption
<1> QED BY <1>11, <1>12

\* Whatever replicas, crashes, waits and retries do, the runs under way never exceed
\* the limit of their workflow, as long as heartbeats are in time and nobody cancels: a
\* worker that starts a run after its lease ran out or the run was cancelled puts it
\* back under way in a slot that may be taken.
THEOREM LimitHolds == NoLateStart => (Spec => []ConcurrencyLimit)
<1> SUFFICES ASSUME NoLateStart PROVE Spec => []ConcurrencyLimit
  OBVIOUS
<1> DEFINE Inv == TypeOK /\ PlaceInv /\ HoldInv /\ SlotInv
<1>1. Init => HoldInv /\ SlotInv
  <2> SUFFICES ASSUME Init PROVE HoldInv /\ SlotInv
    OBVIOUS
  <2>1. HoldInv BY DEF Init, HoldInv, NoApi
  <2>2. Active = {} BY DEF Init, Active, Occupying
  <2>3. claim = NoClaim BY DEF Init
  <2> QED BY <2>1, <2>2, <2>3, FS_EmptySet, WorkflowAssumption DEF SlotInv
<1>2. ASSUME Inv, [Next]_vars PROVE (HoldInv /\ SlotInv)'
  <2>1. CASE ClaimRuns BY <1>2, <2>1, ClaimHold
  <2>2. CASE ~ClaimRuns
    <3>1. HoldInv' /\ Active' \subseteq Active BY <1>2, <2>2, SystemHold, WorkerHold DEF Next
    <3> QED BY <1>2, <2>2, <3>1, ClaimKept, SlotsKept
  <2> QED BY <2>1, <2>2
<1>3. Inv /\ [Next]_vars => Inv' BY <1>2, TypeStep
<1>4. Inv => ConcurrencyLimit
  <2> SUFFICES ASSUME SlotInv, Limit > 0
               PROVE  Cardinality({r \in Run : run[r].status \in Occupying}) <= Limit
    BY DEF ConcurrencyLimit, Occupying
  <2>1. Active \in SUBSET Run /\ RunCount \in Int BY WorkflowAssumption DEF Active
  <2>2. IsFiniteSet(Run) BY <2>1, FS_Interval DEF Run
  <2>3. IsFiniteSet(Active) BY <2>1, <2>2, FS_Subset
  <2> DEFINE under == {r \in Run : run[r].status \in Occupying}
  <2>4. under \in SUBSET Active BY DEF Active
  <2>5. IsFiniteSet(under) /\ Cardinality(under) <= Cardinality(Active) BY <2>3, <2>4, FS_Subset
  <2>6. Cardinality(under) \in Nat /\ Cardinality(Active) \in Nat BY <2>3, <2>5, FS_CardinalityType
  <2> QED BY <2>5, <2>6, WorkflowAssumption DEF SlotInv
<1> QED BY TypeInit, <1>1, <1>3, <1>4, PTL DEF Spec

-----------------------------------------------------------------------------
(* Effects are repeated on request only.                                   *)

\* A step that has had as many effects as it may have, and is not recorded so.
Unsettled(r, s) == Cardinality(effects[r][s]) > retries[r] /\ ~Resolved(r, s)

\* A worker about to run a step may run it.  A run with an unsettled step is given
\* to nobody, and who is still there is the worker that had the effect, or finds out
\* at its next ownership check that the run is not its own.
ReplayInv ==
    /\ \A r \in Run, s \in StepId : /\ IsFiniteSet(effects[r][s])
                                    /\ Cardinality(effects[r][s]) <= 1 + retries[r]
    /\ \A w \in Worker : pc[w] \in {"step", "kernel"} =>
         Cardinality(effects[wrun[w]][idx[w]]) <= retries[wrun[w]]
    /\ \A r \in Run, s \in StepId : Unsettled(r, s) =>
         /\ run[r].status \notin Waiting
         /\ \A w \in Worker : pc[w] # "idle" /\ wrun[w] = r =>
              \/ pc[w] \in {"claimed", "starting", "loop"} /\ run[r].token # w
              \/ pc[w] \in {"effect", "after", "fail"} /\ idx[w] = s

\* A step of worker w that writes no effect: it leaves no step of another run open
\* that was not, gives no run with an unsettled step to anybody, and goes itself
\* only where the effects allow it.
LEMMA ReplayKept ==
    ASSUME TypeOK, PlaceInv, ReplayInv, NEW w \in Worker, Others(w), UNCHANGED <<effects, retries>>,
           \A q \in Run, t \in StepId : Resolved(q, t) => Resolved(q, t)',
           \A q \in Run, t \in StepId : Unsettled(q, t) /\ Unsettled(q, t)' =>
             run'[q].status \notin Waiting /\ run'[q].token \in {run[q].token, None},
           pc'[w] # "idle" => wrun'[w] = wrun[w],
           pc'[w] \in {"step", "kernel"} =>
             /\ idx'[w] = idx[w]
             /\ Cardinality(effects[wrun[w]][idx[w]]) <= retries[wrun[w]],
           \A t \in StepId : pc'[w] # "idle" /\ Unsettled(wrun[w], t) /\ Unsettled(wrun[w], t)' =>
             \/ pc'[w] \in {"claimed", "starting", "loop"} /\ run'[wrun[w]].token # w
             \/ pc'[w] \in {"effect", "after", "fail"} /\ idx'[w] = t
    PROVE  ReplayInv'
<1>1. None \notin Worker BY WorkflowAssumption
<1>2. \A q \in Run, t \in StepId : Unsettled(q, t)' => Unsettled(q, t)
  BY DEF Unsettled
<1>3. \A r \in Run, s \in StepId : (IsFiniteSet(effects[r][s]) /\ Cardinality(effects[r][s]) <= 1 + retries[r])'
  BY DEF ReplayInv
<1>4. \A v \in Worker : pc'[v] \in {"step", "kernel"} =>
        Cardinality(effects'[wrun'[v]][idx'[v]]) <= retries'[wrun'[v]]
  BY DEF ReplayInv, Others, Same
<1>5. ASSUME NEW q \in Run, NEW t \in StepId, Unsettled(q, t)'
      PROVE  /\ run'[q].status \notin Waiting
             /\ \A v \in Worker : pc'[v] # "idle" /\ wrun'[v] = q =>
                  \/ pc'[v] \in {"claimed", "starting", "loop"} /\ run'[q].token # v
                  \/ pc'[v] \in {"effect", "after", "fail"} /\ idx'[v] = t
  <2>1. Unsettled(q, t) BY <1>2, <1>5
  <2>2. run'[q].status \notin Waiting /\ run'[q].token \in {run[q].token, None} BY <1>5, <2>1
  <2>3. ASSUME NEW v \in Worker, pc'[v] # "idle", wrun'[v] = q
        PROVE  \/ pc'[v] \in {"claimed", "starting", "loop"} /\ run'[q].token # v
               \/ pc'[v] \in {"effect", "after", "fail"} /\ idx'[v] = t
    <3>1. CASE v = w BY <1>5, <2>1, <2>3, <3>1
    <3>2. CASE v # w
      <4>1. Same(v) BY <3>2 DEF Others
      <4>2. \/ pc[v] \in {"claimed", "starting", "loop"} /\ run[q].token # v
            \/ pc[v] \in {"effect", "after", "fail"} /\ idx[v] = t
        BY <2>1, <2>3, <4>1 DEF ReplayInv, Same
      <4> QED BY <1>1, <2>2, <4>1, <4>2 DEF Same
    <3> QED BY <3>1, <3>2
  <2> QED BY <2>2, <2>3
<1> QED BY <1>3, <1>4, <1>5 DEF ReplayInv

\* Steps outside the workers, cancellations aside, keep ReplayInv: the scheduler
\* touches runs that wait or stops them, and a retry allows one more effect.
LEMMA SystemReplay ==
    ASSUME TypeOK, PlaceInv, OwnerInv, DepInv, ReplayInv, "cancel" \notin Events,
           \/ UNCHANGED vars \/ CountActive
           \/ \E r \in Run : \/ Enqueue(r) \/ Schedule(r) \/ Human(r)
                             \/ RequestCancel(r) \/ RequestRetry(r)
           \/ Api
    PROVE  ReplayInv'
<1>0. /\ run \in [Run -> RunRow] /\ step \in [Run -> [StepId -> StepRow]] /\ None \notin Worker
      /\ retries \in [Run -> 0..MaxRetries] /\ effects \in [Run -> [StepId -> SUBSET Nat]]
      /\ MaxRetries \in Nat
  BY WorkflowAssumption DEF TypeOK
<1>1. ~CancelRun /\ \A r \in Run : ~RequestCancel(r) BY DEF CancelRun, RequestCancel, DepInv
<1>2. UNCHANGED <<pc, wrun, idx, effects>>
  BY <1>1 DEF vars, CountActive, Enqueue, Schedule, Release, MarkOrphaned, Expire, Human, Decide, Elapse,
              RequestRetry, Api, RetryRun
<1>3. ASSUME retries' = retries,
             \A q \in Run, t \in StepId : Unsettled(q, t)' => Unsettled(q, t),
             \A q \in Run, t \in StepId : Unsettled(q, t) =>
               run'[q].status \notin Waiting /\ run'[q].token \in {run[q].token, None}
      PROVE  ReplayInv'
  <2>1. \A w \in Worker : Same(w) BY <1>2 DEF Same
  <2>2. ASSUME NEW q \in Run, NEW t \in StepId, Unsettled(q, t)'
        PROVE  /\ run'[q].status \notin Waiting
               /\ \A v \in Worker : pc'[v] # "idle" /\ wrun'[v] = q =>
                    \/ pc'[v] \in {"claimed", "starting", "loop"} /\ run'[q].token # v
                    \/ pc'[v] \in {"effect", "after", "fail"} /\ idx'[v] = t
    <3>1. Unsettled(q, t) BY <1>3, <2>2
    <3> QED BY <1>0, <1>2, <1>3, <3>1 DEF ReplayInv
  <2> QED BY <1>2, <1>3, <2>2 DEF ReplayInv
<1>4. \A q \in Run, t \in StepId : Unsettled(q, t) => run[q].status \notin Waiting BY DEF ReplayInv
<1>5. step' = step /\ retries' = retries => \A q \in Run, t \in StepId : Unsettled(q, t)' => Unsettled(q, t)
  BY <1>2 DEF Unsettled, Resolved
<1>6. CASE UNCHANGED vars \/ CountActive BY <1>3, <1>4, <1>5, <1>6 DEF vars, CountActive
<1>7. ASSUME NEW r \in Run, Enqueue(r) \/ Release(r) PROVE ReplayInv'
  <2>1. /\ run[r].status \in Waiting /\ run' = [run EXCEPT ![r].status = "queued"]
        /\ step' = step /\ retries' = retries
    BY <1>7 DEF Enqueue, Release, Waiting
  <2>2. \A q \in Run \ {r} : run'[q] = run[q] BY <1>0, <2>1, RowStatusAt
  <2> QED BY <1>3, <1>4, <1>5, <2>1, <2>2
<1>8. ASSUME NEW r \in Run, MarkOrphaned(r) PROVE ReplayInv'
  <2>1. run[r].cur \in StepId \cup {None} /\ "orphaned" \in RunStatus
    BY <1>0 DEF RunRow, RunStatus, Terminal
  <2>2. /\ run'[r].status = "orphaned" /\ run'[r].token = None
        /\ \A q \in Run \ {r} : run'[q] = run[q]
    BY <1>0, <1>8, <2>1, UnleasedAt DEF MarkOrphaned
  <2>3. step' = step /\ retries' = retries /\ "orphaned" \notin Waiting BY <1>8 DEF MarkOrphaned, Waiting
  <2> QED BY <1>3, <1>4, <1>5, <2>2, <2>3
<1>9. ASSUME NEW r \in Run, Expire(r) PROVE ReplayInv'
  <2>1. run[r] \in RunRow BY <1>0
  <2>2. SameRuns BY <1>0, <1>9, <2>1 DEF Expire, SameRuns, RunRow
  <2>3. step' = step /\ retries' = retries BY <1>9 DEF Expire
  <2> QED BY <1>3, <1>4, <1>5, <2>2, <2>3 DEF SameRuns
<1>10. ASSUME NEW r \in Run, NEW s \in StepId, Decide(r, s) \/ Elapse(r, s) PROVE ReplayInv'
  <2>1. step[r][s] \in StepRow BY <1>0
  <2>2. /\ step'[r][s].status = step[r][s].status
        /\ \A t \in StepId \ {s} : step'[r][t] = step[r][t]
        /\ \A q \in Run \ {r} : step'[q] = step[q]
    BY <1>0, <1>10, <2>1 DEF Decide, Elapse, SetStep, StepRow
  <2>3. run' = run /\ retries' = retries BY <1>10 DEF Decide, Elapse
  <2>4. \A q \in Run, t \in StepId : Unsettled(q, t)' => Unsettled(q, t)
    BY <1>2, <2>2, <2>3 DEF Unsettled, Resolved
  <2> QED BY <1>3, <1>4, <2>3, <2>4
<1>11. ASSUME NEW r \in Run, RequestRetry(r) PROVE ReplayInv'
  BY <1>3, <1>4, <1>5, <1>11 DEF RequestRetry
<1>12. CASE RetryRun
  <2> DEFINE r == api.run
  <2>0. api.op = "retry" BY <1>12 DEF RetryRun
  <2>1. r \in Run BY <2>0 DEF TypeOK, NoApi
  <2> DEFINE new == [s \in StepId |-> IF s \in LastFailed(r)
                       THEN [step[r][s] EXCEPT !.status = "pending", !.approval = "none"]
                       ELSE step[r][s]]
  <2>a. step' = [step EXCEPT ![r] = new] BY <1>12 DEF RetryRun
  <2>b. /\ run' = [run EXCEPT ![r].status = "queued"]
        /\ retries' = [retries EXCEPT ![r] = retries[r] + 1]
    BY <1>12 DEF RetryRun
  <2> HIDE DEF new
  <2>2. \A q \in Run \ {r} : run'[q] = run[q] /\ step'[q] = step[q] /\ retries'[q] = retries[q]
    BY <1>0, <2>1, <2>a, <2>b
  <2>3. retries'[r] = retries[r] + 1 /\ retries[r] \in Nat BY <1>0, <2>1, <2>b
  <2>4. \A q \in Run, t \in StepId : /\ IsFiniteSet(effects[q][t]) /\ Cardinality(effects[q][t]) \in Nat
                                    /\ Cardinality(effects[q][t]) <= 1 + retries[q]
    BY FS_CardinalityType DEF ReplayInv
  <2>5. \A q \in Run : retries[q] \in Nat /\ retries'[q] \in Nat /\ retries[q] <= retries'[q]
    BY <1>0, <2>2, <2>3
  <2>6. \A q \in Run, t \in StepId : Unsettled(q, t)' => q # r
    BY <1>2, <2>3, <2>4 DEF Unsettled
  <2>7. \A q \in Run, t \in StepId : Unsettled(q, t)' => Unsettled(q, t) /\ run'[q] = run[q]
    BY <1>2, <2>2, <2>6 DEF Unsettled, Resolved
  <2>8. \A w \in Worker : pc[w] \in {"step", "kernel"} => wrun[w] \in Run /\ idx[w] \in StepId
    BY DEF PlaceInv
  <2>9. \A w \in Worker : pc[w] \in {"step", "kernel"} =>
          Cardinality(effects'[wrun[w]][idx[w]]) <= retries'[wrun[w]]
    <3> SUFFICES ASSUME NEW w \in Worker, pc[w] \in {"step", "kernel"}
                 PROVE  Cardinality(effects'[wrun[w]][idx[w]]) <= retries'[wrun[w]]
      OBVIOUS
    <3>1. Cardinality(effects[wrun[w]][idx[w]]) <= retries[wrun[w]] BY DEF ReplayInv
    <3> QED BY <1>2, <2>4, <2>5, <2>8, <3>1
  <2>10. \A q \in Run, t \in StepId : Cardinality(effects'[q][t]) <= 1 + retries'[q]
    BY <1>2, <2>4, <2>5
  <2>11. ASSUME NEW q \in Run, NEW t \in StepId, Unsettled(q, t)'
        PROVE  /\ run'[q].status \notin Waiting
               /\ \A v \in Worker : pc'[v] # "idle" /\ wrun'[v] = q =>
                    \/ pc'[v] \in {"claimed", "starting", "loop"} /\ run'[q].token # v
                    \/ pc'[v] \in {"effect", "after", "fail"} /\ idx'[v] = t
    <3>1. Unsettled(q, t) /\ run'[q] = run[q] BY <2>7, <2>11
    <3> QED BY <1>2, <3>1 DEF ReplayInv
  <2> QED BY <1>2, <2>4, <2>9, <2>10, <2>11 DEF ReplayInv
<1> QED
  BY <1>1, <1>6, <1>7, <1>8, <1>9, <1>10, <1>11, <1>12 DEF Schedule, Human, Api

\* The claims of the scheduler keep ReplayInv: the runs it touches wait.
LEMMA ClaimReplay ==
    ASSUME TypeOK, PlaceInv, ReplayInv, ClaimRuns
    PROVE  ReplayInv'
<1>1. /\ \A r \in Run : \/ run'[r] = run[r]
                        \/ run[r].status = "queued"
      /\ \A w \in Worker : Same(w) \/ pc'[w] = "claimed"
  BY ClaimMove
<1>2. step' = step /\ effects' = effects /\ retries' = retries BY DEF ClaimRuns
<1>3. \A w \in Worker : pc'[w] # "idle" => Same(w) \/ run[wrun'[w]].status = "queued"
  <2>1. PICK f \in [Claimed -> FreeWorker] :
          /\ pc' = [v \in Worker |-> IF \E r \in Claimed : f[r] = v THEN "claimed" ELSE pc[v]]
          /\ wrun' = [v \in Worker |-> IF \E r \in Claimed : f[r] = v
                                         THEN CHOOSE r \in Claimed : f[r] = v ELSE wrun[v]]
    BY ClaimForm
  <2>2. idx' = idx BY DEF ClaimRuns
  <2>3. \A r \in Claimed : run[r].status = "queued" BY DEF Claimable, Claimed
  <2>4. ASSUME NEW v \in Worker, \E r \in Claimed : f[r] = v PROVE wrun'[v] \in Claimed
    BY <2>1, <2>4
  <2>5. ASSUME NEW v \in Worker, ~\E r \in Claimed : f[r] = v PROVE Same(v)
    BY <2>1, <2>2, <2>5 DEF Same
  <2> QED BY <2>3, <2>4, <2>5
<1>4. ASSUME NEW q \in Run, NEW t \in StepId, Unsettled(q, t)'
      PROVE  /\ run'[q].status \notin Waiting
             /\ \A v \in Worker : pc'[v] # "idle" /\ wrun'[v] = q =>
                  \/ pc'[v] \in {"claimed", "starting", "loop"} /\ run'[q].token # v
                  \/ pc'[v] \in {"effect", "after", "fail"} /\ idx'[v] = t
  <2>1. Unsettled(q, t) BY <1>2, <1>4 DEF Unsettled, Resolved
  <2>2. run[q].status \notin Waiting BY <2>1 DEF ReplayInv
  <2>3. run'[q] = run[q] BY <1>1, <2>2 DEF Waiting
  <2>4. \A v \in Worker : pc'[v] # "idle" /\ wrun'[v] = q => Same(v) BY <1>3, <2>2 DEF Waiting
  <2> QED BY <2>1, <2>2, <2>3, <2>4 DEF ReplayInv, Same
<1>5. \A v \in Worker : pc'[v] \in {"step", "kernel"} =>
        Cardinality(effects'[wrun'[v]][idx'[v]]) <= retries'[wrun'[v]]
  BY <1>1, <1>2 DEF ReplayInv, Same
<1> QED BY <1>2, <1>4, <1>5 DEF ReplayInv

\* A worker that has passed the ownership check, or is about to run its step, works
\* on a run without unsettled steps; one that has had its effect, on one with no
\* other.
LEMMA SettledAt ==
    ASSUME ReplayInv, NEW w \in Worker, NEW t \in StepId, wrun[w] \in Run, Unsettled(wrun[w], t)
    PROVE  /\ pc[w] \notin {"step", "kernel", "end"}
           /\ pc[w] \in {"effect", "after", "fail"} => idx[w] = t
           /\ pc[w] \in {"claimed", "starting", "loop"} => run[wrun[w]].token # w
           /\ run[wrun[w]].status \notin Waiting
BY DEF ReplayInv

\* A worker that ends without writing a step row.
LEMMA EndReplay ==
    ASSUME TypeOK, PlaceInv, ReplayInv, NEW w \in Worker, Others(w), pc'[w] = "idle",
           UNCHANGED <<step, effects, retries>>,
           \A q \in Run, t \in StepId : Unsettled(q, t) =>
             run'[q].status \notin Waiting /\ run'[q].token \in {run[q].token, None}
    PROVE  ReplayInv'
<1>1. \A q \in Run, t \in StepId : Resolved(q, t) => Resolved(q, t)' BY DEF Resolved
<1> QED BY <1>1, ReplayKept

\* Steps of a worker that give the run up keep ReplayInv.
LEMMA GiveUpReplay ==
    ASSUME TypeOK, PlaceInv, DepInv, ReplayInv, NEW w \in Worker,
           \/ WaitStep(w) \/ ApprovalRequired(w) \/ FailRun(w) \/ CompleteRun(w)
           \/ Preflight(w) \/ DispatchFailure(w) \/ Shutdown(w)
    PROVE  ReplayInv'
<1> DEFINE r == wrun[w]
           s == idx[w]
<1>1. /\ Others(w) /\ pc'[w] = "idle" /\ r \in Run /\ run \in [Run -> RunRow]
      /\ step \in [Run -> [StepId -> StepRow]]
  BY GiveUpMove DEF TypeOK
<1>2. \/ run' = run
      \/ run'[r].token = None /\ \A q \in Run \ {r} : run'[q] = run[q]
  BY GiveUpMove
<1>3. UNCHANGED <<effects, retries>>
  BY DEF WaitStep, ApprovalRequired, FailRun, CompleteRun, Preflight, DispatchFailure, Shutdown
<1>4. \A q \in Run, t \in StepId : Unsettled(q, t) => run[q].status \notin Waiting BY DEF ReplayInv
<1>5. CASE WaitStep(w) \/ ApprovalRequired(w)
  <2>1. pc[w] \in {"step", "kernel"} /\ s \in StepId /\ ~Resolved(r, s)
    BY <1>5 DEF WaitStep, ApprovalRequired, PlaceInv, DepInv, AtWork
  <2>2. \A t \in StepId : ~Unsettled(r, t) BY <1>1, <2>1, SettledAt
  <2>3. \E fields : SetStep(r, s, fields) BY <1>5 DEF WaitStep, ApprovalRequired
  <2>4. \A q \in Run, t \in StepId : q # r \/ t # s => step'[q][t] = step[q][t]
    BY <1>1, <2>1, <2>3 DEF SetStep
  <2>5. \A q \in Run, t \in StepId : Resolved(q, t) => Resolved(q, t)' BY <2>1, <2>4 DEF Resolved
  <2>6. \A q \in Run, t \in StepId : Unsettled(q, t) =>
          run'[q].status \notin Waiting /\ run'[q].token \in {run[q].token, None}
    BY <1>2, <1>4, <2>2
  <2> QED BY <1>1, <1>3, <2>5, <2>6, ReplayKept
<1>6. CASE ~(WaitStep(w) \/ ApprovalRequired(w))
  <2>1. step' = step BY <1>6 DEF FailRun, CompleteRun, Preflight, DispatchFailure, Shutdown
  <2>2. \/ run' = run
        \/ pc[w] = "end"
        \/ Unleased(r, "failed", run[r].cur) \/ Unleased(r, "orphaned", run[r].cur)
        \/ run[r].status = "queued"
    BY <1>6 DEF FailRun, CompleteRun, Preflight, DispatchFailure, Shutdown
  <2>3. run[r].cur \in StepId \cup {None} /\ {"failed", "orphaned"} \subseteq RunStatus
    BY <1>1 DEF RunRow, RunStatus, Terminal
  <2>4. Unleased(r, "failed", run[r].cur) \/ Unleased(r, "orphaned", run[r].cur) =>
          run'[r].status \in {"failed", "orphaned"}
    BY <1>1, <2>3, UnleasedAt
  <2>5. ASSUME NEW t \in StepId, Unsettled(r, t) PROVE run' = run \/ run'[r].status \notin Waiting
    <3>1. pc[w] # "end" /\ run[r].status \notin Waiting BY <1>1, <2>5, SettledAt
    <3> QED BY <2>2, <2>4, <3>1 DEF Waiting
  <2>6. \A q \in Run, t \in StepId : Unsettled(q, t) =>
          run'[q].status \notin Waiting /\ run'[q].token \in {run[q].token, None}
    BY <1>1, <1>2, <1>4, <2>5
  <2> QED BY <1>1, <1>3, <2>1, <2>6, EndReplay
<1> QED BY <1>5, <1>6

\* Steps of a worker that write the step it is at, or nothing, keep ReplayInv.
LEMMA QuietReplay ==
    ASSUME TypeOK, PlaceInv, DepInv, ReplayInv, ContinueSteps = {}, NEW w \in Worker,
           \/ Begin(w) \/ Loop(w) \/ Skip(w) \/ StepInvalid(w) \/ WaitOver(w) \/ ActionStep(w)
           \/ ActionRefused(w) \/ StepCompleted(w) \/ StepFailed(w) \/ AfterFailure(w)
           \/ Crash(w) \/ Heartbeat(w)
    PROVE  ReplayInv'
<1> DEFINE r == wrun[w]
           s == idx[w]
<1>0. /\ Others(w) /\ SameRuns /\ LocalOK /\ r \in Run /\ pc[w] # "idle"
      /\ step \in [Run -> [StepId -> StepRow]] /\ s \in Nat /\ StepCount \in Nat
  <2>1. pc[w] # "idle"
    BY DEF Begin, Loop, Skip, StepInvalid, WaitOver, ActionStep, ActionRefused, StepCompleted,
           StepFailed, AfterFailure, Crash, Heartbeat
  <2> QED BY <2>1, QuietMove, WorkflowAssumption DEF TypeOK, LocalOK, PlaceInv
<1>1. UNCHANGED <<effects, retries>>
  BY DEF Begin, Loop, Skip, StepInvalid, WaitOver, ActionStep, ActionRefused, StepCompleted,
         StepFailed, AfterFailure, Crash, Heartbeat
<1>2. \A q \in Run, t \in StepId : Unsettled(q, t) =>
        run'[q].status \notin Waiting /\ run'[q].token \in {run[q].token, None}
  BY <1>0 DEF ReplayInv, SameRuns
<1>3. run'[r].token = run[r].token BY <1>0 DEF SameRuns
<1>4. \A t \in StepId : Unsettled(r, t) =>
        /\ pc[w] \notin {"step", "kernel", "end"}
        /\ pc[w] \in {"effect", "after", "fail"} => s = t
        /\ pc[w] \in {"claimed", "starting", "loop"} => run[r].token # w
        /\ run[r].status \notin Waiting
  BY <1>0, SettledAt
<1>5. step' = step => \A q \in Run, t \in StepId : Resolved(q, t) => Resolved(q, t)' BY DEF Resolved
<1>6. CASE Begin(w) \/ Crash(w) \/ Heartbeat(w) \/ AfterFailure(w)
  <2>1. step' = step BY <1>6 DEF Begin, Crash, Heartbeat, AfterFailure
  <2>2. \/ pc'[w] = "idle" \/ Same(w)
        \/ pc[w] = "claimed" /\ run[r].token = w /\ Goto(w, "starting")
        \/ pc[w] = "after" /\ Goto(w, "fail")
    BY <1>0, <1>6 DEF Begin, Crash, Heartbeat, AfterFailure, Finished, LocalOK, Same
  <2>3. CASE pc'[w] = "idle" BY <1>0, <1>1, <1>2, <2>1, <2>3, EndReplay
  <2>4. CASE pc'[w] # "idle"
    <3>1. pc'[w] # "idle" => wrun'[w] = r /\ idx'[w] = s BY <2>2, <2>4 DEF Same, Goto
    <3>2. pc'[w] \in {"step", "kernel"} => Cardinality(effects[r][s]) <= retries[r]
      BY <1>0, <2>2, <2>4 DEF Same, Goto, LocalOK, ReplayInv
    <3>3. \A t \in StepId : Unsettled(r, t) =>
            \/ pc'[w] \in {"claimed", "starting", "loop"} /\ run'[r].token # w
            \/ pc'[w] \in {"effect", "after", "fail"} /\ idx'[w] = t
      <4>1. ASSUME NEW t \in StepId, Unsettled(r, t), Same(w)
            PROVE  \/ pc'[w] \in {"claimed", "starting", "loop"} /\ run'[r].token # w
                   \/ pc'[w] \in {"effect", "after", "fail"} /\ idx'[w] = t
        BY <1>0, <1>3, <4>1 DEF ReplayInv, Same
      <4>2. ASSUME NEW t \in StepId, Unsettled(r, t), pc[w] = "after", Goto(w, "fail")
            PROVE  pc'[w] = "fail" /\ idx'[w] = t
        BY <1>0, <1>4, <4>2 DEF Goto, LocalOK
      <4> QED BY <1>4, <2>2, <2>4, <4>1, <4>2
    <3> QED BY <1>0, <1>1, <1>2, <1>5, <2>1, <3>1, <3>2, <3>3, ReplayKept
  <2> QED BY <2>3, <2>4
<1>7. CASE Loop(w)
  <2>1. step' = step /\ pc[w] = "loop" BY <1>7 DEF Loop
  <2>2. CASE pc'[w] = "idle" BY <1>0, <1>1, <1>2, <2>1, <2>2, EndReplay
  <2>3. CASE pc'[w] # "idle"
    <3>1. StillOwned(w) BY <1>0, <1>7, <2>3 DEF Loop, Finished, LocalOK
    <3>2. \A t \in StepId : ~Unsettled(r, t) BY <1>4, <2>1, <3>1 DEF StillOwned
    <3>3. wrun' = wrun BY <1>7, <3>1 DEF Loop, Goto, NextStep
    <3>4. ASSUME pc'[w] \in {"step", "kernel"}
          PROVE  idx'[w] = s /\ Cardinality(effects[r][s]) <= retries[r]
      <4>1. ~(s > StepCount) /\ ~Resolved(r, s) /\ Goto(w, "step")
        BY <1>0, <1>7, <3>1, <3>4 DEF Loop, Goto, NextStep, LocalOK
      <4>2. s \in StepId BY <1>0, <4>1 DEF StepId, LocalOK
      <4>3. IsFiniteSet(effects[r][s]) /\ retries[r] \in Nat
        BY <1>0, <4>2, WorkflowAssumption DEF ReplayInv, TypeOK
      <4>4. Cardinality(effects[r][s]) \in Nat BY <4>3, FS_CardinalityType
      <4> QED BY <3>2, <4>1, <4>2, <4>3, <4>4 DEF Unsettled, Goto
    <3> QED BY <1>0, <1>1, <1>2, <1>5, <2>1, <3>2, <3>3, <3>4, ReplayKept
  <2> QED BY <2>2, <2>3
<1>8. CASE \/ Skip(w) \/ StepInvalid(w) \/ WaitOver(w) \/ ActionStep(w) \/ ActionRefused(w)
           \/ StepCompleted(w) \/ StepFailed(w)
  <2>1. pc[w] \in AtWork /\ s \in StepId /\ ~Resolved(r, s)
    BY <1>8 DEF Skip, StepInvalid, WaitOver, ActionStep, ActionRefused, StepCompleted, StepFailed,
                PlaceInv, DepInv, AtWork
  <2>2. step' = step \/ \E fields : SetStep(r, s, fields)
    BY <1>8 DEF Skip, StepInvalid, WaitOver, ActionStep, ActionRefused, StepCompleted, StepFailed
  <2>3. \A q \in Run, t \in StepId : q # r \/ t # s => step'[q][t] = step[q][t]
    BY <1>0, <2>1, <2>2 DEF SetStep
  <2>4. \A q \in Run, t \in StepId : Resolved(q, t) => Resolved(q, t)' BY <2>1, <2>3 DEF Resolved
  <2>5. wrun' = wrun
    BY <1>8 DEF Skip, StepInvalid, WaitOver, ActionStep, ActionRefused, StepCompleted, StepFailed,
                Goto, NextStep
  <2>6. pc'[w] \in {"step", "kernel"} => pc[w] = "step" /\ idx'[w] = s
    BY <1>0, <1>8 DEF Skip, StepInvalid, WaitOver, ActionStep, ActionRefused, StepCompleted, StepFailed,
                      Goto, NextStep, LocalOK
  <2>7. pc[w] = "step" => Cardinality(effects[r][s]) <= retries[r] BY DEF ReplayInv
  <2>8. ASSUME NEW t \in StepId, Unsettled(r, t), Unsettled(r, t)'
        PROVE  pc'[w] \in {"effect", "after", "fail"} /\ idx'[w] = t
    <3>1. pc[w] = "effect" /\ s = t BY <1>4, <2>1, <2>8 DEF AtWork
    <3>2. StepCompleted(w) \/ StepFailed(w)
      BY <1>8, <3>1 DEF Skip, StepInvalid, WaitOver, ActionStep, ActionRefused
    <3>3. ASSUME StepCompleted(w) PROVE FALSE
      <4>1. step[r][s] \in StepRow BY <1>0, <2>1
      <4>2. step'[r][s].status = "completed"
        BY <1>0, <2>1, <3>3, <4>1 DEF StepCompleted, SetStep, StepRow
      <4> QED BY <2>5, <2>8, <3>1, <4>2 DEF Unsettled, Resolved
    <3> QED BY <1>0, <3>1, <3>2, <3>3 DEF StepFailed, Goto, LocalOK
  <2> QED BY <1>0, <1>1, <1>2, <2>4, <2>5, <2>6, <2>7, <2>8, ReplayKept
<1> QED BY <1>6, <1>7, <1>8

\* The effect is the last its step may have, or another may follow: nobody else is
\* at work on the run, and no scheduler gives it away before a human steps in.
LEMMA EffectReplay ==
    ASSUME TypeOK, PlaceInv, OwnerInv, DepInv, ReplayInv, NEW w \in Worker, Effect(w)
    PROVE  ReplayInv'
<1> DEFINE r == wrun[w]
           s == idx[w]
<1>1. /\ Others(w) /\ LocalOK /\ effects \in [Run -> [StepId -> SUBSET Nat]] /\ None \notin Worker
      /\ run' = run /\ step' = step /\ retries' = retries
  BY QuietMove, WorkflowAssumption DEF TypeOK, LocalOK, Effect
<1>2. pc[w] = "kernel" /\ pc'[w] = "effect" /\ wrun' = wrun /\ idx' = idx
  BY <1>1 DEF Effect, Goto, LocalOK
<1>3. r \in Run /\ s \in StepId BY <1>2 DEF PlaceInv
<1>4. /\ effects'[r][s] = effects[r][s] \cup {step[r][s].attempt}
      /\ \A q \in Run, t \in StepId : q # r \/ t # s => effects'[q][t] = effects[q][t]
  BY <1>1, <1>3 DEF Effect
<1>5. IsFiniteSet(effects[r][s]) /\ Cardinality(effects[r][s]) <= retries[r] /\ retries[r] \in Nat
  BY <1>2, <1>3, WorkflowAssumption DEF ReplayInv, TypeOK
<1>6. IsFiniteSet(effects'[r][s]) /\ Cardinality(effects'[r][s]) <= 1 + retries[r]
  <2>1. Cardinality(effects[r][s]) \in Nat BY <1>5, FS_CardinalityType
  <2>2. \A S, x : IsFiniteSet(S) =>
          /\ IsFiniteSet(S \cup {x})
          /\ Cardinality(S \cup {x}) = IF x \in S THEN Cardinality(S) ELSE Cardinality(S) + 1
    BY FS_AddElement
  <2>3. /\ IsFiniteSet(effects[r][s] \cup {step[r][s].attempt})
        /\ Cardinality(effects[r][s] \cup {step[r][s].attempt})
             \in {Cardinality(effects[r][s]), Cardinality(effects[r][s]) + 1}
    BY <1>5, <2>2
  <2> QED BY <1>4, <1>5, <2>1, <2>3
<1>7. ASSUME NEW q \in Run, NEW t \in StepId
      PROVE  IsFiniteSet(effects'[q][t]) /\ Cardinality(effects'[q][t]) <= 1 + retries'[q]
  <2>1. CASE q = r /\ t = s BY <1>1, <1>6, <2>1
  <2>2. CASE q # r \/ t # s
    <3>1. effects'[q][t] = effects[q][t] /\ retries'[q] = retries[q] BY <1>1, <1>4, <2>2
    <3> QED BY <3>1 DEF ReplayInv
  <2> QED BY <2>1, <2>2
<1>8. /\ run[r].token \in {w, None} /\ run[r].status \notin Waiting
      /\ \A v \in Worker : pc[v] \in Executing /\ wrun[v] = r => v = w
  BY <1>2 DEF OwnerInv, Executing
<1>9. \A v \in Worker \ {w} : wrun[v] = r => pc[v] \notin Executing BY <1>8
<1>10. \A v \in Worker : pc'[v] \in {"step", "kernel"} =>
         Cardinality(effects'[wrun'[v]][idx'[v]]) <= retries'[wrun'[v]]
  <2> SUFFICES ASSUME NEW v \in Worker, pc'[v] \in {"step", "kernel"}
               PROVE  Cardinality(effects'[wrun'[v]][idx'[v]]) <= retries'[wrun'[v]]
    OBVIOUS
  <2>1. v # w /\ pc[v] = pc'[v] BY <1>1, <1>2 DEF Others, Same
  <2>2. wrun[v] # r /\ wrun[v] \in Run /\ idx[v] \in StepId
    BY <1>9, <2>1 DEF PlaceInv, Executing
  <2>3. Cardinality(effects[wrun[v]][idx[v]]) <= retries[wrun[v]] BY <2>1 DEF ReplayInv
  <2> QED BY <1>1, <1>2, <1>4, <2>2, <2>3
<1>11. \A t \in StepId : ~Unsettled(r, t) BY <1>2, <1>3, SettledAt
<1>12. ASSUME NEW q \in Run, NEW t \in StepId, Unsettled(q, t)'
       PROVE  /\ run'[q].status \notin Waiting
              /\ \A v \in Worker : pc'[v] # "idle" /\ wrun'[v] = q =>
                   \/ pc'[v] \in {"claimed", "starting", "loop"} /\ run'[q].token # v
                   \/ pc'[v] \in {"effect", "after", "fail"} /\ idx'[v] = t
  <2>1. CASE q = r /\ t = s
    <3>1. \A v \in Worker \ {w} : pc'[v] # "idle" /\ wrun'[v] = q =>
            pc'[v] \in {"claimed", "starting", "loop"} /\ run'[q].token # v
      <4> SUFFICES ASSUME NEW v \in Worker \ {w}, pc'[v] # "idle", wrun'[v] = q
                   PROVE  pc'[v] \in {"claimed", "starting", "loop"} /\ run'[q].token # v
        OBVIOUS
      <4>1. Same(v) BY <1>1 DEF Others
      <4>2. pc[v] \notin Executing /\ pc[v] # "idle" BY <1>9, <2>1, <4>1 DEF Same
      <4>3. pc[v] \in WorkerPC BY <1>1 DEF LocalOK
      <4> QED BY <1>1, <1>8, <2>1, <4>1, <4>2, <4>3 DEF WorkerPC, Executing, Same
    <3> QED BY <1>1, <1>2, <1>8, <2>1, <3>1
  <2>2. CASE q # r \/ t # s
    <3>1. effects'[q][t] = effects[q][t] BY <1>4, <2>2
    <3>2. Unsettled(q, t) BY <1>1, <1>12, <3>1 DEF Unsettled, Resolved
    <3>3. q # r BY <1>11, <3>2
    <3>4. \A v \in Worker : wrun'[v] = q => Same(v) BY <1>1, <1>2, <3>3 DEF Others
    <3> QED BY <1>1, <3>2, <3>4 DEF ReplayInv, Same
  <2> QED BY <2>1, <2>2
<1> QED BY <1>7, <1>10, <1>12 DEF ReplayInv

\* The start of a run keeps ReplayInv.
LEMMA StartReplay ==
    ASSUME TypeOK, PlaceInv, ReplayInv, NEW w \in Worker, Start(w)
    PROVE  ReplayInv'
<1> DEFINE r == wrun[w]
<1>1. /\ Others(w) /\ pc[w] = "starting" /\ pc'[w] = "loop" /\ wrun' = wrun /\ r \in Run
      /\ run'[r].status = "running" /\ run'[r].token = run[r].token
      /\ \A q \in Run \ {r} : run'[q] = run[q]
  BY StartMove
<1>2. step' = step /\ effects' = effects /\ retries' = retries BY DEF Start
<1>3. \A q \in Run, t \in StepId : Resolved(q, t) => Resolved(q, t)' BY <1>2 DEF Resolved
<1>4. \A q \in Run, t \in StepId : Unsettled(q, t) =>
        run'[q].status \notin Waiting /\ run'[q].token \in {run[q].token, None}
  BY <1>1 DEF ReplayInv, Waiting
<1>5. \A t \in StepId : Unsettled(r, t) => run'[r].token # w BY <1>1, SettledAt
<1> QED BY <1>1, <1>2, <1>3, <1>4, <1>5, ReplayKept

\* Every step keeps ReplayInv.
LEMMA ReplayStep ==
    ASSUME TypeOK, PlaceInv, OwnerInv, DepInv, ReplayInv, ContinueSteps = {},
           "cancel" \notin Events, [Next]_vars
    PROVE  ReplayInv'
BY SystemReplay, ClaimReplay, GiveUpReplay, QuietReplay, EffectReplay, StartReplay DEF Next, Work

\* Where every failed action stops its run and nobody cancels, a capability has at most
\* one effect more than humans asked for retries, whatever happens to the workers: the
\* engine never guesses that a write did not happen.
THEOREM NothingIsReplayed ==
    ContinueSteps = {} /\ "cancel" \notin Events /\ NoStalePreflight
    => (Spec => []NoAutomaticReplay)
<1> SUFFICES ASSUME ContinueSteps = {}, "cancel" \notin Events, NoStalePreflight
             PROVE  Spec => []NoAutomaticReplay
  OBVIOUS
<1> DEFINE Inv == TypeOK /\ PlaceInv /\ OwnerInv /\ DepInv /\ ReplayInv
<1>1. Init => OwnerInv BY DEF Init, OwnerInv, Executing, NoApi
<1>2. Init => DepInv BY DEF Init, DepInv, DependenciesFirst, AtWork, NoApi
<1>3. Init => ReplayInv
  <2> SUFFICES ASSUME Init PROVE ReplayInv
    OBVIOUS
  <2>1. \A r \in Run, s \in StepId : effects[r][s] = {} /\ retries[r] = 0 BY DEF Init
  <2>2. IsFiniteSet({}) /\ Cardinality({}) = 0 BY FS_EmptySet
  <2>3. \A r \in Run, s \in StepId : ~Unsettled(r, s) BY <2>1, <2>2 DEF Unsettled
  <2>4. \A w \in Worker : pc[w] = "idle" BY DEF Init
  <2> QED BY <2>1, <2>2, <2>3, <2>4 DEF ReplayInv
<1>4. Inv /\ [Next]_vars => Inv' BY TypeStep, OwnerStep, DepStep, ReplayStep
<1>5. Inv => NoAutomaticReplay BY DEF ReplayInv, NoAutomaticReplay
<1> QED BY TypeInit, <1>1, <1>2, <1>3, <1>4, <1>5, PTL DEF Spec

-----------------------------------------------------------------------------
(* The drop policy.                                                        *)

\* A run that is queued or under way, and one that has begun to execute.
Live(r) == run[r].status \in Occupying \cup {"queued"}
Started(r) == \E s \in StepId : step[r][s].status # "pending"

\* The runs that hold a slot or have begun, and everything before them in the queue.
Needed == {q \in Run : Live(q) /\ \E r \in Run : q <= r /\ Live(r) /\ (r \in Active \/ Started(r))}

\* Runs are created in their order and have begun nothing then.
FreshInv ==
    \A r \in Run : run[r].status = "absent" =>
        ~Started(r) /\ \A q \in Run : r < q => run[q].status = "absent"

\* The limit has room for every run that began and for all that is served before it, with
\* the runs that a claim under way has counted.
QueueInv == Limit > 0 => Cardinality(Needed \cup claim.counted) <= Limit

\* Sets of runs are finite, and a part of one that fits the limit fits it.
LEMMA FitsTheLimit ==
    ASSUME NEW S \in SUBSET Run, NEW T \in SUBSET S, Cardinality(S) <= Limit
    PROVE  Cardinality(T) <= Limit
<1>1. RunCount \in Int /\ Limit \in Nat BY WorkflowAssumption
<1>2. IsFiniteSet(Run) BY <1>1, FS_Interval DEF Run
<1>3. IsFiniteSet(S) BY <1>2, FS_Subset
<1>4. IsFiniteSet(T) /\ Cardinality(T) <= Cardinality(S) BY <1>3, FS_Subset
<1>5. Cardinality(S) \in Nat /\ Cardinality(T) \in Nat BY <1>3, <1>4, FS_CardinalityType
<1> QED BY <1>1, <1>4, <1>5

\* Less is needed, and the count of a claim counts only what is needed.
LEMMA CountKept ==
    ASSUME TypeOK, QueueInv, Needed' \subseteq Needed, claim' = claim \/ CountActive
    PROVE  QueueInv'
<1>1. Needed \cup claim.counted \in SUBSET Run BY DEF Needed, TypeOK
<1>2. Active \subseteq Needed
  <2>1. \A r \in Active : r \in Run /\ Live(r) /\ r <= r
    BY WorkflowAssumption DEF Active, Live, Run
  <2> QED BY <2>1 DEF Needed
<1>3. Needed' \cup claim'.counted \subseteq Needed \cup claim.counted
  <2>1. CASE claim' = claim BY <2>1
  <2>2. CASE CountActive
    <3>1. claim'.counted = Active BY <2>2 DEF CountActive
    <3> QED BY <1>2, <3>1
  <2> QED BY <2>1, <2>2
<1> QED BY <1>1, <1>3, FitsTheLimit DEF QueueInv

\* A step that creates no run, gives no slot and begins only a run that has one.
LEMMA QueueKept ==
    ASSUME TypeOK, FreshInv, QueueInv, Active' \subseteq Active, claim' = claim \/ CountActive,
           \A r \in Run : run'[r].status = "absent" <=> run[r].status = "absent",
           \A r \in Run : Live(r)' => Live(r),
           \A r \in Run : Started(r)' => Started(r) \/ r \in Active
    PROVE  (FreshInv /\ QueueInv)'
<1>1. FreshInv'
  <2>1. \A r \in Run : run[r].status = "absent" => r \notin Active BY DEF Active, Occupying
  <2> QED BY <2>1 DEF FreshInv
<1>2. Needed' \subseteq Needed BY DEF Needed
<1> QED BY <1>1, <1>2, CountKept

\* A run that is created is last in the queue and has begun nothing.
LEMMA EnqueueQueue ==
    ASSUME TypeOK, HoldInv, FreshInv, QueueInv, NEW e \in Run, Enqueue(e)
    PROVE  (FreshInv /\ QueueInv)'
<1>1. /\ run[e] \in RunRow /\ run[e].status = "absent" /\ step' = step
      /\ \A q \in Run : q < e => run[q].status # "absent"
  BY DEF TypeOK, Enqueue
<1>2. /\ run'[e].status = "queued" /\ run'[e].lease = run[e].lease
      /\ \A q \in Run \ {e} : run'[q] = run[q]
  BY <1>1 DEF Enqueue, TypeOK, RunRow
<1>3. run[e].lease = "null" /\ ~Started(e) BY <1>1 DEF HoldInv, FreshInv
<1>4. \A r \in Run : Started(r)' <=> Started(r) BY <1>1 DEF Started
<1>5. FreshInv' BY <1>1, <1>2, <1>4 DEF FreshInv
<1>6. Active' = Active BY <1>1, <1>2, <1>3 DEF Active, Occupying
<1>7. e \notin Active BY <1>1 DEF Active, Occupying
<1>8. \A r \in Run \ {e} : Live(r)' <=> Live(r) BY <1>2 DEF Live
<1>9. \A r \in Run : e <= r /\ r # e => ~Live(r)
  <2>1. \A r \in Run : e <= r /\ r # e => e < r BY WorkflowAssumption DEF Run
  <2> QED BY <1>1, <2>1 DEF FreshInv, Live, Occupying
<1>10. Needed' \subseteq Needed
  <2> SUFFICES ASSUME NEW q \in Needed' PROVE q \in Needed
    OBVIOUS
  <2>1. PICK r \in Run : q \in Run /\ Live(q)' /\ q <= r /\ Live(r)' /\ (r \in Active' \/ Started(r)')
    BY DEF Needed
  <2>2. r # e BY <1>3, <1>4, <1>6, <1>7, <2>1
  <2>3. q # e BY <1>8, <1>9, <2>1, <2>2
  <2> QED BY <1>4, <1>6, <1>8, <2>1, <2>2, <2>3 DEF Needed
<1>11. claim' = claim BY DEF Enqueue
<1> QED BY <1>5, <1>10, <1>11, CountKept

\* What a worker writes: the rows of the run it holds, which it neither removes nor cancels.
LEMMA WorkerRows ==
    ASSUME TypeOK, PlaceInv, HoldInv, NEW w \in Worker,
           Work(w) \/ Heartbeat(w) \/ Crash(w) \/ Shutdown(w)
    PROVE  /\ wrun[w] \in Active
           /\ \A q \in Run \ {wrun[w]} : run'[q] = run[q] /\ step'[q] = step[q]
           /\ run'[wrun[w]].status \notin {"absent", "cancelled"}
<1> DEFINE r == wrun[w]
           s == idx[w]
<1>0. pc[w] # "idle"
  BY DEF Work, Begin, Start, Preflight, Loop, Skip, StepInvalid, WaitStep, WaitOver, ActionStep,
         ActionRefused, ApprovalRequired, Effect, StepCompleted, StepFailed, DispatchFailure,
         AfterFailure, FailRun, CompleteRun, Heartbeat, Crash, Shutdown
<1>1. /\ r \in Run /\ run \in [Run -> RunRow] /\ run[r] \in RunRow /\ run[r].lease = "live"
      /\ step \in [Run -> [StepId -> StepRow]]
      /\ run[r].status \in {"queued", "running"}
  BY <1>0 DEF PlaceInv, TypeOK, HoldInv
<1>2. r \in Active BY <1>1 DEF Active, Occupying
<1>3. \A q \in Run \ {r} : step'[q] = step[q]
  <2>1. step' = step \/ \E fields : SetStep(r, s, fields)
    BY DEF Work, Begin, Start, Preflight, Loop, Skip, StepInvalid, WaitStep, WaitOver, ActionStep,
           ActionRefused, ApprovalRequired, Effect, StepCompleted, StepFailed, DispatchFailure,
           AfterFailure, FailRun, CompleteRun, Heartbeat, Crash, Shutdown
  <2> QED BY <1>1, <2>1 DEF SetStep
<1>4. CASE \/ WaitStep(w) \/ ApprovalRequired(w) \/ FailRun(w) \/ CompleteRun(w)
           \/ Preflight(w) \/ DispatchFailure(w) \/ Shutdown(w)
  <2>1. run' = run \/ \E cur : \E status \in RunStatus \ {"absent", "cancelled"} : Unleased(r, status, cur)
    BY <1>4 DEF WaitStep, ApprovalRequired, FailRun, CompleteRun, Preflight, DispatchFailure,
                Shutdown, RunStatus, Terminal
  <2>2. /\ run'[r].status \notin {"absent", "cancelled"}
        /\ \A q \in Run \ {r} : run'[q] = run[q]
    <3>1. CASE run' = run BY <1>1, <3>1
    <3>2. ASSUME NEW cur, NEW status \in RunStatus \ {"absent", "cancelled"}, Unleased(r, status, cur)
          PROVE  run'[r].status = status /\ \A q \in Run \ {r} : run'[q] = run[q]
      BY <1>1, <3>2 DEF Unleased
    <3> QED BY <2>1, <3>1, <3>2
  <2> QED BY <1>2, <1>3, <2>2
<1>5. CASE Start(w) BY <1>1, <1>2, <1>3, <1>5 DEF Start, RunRow
<1>6. CASE \/ Begin(w) \/ Loop(w) \/ Skip(w) \/ StepInvalid(w) \/ WaitOver(w) \/ ActionStep(w)
           \/ ActionRefused(w) \/ Effect(w) \/ StepCompleted(w) \/ StepFailed(w) \/ AfterFailure(w)
           \/ Crash(w) \/ Heartbeat(w)
  <2>1. run' = run \/ run' = [run EXCEPT ![r].cur = s]
    BY <1>1, <1>6 DEF Begin, Loop, Skip, StepInvalid, WaitOver, ActionStep, ActionRefused, Effect,
                      StepCompleted, StepFailed, AfterFailure, Crash, Heartbeat
  <2> QED BY <1>1, <1>2, <1>3, <2>1 DEF RunRow
<1> QED BY <1>4, <1>5, <1>6 DEF Work

\* What the steps outside the workers write, but for claims and new runs, when nobody
\* cancels or retries: a run that pauses is queued again, one that lost its worker is
\* orphaned, a lease runs out, a step learns a decision or that its time has come.
LEMMA SystemRows ==
    ASSUME TypeOK, PlaceInv, HoldInv, NoLateStart, "retry" \notin Events,
           \/ UNCHANGED vars \/ CountActive
           \/ \E r \in Run : Schedule(r) \/ Human(r) \/ RequestCancel(r) \/ RequestRetry(r)
           \/ Api
    PROVE  /\ \A r \in Run : \/ run'[r].status = run[r].status
                             \/ Live(r) /\ run'[r].status \in {"queued", "orphaned"}
           /\ \A r \in Run : Started(r)' <=> Started(r)
<1>0. run \in [Run -> RunRow] /\ \A r \in Run : run[r] \in RunRow BY DEF TypeOK
<1>1. ASSUME step' = step PROVE \A r \in Run : Started(r)' <=> Started(r) BY <1>1 DEF Started
<1>2. CASE UNCHANGED vars \/ CountActive BY <1>1, <1>2 DEF vars, CountActive
<1>3. ~Api /\ \A r \in Run : ~RequestCancel(r) /\ ~RequestRetry(r)
  BY DEF Api, CancelRun, RetryRun, RequestCancel, RequestRetry, HoldInv, PlaceInv, NoLateStart
<1>4. ASSUME NEW r \in Run, Schedule(r)
      PROVE  /\ \A q \in Run : \/ run'[q].status = run[q].status
                               \/ Live(q) /\ run'[q].status \in {"queued", "orphaned"}
             /\ step' = step
  BY <1>0, <1>4 DEF Schedule, Release, MarkOrphaned, Expire, Unleased, RunRow, Live, Occupying
<1>5. ASSUME NEW r \in Run, NEW s \in StepId, Decide(r, s) \/ Elapse(r, s)
      PROVE  run' = run /\ \A q \in Run : Started(q)' <=> Started(q)
  <2>1. /\ \A q \in Run, t \in StepId : step[q][t] \in StepRow
        /\ \E fields \in StepRow : fields.status = step[r][s].status /\ SetStep(r, s, fields)
    <3>1. \A q \in Run, t \in StepId : step[q][t] \in StepRow BY DEF TypeOK
    <3>2. \A a \in {"approved", "denied"} :
            /\ [step[r][s] EXCEPT !.approval = a] \in StepRow
            /\ [step[r][s] EXCEPT !.approval = a].status = step[r][s].status
      BY <3>1 DEF StepRow
    <3>3. /\ [step[r][s] EXCEPT !.due = TRUE] \in StepRow
          /\ [step[r][s] EXCEPT !.due = TRUE].status = step[r][s].status
      BY <3>1 DEF StepRow
    <3>4. CASE Decide(r, s)
      <4>1. PICK a \in {"approved", "denied"} : SetStep(r, s, [step[r][s] EXCEPT !.approval = a])
        BY <3>4 DEF Decide
      <4> QED BY <3>1, <3>2, <4>1
    <3>5. CASE Elapse(r, s) BY <3>1, <3>3, <3>5 DEF Elapse
    <3> QED BY <1>5, <3>4, <3>5
  <2>2. \A q \in Run, t \in StepId : step'[q][t].status = step[q][t].status
    BY <2>1 DEF SetStep, TypeOK
  <2> QED BY <1>5, <2>2 DEF Decide, Elapse, Started
<1> QED BY <1>1, <1>2, <1>3, <1>4, <1>5 DEF Human

\* The numbers a claim compares.
LEMMA QueueNumbers ==
    ASSUME TypeOK
    PROVE  /\ Available \in Int /\ claim.budget \in Int
           /\ \A r \in Claimable : QueuePosition(r) \in Int
<1>1. RunCount \in Int /\ Limit \in Nat BY WorkflowAssumption
<1>2. IsFiniteSet(Run) BY <1>1, FS_Interval DEF Run
<1>3. Claimable \in SUBSET Run /\ claim.counted \in SUBSET Run /\ claim.budget \in Nat
  BY DEF Claimable, TypeOK
<1>4. IsFiniteSet(Claimable) /\ IsFiniteSet(claim.counted) BY <1>2, <1>3, FS_Subset
<1>5. ASSUME NEW r \in Claimable PROVE QueuePosition(r) \in Nat
  <2> DEFINE before == {q \in Claimable : q < r}
  <2>1. before \in SUBSET Claimable OBVIOUS
  <2>2. IsFiniteSet(before) BY <1>4, <2>1, FS_Subset
  <2>3. Cardinality(before) \in Nat BY <2>2, FS_CardinalityType
  <2> QED BY <2>3 DEF QueuePosition
<1>6. Cardinality(claim.counted) \in Nat BY <1>4, FS_CardinalityType
<1> QED BY <1>1, <1>3, <1>5, <1>6 DEF Available

\* The claim serves the queue in its order: it leaves alone what holds a slot, cancels
\* nothing that it claims, and claims whatever comes before a run that it claims.
LEMMA ClaimRows ==
    ASSUME TypeOK, ClaimRuns
    PROVE  /\ \A r \in Claimed : run'[r].status = "queued" /\ run'[r].lease = "live"
           /\ \A r \in Claimed, q \in Claimable : q <= r => q \in Claimed
           /\ \A r \in Claimable \ Claimed :
                run'[r].status = "cancelled" => Limit > 0 /\ QueuePosition(r) >= Available
           /\ \A r \in Claimable \ Claimed : run'[r].status = "cancelled" \/ run'[r] = run[r]
           /\ \A r \in Run \ Claimable : run'[r] = run[r]
           /\ step' = step /\ claim' = NoClaim
<1>1. PICK w \in [Claimed -> FreeWorker], dropped \in SUBSET Surplus :
         run' = [r \in Run |->
              IF r \in Claimed THEN [run[r] EXCEPT !.token = w[r], !.lease = "live"]
              ELSE IF r \in dropped
                THEN [run[r] EXCEPT !.status = "cancelled", !.token = None, !.lease = "null"]
              ELSE run[r]]
  BY ClaimForm
<1>2. step' = step /\ claim' = NoClaim BY DEF ClaimRuns
<1>3. \A r \in Claimable : r \in Run /\ r \in Int /\ run[r] \in RunRow /\ run[r].status = "queued"
  BY WorkflowAssumption DEF Claimable, TypeOK, Run
<1>4. /\ RunCount \in Int /\ Claimable \in SUBSET Run
      /\ Claimed \subseteq Claimable /\ dropped \subseteq Claimable \ Claimed
  BY WorkflowAssumption DEF Claimable, Claimed, Surplus
<1>5. IsFiniteSet(Claimable)
  <2>1. IsFiniteSet(Run) BY <1>4, FS_Interval DEF Run
  <2> QED BY <1>4, <2>1, FS_Subset
<1>6. /\ Available \in Int /\ claim.budget \in Int
      /\ \A r \in Claimable : QueuePosition(r) \in Int
  BY QueueNumbers
<1>7. ASSUME NEW r \in Claimed, NEW q \in Claimable, q <= r PROVE q \in Claimed
  <2> DEFINE before(k) == {p \in Claimable : p < k}
  <2>1. before(q) \in SUBSET before(r) BY <1>3, <1>4, <1>7
  <2>2. IsFiniteSet(before(r))
    <3>1. before(r) \in SUBSET Claimable OBVIOUS
    <3> QED BY <1>5, <3>1, FS_Subset
  <2>3. Cardinality(before(q)) <= Cardinality(before(r)) BY <2>1, <2>2, FS_Subset
  <2>4. QueuePosition(q) <= QueuePosition(r) BY <2>3 DEF QueuePosition
  <2>5. QueuePosition(r) < Available /\ QueuePosition(r) < claim.budget /\ r \in Claimable
    BY DEF Claimed
  <2>6. QueuePosition(q) < Available /\ QueuePosition(q) < claim.budget BY <1>6, <2>4, <2>5
  <2> QED BY <2>6 DEF Claimed
<1>8. \A r \in Claimed : run'[r].status = "queued" /\ run'[r].lease = "live"
  BY <1>1, <1>3, <1>4 DEF RunRow
<1>9. \A r \in dropped : run'[r].status = "cancelled" BY <1>1, <1>3, <1>4 DEF RunRow
<1>10. \A r \in Run \ (Claimed \cup dropped) : run'[r] = run[r] BY <1>1
<1>11. \A r \in Claimable \ Claimed :
         run'[r].status = "cancelled" => Limit > 0 /\ QueuePosition(r) >= Available
  <2>1. \A r \in dropped : Limit > 0 /\ QueuePosition(r) >= Available BY DEF Surplus
  <2> QED BY <1>3, <1>10, <2>1
<1>12. \A r \in Claimable \ Claimed : run'[r].status = "cancelled" \/ run'[r] = run[r]
  BY <1>3, <1>9, <1>10
<1>13. \A r \in Run \ Claimable : run'[r] = run[r] BY <1>4, <1>10
<1> QED BY <1>2, <1>7, <1>8, <1>11, <1>12, <1>13

\* Either the claim serves no more than what the limit has room for already, or all
\* that is needed afterwards was counted or is served now.
LEMMA ClaimQueue ==
    ASSUME TypeOK, PlaceInv, HoldInv, FreshInv, QueueInv, SlotInv, ClaimRuns
    PROVE  (FreshInv /\ QueueInv)'
<1>1. /\ \A r \in Claimed : run'[r].status = "queued" /\ run'[r].lease = "live"
      /\ \A r \in Claimed, q \in Claimable : q <= r => q \in Claimed
      /\ \A r \in Claimable \ Claimed : run'[r].status = "cancelled" \/ run'[r] = run[r]
      /\ \A r \in Run \ Claimable : run'[r] = run[r]
      /\ step' = step /\ claim' = NoClaim /\ Claimed \subseteq Claimable
  BY ClaimRows DEF Claimed
<1>2. \A r \in Claimable : r \in Run /\ run[r].status = "queued" /\ Live(r) /\ r \notin Active
  BY DEF Claimable, Live, Active, Occupying
<1>3. Active \subseteq claim.counted /\ claim.counted \in SUBSET Run
  BY DEF SlotInv, ClaimRuns, TypeOK
<1>4. \A r \in Run : Live(r) => r \in claim.counted \/ r \in Claimable
  <2>1. \A r \in Run : run[r] \in RunRow BY DEF TypeOK
  <2> QED BY <1>3, <2>1 DEF Claimable, Live, Active, RunRow
<1>5. \A r \in Run : Started(r)' <=> Started(r) BY <1>1 DEF Started
<1>6. FreshInv'
  <2>1. \A r \in Run : run'[r].status = "absent" <=> run[r].status = "absent" BY <1>1, <1>2
  <2> QED BY <1>5, <2>1 DEF FreshInv
<1>7. \A r \in Run : Live(r)' => Live(r) BY <1>1, <1>2 DEF Live, Occupying
<1>8. \A r \in Run : r \in Active' => r \in Active \cup Claimed
  <2>1. \A r \in Run \ Claimable : r \in Active' <=> r \in Active BY <1>1 DEF Active
  <2>2. \A r \in Claimable \ Claimed : r \notin Active'
    BY <1>1, <1>2 DEF Active, Occupying, Claimable
  <2> QED BY <2>1, <2>2
<1>9. Needed' \subseteq Needed \cup claim.counted \cup Claimed
  <2> SUFFICES ASSUME NEW q \in Needed' PROVE q \in Needed \cup claim.counted \cup Claimed
    OBVIOUS
  <2>1. PICK r \in Run : q \in Run /\ Live(q)' /\ q <= r /\ Live(r)' /\ (r \in Active' \/ Started(r)')
    BY DEF Needed
  <2>2. Live(q) /\ Live(r) BY <1>7, <2>1
  <2>3. CASE r \in Active \/ Started(r) BY <2>1, <2>2, <2>3 DEF Needed
  <2>4. CASE r \in Claimed BY <1>1, <1>4, <2>1, <2>2, <2>4
  <2> QED BY <1>5, <1>8, <2>1, <2>3, <2>4
<1>10. QueueInv' <=> (Limit > 0 => Cardinality(Needed') <= Limit)
  <2>1. Needed' \cup claim'.counted = Needed' BY <1>1 DEF NoClaim
  <2> QED BY <2>1 DEF QueueInv
<1> SUFFICES ASSUME Limit > 0 PROVE Cardinality(Needed') <= Limit
  BY <1>6, <1>10
<1>11. CASE Claimed \subseteq Needed
  <2>1. Needed' \in SUBSET (Needed \cup claim.counted) BY <1>9, <1>11
  <2>2. Needed \cup claim.counted \in SUBSET Run BY <1>3 DEF Needed
  <2> QED BY <2>1, <2>2, FitsTheLimit DEF QueueInv
<1>12. CASE ~(Claimed \subseteq Needed)
  <2>1. PICK c \in Claimed : c \notin Needed BY <1>12
  <2>2. c \in Run /\ Live(c) BY <1>1, <1>2, <2>1
  <2>3. ASSUME NEW q \in Needed PROVE q \in claim.counted \cup Claimed
    <3>1. PICK r \in Run : q \in Run /\ Live(q) /\ q <= r /\ Live(r) /\ (r \in Active \/ Started(r))
      BY DEF Needed
    <3>2. ~(c <= r) BY <2>1, <2>2, <3>1 DEF Needed
    <3>3. q <= c BY <2>2, <3>1, <3>2, WorkflowAssumption DEF Run
    <3> QED BY <1>1, <1>4, <2>1, <3>1, <3>3
  <2>4. Needed' \in SUBSET (claim.counted \cup Claimed) BY <1>9, <2>3
  <2>5. claim.counted \cup Claimed \in SUBSET Run BY <1>1, <1>2, <1>3
  <2>6. Cardinality(claim.counted \cup Claimed) <= Limit
    <3>1. /\ IsFiniteSet(Claimed) /\ IsFiniteSet(claim.counted)
          /\ Cardinality(Claimed) <= Available /\ Available \in Nat
      BY ClaimFits
    <3>2. Available > 0
      <4>1. QueuePosition(c) < Available /\ c \in Claimable BY <2>1 DEF Claimed
      <4>2. QueuePosition(c) \in Nat
        <5>1. IsFiniteSet({q \in Claimable : q < c})
          <6>1. {q \in Claimable : q < c} \in SUBSET Run BY <1>2
          <6>2. RunCount \in Int BY WorkflowAssumption
          <6>3. IsFiniteSet(Run) BY <6>2, FS_Interval DEF Run
          <6> QED BY <6>1, <6>3, FS_Subset
        <5> QED BY <5>1, FS_CardinalityType DEF QueuePosition
      <4> QED BY <3>1, <4>1, <4>2
    <3>3. /\ Cardinality(Claimed) \in Nat /\ Cardinality(claim.counted) \in Nat
          /\ Cardinality(claim.counted \cap Claimed) \in Nat
      <4>1. IsFiniteSet(claim.counted \cap Claimed)
        <5>1. claim.counted \cap Claimed \in SUBSET claim.counted OBVIOUS
        <5> QED BY <3>1, <5>1, FS_Subset
      <4> QED BY <3>1, <4>1, FS_CardinalityType
    <3>4. /\ IsFiniteSet(claim.counted \cup Claimed)
          /\ Cardinality(claim.counted \cup Claimed)
               = Cardinality(claim.counted) + Cardinality(Claimed)
                 - Cardinality(claim.counted \cap Claimed)
      BY <3>1, FS_Union
    <3>5. Available = IF Cardinality(claim.counted) >= Limit THEN 0
                      ELSE Limit - Cardinality(claim.counted)
      BY WorkflowAssumption DEF Available
    <3> QED BY <3>1, <3>2, <3>3, <3>4, <3>5, WorkflowAssumption
  <2> QED BY <2>4, <2>5, <2>6, FitsTheLimit
<1> QED BY <1>11, <1>12

\* As long as no run that the claim counted is in its queue, a run that began is within
\* the limit with all that is served before it.
LEMMA StartedFits ==
    ASSUME TypeOK, QueueInv, Limit > 0, NEW r \in Claimable, Started(r),
           Claimable \cap claim.counted = {}
    PROVE  QueuePosition(r) < Available
<1> DEFINE before == {q \in Claimable : q < r}
           served == before \cup {r}
<1>1. RunCount \in Int /\ Limit \in Nat BY WorkflowAssumption
<1>2. Claimable \subseteq Run /\ claim.counted \in SUBSET Run /\ Needed \in SUBSET Run
      /\ \A q \in Run : q \in Int
  BY <1>1 DEF Claimable, TypeOK, Needed, Run
<1>3. IsFiniteSet(Run) BY <1>1, FS_Interval DEF Run
<1>4. before \in SUBSET Run /\ r \notin before /\ served \in SUBSET Run
      /\ Needed \cup claim.counted \in SUBSET Run
  BY <1>2
<1>5. /\ IsFiniteSet(before) /\ IsFiniteSet(claim.counted)
      /\ IsFiniteSet(Needed \cup claim.counted) /\ IsFiniteSet(served)
  BY <1>2, <1>3, <1>4, FS_Subset
<1>6. Cardinality(served) = Cardinality(before) + 1 BY <1>4, <1>5, FS_AddElement
<1>7. served \cap claim.counted = {} OBVIOUS
<1>8. served \cup claim.counted \in SUBSET (Needed \cup claim.counted)
  <2>1. Live(r) /\ r <= r BY <1>2 DEF Claimable, Live
  <2>2. ASSUME NEW q \in served PROVE q \in Needed
    <3>1. q \in Run /\ Live(q) /\ q <= r BY <1>2, <2>1 DEF Claimable, Live
    <3> QED BY <1>2, <2>1, <3>1 DEF Needed
  <2> QED BY <2>2
<1> HIDE DEF served
<1>9. /\ IsFiniteSet(served \cup claim.counted)
      /\ Cardinality(served \cup claim.counted)
           = Cardinality(served) + Cardinality(claim.counted) - Cardinality(served \cap claim.counted)
  BY <1>5, FS_Union
<1>10. Cardinality(served \cap claim.counted) = 0 BY <1>7, FS_EmptySet
<1>11. Cardinality(served \cup claim.counted) <= Cardinality(Needed \cup claim.counted)
  BY <1>5, <1>8, FS_Subset
<1>12. /\ Cardinality(before) \in Nat /\ Cardinality(claim.counted) \in Nat
       /\ Cardinality(Needed \cup claim.counted) \in Nat /\ Cardinality(served) \in Nat
  BY <1>5, FS_CardinalityType
<1>13. Cardinality(Needed \cup claim.counted) <= Limit BY DEF QueueInv
<1>14. Cardinality(before) + 1 + Cardinality(claim.counted) <= Limit
  BY <1>1, <1>6, <1>9, <1>10, <1>11, <1>12, <1>13
<1>15. Available = Limit - Cardinality(claim.counted) BY <1>1, <1>12, <1>14 DEF Available
<1> QED BY <1>1, <1>12, <1>14, <1>15 DEF QueuePosition

\* The drop policy (overflow_policy "drop" of concurrency.py) cancels a run that began,
\* paused and was released into the queue only if the claim counted a run that has come
\* back to the queue since.  Without that it competes for the slot that it gave up only
\* with runs that came before it, and the limit has room for those and for it.  (With
\* heartbeats in time, no cancellations and no retries: a retried run is back in the
\* queue although it has no slot any more.)
THEOREM StartedIsKept == NoLateStart /\ "retry" \notin Events => (Spec => DropNeedsLateRelease)
<1> SUFFICES ASSUME NoLateStart, "retry" \notin Events PROVE Spec => DropNeedsLateRelease
  OBVIOUS
<1> DEFINE Inv == TypeOK /\ PlaceInv /\ HoldInv /\ SlotInv /\ FreshInv /\ QueueInv
           Kept == \A r \in Run :
                     run[r].status = "queued" /\ run'[r].status = "cancelled" /\ api' = api
                     => \/ \A s \in StepId : step[r][s].status = "pending"
                        \/ \E q \in claim.counted :
                             run[q].status = "queued" /\ run[q].lease # "live"
<1>1. Init => HoldInv /\ SlotInv /\ FreshInv /\ QueueInv
  <2> SUFFICES ASSUME Init PROVE HoldInv /\ SlotInv /\ FreshInv /\ QueueInv
    OBVIOUS
  <2>1. HoldInv BY DEF Init, HoldInv, NoApi
  <2>2. Active = {} /\ Needed = {} BY DEF Init, Active, Needed, Live, Occupying
  <2>3. FreshInv BY DEF Init, FreshInv, Started, NewStep
  <2>4. claim = NoClaim /\ claim.counted = {} BY DEF Init, NoClaim
  <2>5. Needed \cup claim.counted = {} BY <2>2, <2>4
  <2> QED BY <2>1, <2>2, <2>3, <2>4, <2>5, FS_EmptySet, WorkflowAssumption DEF SlotInv, QueueInv
<1>2. ASSUME Inv, [Next]_vars PROVE (HoldInv /\ SlotInv /\ FreshInv /\ QueueInv)' /\ Kept
  <2>0. ~ClaimRuns => claim' = claim \/ CountActive BY <1>2, ClaimKept
  <2>1. CASE ClaimRuns
    <3>1. (HoldInv /\ SlotInv /\ FreshInv /\ QueueInv)' BY <1>2, <2>1, ClaimHold, ClaimQueue
    <3>2. ASSUME NEW r \in Run, run[r].status = "queued", run'[r].status = "cancelled", Started(r)
          PROVE  \E q \in claim.counted : run[q].status = "queued" /\ run[q].lease # "live"
      <4>1. /\ \A q \in Claimed : run'[q].status = "queued"
            /\ \A q \in Claimable \ Claimed :
                 run'[q].status = "cancelled" => Limit > 0 /\ QueuePosition(q) >= Available
            /\ \A q \in Run \ Claimable : run'[q] = run[q]
        BY <1>2, <2>1, ClaimRows
      <4>2. r \in Claimable \ Claimed BY <3>2, <4>1
      <4>3. Limit > 0 /\ QueuePosition(r) >= Available BY <3>2, <4>1, <4>2
      <4>4. Available \in Int /\ QueuePosition(r) \in Int BY <1>2, <4>2, QueueNumbers
      <4>5. PICK q \in claim.counted : q \in Claimable
        BY <1>2, <3>2, <4>2, <4>3, <4>4, StartedFits
      <4> QED BY <4>5 DEF Claimable
    <3> QED BY <3>1, <3>2 DEF Started
  <2>2. ASSUME NEW e \in Run, Enqueue(e) PROVE (HoldInv /\ SlotInv /\ FreshInv /\ QueueInv)' /\ Kept
    <3>1. HoldInv' /\ Active' \subseteq Active BY <1>2, <2>2, SystemHold
    <3>2. run[e].status = "absent" /\ claim' = claim /\ \A q \in Run \ {e} : run'[q] = run[q]
      BY <2>2 DEF Enqueue
    <3> QED BY <1>2, <2>2, <3>1, <3>2, SlotsKept, EnqueueQueue
  <2>3. ASSUME NEW w \in Worker, Work(w) \/ Heartbeat(w) \/ Crash(w) \/ Shutdown(w), ~ClaimRuns
        PROVE  (HoldInv /\ SlotInv /\ FreshInv /\ QueueInv)' /\ Kept
    <3>1. HoldInv' /\ Active' \subseteq Active BY <1>2, <2>3, WorkerHold
    <3>2. /\ wrun[w] \in Active
          /\ \A q \in Run \ {wrun[w]} : run'[q] = run[q] /\ step'[q] = step[q]
          /\ run'[wrun[w]].status \notin {"absent", "cancelled"}
      BY <1>2, <2>3, WorkerRows
    <3>3. run[wrun[w]].status # "absent" /\ Live(wrun[w]) BY <3>2 DEF Active, Live, Occupying
    <3>4. /\ \A r \in Run : run'[r].status = "absent" <=> run[r].status = "absent"
          /\ \A r \in Run : Live(r)' => Live(r)
          /\ \A r \in Run : Started(r)' => Started(r) \/ r \in Active
      BY <3>2, <3>3 DEF Live, Started
    <3>5. (FreshInv /\ QueueInv)' BY <1>2, <2>0, <2>3, <3>1, <3>4, QueueKept
    <3>6. SlotInv' BY <1>2, <2>0, <2>3, <3>1, SlotsKept
    <3> QED BY <3>1, <3>2, <3>5, <3>6
  <2>4. CASE /\ ~ClaimRuns
             /\ \/ UNCHANGED vars \/ CountActive
                \/ \E r \in Run : Schedule(r) \/ Human(r) \/ RequestCancel(r) \/ RequestRetry(r)
                \/ Api
    <3>1. HoldInv' /\ Active' \subseteq Active BY <1>2, <2>4, SystemHold
    <3>2. /\ \A r \in Run : \/ run'[r].status = run[r].status
                            \/ Live(r) /\ run'[r].status \in {"queued", "orphaned"}
          /\ \A r \in Run : Started(r)' <=> Started(r)
      BY <1>2, <2>4, SystemRows
    <3>3. /\ \A r \in Run : run'[r].status = "absent" <=> run[r].status = "absent"
          /\ \A r \in Run : Live(r)' => Live(r)
      BY <3>2 DEF Live, Occupying
    <3>4. (FreshInv /\ QueueInv)' BY <1>2, <2>0, <2>4, <3>1, <3>2, <3>3, QueueKept
    <3>5. SlotInv' BY <1>2, <2>0, <2>4, <3>1, SlotsKept
    <3> QED BY <3>1, <3>2, <3>4, <3>5
  <2> QED BY <1>2, <2>1, <2>2, <2>3, <2>4 DEF Next
<1>3. Inv /\ [Next]_vars => Inv' BY <1>2, TypeStep
<1>4. Inv /\ [Next]_vars => [Kept]_vars BY <1>2
<1> QED BY TypeInit, <1>1, <1>3, <1>4, PTL DEF Spec, DropNeedsLateRelease

=============================================================================
