------------------------- MODULE AgentRuntimeProofs -------------------------
(***************************************************************************)
(* Proofs about AgentRuntime, for any number of workers and any plan.      *)
(***************************************************************************)
EXTENDS AgentRuntime, TLAPS

(***************************************************************************)
(* Type correctness.                                                       *)
(***************************************************************************)

\* Local variables keep their types when a task ends.
LEMMA EndedTypes ==
    ASSUME TypeOK, NEW w \in Worker, Ended(w)
    PROVE  /\ pc' \in [Worker -> WorkerPC] /\ idx' \in [Worker -> StepId]
           /\ cached' \in [Worker -> BOOLEAN] /\ snap' \in [Worker -> [StepId -> StepRow]]
           /\ ctx' \in [Worker -> {"full", "reduced", "none"}]
           /\ res' \in [Worker -> StepStatus] /\ cancelSeen' \in [Worker -> BOOLEAN]
           /\ target' \in [Worker -> RunStatus] /\ lost' \in [Worker -> BOOLEAN]
           /\ acted' \subseteq Worker /\ pastCancel' \subseteq Worker /\ pastLoss' \subseteq Worker
<1>1. 1 \in StepId BY AgentAssumption DEF StepId
<1>2. NewStep \in StepRow BY DEF NewStep, StepRow, StepStatus
<1> QED BY <1>1, <1>2 DEF TypeOK, Ended, WorkerPC, StepStatus, RunStatus

\* ... when it goes on elsewhere in run_once, ...
LEMMA GotoTypes ==
    ASSUME TypeOK, NEW w \in Worker, NEW label \in WorkerPC, Goto(w, label)
    PROVE  /\ pc' \in [Worker -> WorkerPC]
           /\ UNCHANGED <<idx, cached, snap, ctx, res, cancelSeen, target, lost>>
BY DEF TypeOK, Goto

\* ... when it is about to end the run, ...
LEMMA FinishTypes ==
    ASSUME TypeOK, NEW w \in Worker, NEW status \in RunStatus, Finish(w, status)
    PROVE  /\ pc' \in [Worker -> WorkerPC] /\ target' \in [Worker -> RunStatus]
           /\ UNCHANGED <<idx, cached, snap, ctx, res, cancelSeen, lost>>
BY DEF TypeOK, Finish, WorkerPC

\* ... when Kernel has answered, ...
LEMMA AnsweredTypes ==
    ASSUME TypeOK, NEW w \in Worker, NEW result \in StepStatus, NEW b \in BOOLEAN,
           Answered(w, result, b)
    PROVE  /\ pc' \in [Worker -> WorkerPC] /\ res' \in [Worker -> StepStatus]
           /\ cached' \in [Worker -> BOOLEAN]
           /\ UNCHANGED <<idx, snap, ctx, cancelSeen, target, lost>>
BY DEF TypeOK, Answered, WorkerPC

\* ... and when it takes the next step of the plan.
LEMMA NextStepTypes ==
    ASSUME TypeOK, NEW w \in Worker, NextStep(w)
    PROVE  /\ pc' \in [Worker -> WorkerPC] /\ target' \in [Worker -> RunStatus]
           /\ idx' \in [Worker -> StepId]
<1>1. idx[w] \in StepId BY DEF TypeOK
<1>2. idx[w] # StepCount => idx[w] + 1 \in StepId BY <1>1, AgentAssumption DEF StepId
<1>3. CASE idx[w] = StepCount BY <1>3 DEF TypeOK, NextStep, WorkerPC, RunStatus, Terminal
<1>4. CASE idx[w] # StepCount BY <1>2, <1>4 DEF TypeOK, NextStep, WorkerPC
<1> QED BY <1>3, <1>4

\* The run row after transition_run.
LEMMA MovedTypes ==
    ASSUME TypeOK, NEW status \in RunStatus, NEW cur \in StepId \cup {None}
    PROVE  Moved(status, cur) \in RunRow
BY DEF TypeOK, Moved, RunRow

\* Only these statuses are ever reached by a transition.
LEMMA AllowedTypes == \A from, to : to \in Allowed(from) => to \in RunStatus
BY DEF Allowed, RunStatus, Terminal

\* The initial state is well typed.
LEMMA TypeInit == Init => TypeOK
<1> SUFFICES ASSUME Init PROVE TypeOK
  OBVIOUS
<1>1. 1 \in StepId BY AgentAssumption DEF StepId
<1>2. NewStep \in StepRow BY DEF NewStep, StepRow, StepStatus
<1>3. run \in RunRow BY DEF Init, RunRow, RunStatus
<1> QED BY <1>1, <1>2, <1>3, AgentAssumption DEF Init, TypeOK, WorkerPC, StepStatus, RunStatus

\* Every step keeps the types.
LEMMA TypeStep == TypeOK /\ [Next]_vars => TypeOK'
<1> SUFFICES ASSUME TypeOK, [Next]_vars PROVE TypeOK'
  OBVIOUS
<1> USE DEF rows, local, history
<1>1. CASE UNCHANGED vars BY <1>1 DEF vars, TypeOK
<1>2. CASE CreateRun BY <1>2 DEF CreateRun, TypeOK, RunRow, RunStatus
<1>3. CASE RequestCancellation
  BY <1>3 DEF RequestCancellation, TypeOK, RunRow, RunStatus, Terminal
<1>4. CASE QueueAfterApproval
  <2>1. run.cur \in StepId BY <1>4 DEF QueueAfterApproval, TypeOK, RunRow
  <2>2. run' \in RunRow BY <1>4 DEF QueueAfterApproval, TypeOK, RunRow, RunStatus
  <2>3. step' \in [StepId -> StepRow]
    <3> DEFINE c == run.cur
               old == step[c]
               mid == [step EXCEPT ![c] = [old EXCEPT !.status = "pending"]]
               new == [mid EXCEPT ![c] = [mid[c] EXCEPT !.approved = TRUE]]
    <3>1. old \in StepRow BY <2>1 DEF TypeOK
    <3>2. step' = new BY <1>4 DEF QueueAfterApproval
    <3>3. [old EXCEPT !.status = "pending"] \in StepRow BY <3>1 DEF StepRow, StepStatus
    <3>4. mid \in [StepId -> StepRow] /\ mid[c] \in StepRow BY <2>1, <3>3 DEF TypeOK
    <3>5. [mid[c] EXCEPT !.approved = TRUE] \in StepRow
      <4> HIDE DEF mid
      <4> QED BY <3>4 DEF StepRow
    <3>6. new \in [StepId -> StepRow]
      <4> HIDE DEF mid
      <4> QED BY <2>1, <3>4, <3>5
    <3> QED BY <3>2, <3>6
  <2> QED BY <1>4, <2>2, <2>3 DEF QueueAfterApproval, TypeOK
<1>5. CASE LoseAuthority BY <1>5 DEF LoseAuthority, TypeOK
<1>6. CASE Expire BY <1>6 DEF Expire, TypeOK, RunRow
<1>7. ASSUME NEW s \in StepId, DecideApproval(s) PROVE TypeOK'
  BY <1>7 DEF DecideApproval, TypeOK
<1>8. ASSUME NEW w \in Worker, Claim(w) PROVE TypeOK'
  <2>1. run' \in RunRow BY <1>8 DEF Claim, TypeOK, RunRow, RunStatus
  <2> QED BY <1>8, <2>1 DEF Claim, TypeOK, WorkerPC
<1>9. ASSUME NEW w \in Worker, Enter(w) PROVE TypeOK'
  <2>1. CASE \E status \in {"cancelled", "failed", "budget_exhausted"} : Finish(w, status)
    BY <1>9, <2>1, FinishTypes DEF Enter, TypeOK, RunStatus, Terminal
  <2>2. CASE snap' = [snap EXCEPT ![w] = step] /\ pc' = [pc EXCEPT ![w] = "loop"]
             /\ UNCHANGED <<idx, cached, ctx, res, cancelSeen, target, lost>>
    BY <1>9, <2>2 DEF Enter, TypeOK, WorkerPC
  <2> QED BY <1>9, <2>1, <2>2 DEF Enter
<1>10. ASSUME NEW w \in Worker, Loop(w) PROVE TypeOK'
  <2>1. CASE NextStep(w) /\ UNCHANGED <<cached, snap, ctx, res, cancelSeen, lost, rows, history>>
    BY <2>1, NextStepTypes DEF TypeOK
  <2>2. CASE UNCHANGED <<rows, history>>
             /\ \E status \in {"cancelled", "failed", "waiting_approval"} : Finish(w, status)
    BY <2>2, FinishTypes DEF TypeOK, RunStatus, Terminal
  <2>3. CASE run' = [run EXCEPT !.lease = "live"] /\ Goto(w, "ready")
             /\ UNCHANGED <<step, claim, approval, authority, history>>
    <3>1. run' \in RunRow BY <2>3 DEF TypeOK, RunRow
    <3> QED BY <2>3, <3>1, GotoTypes DEF TypeOK, WorkerPC
  <2>4. CASE Ended(w) /\ UNCHANGED <<rows, faults, effects, rejected>>
    BY <2>4, EndedTypes DEF TypeOK
  <2> QED BY <1>10, <2>1, <2>2, <2>3, <2>4 DEF Loop
<1>11. ASSUME NEW w \in Worker, Recheck(w) PROVE TypeOK'
  BY <1>11, FinishTypes, GotoTypes DEF Recheck, TypeOK, RunStatus, Terminal, WorkerPC
<1>12. ASSUME NEW w \in Worker, ResolveContext(w) PROVE TypeOK'
  <2>1. CASE Finish(w, "failed")
    BY <1>12, <2>1, FinishTypes DEF ResolveContext, TypeOK, RunStatus, Terminal
  <2>2. CASE ~Finish(w, "failed")
    BY <1>12, <2>2 DEF ResolveContext, TypeOK, WorkerPC, InKernel
  <2> QED BY <2>1, <2>2
<1>13. ASSUME NEW w \in Worker, KernelEnter(w) PROVE TypeOK'
  <2>1. approval' \in [StepId -> {"none", "pending", "approved", "denied", "executing"}]
    BY <1>13 DEF KernelEnter, TypeOK
  <2>2. CASE \E result \in {"completed", "failed", "waiting_approval"}, b \in BOOLEAN : Answered(w, result, b)
    BY <1>13, <2>1, <2>2, AnsweredTypes DEF KernelEnter, TypeOK, StepStatus
  <2>3. CASE pc' = [pc EXCEPT ![w] = "recover"] /\ cached' = [cached EXCEPT ![w] = FALSE]
             /\ UNCHANGED <<idx, snap, ctx, res, cancelSeen, target, lost, approval>>
    BY <1>13, <2>3 DEF KernelEnter, TypeOK, WorkerPC, InKernel
  <2>4. CASE Goto(w, "reserve")
    BY <1>13, <2>1, <2>4, GotoTypes DEF KernelEnter, TypeOK, WorkerPC, InKernel
  <2> QED BY <1>13, <2>2, <2>3, <2>4 DEF KernelEnter
<1>14. ASSUME NEW w \in Worker, KernelReserve(w) PROVE TypeOK'
  <2>1. /\ approval' \in [StepId -> {"none", "pending", "approved", "denied", "executing"}]
        /\ claim' \in [StepId -> {"none", "running", "completed"}]
    BY <1>14 DEF KernelReserve, TypeOK
  <2>2. CASE \E b \in BOOLEAN : Answered(w, "completed", b)
    BY <1>14, <2>1, <2>2, AnsweredTypes DEF KernelReserve, TypeOK, StepStatus
  <2>3. CASE pc' = [pc EXCEPT ![w] = "recover"] /\ cached' = [cached EXCEPT ![w] = FALSE]
             /\ UNCHANGED <<idx, snap, ctx, res, cancelSeen, target, lost>>
    BY <1>14, <2>1, <2>3 DEF KernelReserve, TypeOK, WorkerPC, InKernel
  <2>4. CASE Goto(w, "effect")
    BY <1>14, <2>1, <2>4, GotoTypes DEF KernelReserve, TypeOK, WorkerPC, InKernel
  <2> QED BY <1>14, <2>2, <2>3, <2>4 DEF KernelReserve
<1>15. ASSUME NEW w \in Worker, KernelEffect(w) PROVE TypeOK'
  <2>1. idx[w] \in StepId BY DEF TypeOK
  <2>2. effects' \in [StepId -> Nat] /\ acted' \subseteq Worker
    BY <1>15, <2>1 DEF KernelEffect, TypeOK
  <2> QED BY <1>15, <2>2 DEF KernelEffect, Goto, TypeOK, WorkerPC, InKernel
<1>16. ASSUME NEW w \in Worker, KernelAnswer(w) PROVE TypeOK'
  <2>1. claim' \in [StepId -> {"none", "running", "completed"}] /\ rejected' \subseteq StepId
    BY <1>16 DEF KernelAnswer, TypeOK
  <2> QED BY <1>16, <2>1, AnsweredTypes DEF KernelAnswer, TypeOK, StepStatus
<1>17. ASSUME NEW w \in Worker, RecoveryState(w) PROVE TypeOK'
  <2>1. PICK result \in {"completed", "execution_uncertain", "failed"} : Answered(w, result, TRUE)
    BY <1>17 DEF RecoveryState
  <2> QED BY <1>17, <2>1, AnsweredTypes DEF RecoveryState, TypeOK, StepStatus
<1>18. ASSUME NEW w \in Worker, AfterStep(w) PROVE TypeOK'
  <2>1. CASE lost[w] BY <1>18, <2>1, EndedTypes DEF AfterStep, TypeOK
  <2>2. CASE ~lost[w] BY <1>18, <2>2 DEF AfterStep, TypeOK, WorkerPC, RunRow
  <2> QED BY <2>1, <2>2
<1>19. ASSUME NEW w \in Worker, Settle(w) PROVE TypeOK'
  <2>1. idx[w] \in StepId /\ res[w] \in StepStatus BY DEF TypeOK
  <2>2. run' \in RunRow
    <3>1. CASE \E status \in RunStatus : run' = Moved(status, idx[w]) BY <2>1, <3>1, MovedTypes
    <3>2. CASE run' \in {run, [run EXCEPT !.lease = "live"]} BY <3>2 DEF TypeOK, RunRow
    <3> QED BY <1>19, <3>1, <3>2, AllowedTypes DEF Settle
  <2>3. step' \in [StepId -> StepRow]
    <3>1. CASE step' = step BY <3>1 DEF TypeOK
    <3>2. CASE Recorded(w) BY <3>2, <2>1 DEF Recorded, TypeOK, StepRow
    <3> QED BY <1>19, <3>1, <3>2 DEF Settle
  <2>4. CASE Ended(w) BY <1>19, <2>2, <2>3, <2>4, EndedTypes DEF Settle, TypeOK
  <2>5. CASE ~Ended(w)
    <3>1. /\ NextStep(w) /\ ctx' = [ctx EXCEPT ![w] = "none"]
          /\ res' = [res EXCEPT ![w] = "pending"] /\ acted' = acted \ {w}
          /\ UNCHANGED <<cached, snap, cancelSeen, lost, pastCancel, pastLoss>>
      BY <1>19, <2>5 DEF Settle
    <3> QED BY <1>19, <2>2, <2>3, <3>1, NextStepTypes DEF Settle, TypeOK, StepStatus
  <2> QED BY <2>4, <2>5
<1>20. ASSUME NEW w \in Worker, Transition(w) PROVE TypeOK'
  <2>1. run' \in RunRow BY <1>20, MovedTypes DEF Transition, TypeOK
  <2> QED BY <1>20, <2>1, EndedTypes DEF Transition, TypeOK
<1>21. ASSUME NEW w \in Worker, Heartbeat(w) PROVE TypeOK'
  BY <1>21 DEF Heartbeat, TypeOK, RunRow
<1>22. ASSUME NEW w \in Worker, HeartbeatFails(w) PROVE TypeOK'
  BY <1>22, AgentAssumption DEF HeartbeatFails, TypeOK
<1>23. ASSUME NEW w \in Worker, Crash(w) PROVE TypeOK'
  BY <1>23, EndedTypes, AgentAssumption DEF Crash, TypeOK
<1> QED
  BY <1>1, <1>2, <1>3, <1>4, <1>5, <1>6, <1>7, <1>8, <1>9, <1>10, <1>11, <1>12, <1>13, <1>14,
     <1>15, <1>16, <1>17, <1>18, <1>19, <1>20, <1>21, <1>22, <1>23
     DEF Next, WorkerStep

\* Every reachable state of a run is well typed: rows, sessions and outcomes.
THEOREM TypeCorrect == Spec => []TypeOK
BY TypeInit, TypeStep, PTL DEF Spec

-----------------------------------------------------------------------------
(* What the ways a worker can go on do to it, and that they leave the      *)
(* other workers alone.                                                    *)

\* The locals of a worker.
Same(v) ==
    /\ pc'[v] = pc[v] /\ idx'[v] = idx[v] /\ cached'[v] = cached[v] /\ snap'[v] = snap[v]
    /\ ctx'[v] = ctx[v] /\ res'[v] = res[v] /\ cancelSeen'[v] = cancelSeen[v]
    /\ target'[v] = target[v]
    /\ v \in acted' <=> v \in acted
    /\ v \in pastCancel' <=> v \in pastCancel
    /\ v \in pastLoss' <=> v \in pastLoss

\* A step of worker w.
Others(w) == \A v \in Worker \ {w} : Same(v)

\* A task that ends forgets everything.
LEMMA EndedAt ==
    ASSUME TypeOK, NEW w \in Worker, Ended(w)
    PROVE  /\ Others(w)
           /\ pc'[w] = "idle" /\ idx'[w] = 1 /\ snap'[w] = [s \in StepId |-> NewStep]
           /\ res'[w] = "pending" /\ cancelSeen'[w] = FALSE /\ target'[w] = "absent"
           /\ w \notin acted'
BY DEF TypeOK, Ended, Others, Same

\* A worker that only moves on keeps its locals.
LEMMA GotoAt ==
    ASSUME TypeOK, NEW w \in Worker, NEW label, Goto(w, label),
           UNCHANGED <<pastCancel, pastLoss>>
    PROVE  /\ \A v \in Worker \ {w} :
                (v \in acted' <=> v \in acted) => Same(v)
           /\ pc'[w] = label
           /\ UNCHANGED <<idx, cached, snap, ctx, res, cancelSeen, target>>
BY DEF TypeOK, Goto, Same

\* A worker about to write the run's status keeps the rest.
LEMMA FinishAt ==
    ASSUME TypeOK, NEW w \in Worker, NEW status, Finish(w, status), UNCHANGED history
    PROVE  /\ Others(w)
           /\ pc'[w] = "finish" /\ target'[w] = status
           /\ UNCHANGED <<idx, cached, snap, ctx, res, cancelSeen>>
BY DEF TypeOK, Finish, Others, Same, history

\* Kernel's answer is the step's result.
LEMMA AnsweredAt ==
    ASSUME TypeOK, NEW w \in Worker, NEW result, NEW b, Answered(w, result, b),
           UNCHANGED <<acted, pastCancel, pastLoss>>
    PROVE  /\ Others(w)
           /\ pc'[w] = "after" /\ res'[w] = result
           /\ UNCHANGED <<idx, snap, ctx, cancelSeen, target>>
BY DEF TypeOK, Answered, Others, Same

\* An error after the replay lookup leads to the recovery state.
LEMMA RecoverAt ==
    ASSUME TypeOK, NEW w \in Worker,
           pc' = [pc EXCEPT ![w] = "recover"], cached' = [cached EXCEPT ![w] = FALSE],
           UNCHANGED <<idx, snap, ctx, res, cancelSeen, target, pastCancel, pastLoss>>
    PROVE  /\ \A v \in Worker \ {w} : (v \in acted' <=> v \in acted) => Same(v)
           /\ pc'[w] = "recover"
BY DEF TypeOK, Same

\* The next step of the plan, or the end of it.
LEMMA NextStepAt ==
    ASSUME TypeOK, NEW w \in Worker, NextStep(w)
    PROVE  /\ \A v \in Worker \ {w} : pc'[v] = pc[v] /\ idx'[v] = idx[v] /\ target'[v] = target[v]
           /\ \/ /\ idx[w] = StepCount /\ pc'[w] = "finish" /\ target'[w] = "completed"
                 /\ idx'[w] = idx[w]
              \/ /\ idx[w] < StepCount /\ pc'[w] = "loop" /\ target'[w] = target[w]
                 /\ idx'[w] = idx[w] + 1
<1>1. idx[w] \in StepId BY DEF TypeOK
<1>2. idx[w] # StepCount => idx[w] < StepCount BY <1>1, AgentAssumption DEF StepId
<1>3. CASE idx[w] = StepCount BY <1>3 DEF TypeOK, NextStep
<1>4. CASE idx[w] # StepCount BY <1>1, <1>2, <1>4 DEF TypeOK, NextStep
<1> QED BY <1>3, <1>4

\* A worker's step leaves the other workers' locals alone.
LEMMA Frame ==
    ASSUME TypeOK, NEW w \in Worker,
           WorkerStep(w) \/ Heartbeat(w) \/ HeartbeatFails(w) \/ Crash(w)
    PROVE  Others(w)
<1> USE DEF rows, local, history
<1>1. CASE Claim(w) BY <1>1 DEF Claim, TypeOK, Others, Same
<1>2. CASE Enter(w)
  <2>1. CASE \E status \in RunStatus : Finish(w, status) BY <1>2, <2>1, FinishAt DEF Enter
  <2>2. CASE snap' = [snap EXCEPT ![w] = step] BY <1>2, <2>2 DEF Enter, Finish, TypeOK, Others, Same
  <2> QED BY <1>2, <2>1, <2>2 DEF Enter, RunStatus, Terminal
<1>3. CASE Loop(w)
  <2>1. CASE NextStep(w) /\ UNCHANGED <<cached, snap, ctx, res, cancelSeen, lost, rows, history>>
    BY <2>1, NextStepAt DEF Others, Same
  <2>2. CASE UNCHANGED history /\ \E status \in RunStatus : Finish(w, status)
    BY <2>2, FinishAt
  <2>3. CASE Goto(w, "ready") /\ UNCHANGED history BY <2>3, GotoAt DEF Others
  <2>4. CASE Ended(w) BY <2>4, EndedAt
  <2> QED BY <1>3, <2>1, <2>2, <2>3, <2>4 DEF Loop, RunStatus, Terminal
<1>4. CASE Recheck(w) BY <1>4, FinishAt, GotoAt DEF Recheck, Others
<1>5. CASE ResolveContext(w)
  <2>1. CASE Finish(w, "failed") BY <1>5, <2>1, FinishAt DEF ResolveContext
  <2>2. CASE ~Finish(w, "failed") BY <1>5, <2>2 DEF ResolveContext, TypeOK, Others, Same
  <2> QED BY <2>1, <2>2
<1>6. CASE KernelEnter(w)
  <2>1. UNCHANGED history BY <1>6 DEF KernelEnter
  <2>2. CASE \E result \in StepStatus, b \in BOOLEAN : Answered(w, result, b)
    BY <2>1, <2>2, AnsweredAt
  <2>3. CASE pc' = [pc EXCEPT ![w] = "recover"] /\ cached' = [cached EXCEPT ![w] = FALSE]
             /\ UNCHANGED <<idx, snap, ctx, res, cancelSeen, target, lost, approval>>
    BY <2>1, <2>3, RecoverAt DEF Others
  <2>4. CASE Goto(w, "reserve") BY <2>1, <2>4, GotoAt DEF Others
  <2> QED BY <1>6, <2>2, <2>3, <2>4 DEF KernelEnter, StepStatus
<1>7. CASE KernelReserve(w)
  <2>1. UNCHANGED history BY <1>7 DEF KernelReserve
  <2>2. CASE \E b \in BOOLEAN : Answered(w, "completed", b) BY <2>1, <2>2, AnsweredAt
  <2>3. CASE pc' = [pc EXCEPT ![w] = "recover"] /\ cached' = [cached EXCEPT ![w] = FALSE]
             /\ UNCHANGED <<idx, snap, ctx, res, cancelSeen, target, lost>>
    BY <2>1, <2>3, RecoverAt DEF Others
  <2>4. CASE Goto(w, "effect") BY <2>1, <2>4, GotoAt DEF Others
  <2> QED BY <1>7, <2>2, <2>3, <2>4 DEF KernelReserve
<1>8. CASE KernelEffect(w)
  <2>1. \A v \in Worker \ {w} : v \in acted' <=> v \in acted BY <1>8 DEF KernelEffect
  <2>2. UNCHANGED <<pastCancel, pastLoss>> BY <1>8 DEF KernelEffect
  <2>3. CASE Goto(w, "answer") BY <2>1, <2>2, <2>3, GotoAt DEF Others
  <2>4. CASE pc' = [pc EXCEPT ![w] = "recover"] /\ cached' = [cached EXCEPT ![w] = FALSE]
             /\ UNCHANGED <<idx, snap, ctx, res, cancelSeen, target, lost>>
    BY <2>1, <2>2, <2>4, RecoverAt DEF Others
  <2> QED BY <1>8, <2>3, <2>4 DEF KernelEffect
<1>9. CASE KernelAnswer(w) BY <1>9, AnsweredAt DEF KernelAnswer
<1>10. CASE RecoveryState(w) BY <1>10, AnsweredAt DEF RecoveryState
<1>11. CASE AfterStep(w)
  <2>1. CASE lost[w] BY <1>11, <2>1, EndedAt DEF AfterStep
  <2>2. CASE ~lost[w] BY <1>11, <2>2 DEF AfterStep, TypeOK, Others, Same
  <2> QED BY <2>1, <2>2
<1>12. CASE Settle(w)
  <2>1. CASE Ended(w) BY <2>1, EndedAt
  <2>2. CASE ~Ended(w)
    <3>1. /\ NextStep(w) /\ ctx' = [ctx EXCEPT ![w] = "none"]
          /\ res' = [res EXCEPT ![w] = "pending"] /\ acted' = acted \ {w}
          /\ UNCHANGED <<cached, snap, cancelSeen, lost, pastCancel, pastLoss>>
      BY <1>12, <2>2 DEF Settle
    <3> QED BY <3>1, NextStepAt DEF TypeOK, Others, Same
  <2> QED BY <2>1, <2>2
<1>13. CASE Transition(w) BY <1>13, EndedAt DEF Transition
<1>14. CASE Heartbeat(w) BY <1>14 DEF Heartbeat, Others, Same
<1>15. CASE HeartbeatFails(w) BY <1>15 DEF HeartbeatFails, Others, Same
<1>16. CASE Crash(w) BY <1>16, EndedAt DEF Crash
<1> QED
  BY <1>1, <1>2, <1>3, <1>4, <1>5, <1>6, <1>7, <1>8, <1>9, <1>10, <1>11, <1>12, <1>13, <1>14,
     <1>15, <1>16 DEF WorkerStep

-----------------------------------------------------------------------------
(* The inductive invariant, in six parts.                                  *)

\* Where a worker is past entering the loop and before leaving it.
Walking == InKernel \cup {"loop", "ready", "resolve", "after", "settle"}

\* A step that is still to be done, as a row shows it.
Open == {"pending", "waiting_approval"}

\* Kernel's claim decides the effect of a mutation: a claim is in the hands of
\* one worker until that worker's call is over, and counts its effect.
ClaimInv ==
    /\ \A s \in Mutating :
         /\ effects[s] <= 1
         /\ claim[s] = "none" => effects[s] = 0
         /\ claim[s] = "completed" => effects[s] = 1
    /\ \A w \in Worker :
         /\ pc[w] \in {"reserve", "effect", "answer", "recover"} => idx[w] \in Mutating
         /\ pc[w] = "effect" => claim[idx[w]] = "running" /\ effects[idx[w]] = 0
         /\ pc[w] = "answer" => claim[idx[w]] = "running" /\ effects[idx[w]] = 1
    /\ \A v, w \in Worker :
         /\ pc[v] \in {"effect", "answer"} /\ pc[w] \in {"effect", "answer"}
         /\ idx[v] = idx[w]
         => v = w

\* What a worker says of its step is backed by the claim.
ResultInv ==
    \A w \in Worker :
      /\ pc[w] \notin {"after", "settle"} => res[w] = "pending"
      /\ w \in acted => /\ pc[w] \in {"answer", "recover", "after", "settle"}
                        /\ claim[idx[w]] # "none"
                        /\ res[w] = "failed" => idx[w] \in rejected
      /\ pc[w] \in {"after", "settle"} /\ res[w] = "completed" /\ idx[w] \in Mutating
           => claim[idx[w]] = "completed"

\* A worker takes a step for completed: its copy of the row says so, it is at a
\* later step, or it is about to complete the run.
Passed(w, s) == snap[w][s].status = "completed" \/ s < idx[w] \/ target[w] = "completed"

\* A mutation that a row, a worker or the run's status takes for completed has a
\* completed claim, and mutations are claimed in the plan's order.
PlanInv ==
    /\ \A s \in Mutating :
         /\ step[s].status = "completed" => claim[s] = "completed"
         /\ \A w \in Worker : Passed(w, s) => claim[s] = "completed"
         /\ run.status = "completed" => claim[s] = "completed"
    /\ \A s, t \in Mutating : t < s /\ claim[s] # "none" => claim[t] = "completed"

\* Cancellation and the loss of authority reach every worker that was not
\* already past its check.
StopInv ==
    \A w \in Worker :
      /\ cancelSeen[w] => run.cancel
      /\ run.cancel /\ pc[w] \in InKernel \cup {"resolve"} => w \in pastCancel
      /\ authority # "full" /\ pc[w] \in {"reserve", "effect", "answer"} => w \in pastLoss
      /\ authority # "full" /\ pc[w] = "kernel" /\ ctx[w] = "full" => w \in pastLoss

\* What a worker's copy of the step rows is worth: the lease holder's copy is
\* current from its step on, any other is at least dated by its attempt number.
CopyInv ==
    \A w \in Worker :
      /\ pc[w] \in Walking \ {"loop"} => snap[w][idx[w]].status \in Open
      /\ pc[w] \in Walking /\ run.token = w => \A s \in StepId : idx[w] <= s => snap[w][s] = step[s]
      /\ pc[w] \in Walking => \A s \in StepId :
           /\ snap[w][s].attempt <= step[s].attempt
           /\ snap[w][s].attempt = step[s].attempt /\ snap[w][s].status \in Open
                => step[s].status \in Open

\* Unless cancellation is requested, a step passed by is recorded as completed.
RecordInv ==
    ~run.cancel =>
      \A s \in StepId :
        /\ \A w \in Worker : Passed(w, s) => step[s].status = "completed"
        /\ run.status = "completed" => step[s].status = "completed"

\* A step that waits carries its approval, in its row and in every copy of it, so
\* the loop never ends a run by making it wait.
EndInv ==
    /\ \A s \in StepId : step[s].status = "waiting_approval" => step[s].approved
    /\ \A w \in Worker :
         /\ \A s \in StepId : snap[w][s].status = "waiting_approval" => snap[w][s].approved
         /\ pc[w] = "finish" => target[w] \in Terminal

-----------------------------------------------------------------------------
(* What the steps of run_once and execute_step do to their own worker.     *)

\* The workers inside Kernel with a request of their own.
Requesting == {"reserve", "effect", "answer", "recover"}

\* Entering the loop: the rows are copied, or the run is about to end.
LEMMA EnterMove ==
    ASSUME TypeOK, NEW w \in Worker, Enter(w)
    PROVE  /\ pc[w] = "claimed"
           /\ UNCHANGED <<rows, history, idx, cached, ctx, res, cancelSeen>>
           /\ \/ pc'[w] = "finish" /\ target'[w] # "completed" /\ snap'[w] = snap[w]
              \/ pc'[w] = "loop" /\ target'[w] = target[w] /\ snap'[w] = step
<1> USE DEF rows, local, history
<1>1. CASE \E status \in {"cancelled", "failed", "budget_exhausted"} : Finish(w, status)
  BY <1>1, FinishAt DEF Enter
<1>2. CASE snap' = [snap EXCEPT ![w] = step] /\ pc' = [pc EXCEPT ![w] = "loop"]
           /\ UNCHANGED <<idx, cached, ctx, res, cancelSeen, target, lost>>
  BY <1>2 DEF Enter, TypeOK
<1> QED BY <1>1, <1>2 DEF Enter

\* The head of the loop: the step is passed by because it is completed, the
\* run is about to end, the lease is renewed, or the task ends.
LEMMA LoopMove ==
    ASSUME TypeOK, NEW w \in Worker, Loop(w)
    PROVE  /\ pc[w] = "loop"
           /\ UNCHANGED <<step, claim, authority, effects, rejected>>
           /\ \/ /\ snap[w][idx[w]].status = "completed"
                 /\ NextStep(w)
                 /\ UNCHANGED <<snap, ctx, res, cancelSeen, run, history>>
              \/ /\ pc'[w] = "finish" /\ target'[w] # "completed"
                 /\ UNCHANGED <<idx, snap, ctx, res, cancelSeen, run, history>>
              \/ /\ pc'[w] = "ready" /\ run' = [run EXCEPT !.lease = "live"]
                 /\ snap[w][idx[w]].status \in Open
                 /\ UNCHANGED <<idx, snap, ctx, res, cancelSeen, target, history>>
              \/ Ended(w) /\ run' = run
<1> USE DEF rows, local, history
<1>1. CASE /\ UNCHANGED <<rows, history>>
           /\ \E status \in {"cancelled", "failed", "waiting_approval"} : Finish(w, status)
  BY <1>1, FinishAt DEF Loop
<1>2. CASE snap[w][idx[w]].status \in Open /\ run' = [run EXCEPT !.lease = "live"] /\ Goto(w, "ready")
           /\ UNCHANGED <<step, claim, approval, authority, history>>
  BY <1>2, GotoAt DEF Loop
<1>3. CASE NextStep(w) /\ UNCHANGED <<cached, snap, ctx, res, cancelSeen, lost, rows, history>>
           /\ snap[w][idx[w]].status = "completed"
  BY <1>3 DEF Loop
<1>4. CASE Ended(w) /\ UNCHANGED <<rows, faults, effects, rejected>>
  BY <1>4 DEF Loop
<1> QED BY <1>1, <1>2, <1>3, <1>4 DEF Loop, Open

\* The second cancellation check and the resolution of authority.
LEMMA ResolveMove ==
    ASSUME TypeOK, NEW w \in Worker, Recheck(w) \/ ResolveContext(w)
    PROVE  /\ pc[w] \in {"ready", "resolve"}
           /\ UNCHANGED <<rows, history, idx, snap, res, cancelSeen>>
           /\ \/ pc'[w] = "finish" /\ target'[w] # "completed" /\ ctx' = ctx
              \/ pc'[w] = "resolve" /\ target' = target /\ ctx' = ctx /\ ~run.cancel
              \/ /\ pc[w] = "resolve" /\ pc'[w] = "kernel"
                 /\ target' = target /\ ctx'[w] = authority
<1> USE DEF rows, local, history
<1>1. CASE Recheck(w) BY <1>1, FinishAt, GotoAt DEF Recheck
<1>2. CASE ResolveContext(w)
  <2>1. CASE authority = "none" BY <1>2, <2>1, FinishAt DEF ResolveContext
  <2>2. CASE authority # "none" BY <1>2, <2>2 DEF ResolveContext, TypeOK
  <2> QED BY <2>1, <2>2
<1> QED BY <1>1, <1>2

\* Entering Kernel: an answer, an earlier claim, or the way to the reservation.
LEMMA KernelEnterMove ==
    ASSUME TypeOK, NEW w \in Worker, KernelEnter(w)
    PROVE  /\ pc[w] = "kernel"
           /\ UNCHANGED <<run, step, claim, authority, history, idx, snap, ctx, cancelSeen, target>>
           /\ \/ /\ pc'[w] = "after"
                 /\ res'[w] = "completed" /\ idx[w] \in Mutating => claim[idx[w]] = "completed"
              \/ pc'[w] = "recover" /\ idx[w] \in Mutating /\ res' = res
              \/ pc'[w] = "reserve" /\ idx[w] \in Mutating /\ res' = res /\ ctx[w] = "full"
<1> USE DEF rows, local, history
<1>1. pc[w] = "kernel" /\ UNCHANGED <<run, step, claim, authority, history>> BY DEF KernelEnter
<1>2. CASE \E result \in StepStatus, b \in BOOLEAN :
             /\ Answered(w, result, b)
             /\ result = "completed" => idx[w] \in ReadOnly \/ claim[idx[w]] = "completed"
  BY <1>1, <1>2, AnsweredAt DEF Mutating
<1>3. CASE /\ idx[w] \in Mutating /\ pc' = [pc EXCEPT ![w] = "recover"]
           /\ cached' = [cached EXCEPT ![w] = FALSE]
           /\ UNCHANGED <<idx, snap, ctx, res, cancelSeen, target, lost, approval>>
  BY <1>1, <1>3, RecoverAt
<1>4. CASE idx[w] \in Mutating /\ ctx[w] = "full" /\ Goto(w, "reserve") BY <1>1, <1>4, GotoAt
<1> QED BY <1>2, <1>3, <1>4 DEF KernelEnter, StepStatus

\* The reservation: the claim is taken, found running or found completed.
LEMMA ReserveMove ==
    ASSUME TypeOK, NEW w \in Worker, KernelReserve(w)
    PROVE  /\ pc[w] = "reserve"
           /\ UNCHANGED <<run, step, authority, history, idx, snap, ctx, cancelSeen, target>>
           /\ \/ /\ claim[idx[w]] = "none" /\ claim' = [claim EXCEPT ![idx[w]] = "running"]
                 /\ pc'[w] = "effect" /\ res' = res
              \/ claim' = claim /\ pc'[w] = "recover" /\ res' = res
              \/ /\ claim' = claim /\ claim[idx[w]] = "completed"
                 /\ pc'[w] = "after" /\ res'[w] = "completed"
<1> USE DEF rows, local, history
<1>1. pc[w] = "reserve" /\ UNCHANGED <<run, step, authority, history>> BY DEF KernelReserve
<1>2. CASE claim[idx[w]] = "none" BY <1>1, <1>2, GotoAt DEF KernelReserve
<1>3. CASE claim[idx[w]] = "running" BY <1>1, <1>3, RecoverAt DEF KernelReserve
<1>4. CASE claim[idx[w]] = "completed" BY <1>1, <1>4, AnsweredAt DEF KernelReserve
<1> QED BY <1>2, <1>3, <1>4 DEF KernelReserve

\* The provider's call: with or without an effect.
LEMMA EffectMove ==
    ASSUME TypeOK, NEW w \in Worker, KernelEffect(w)
    PROVE  /\ pc[w] = "effect"
           /\ UNCHANGED <<rows, rejected, pastCancel, pastLoss, idx, snap, ctx, res, cancelSeen, target>>
           /\ \/ /\ effects' = [effects EXCEPT ![idx[w]] = @ + 1] /\ acted' = acted \cup {w}
                 /\ pc'[w] \in {"answer", "recover"}
              \/ effects' = effects /\ acted' = acted /\ pc'[w] = "recover"
<1>1. pc[w] = "effect" /\ UNCHANGED <<rows, rejected, pastCancel, pastLoss>> BY DEF KernelEffect
<1>2. CASE Goto(w, "answer")
  <2>1. pc'[w] = "answer" BY <1>1, <1>2, GotoAt
  <2>2. pc' # [pc EXCEPT ![w] = "recover"] BY <2>1 DEF TypeOK
  <2> QED BY <1>1, <1>2, <2>1, <2>2, GotoAt DEF KernelEffect
<1>3. CASE pc' = [pc EXCEPT ![w] = "recover"] /\ cached' = [cached EXCEPT ![w] = FALSE]
           /\ UNCHANGED <<idx, snap, ctx, res, cancelSeen, target, lost>>
  <2>1. pc'[w] = "recover" BY <1>1, <1>3, RecoverAt
  <2>2. ~Goto(w, "answer") BY <2>1 DEF TypeOK, Goto
  <2> QED BY <1>1, <1>3, <2>1, <2>2 DEF KernelEffect
<1> QED BY <1>2, <1>3 DEF KernelEffect

\* Kernel's final commit: the claim is completed, or the output is rejected.
LEMMA AnswerMove ==
    ASSUME TypeOK, NEW w \in Worker, KernelAnswer(w)
    PROVE  /\ pc[w] = "answer" /\ pc'[w] = "after"
           /\ UNCHANGED <<run, step, authority, effects, acted, pastCancel, pastLoss>>
           /\ UNCHANGED <<idx, snap, ctx, cancelSeen, target>>
           /\ \/ /\ claim' = [claim EXCEPT ![idx[w]] = "completed"] /\ rejected' = rejected
                 /\ res'[w] = "completed"
              \/ claim' = claim /\ rejected' = rejected \cup {idx[w]} /\ res'[w] = "failed"
BY AnsweredAt DEF KernelAnswer

\* The recovery state: the claim decides the result.
LEMMA RecoverMove ==
    ASSUME TypeOK, NEW w \in Worker, RecoveryState(w)
    PROVE  /\ pc[w] = "recover" /\ pc'[w] = "after"
           /\ UNCHANGED <<rows, history, idx, snap, ctx, cancelSeen, target>>
           /\ res'[w] = "completed" <=> claim[idx[w]] = "completed"
           /\ res'[w] = "failed" => claim[idx[w]] = "none"
<1>1. claim[idx[w]] \in {"none", "running", "completed"} BY DEF TypeOK
<1>2. PICK result : /\ Answered(w, result, TRUE)
                    /\ result = CASE claim[idx[w]] = "completed" -> "completed"
                                  [] claim[idx[w]] = "running" -> "execution_uncertain"
                                  [] OTHER -> "failed"
  BY DEF RecoveryState
<1>3. pc[w] = "recover" /\ UNCHANGED <<rows, history>> BY DEF RecoveryState
<1>4. UNCHANGED <<acted, pastCancel, pastLoss>> BY <1>3 DEF history
<1>5. /\ pc'[w] = "after" /\ res'[w] = result
      /\ UNCHANGED <<idx, snap, ctx, cancelSeen, target>>
  BY <1>2, <1>4, AnsweredAt
<1> QED BY <1>1, <1>2, <1>3, <1>5

\* The heartbeat is joined: the task ends, or cancellation is read.
LEMMA AfterMove ==
    ASSUME TypeOK, NEW w \in Worker, AfterStep(w)
    PROVE  /\ pc[w] = "after"
           /\ UNCHANGED <<rows, effects, rejected>>
           /\ \/ Ended(w)
              \/ /\ pc'[w] = "settle" /\ cancelSeen'[w] = run.cancel
                 /\ UNCHANGED <<idx, snap, ctx, res, target, acted>>
BY DEF AfterStep, TypeOK

\* The transaction after a step: nothing is written, a result and the status of
\* the run are, or a completed step is and the worker holds the lease.
LEMMA SettleMove ==
    ASSUME TypeOK, NEW w \in Worker, Settle(w)
    PROVE  /\ pc[w] = "settle"
           /\ UNCHANGED <<claim, authority, effects, rejected>>
           /\ \/ Ended(w) /\ UNCHANGED <<run, step>>
              \/ /\ Ended(w) /\ Recorded(w) /\ AttemptIsFree(w)
                 /\ cancelSeen[w] \/ Owns(w)
                 /\ \E status \in (Terminal \cup {"waiting_approval"}) \ {"completed"} :
                      /\ run' = Moved(status, idx[w])
                      /\ res[w] = "completed" => cancelSeen[w] \/ run.cancel
              \/ /\ Recorded(w) /\ AttemptIsFree(w) /\ res[w] = "completed"
                 /\ ~cancelSeen[w] /\ Owns(w) /\ ~run.cancel
                 /\ run' = [run EXCEPT !.lease = "live"]
                 /\ \/ Ended(w)
                    \/ /\ NextStep(w) /\ ctx'[w] = "none" /\ res'[w] = "pending" /\ w \notin acted'
                       /\ UNCHANGED <<snap, cancelSeen>>
<1> DEFINE status == StatusAfter(w)
<1>1. pc[w] = "settle" /\ UNCHANGED <<claim, authority, effects, rejected>> BY DEF Settle
<1>2. res[w] \in StepStatus BY DEF TypeOK
<1>3. status = "completed" => res[w] = "completed" /\ ~cancelSeen[w] /\ ~run.cancel
  BY <1>2 DEF StatusAfter, StepStatus
<1>4. res[w] = "completed" /\ status # "completed" => cancelSeen[w] \/ run.cancel
  BY DEF StatusAfter
<1>5. status \in StepStatus \cup {"cancelled"} BY <1>2 DEF StatusAfter, StepStatus
<1>6. status # "completed" /\ status \in Allowed(SeenStatus(w))
        => status \in (Terminal \cup {"waiting_approval"}) \ {"completed"}
  BY <1>5 DEF Allowed, StepStatus, Terminal
<1> HIDE DEF status
<1>7. CASE Ended(w) /\ UNCHANGED <<run, step>> BY <1>1, <1>7
<1>8. CASE /\ cancelSeen[w] \/ Owns(w)
           /\ AttemptIsFree(w) /\ Recorded(w) /\ Ended(w)
           /\ status # "completed" /\ status \in Allowed(SeenStatus(w)) /\ run' = Moved(status, idx[w])
  BY <1>1, <1>4, <1>6, <1>8
<1>9. CASE /\ cancelSeen[w] \/ Owns(w)
           /\ AttemptIsFree(w) /\ Recorded(w) /\ run' = [run EXCEPT !.lease = "live"]
           /\ status = "completed"
  <2>1. CASE Ended(w) BY <1>1, <1>3, <1>9, <2>1
  <2>2. CASE ~Ended(w)
    <3>1. /\ NextStep(w) /\ ctx' = [ctx EXCEPT ![w] = "none"]
          /\ res' = [res EXCEPT ![w] = "pending"] /\ acted' = acted \ {w}
          /\ UNCHANGED <<cached, snap, cancelSeen, lost, pastCancel, pastLoss>>
      BY <2>2 DEF Settle
    <3>2. ctx'[w] = "none" /\ res'[w] = "pending" BY <3>1 DEF TypeOK
    <3> QED BY <1>1, <1>3, <1>9, <3>1, <3>2
  <2> QED BY <2>1, <2>2
<1> QED BY <1>7, <1>8, <1>9 DEF Settle, status

-----------------------------------------------------------------------------
(* The invariant's parts, one lemma each.                                  *)

\* A step that leaves claims and effects alone and brings no worker to its
\* request keeps ClaimInv.
LEMMA ClaimQuiet ==
    ASSUME ClaimInv, UNCHANGED <<claim, effects>>,
           \A v \in Worker : \/ pc'[v] \notin Requesting
                             \/ pc'[v] = pc[v] /\ idx'[v] = idx[v]
    PROVE  ClaimInv'
BY DEF ClaimInv, Requesting

\* Every step keeps ClaimInv.
LEMMA ClaimStep ==
    ASSUME TypeOK, ClaimInv, [Next]_vars
    PROVE  ClaimInv'
<1> USE DEF rows, local, history
<1>1. CASE \/ UNCHANGED vars
           \/ CreateRun \/ RequestCancellation \/ QueueAfterApproval \/ LoseAuthority \/ Expire
           \/ \E s \in StepId : DecideApproval(s)
  <2>1. UNCHANGED <<claim, effects, pc, idx>>
    BY <1>1 DEF vars, CreateRun, RequestCancellation, QueueAfterApproval, LoseAuthority, Expire,
                DecideApproval
  <2> QED BY <2>1, ClaimQuiet
<1>2. ASSUME NEW w \in Worker, Others(w), UNCHANGED <<claim, effects>>,
             \/ pc'[w] \notin Requesting
             \/ pc'[w] = pc[w] /\ idx'[w] = idx[w]
      PROVE  ClaimInv'
  BY <1>2, ClaimQuiet DEF Others, Same
<1>3. ASSUME NEW w \in Worker, WorkerStep(w) \/ Heartbeat(w) \/ HeartbeatFails(w) \/ Crash(w)
      PROVE  ClaimInv'
  <2>1. Others(w) /\ idx[w] \in StepId BY <1>3, Frame DEF TypeOK
  <2>2. CASE Claim(w) BY <1>2, <2>1, <2>2 DEF Claim, Requesting, TypeOK
  <2>3. CASE Enter(w) BY <1>2, <2>1, <2>3, EnterMove DEF Requesting
  <2>4. CASE Loop(w) BY <1>2, <2>1, <2>4, LoopMove, NextStepAt, EndedAt DEF Requesting
  <2>5. CASE Recheck(w) \/ ResolveContext(w) BY <1>2, <2>1, <2>5, ResolveMove DEF Requesting
  <2>6. CASE KernelEnter(w)
    BY <2>1, <2>6, KernelEnterMove DEF ClaimInv, Others, Same
  <2>7. CASE KernelReserve(w)
    <3>1. idx[w] \in Mutating BY <2>7 DEF KernelReserve, ClaimInv
    <3>2. CASE claim' = claim /\ pc'[w] \in {"recover", "after"}
      BY <2>1, <2>7, <3>1, <3>2, ReserveMove DEF ClaimInv, Others, Same
    <3>3. CASE claim[idx[w]] = "none" /\ claim' = [claim EXCEPT ![idx[w]] = "running"] /\ pc'[w] = "effect"
      <4>1. claim'[idx[w]] = "running" /\ \A t \in StepId \ {idx[w]} : claim'[t] = claim[t]
        BY <2>1, <3>3 DEF TypeOK
      <4>2. effects' = effects /\ idx' = idx BY <2>7, ReserveMove
      <4>3. \A v \in Worker \ {w} : pc'[v] = pc[v] /\ (pc[v] \in {"effect", "answer"} => idx[v] # idx[w])
        BY <2>1, <3>3 DEF ClaimInv, Others, Same
      <4>4. \A v \in Worker : idx[v] \in StepId BY DEF TypeOK
      <4>5. effects[idx[w]] = 0 BY <3>1, <3>3 DEF ClaimInv
      <4> QED BY <3>1, <3>3, <4>1, <4>2, <4>3, <4>4, <4>5 DEF ClaimInv, Mutating
    <3> QED BY <2>7, <3>2, <3>3, ReserveMove
  <2>8. CASE KernelEffect(w)
    <3>1. idx[w] \in Mutating BY <2>8 DEF KernelEffect, ClaimInv
    <3>2. /\ claim[idx[w]] = "running" /\ effects[idx[w]] = 0 /\ claim' = claim /\ idx' = idx
          /\ pc'[w] \in {"answer", "recover"}
      BY <2>8, EffectMove DEF ClaimInv
    <3>3. \A v \in Worker \ {w} : pc'[v] = pc[v] /\ (pc[v] \in {"effect", "answer"} => idx[v] # idx[w])
      BY <2>1, <2>8, EffectMove DEF ClaimInv, Others, Same
    <3>4. CASE effects' = effects /\ pc'[w] = "recover"
      BY <3>1, <3>2, <3>3, <3>4 DEF ClaimInv
    <3>5. CASE effects' = [effects EXCEPT ![idx[w]] = @ + 1]
      <4>1. effects'[idx[w]] = 1 /\ \A t \in StepId \ {idx[w]} : effects'[t] = effects[t]
        BY <2>1, <3>2, <3>5 DEF TypeOK
      <4>2. \A v \in Worker : idx[v] \in StepId BY DEF TypeOK
      <4> QED BY <3>1, <3>2, <3>3, <4>1, <4>2 DEF ClaimInv, Mutating
    <3> QED BY <2>8, <3>4, <3>5, EffectMove
  <2>9. CASE KernelAnswer(w)
    <3>1. idx[w] \in Mutating BY <2>9 DEF KernelAnswer, ClaimInv
    <3>2. CASE claim' = claim BY <1>2, <2>1, <2>9, <3>2, AnswerMove DEF Requesting
    <3>3. CASE claim' = [claim EXCEPT ![idx[w]] = "completed"]
      <4>1. claim'[idx[w]] = "completed" /\ \A t \in StepId \ {idx[w]} : claim'[t] = claim[t]
        BY <2>1, <3>3 DEF TypeOK
      <4>2. /\ effects' = effects /\ idx' = idx /\ effects[idx[w]] = 1
            /\ pc'[w] = "after"
        BY <2>9, AnswerMove DEF ClaimInv
      <4>3. \A v \in Worker \ {w} : pc'[v] = pc[v] /\ (pc[v] \in {"effect", "answer"} => idx[v] # idx[w])
        BY <2>1, <2>9, AnswerMove DEF ClaimInv, Others, Same
      <4>4. \A v \in Worker : idx[v] \in StepId BY DEF TypeOK
      <4> QED BY <3>1, <4>1, <4>2, <4>3, <4>4 DEF ClaimInv, Mutating
    <3> QED BY <2>9, <3>2, <3>3, AnswerMove
  <2>10. CASE RecoveryState(w) BY <1>2, <2>1, <2>10, RecoverMove DEF Requesting
  <2>11. CASE AfterStep(w) BY <1>2, <2>1, <2>11, AfterMove, EndedAt DEF Requesting
  <2>12. CASE Settle(w) BY <1>2, <2>1, <2>12, SettleMove, NextStepAt, EndedAt DEF Requesting
  <2>13. CASE Transition(w) \/ Crash(w)
    BY <1>2, <2>1, <2>13, EndedAt DEF Transition, Crash, Requesting
  <2>14. CASE Heartbeat(w) \/ HeartbeatFails(w)
    BY <1>2, <2>1, <2>14 DEF Heartbeat, HeartbeatFails
  <2> QED
    BY <1>3, <2>2, <2>3, <2>4, <2>5, <2>6, <2>7, <2>8, <2>9, <2>10, <2>11, <2>12, <2>13, <2>14
       DEF WorkerStep
<1> QED BY <1>1, <1>3 DEF Next

\* The claim and the outcome of a worker's call agree.
LEMMA ResultStep ==
    ASSUME TypeOK, ClaimInv, ResultInv, [Next]_vars
    PROVE  ResultInv'
<1> USE DEF rows, local, history
<1>1. CASE \/ UNCHANGED vars
           \/ CreateRun \/ RequestCancellation \/ QueueAfterApproval \/ LoseAuthority \/ Expire
           \/ \E s \in StepId : DecideApproval(s)
  <2>1. UNCHANGED <<claim, pc, idx, res, acted, rejected>>
    BY <1>1 DEF vars, CreateRun, RequestCancellation, QueueAfterApproval, LoseAuthority, Expire,
                DecideApproval
  <2> QED BY <2>1 DEF ResultInv
<1>2. ASSUME NEW w \in Worker, Others(w), UNCHANGED claim, rejected \subseteq rejected',
             \/ pc'[w] \notin {"after", "settle"} /\ res'[w] = "pending" /\ w \notin acted'
             \/ Same(w)
      PROVE  ResultInv'
  BY <1>2 DEF ResultInv, Others, Same
<1>3. ASSUME NEW w \in Worker, WorkerStep(w) \/ Heartbeat(w) \/ HeartbeatFails(w) \/ Crash(w)
      PROVE  ResultInv'
  <2>1. Others(w) /\ idx[w] \in StepId BY <1>3, Frame DEF TypeOK
  <2>2. CASE Claim(w) BY <1>2, <2>1, <2>2 DEF Claim, ResultInv, TypeOK
  <2>3. CASE Enter(w) BY <1>2, <2>1, <2>3, EnterMove DEF ResultInv
  <2>4. CASE Loop(w)
    <3>1. pc[w] = "loop" /\ claim' = claim /\ rejected' = rejected BY <2>4, LoopMove
    <3>2. CASE Ended(w) BY <1>2, <2>1, <3>1, <3>2, EndedAt
    <3>3. CASE UNCHANGED <<res, acted>> /\ pc'[w] \in {"finish", "ready", "loop"}
      BY <1>2, <2>1, <3>1, <3>3 DEF ResultInv
    <3> QED BY <2>4, <3>2, <3>3, LoopMove, NextStepAt
  <2>5. CASE Recheck(w) \/ ResolveContext(w) BY <1>2, <2>1, <2>5, ResolveMove DEF ResultInv
  <2>6. CASE KernelEnter(w)
    BY <2>1, <2>6, KernelEnterMove DEF ResultInv, Others, Same
  <2>7. CASE KernelReserve(w)
    <3>1. \A t \in StepId : claim[t] # "none" => claim'[t] = claim[t]
      BY <2>1, <2>7, ReserveMove DEF TypeOK
    <3>2. \A v \in Worker : idx[v] \in StepId BY DEF TypeOK
    <3> QED BY <2>1, <2>7, <3>1, <3>2, ReserveMove DEF ResultInv, Others, Same
  <2>8. CASE KernelEffect(w)
    BY <2>1, <2>8, EffectMove DEF ClaimInv, ResultInv, Others, Same
  <2>9. CASE KernelAnswer(w)
    <3>1. \A t \in StepId : claim[t] # "none" => claim'[t] # "none"
      BY <2>1, <2>9, AnswerMove DEF TypeOK
    <3>2. \A t \in StepId : claim[t] = "completed" => claim'[t] = "completed"
      BY <2>1, <2>9, AnswerMove DEF TypeOK
    <3>3. res'[w] = "completed" => claim'[idx[w]] = "completed"
      BY <2>1, <2>9, AnswerMove DEF TypeOK
    <3>4. claim[idx[w]] = "running" BY <2>9, AnswerMove DEF ClaimInv
    <3>5. \A v \in Worker : idx[v] \in StepId BY DEF TypeOK
    <3> QED BY <2>1, <2>9, <3>1, <3>2, <3>3, <3>4, <3>5, AnswerMove DEF ResultInv, Others, Same
  <2>10. CASE RecoveryState(w)
    BY <2>1, <2>10, RecoverMove DEF ResultInv, Others, Same
  <2>11. CASE AfterStep(w)
    <3>1. CASE Ended(w) BY <1>2, <2>1, <2>11, <3>1, AfterMove, EndedAt
    <3>2. CASE pc'[w] = "settle" /\ UNCHANGED <<idx, res, acted>>
      BY <2>1, <2>11, <3>2, AfterMove DEF ResultInv, Others, Same
    <3> QED BY <2>11, <3>1, <3>2, AfterMove
  <2>12. CASE Settle(w) BY <1>2, <2>1, <2>12, SettleMove, NextStepAt, EndedAt
  <2>13. CASE Transition(w) \/ Crash(w)
    BY <1>2, <2>1, <2>13, EndedAt DEF Transition, Crash
  <2>14. CASE Heartbeat(w) \/ HeartbeatFails(w)
    BY <1>2, <2>1, <2>14 DEF Heartbeat, HeartbeatFails, Same
  <2> QED
    BY <1>3, <2>2, <2>3, <2>4, <2>5, <2>6, <2>7, <2>8, <2>9, <2>10, <2>11, <2>12, <2>13, <2>14
       DEF WorkerStep
<1> QED BY <1>1, <1>3 DEF Next

\* Cancellation and lost authority reach every worker not past its check.
LEMMA StopStep ==
    ASSUME TypeOK, StopInv, [Next]_vars
    PROVE  StopInv'
<1> USE DEF rows, local, history
<1>1. CASE \/ UNCHANGED vars
           \/ CreateRun \/ QueueAfterApproval \/ Expire
           \/ \E s \in StepId : DecideApproval(s)
  <2>1. UNCHANGED <<authority, pc, ctx, cancelSeen, pastCancel, pastLoss>> /\ run'.cancel = run.cancel
    BY <1>1 DEF vars, CreateRun, QueueAfterApproval, Expire, DecideApproval, TypeOK, RunRow
  <2> QED BY <2>1 DEF StopInv
<1>2. CASE RequestCancellation
  <2>1. UNCHANGED <<authority, pc, ctx, cancelSeen, pastLoss>> /\ run'.cancel
    BY <1>2 DEF RequestCancellation, TypeOK, RunRow
  <2>2. \A w \in Worker : pc[w] \in InKernel \cup {"resolve"} => w \in pastCancel'
    BY <1>2 DEF RequestCancellation, StopInv
  <2> QED BY <2>1, <2>2 DEF StopInv
<1>3. CASE LoseAuthority BY <1>3 DEF LoseAuthority, StopInv, InKernel, TypeOK
<1>4. ASSUME NEW w \in Worker, WorkerStep(w) \/ Heartbeat(w) \/ HeartbeatFails(w) \/ Crash(w)
      PROVE  StopInv'
  <2>1. Others(w) BY <1>4, Frame
  <2>2. run'.cancel = run.cancel
    <3>1. \A status, cur : Moved(status, cur).cancel = run.cancel BY DEF Moved, TypeOK, RunRow
    <3>2. CASE run' \in {run, [run EXCEPT !.lease = "live"]} BY <3>2 DEF TypeOK, RunRow
    <3>3. CASE Claim(w) BY <3>3 DEF Claim, TypeOK, RunRow
    <3>4. CASE Settle(w) BY <3>1, <3>2, <3>4, SettleMove
    <3>5. CASE Transition(w) BY <3>1, <3>5 DEF Transition
    <3> QED
      BY <1>4, <3>2, <3>3, <3>4, <3>5, EnterMove, LoopMove, ResolveMove, KernelEnterMove, ReserveMove,
         EffectMove, AnswerMove, RecoverMove, AfterMove
         DEF WorkerStep, Crash, Heartbeat, HeartbeatFails
  <2>3. authority' = authority
    BY <1>4, EnterMove, LoopMove, ResolveMove, KernelEnterMove, ReserveMove, EffectMove, AnswerMove,
       RecoverMove, AfterMove, SettleMove
       DEF WorkerStep, Claim, Transition, Crash, Heartbeat, HeartbeatFails
  <2>4. ASSUME cancelSeen'[w] => run.cancel,
               pc'[w] \notin InKernel \cup {"resolve"}
               PROVE StopInv'
    BY <2>1, <2>2, <2>3, <2>4 DEF StopInv, Others, Same, InKernel
  <2>5. CASE Claim(w) BY <2>4, <2>5 DEF Claim, StopInv, InKernel, TypeOK
  <2>6. CASE Enter(w) BY <2>4, <2>6, EnterMove DEF StopInv, InKernel
  <2>7. CASE Loop(w) BY <2>4, <2>7, LoopMove, NextStepAt, EndedAt DEF StopInv, InKernel
  <2>8. CASE Recheck(w) \/ ResolveContext(w)
    BY <2>1, <2>2, <2>3, <2>8, ResolveMove DEF StopInv, InKernel, Others, Same
  <2>9. CASE KernelEnter(w)
    BY <2>1, <2>2, <2>3, <2>9, KernelEnterMove DEF StopInv, InKernel, Others, Same
  <2>10. CASE KernelReserve(w)
    BY <2>1, <2>2, <2>3, <2>10, ReserveMove DEF StopInv, InKernel, Others, Same
  <2>11. CASE KernelEffect(w)
    BY <2>1, <2>2, <2>3, <2>11, EffectMove DEF StopInv, InKernel, Others, Same
  <2>12. CASE KernelAnswer(w) BY <2>4, <2>12, AnswerMove DEF StopInv, InKernel
  <2>13. CASE RecoveryState(w) BY <2>4, <2>13, RecoverMove DEF StopInv, InKernel
  <2>14. CASE AfterStep(w) BY <2>4, <2>14, AfterMove, EndedAt DEF StopInv, InKernel
  <2>15. CASE Settle(w) BY <2>4, <2>15, SettleMove, NextStepAt, EndedAt DEF StopInv, InKernel
  <2>16. CASE Transition(w) \/ Crash(w)
    BY <2>4, <2>16, EndedAt DEF Transition, Crash, InKernel
  <2>17. CASE Heartbeat(w) \/ HeartbeatFails(w)
    BY <2>1, <2>2, <2>3, <2>17 DEF Heartbeat, HeartbeatFails, StopInv
  <2> QED
    BY <1>4, <2>5, <2>6, <2>7, <2>8, <2>9, <2>10, <2>11, <2>12, <2>13, <2>14, <2>15, <2>16, <2>17
       DEF WorkerStep
<1> QED BY <1>1, <1>2, <1>3, <1>4 DEF Next

-----------------------------------------------------------------------------
(* What a step can do to the rows and to a worker's view of them.          *)

\* A task that ends has passed nothing.
LEMMA EndedPasses ==
    ASSUME TypeOK, NEW w \in Worker, Ended(w)
    PROVE  \A s \in StepId : ~Passed(w, s)'
<1>1. /\ idx'[w] = 1 /\ snap'[w] = [s \in StepId |-> NewStep] /\ target'[w] = "absent"
  BY EndedAt
<1>2. \A s \in StepId : ~(s < 1) BY AgentAssumption DEF StepId
<1> QED BY <1>1, <1>2 DEF Passed, NewStep

\* Going on to the next step passes the present one, and no other.
LEMMA NextStepPasses ==
    ASSUME TypeOK, NEW w \in Worker, NextStep(w), snap' = snap
    PROVE  \A s \in StepId : Passed(w, s)' => Passed(w, s) \/ s = idx[w]
<1>1. idx[w] \in StepId BY DEF TypeOK
<1>2. CASE /\ idx[w] = StepCount /\ pc'[w] = "finish" /\ target'[w] = "completed"
           /\ idx'[w] = idx[w]
  <2>1. \A s \in StepId : s < idx[w] \/ s = idx[w] BY <1>1, <1>2, AgentAssumption DEF StepId
  <2> QED BY <2>1 DEF Passed
<1>3. CASE /\ idx[w] < StepCount /\ pc'[w] = "loop" /\ target'[w] = target[w]
           /\ idx'[w] = idx[w] + 1
  <2>1. \A s \in StepId : s < idx[w] + 1 => s < idx[w] \/ s = idx[w]
    BY <1>1, AgentAssumption DEF StepId
  <2> QED BY <1>3, <2>1 DEF Passed
<1> QED BY <1>2, <1>3, NextStepAt

\* A worker takes a step for completed only after its row, or its own call, says so.
LEMMA PassedStep ==
    ASSUME TypeOK, [Next]_vars, NEW v \in Worker, NEW s \in StepId, Passed(v, s)'
    PROVE  \/ Passed(v, s)
           \/ step[s].status = "completed"
           \/ /\ s = idx[v] /\ pc[v] = "settle" /\ res[v] = "completed"
              /\ step'[s].status = "completed"
<1> USE DEF rows, local, history
<1>1. CASE UNCHANGED <<idx, snap, target>> BY <1>1 DEF Passed
<1>2. CASE idx'[v] = idx[v] /\ snap'[v] = snap[v] /\ (target'[v] = target[v] \/ target'[v] # "completed")
  BY <1>2 DEF Passed
<1>3. ASSUME NEW w \in Worker, WorkerStep(w) \/ Heartbeat(w) \/ HeartbeatFails(w) \/ Crash(w)
      PROVE  \/ Passed(v, s)
             \/ step[s].status = "completed"
             \/ /\ s = idx[v] /\ pc[v] = "settle" /\ res[v] = "completed"
                /\ step'[s].status = "completed"
  <2>1. CASE v # w
    <3>1. Same(v) BY <1>3, <2>1, Frame DEF Others
    <3> QED BY <1>2, <3>1 DEF Same
  <2> SUFFICES ASSUME v = w PROVE
             \/ Passed(w, s)
             \/ step[s].status = "completed"
             \/ /\ s = idx[w] /\ pc[w] = "settle" /\ res[w] = "completed"
                /\ step'[s].status = "completed"
    BY <2>1
  <2>2. ~Ended(w) BY EndedPasses
  <2>3. CASE Claim(w) BY <1>1, <2>3 DEF Claim
  <2>4. CASE Enter(w) BY <1>2, <2>4, EnterMove DEF Passed
  <2>5. CASE Loop(w)
    <3>1. CASE snap[w][idx[w]].status = "completed" /\ NextStep(w) /\ snap' = snap
      BY <3>1, NextStepPasses DEF Passed
    <3> QED BY <1>2, <2>2, <2>5, <3>1, LoopMove
  <2>6. CASE Recheck(w) \/ ResolveContext(w) BY <1>2, <2>6, ResolveMove
  <2>7. CASE KernelEnter(w) BY <1>1, <2>7, KernelEnterMove
  <2>8. CASE KernelReserve(w) BY <1>1, <2>8, ReserveMove
  <2>9. CASE KernelEffect(w) BY <1>1, <2>9, EffectMove
  <2>10. CASE KernelAnswer(w) BY <1>1, <2>10, AnswerMove
  <2>11. CASE RecoveryState(w) BY <1>1, <2>11, RecoverMove
  <2>12. CASE AfterStep(w) BY <1>1, <2>2, <2>12, AfterMove
  <2>13. CASE Settle(w)
    <3>1. pc[w] = "settle" /\ Recorded(w) /\ res[w] = "completed" /\ NextStep(w) /\ snap' = snap
      BY <2>2, <2>13, SettleMove
    <3>2. step'[idx[w]].status = "completed" BY <3>1 DEF Recorded, TypeOK
    <3> QED BY <3>1, <3>2, NextStepPasses
  <2>14. CASE Transition(w) \/ Crash(w) BY <2>2, <2>14 DEF Transition, Crash
  <2>15. CASE Heartbeat(w) \/ HeartbeatFails(w) BY <1>1, <2>15 DEF Heartbeat, HeartbeatFails
  <2> QED
    BY <1>3, <2>3, <2>4, <2>5, <2>6, <2>7, <2>8, <2>9, <2>10, <2>11, <2>12, <2>13, <2>14, <2>15
       DEF WorkerStep
<1>4. CASE \/ UNCHANGED vars
           \/ CreateRun \/ RequestCancellation \/ QueueAfterApproval \/ LoseAuthority \/ Expire
           \/ \E t \in StepId : DecideApproval(t)
  BY <1>1, <1>4 DEF vars, CreateRun, RequestCancellation, QueueAfterApproval, LoseAuthority, Expire,
                    DecideApproval
<1> QED BY <1>3, <1>4 DEF Next

\* Who writes a step row: the approval's answer, or a worker whose attempt
\* number is free and which holds the lease or saw the cancellation.
LEMMA RowStep ==
    ASSUME TypeOK, [Next]_vars, NEW s \in StepId
    PROVE  \/ step'[s] = step[s]
           \/ /\ step[s].status = "waiting_approval" /\ step'[s].status = "pending"
              /\ step'[s].attempt = step[s].attempt
              /\ run'.token = None /\ run.status = "waiting_approval"
           \/ \E w \in Worker :
                /\ Settle(w) /\ s = idx[w] /\ AttemptIsFree(w)
                /\ step'[s].status = res[w] /\ step'[s].attempt = step[s].attempt + 1
                /\ \/ cancelSeen[w] /\ run'.token = None /\ pc'[w] = "idle"
                   \/ Owns(w) /\ (pc'[w] \notin Walking \/ idx'[w] = idx[w] + 1)
<1> USE DEF rows, local, history
<1>1. CASE step' = step BY <1>1
<1>2. CASE QueueAfterApproval
  <2>1. run.cur \in StepId BY <1>2 DEF QueueAfterApproval, TypeOK, RunRow
  <2>2. run'.token = None /\ run.status = "waiting_approval" /\ step[run.cur].status = "waiting_approval"
    BY <1>2 DEF QueueAfterApproval, TypeOK, RunRow
  <2>3. CASE s # run.cur BY <1>2, <2>1, <2>3 DEF QueueAfterApproval, TypeOK
  <2>4. CASE s = run.cur
    <3> DEFINE c == run.cur
               mid == [step EXCEPT ![c] = [step[c] EXCEPT !.status = "pending"]]
    <3>1. step[c] \in StepRow BY <2>1 DEF TypeOK
    <3>2. step' = [mid EXCEPT ![c] = [mid[c] EXCEPT !.approved = TRUE]]
      BY <1>2 DEF QueueAfterApproval
    <3>3. /\ mid[c] \in StepRow /\ mid \in [StepId -> StepRow]
          /\ mid[c].status = "pending" /\ mid[c].attempt = step[c].attempt
      BY <2>1, <3>1 DEF TypeOK, StepRow, StepStatus
    <3>4. step'[c].status = "pending" /\ step'[c].attempt = step[c].attempt
      <4> HIDE DEF mid
      <4> QED BY <2>1, <3>2, <3>3 DEF StepRow
    <3> QED BY <2>2, <2>4, <3>4
  <2> QED BY <2>3, <2>4
<1>3. ASSUME NEW w \in Worker, Settle(w), Recorded(w), s = idx[w]
      PROVE  \/ step'[s] = step[s]
             \/ /\ Settle(w) /\ s = idx[w] /\ AttemptIsFree(w)
                /\ step'[s].status = res[w] /\ step'[s].attempt = step[s].attempt + 1
                /\ \/ cancelSeen[w] /\ run'.token = None /\ pc'[w] = "idle"
                   \/ Owns(w) /\ (pc'[w] \notin Walking \/ idx'[w] = idx[w] + 1)
  <2>1. step'[s].status = res[w] /\ step'[s].attempt = step[s].attempt + 1
    BY <1>3 DEF Recorded, TypeOK
  <2>2. Ended(w) => pc'[w] = "idle" BY EndedAt
  <2>3. NextStep(w) => pc'[w] = "finish" \/ idx'[w] = idx[w] + 1 BY NextStepAt
  <2>4. "idle" \notin Walking /\ "finish" \notin Walking BY DEF Walking, InKernel
  <2>5. \A status \in (Terminal \cup {"waiting_approval"}) \ {"completed"} : \A cur :
          Moved(status, cur).token = None
    BY DEF Moved, TypeOK, RunRow
  <2> QED BY <1>3, <2>1, <2>2, <2>3, <2>4, <2>5, SettleMove
<1>4. ASSUME NEW w \in Worker, Settle(w), Recorded(w), s # idx[w] PROVE step'[s] = step[s]
  BY <1>4 DEF Recorded, TypeOK
<1>5. ASSUME NEW w \in Worker, Settle(w) PROVE step' = step \/ Recorded(w)
  BY <1>5, SettleMove
<1>6. ASSUME NEW w \in Worker, WorkerStep(w) \/ Heartbeat(w) \/ HeartbeatFails(w) \/ Crash(w),
             ~Settle(w)
      PROVE  step' = step
  BY <1>6, EnterMove, LoopMove, ResolveMove, KernelEnterMove, ReserveMove, EffectMove, AnswerMove,
     RecoverMove, AfterMove
     DEF WorkerStep, Claim, Transition, Crash, Heartbeat, HeartbeatFails
<1>7. CASE \/ UNCHANGED vars
           \/ CreateRun \/ RequestCancellation \/ LoseAuthority \/ Expire
           \/ \E t \in StepId : DecideApproval(t)
  BY <1>7 DEF vars, CreateRun, RequestCancellation, LoseAuthority, Expire, DecideApproval
<1> QED BY <1>1, <1>2, <1>3, <1>4, <1>5, <1>6, <1>7 DEF Next

\* Who writes the run row: its status becomes completed only at the end of the
\* loop, a lease is taken only by a claim, and cancellation is never withdrawn.
LEMMA RunStep ==
    ASSUME TypeOK, [Next]_vars
    PROVE  /\ run'.status = "completed" =>
                run.status = "completed" \/ \E w \in Worker : target[w] = "completed"
           /\ \A v \in Worker : run'.token = v => run.token = v \/ pc'[v] = "claimed"
           /\ run.cancel => run'.cancel
<1> USE DEF rows, local, history
<1>1. \A status, cur :
        /\ Moved(status, cur).cancel = run.cancel /\ Moved(status, cur).status = status
        /\ Moved(status, cur).token \in {run.token, None}
  BY DEF Moved, TypeOK, RunRow
<1>2. None \notin Worker BY AgentAssumption
<1>3. CASE run' \in {run, [run EXCEPT !.lease = "live"], [run EXCEPT !.lease = "expired"]}
  BY <1>3 DEF TypeOK, RunRow
<1>4. CASE UNCHANGED vars \/ LoseAuthority \/ Expire \/ \E s \in StepId : DecideApproval(s)
  BY <1>3, <1>4 DEF vars, LoseAuthority, Expire, DecideApproval
<1>5. CASE CreateRun \/ RequestCancellation \/ QueueAfterApproval
  <2>1. CASE CreateRun BY <2>1 DEF CreateRun, TypeOK, RunRow
  <2>2. CASE RequestCancellation
    <3>1. CASE run' = [run EXCEPT !.cancel = TRUE] BY <3>1 DEF TypeOK, RunRow
    <3>2. CASE run' = [run EXCEPT !.cancel = TRUE, !.status = "cancelled", !.token = None,
                                  !.lease = "null"]
      BY <1>2, <3>2 DEF TypeOK, RunRow
    <3> QED BY <2>2, <3>1, <3>2 DEF RequestCancellation
  <2>3. CASE QueueAfterApproval BY <1>2, <2>3 DEF QueueAfterApproval, TypeOK, RunRow
  <2> QED BY <1>5, <2>1, <2>2, <2>3
<1>6. ASSUME NEW w \in Worker, Claim(w)
      PROVE  run'.status = "running" /\ run'.token = w /\ run'.cancel = run.cancel /\ pc'[w] = "claimed"
  BY <1>6 DEF Claim, TypeOK, RunRow
<1>7. ASSUME NEW w \in Worker, Settle(w)
      PROVE  \/ run' \in {run, [run EXCEPT !.lease = "live"]}
             \/ \E status, cur : status # "completed" /\ run' = Moved(status, cur)
  BY <1>7, SettleMove
<1>8. ASSUME NEW w \in Worker, Transition(w)
      PROVE  run' = run \/ \E cur : run' = Moved(target[w], cur)
  BY <1>8 DEF Transition
<1>9. ASSUME NEW w \in Worker, WorkerStep(w) \/ Heartbeat(w) \/ HeartbeatFails(w) \/ Crash(w),
             ~Claim(w), ~Settle(w), ~Transition(w)
      PROVE  run' \in {run, [run EXCEPT !.lease = "live"]}
  BY <1>9, EnterMove, LoopMove, ResolveMove, KernelEnterMove, ReserveMove, EffectMove, AnswerMove,
     RecoverMove, AfterMove
     DEF WorkerStep, Crash, Heartbeat, HeartbeatFails
<1> QED BY <1>1, <1>2, <1>3, <1>4, <1>5, <1>6, <1>7, <1>8, <1>9 DEF Next

\* Who writes a claim: a completed one stays, and a new one is taken by a worker
\* at its step.
LEMMA ClaimRowStep ==
    ASSUME TypeOK, ClaimInv, [Next]_vars, NEW s \in StepId
    PROVE  /\ claim[s] = "completed" => claim'[s] = "completed"
           /\ claim'[s] # "none" => claim[s] # "none" \/ \E w \in Worker : idx[w] = s
<1> USE DEF rows, local, history
<1>1. CASE claim' = claim BY <1>1
<1>2. ASSUME NEW w \in Worker, KernelReserve(w) \/ KernelAnswer(w)
      PROVE  /\ claim[s] = "completed" => claim'[s] = "completed"
             /\ claim'[s] # "none" => claim[s] # "none" \/ idx[w] = s
  <2>1. idx[w] \in StepId BY DEF TypeOK
  <2>2. CASE KernelReserve(w) BY <2>1, <2>2, ReserveMove DEF TypeOK
  <2>3. CASE KernelAnswer(w)
    <3>1. claim[idx[w]] = "running" BY <2>3, AnswerMove DEF ClaimInv
    <3> QED BY <2>1, <2>3, <3>1, AnswerMove DEF TypeOK
  <2> QED BY <1>2, <2>2, <2>3
<1>3. ASSUME NEW w \in Worker, WorkerStep(w) \/ Heartbeat(w) \/ HeartbeatFails(w) \/ Crash(w),
             ~KernelReserve(w), ~KernelAnswer(w)
      PROVE  claim' = claim
  BY <1>3, EnterMove, LoopMove, ResolveMove, KernelEnterMove, EffectMove, RecoverMove, AfterMove,
     SettleMove
     DEF WorkerStep, Claim, Transition, Crash, Heartbeat, HeartbeatFails
<1>4. CASE \/ UNCHANGED vars
           \/ CreateRun \/ RequestCancellation \/ QueueAfterApproval \/ LoseAuthority \/ Expire
           \/ \E t \in StepId : DecideApproval(t)
  BY <1>4 DEF vars, CreateRun, RequestCancellation, QueueAfterApproval, LoseAuthority, Expire,
              DecideApproval
<1> QED BY <1>1, <1>2, <1>3, <1>4 DEF Next

\* Every step keeps PlanInv.
LEMMA PlanStep ==
    ASSUME TypeOK, ClaimInv, ResultInv, PlanInv, [Next]_vars
    PROVE  PlanInv'
<1>1. \A s \in Mutating : claim[s] = "completed" => claim'[s] = "completed"
  BY ClaimRowStep DEF Mutating
<1>2. ASSUME NEW s \in Mutating, step'[s].status = "completed" PROVE claim[s] = "completed"
  <2>1. s \in StepId BY DEF Mutating
  <2>2. CASE step'[s] = step[s] BY <1>2, <2>2 DEF PlanInv
  <2>3. CASE \E w \in Worker : Settle(w) /\ s = idx[w] /\ step'[s].status = res[w]
    BY <1>2, <2>3 DEF Settle, ResultInv
  <2> QED BY <1>2, <2>1, <2>2, <2>3, RowStep
<1>3. ASSUME NEW s \in Mutating, NEW w \in Worker, Passed(w, s)' PROVE claim[s] = "completed"
  <2>1. s \in StepId BY DEF Mutating
  <2>2. CASE Passed(w, s) \/ step[s].status = "completed" BY <2>2 DEF PlanInv
  <2>3. CASE s = idx[w] /\ pc[w] = "settle" /\ res[w] = "completed" BY <2>3 DEF ResultInv
  <2> QED BY <1>3, <2>1, <2>2, <2>3, PassedStep
<1>4. ASSUME NEW s \in Mutating, run'.status = "completed" PROVE claim[s] = "completed"
  BY <1>4, RunStep DEF PlanInv, Passed
<1>5. ASSUME NEW s \in Mutating, NEW t \in Mutating, t < s, claim'[s] # "none"
      PROVE  claim[t] = "completed"
  <2>1. s \in StepId BY DEF Mutating
  <2>2. CASE claim[s] # "none" BY <1>5, <2>2 DEF PlanInv
  <2>3. CASE \E w \in Worker : idx[w] = s BY <1>5, <2>3 DEF PlanInv, Passed
  <2> QED BY <1>5, <2>1, <2>2, <2>3, ClaimRowStep
<1> QED BY <1>1, <1>2, <1>3, <1>4, <1>5 DEF PlanInv

\* How a worker's copy and position change while it walks the plan.
LEMMA CopyMove ==
    ASSUME TypeOK, [Next]_vars, NEW v \in Worker, pc'[v] \in Walking
    PROVE  \/ pc'[v] = "loop" /\ snap'[v] = step /\ step' = step
           \/ /\ pc[v] \in Walking /\ snap'[v] = snap[v]
              /\ \/ pc'[v] = "loop" /\ idx'[v] = idx[v] + 1
                 \/ /\ idx'[v] = idx[v]
                    /\ \/ pc'[v] = "loop" <=> pc[v] = "loop"
                       \/ snap[v][idx[v]].status \in Open
<1> USE DEF rows, local, history
<1>1. CASE pc'[v] = pc[v] /\ snap'[v] = snap[v] /\ idx'[v] = idx[v] BY <1>1
<1>2. CASE \/ UNCHANGED vars
           \/ CreateRun \/ RequestCancellation \/ QueueAfterApproval \/ LoseAuthority \/ Expire
           \/ \E t \in StepId : DecideApproval(t)
  BY <1>1, <1>2 DEF vars, CreateRun, RequestCancellation, QueueAfterApproval, LoseAuthority, Expire,
                    DecideApproval
<1>3. ASSUME NEW w \in Worker, WorkerStep(w) \/ Heartbeat(w) \/ HeartbeatFails(w) \/ Crash(w), v # w
      PROVE  pc'[v] = pc[v] /\ snap'[v] = snap[v] /\ idx'[v] = idx[v]
  BY <1>3, Frame DEF Others, Same
<1>4. ASSUME WorkerStep(v) \/ Heartbeat(v) \/ HeartbeatFails(v) \/ Crash(v)
      PROVE  \/ pc'[v] = "loop" /\ snap'[v] = step /\ step' = step
             \/ /\ pc[v] \in Walking /\ snap'[v] = snap[v]
                /\ \/ pc'[v] = "loop" /\ idx'[v] = idx[v] + 1
                   \/ /\ idx'[v] = idx[v]
                      /\ \/ pc'[v] = "loop" <=> pc[v] = "loop"
                         \/ snap[v][idx[v]].status \in Open
  <2> USE DEF Walking, InKernel
  <2>1. ~Ended(v) BY EndedAt
  <2>2. CASE Claim(v) BY <2>2 DEF Claim, TypeOK
  <2>3. CASE Enter(v) BY <2>3, EnterMove
  <2>4. CASE Loop(v) BY <2>1, <2>4, LoopMove, NextStepAt
  <2>5. CASE Recheck(v) \/ ResolveContext(v) BY <2>5, ResolveMove
  <2>6. CASE KernelEnter(v) BY <2>6, KernelEnterMove
  <2>7. CASE KernelReserve(v) BY <2>7, ReserveMove
  <2>8. CASE KernelEffect(v) BY <2>8, EffectMove
  <2>9. CASE KernelAnswer(v) BY <2>9, AnswerMove
  <2>10. CASE RecoveryState(v) BY <2>10, RecoverMove
  <2>11. CASE AfterStep(v) BY <2>1, <2>11, AfterMove
  <2>12. CASE Settle(v) BY <2>1, <2>12, SettleMove, NextStepAt
  <2>13. CASE Transition(v) \/ Crash(v) BY <2>1, <2>13 DEF Transition, Crash
  <2>14. CASE Heartbeat(v) \/ HeartbeatFails(v) BY <1>1, <2>14 DEF Heartbeat, HeartbeatFails
  <2> QED
    BY <1>4, <2>2, <2>3, <2>4, <2>5, <2>6, <2>7, <2>8, <2>9, <2>10, <2>11, <2>12, <2>13, <2>14
       DEF WorkerStep
<1> QED BY <1>1, <1>2, <1>3, <1>4 DEF Next

\* Every step keeps CopyInv.
LEMMA CopyStep ==
    ASSUME TypeOK, CopyInv, [Next]_vars
    PROVE  CopyInv'
<1> SUFFICES ASSUME NEW v \in Worker, pc'[v] \in Walking
             PROVE  /\ pc'[v] # "loop" => snap'[v][idx'[v]].status \in Open
                    /\ run'.token = v => \A s \in StepId : idx'[v] <= s => snap'[v][s] = step'[s]
                    /\ \A s \in StepId :
                         /\ snap'[v][s].attempt <= step'[s].attempt
                         /\ snap'[v][s].attempt = step'[s].attempt /\ snap'[v][s].status \in Open
                              => step'[s].status \in Open
  BY DEF CopyInv
<1>1. /\ idx[v] \in StepId /\ \A s \in StepId : step[s] \in StepRow /\ snap[v][s] \in StepRow
  BY DEF TypeOK
<1>2. CASE pc'[v] = "loop" /\ snap'[v] = step /\ step' = step BY <1>1, <1>2 DEF StepRow
<1>3. CASE /\ pc[v] \in Walking /\ snap'[v] = snap[v]
           /\ \/ pc'[v] = "loop" /\ idx'[v] = idx[v] + 1
              \/ /\ idx'[v] = idx[v]
                 /\ \/ pc'[v] = "loop" <=> pc[v] = "loop"
                    \/ snap[v][idx[v]].status \in Open
  <2>1. pc'[v] # "loop" => snap'[v][idx'[v]].status \in Open BY <1>3 DEF CopyInv
  <2>2. ASSUME run'.token = v, NEW s \in StepId, idx'[v] <= s PROVE snap'[v][s] = step'[s]
    <3>1. run.token = v BY <2>2, RunStep DEF Walking, InKernel
    <3>2. idx[v] <= s /\ (idx'[v] = idx[v] + 1 => s # idx[v])
      BY <1>1, <1>3, <2>2, AgentAssumption DEF StepId
    <3>3. snap'[v][s] = step[s] BY <1>3, <3>1, <3>2 DEF CopyInv
    <3>4. ASSUME step'[s] # step[s] PROVE FALSE
      <4>1. None # v BY AgentAssumption
      <4>2. PICK w \in Worker : /\ s = idx[w]
                                /\ Owns(w) /\ (pc'[w] \notin Walking \/ idx'[w] = idx[w] + 1)
        BY <2>2, <3>4, <4>1, RowStep
      <4> QED BY <3>1, <3>2, <4>2 DEF Owns
    <3> QED BY <3>3, <3>4
  <2>3. ASSUME NEW s \in StepId
        PROVE  /\ snap'[v][s].attempt <= step'[s].attempt
               /\ snap'[v][s].attempt = step'[s].attempt /\ snap'[v][s].status \in Open
                    => step'[s].status \in Open
    <3>1. /\ snap[v][s].attempt \in Nat /\ step[s].attempt \in Nat
          /\ snap[v][s].attempt <= step[s].attempt
          /\ snap[v][s].attempt = step[s].attempt /\ snap[v][s].status \in Open
               => step[s].status \in Open
      BY <1>1, <1>3 DEF CopyInv, StepRow
    <3>2. CASE step'[s] = step[s] BY <1>3, <3>1, <3>2
    <3>3. CASE step'[s].status = "pending" /\ step'[s].attempt = step[s].attempt
      BY <1>3, <3>1, <3>3 DEF Open
    <3>4. CASE step'[s].attempt = step[s].attempt + 1 BY <1>3, <3>1, <3>4
    <3> QED BY <3>2, <3>3, <3>4, RowStep
  <2> QED BY <2>1, <2>2, <2>3
<1> QED BY <1>2, <1>3, CopyMove

\* A row that is not open any more is rewritten only by a worker that saw the
\* cancellation and does not hold the rows it loaded.
LEMMA RewriteStep ==
    ASSUME TypeOK, CopyInv, [Next]_vars, NEW s \in StepId,
           step[s].status \notin Open, step'[s].status # step[s].status
    PROVE  \E w \in Worker : /\ Settle(w) /\ cancelSeen[w] /\ ~cached[w] /\ pc'[w] = "idle"
<1>1. step'[s] # step[s] OBVIOUS
<1>2. PICK w \in Worker :
        /\ Settle(w) /\ s = idx[w] /\ AttemptIsFree(w)
        /\ \/ cancelSeen[w] /\ run'.token = None /\ pc'[w] = "idle"
           \/ Owns(w)
  BY <1>1, RowStep DEF Open
<1>3. pc[w] = "settle" /\ pc[w] \in Walking \ {"loop"} BY <1>2 DEF Settle, Walking
<1>4. s \in Nat BY AgentAssumption DEF StepId
<1>5. ~Owns(w) BY <1>2, <1>3, <1>4 DEF CopyInv, Owns
<1>6. ~cached[w] BY <1>2, <1>3 DEF CopyInv, AttemptIsFree
<1> QED BY <1>2, <1>5, <1>6

\* Every step keeps RecordInv.
LEMMA RecordStep ==
    ASSUME TypeOK, StopInv, CopyInv, RecordInv, [Next]_vars
    PROVE  RecordInv'
<1> SUFFICES ASSUME ~run'.cancel, NEW s \in StepId
             PROVE  /\ \A w \in Worker : Passed(w, s)' => step'[s].status = "completed"
                    /\ run'.status = "completed" => step'[s].status = "completed"
  BY DEF RecordInv
<1>1. ~run.cancel BY RunStep
<1>2. step[s].status = "completed" => step'[s].status = "completed"
  BY <1>1, RewriteStep DEF StopInv, Open
<1>3. ASSUME NEW w \in Worker, Passed(w, s)' PROVE step'[s].status = "completed"
  BY <1>1, <1>2, <1>3, PassedStep DEF RecordInv
<1>4. ASSUME run'.status = "completed" PROVE step'[s].status = "completed"
  BY <1>1, <1>2, <1>4, RunStep DEF RecordInv, Passed
<1> QED BY <1>3, <1>4

\* A worker comes to the end of its pass with a final status.
LEMMA FinishMove ==
    ASSUME TypeOK, NEW w \in Worker, pc[w] # "finish", pc'[w] = "finish",
           \A s \in StepId : snap[w][s].status = "waiting_approval" => snap[w][s].approved,
           WorkerStep(w) \/ Heartbeat(w) \/ HeartbeatFails(w) \/ Crash(w)
    PROVE  target'[w] \in Terminal
<1> USE DEF rows, local, history
<1>1. ~Ended(w) BY EndedAt
<1>2. idx[w] \in StepId BY DEF TypeOK
<1>3. NextStep(w) => target'[w] = "completed" BY NextStepAt
<1>4. \A status : Finish(w, status) => target'[w] = status BY DEF Finish, TypeOK
<1>5. \A label : Goto(w, label) => label = "finish" BY DEF Goto, TypeOK
<1>6. CASE Enter(w)
  <2>1. pc' # [pc EXCEPT ![w] = "loop"] BY DEF TypeOK
  <2> QED BY <1>4, <1>6, <2>1 DEF Enter, Terminal
<1>7. CASE Loop(w) BY <1>1, <1>2, <1>3, <1>4, <1>5, <1>7 DEF Loop, Terminal
<1>8. CASE Recheck(w) BY <1>4, <1>5, <1>8 DEF Recheck, Terminal
<1>9. CASE ResolveContext(w)
  <2>1. pc' # [pc EXCEPT ![w] = "kernel"] BY DEF TypeOK
  <2> QED BY <1>4, <1>9, <2>1 DEF ResolveContext, Terminal
<1>10. CASE Settle(w) BY <1>1, <1>3, <1>10, SettleMove DEF Terminal
<1>11. CASE Claim(w) BY <1>11 DEF Claim, TypeOK
<1>12. CASE AfterStep(w) BY <1>1, <1>12, AfterMove
<1>13. CASE Transition(w) \/ Crash(w) BY <1>1, <1>13 DEF Transition, Crash
<1>14. CASE Heartbeat(w) \/ HeartbeatFails(w) BY <1>14 DEF Heartbeat, HeartbeatFails
<1>15. CASE KernelEnter(w) \/ KernelReserve(w) \/ KernelEffect(w) \/ KernelAnswer(w) \/ RecoveryState(w)
  BY <1>15, KernelEnterMove, ReserveMove, EffectMove, AnswerMove, RecoverMove
<1> QED
  BY <1>6, <1>7, <1>8, <1>9, <1>10, <1>11, <1>12, <1>13, <1>14, <1>15 DEF WorkerStep

\* A worker's copy of the rows is kept, taken afresh or forgotten; its target is
\* set on the way to the end.
LEMMA SnapMove ==
    ASSUME TypeOK, NEW w \in Worker,
           WorkerStep(w) \/ Heartbeat(w) \/ HeartbeatFails(w) \/ Crash(w)
    PROVE  /\ snap'[w] \in {snap[w], step, [s \in StepId |-> NewStep]}
           /\ pc[w] = "finish" => pc'[w] = "idle" \/ (pc'[w] = pc[w] /\ target'[w] = target[w])
<1> USE DEF rows, local, history
<1>1. Ended(w) => snap'[w] = [s \in StepId |-> NewStep] /\ pc'[w] = "idle" BY EndedAt
<1>2. CASE Claim(w) BY <1>2 DEF Claim
<1>3. CASE Enter(w) \/ Loop(w) \/ Recheck(w) \/ ResolveContext(w)
  BY <1>1, <1>3, EnterMove, LoopMove, ResolveMove
<1>4. CASE KernelEnter(w) \/ KernelReserve(w) \/ KernelEffect(w) \/ KernelAnswer(w) \/ RecoveryState(w)
  BY <1>4, KernelEnterMove, ReserveMove, EffectMove, AnswerMove, RecoverMove
<1>5. CASE AfterStep(w) \/ Settle(w) BY <1>1, <1>5, AfterMove, SettleMove
<1>6. CASE Transition(w) \/ Crash(w) BY <1>1, <1>6 DEF Transition, Crash
<1>7. CASE Heartbeat(w) \/ HeartbeatFails(w) BY <1>7 DEF Heartbeat, HeartbeatFails
<1> QED BY <1>2, <1>3, <1>4, <1>5, <1>6, <1>7 DEF WorkerStep

\* Every step keeps EndInv.
LEMMA EndStep ==
    ASSUME TypeOK, EndInv, [Next]_vars
    PROVE  EndInv'
<1> USE DEF rows, local, history
<1>1. ASSUME NEW s \in StepId, step'[s].status = "waiting_approval" PROVE step'[s].approved
  <2>1. CASE step'[s] = step[s] BY <1>1, <2>1 DEF EndInv
  <2>2. CASE step'[s] # step[s]
    <3>1. PICK w \in Worker : Settle(w) /\ s = idx[w] BY <1>1, <2>2, RowStep
    <3>2. Recorded(w) BY <2>2, <3>1, SettleMove
    <3> QED BY <1>1, <3>1, <3>2 DEF Recorded, TypeOK
  <2> QED BY <2>1, <2>2
<1>2. ASSUME NEW v \in Worker
      PROVE  /\ \A s \in StepId : snap'[v][s].status = "waiting_approval" => snap'[v][s].approved
             /\ pc'[v] = "finish" => target'[v] \in Terminal
  <2>1. CASE snap'[v] = snap[v] /\ pc'[v] = pc[v] /\ target'[v] = target[v] BY <2>1 DEF EndInv
  <2>2. CASE \/ UNCHANGED vars
             \/ CreateRun \/ RequestCancellation \/ QueueAfterApproval \/ LoseAuthority \/ Expire
             \/ \E t \in StepId : DecideApproval(t)
    BY <2>1, <2>2 DEF vars, CreateRun, RequestCancellation, QueueAfterApproval, LoseAuthority, Expire,
                      DecideApproval
  <2>3. ASSUME NEW w \in Worker, WorkerStep(w) \/ Heartbeat(w) \/ HeartbeatFails(w) \/ Crash(w), v # w
        PROVE  snap'[v] = snap[v] /\ pc'[v] = pc[v] /\ target'[v] = target[v]
    BY <2>3, Frame DEF Others, Same
  <2>4. CASE WorkerStep(v) \/ Heartbeat(v) \/ HeartbeatFails(v) \/ Crash(v)
    <3>1. \A s \in StepId : snap'[v][s].status = "waiting_approval" => snap'[v][s].approved
      BY <2>4, SnapMove DEF EndInv, NewStep
    <3>2. ASSUME pc'[v] = "finish" PROVE target'[v] \in Terminal
      BY <2>4, <3>2, SnapMove, FinishMove DEF EndInv
    <3> QED BY <3>1, <3>2
  <2> QED BY <2>1, <2>2, <2>3, <2>4 DEF Next
<1> QED BY <1>1, <1>2 DEF EndInv

-----------------------------------------------------------------------------
(* The theorems.                                                           *)

\* The inductive invariant.
Inv == TypeOK /\ ClaimInv /\ ResultInv /\ PlanInv /\ StopInv /\ CopyInv /\ RecordInv /\ EndInv

\* The initial state satisfies it.
LEMMA InvInit == Init => Inv
<1> SUFFICES ASSUME Init PROVE Inv
  OBVIOUS
<1>1. TypeOK BY TypeInit
<1>2. \A w \in Worker, s \in StepId : ~Passed(w, s)
  <2>1. \A s \in StepId : ~(s < 1) BY AgentAssumption DEF StepId
  <2> QED BY <2>1 DEF Init, Passed, NewStep
<1>3. ClaimInv BY DEF Init, ClaimInv, Mutating
<1>4. ResultInv BY DEF Init, ResultInv
<1>5. PlanInv BY <1>2 DEF Init, PlanInv, Mutating, NewStep
<1>6. StopInv BY DEF Init, StopInv
<1>7. CopyInv BY DEF Init, CopyInv, Walking, InKernel
<1>8. RecordInv BY <1>2 DEF Init, RecordInv
<1>9. EndInv BY DEF Init, EndInv, NewStep
<1> QED BY <1>1, <1>3, <1>4, <1>5, <1>6, <1>7, <1>8, <1>9 DEF Inv

\* Every reachable state satisfies it.
THEOREM Invariance == Spec => []Inv
<1>1. Inv /\ [Next]_vars => Inv'
  BY TypeStep, ClaimStep, ResultStep, PlanStep, StopStep, CopyStep, RecordStep, EndStep DEF Inv
<1> QED BY InvInit, <1>1, PTL DEF Spec

\* A mutating capability of a run has its effect at most once, however many
\* workers overlap, die or lose their lease.
THEOREM EffectOnce == Spec => []EffectAtMostOnce
<1>1. Inv => EffectAtMostOnce BY DEF Inv, ClaimInv, EffectAtMostOnce
<1> QED BY Invariance, <1>1, PTL

\* Mutations have their effects in the order of the plan.
THEOREM PlanOrder == Spec => []EffectsInOrder
<1>1. Inv => EffectsInOrder
  <2> SUFFICES ASSUME Inv, NEW s \in Mutating, NEW t \in Mutating, t < s, effects[s] > 0
               PROVE  effects[t] = 1 /\ claim[t] = "completed"
    BY DEF EffectsInOrder
  <2>1. claim[s] # "none" BY DEF Inv, ClaimInv
  <2> QED BY <2>1 DEF Inv, ClaimInv, PlanInv
<1> QED BY Invariance, <1>1, PTL

\* A completed run did all its work, and its rows say so unless cancellation was
\* requested.
THEOREM CompletionIsTrue == Spec => []CompletedIsTrue
<1>1. Inv => CompletedIsTrue BY DEF Inv, ClaimInv, PlanInv, RecordInv, CompletedIsTrue
<1> QED BY Invariance, <1>1, PTL

\* A worker whose call had its effect reports a failure only when the output was
\* rejected.
THEOREM FailureIsHonest == Spec => []FailureIsNotAnEffect
<1>1. Inv => FailureIsNotAnEffect BY DEF Inv, ResultInv, FailureIsNotAnEffect
<1> QED BY Invariance, <1>1, PTL

\* After a cancellation request no worker starts a capability.
THEOREM CancelStops == Spec => []CancelStopsLaterSteps
<1>1. Inv => CancelStopsLaterSteps BY DEF Inv, StopInv, CancelStopsLaterSteps
<1> QED BY Invariance, <1>1, PTL

\* After authority is lost no worker starts a mutation.
THEOREM AuthorityHolds == Spec => []AuthorityIsCurrent
<1>1. Inv => AuthorityIsCurrent BY DEF Inv, StopInv, AuthorityIsCurrent
<1> QED BY Invariance, <1>1, PTL

\* A recorded outcome is rewritten only round a cancellation and a rollback.
THEOREM OutcomesAreFinal == Spec => OutcomeIsFinal
<1> DEFINE Final ==
      \A s \in StepId :
         /\ step[s].status \in {"completed", "failed", "execution_uncertain"}
         /\ step'[s].status # step[s].status
         => \E w \in Worker : /\ pc[w] = "settle" /\ cancelSeen[w] /\ ~cached[w]
                              /\ pc'[w] = "idle"
<1>1. Inv /\ [Next]_vars => [Final]_vars
  <2> SUFFICES ASSUME Inv, [Next]_vars PROVE Final
    OBVIOUS
  <2> QED BY RewriteStep DEF Inv, Open, Settle
<1> QED BY Invariance, <1>1, PTL DEF Spec, OutcomeIsFinal

\* A finished run stays finished, and its final status is replaced only by a worker
\* that still holds its old copy.
THEOREM FinishedStaysFinished == Spec => FinishedIsNotReopened
<1> DEFINE Kept ==
      run.status \in Terminal =>
        /\ run'.status \in Terminal
        /\ run'.status # run.status =>
             \E w \in Worker : cached[w] /\ pc[w] \in {"finish", "settle"} /\ pc'[w] = "idle"
<1>1. Inv /\ [Next]_vars => [Kept]_vars
  <2> SUFFICES ASSUME Inv, [Next]_vars, run.status \in Terminal, run'.status # run.status
               PROVE  /\ run'.status \in Terminal
                      /\ \E w \in Worker : /\ cached[w] /\ pc[w] \in {"finish", "settle"}
                                           /\ pc'[w] = "idle"
    OBVIOUS
  <2> USE DEF rows, local, history
  <2>0. TypeOK BY DEF Inv
  <2>1. run' # run /\ run' # [run EXCEPT !.lease = "live"] /\ run' # [run EXCEPT !.lease = "expired"]
    BY <2>0 DEF TypeOK, RunRow
  <2>2. \A to : to \notin Allowed(run.status) BY DEF Allowed, Terminal
  <2>3. ASSUME NEW w \in Worker, WorkerStep(w) \/ Heartbeat(w) \/ HeartbeatFails(w) \/ Crash(w)
        PROVE  /\ run'.status \in Terminal
               /\ cached[w] /\ pc[w] \in {"finish", "settle"} /\ pc'[w] = "idle"
    <3>1. Settle(w) \/ Transition(w)
      BY <2>0, <2>1, <2>3, EnterMove, LoopMove, ResolveMove, KernelEnterMove, ReserveMove, EffectMove,
         AnswerMove, RecoverMove, AfterMove
         DEF WorkerStep, Claim, Crash, Heartbeat, HeartbeatFails, Terminal
    <3>2. Ended(w) => pc'[w] = "idle" BY <2>0, EndedAt
    <3>3. \A status, cur : Moved(status, cur).status = status BY <2>0 DEF Moved, TypeOK, RunRow
    <3>4. CASE Transition(w)
      <4>1. pc[w] = "finish" /\ target[w] \in Terminal BY <3>4 DEF Transition, Inv, EndInv
      <4>2. run'.status = target[w] BY <2>1, <3>3, <3>4 DEF Transition
      <4> QED BY <2>1, <2>2, <3>2, <3>4, <4>1, <4>2 DEF Transition, SeenStatus
    <3>5. CASE Settle(w)
      <4>1. pc[w] = "settle" BY <2>0, <3>5, SettleMove
      <4>2. /\ Ended(w) /\ StatusAfter(w) \in Allowed(SeenStatus(w)) /\ StatusAfter(w) # "completed"
            /\ run'.status = StatusAfter(w)
            /\ cancelSeen[w] \/ Owns(w)
        BY <2>1, <3>3, <3>5 DEF Settle
      <4>3. cancelSeen[w] BY <4>2 DEF Owns, Terminal
      <4>4. StatusAfter(w) \in Terminal BY <4>3 DEF StatusAfter, Terminal
      <4>5. cached[w] BY <2>2, <4>2 DEF SeenStatus
      <4>6. pc'[w] = "idle" BY <3>2, <4>2
      <4> QED BY <4>1, <4>2, <4>4, <4>5, <4>6
    <3> QED BY <3>1, <3>4, <3>5
  <2>4. ~(UNCHANGED vars \/ LoseAuthority \/ Expire \/ \E s \in StepId : DecideApproval(s))
    BY <2>1 DEF vars, LoseAuthority, Expire, DecideApproval
  <2>5. ~(CreateRun \/ RequestCancellation \/ QueueAfterApproval)
    BY DEF CreateRun, RequestCancellation, QueueAfterApproval, Terminal
  <2> QED BY <2>3, <2>4, <2>5 DEF Next
<1> QED BY Invariance, <1>1, PTL DEF Spec, FinishedIsNotReopened
=============================================================================
