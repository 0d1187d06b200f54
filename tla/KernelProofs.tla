---------------------------- MODULE KernelProofs ----------------------------
(***************************************************************************)
(* Proofs about Kernel, for any number of calls, ingresses, request ids,   *)
(* operations and approvals.                                               *)
(***************************************************************************)
EXTENDS Kernel, TLAPS

(***************************************************************************)
(* Type correctness.                                                       *)
(***************************************************************************)

\* A call that has a request has one of the requests callers make.
Received == \A c \in Call : pc[c] # "new" => req[c] \in Request

\* A request is made of an ingress, an optional request id and an operation.
LEMMA RequestFields ==
    ASSUME NEW r \in Request
    PROVE  r.who \in Ingress /\ r.rid \in RequestId \cup {None} /\ r.op \in Operation
BY ConstantAssumption

\* The key of a request that carries an id is an idempotency key.
LEMMA KeyOfRequest ==
    ASSUME NEW c \in Call, req[c] \in Request, req[c].rid # None
    PROVE  IdempotencyKey(c) \in Key
BY RequestFields DEF IdempotencyKey, Key

\* Ending a call keeps the types, whatever known code it answers.
LEMMA ReturnTypes ==
    ASSUME TypeOK, NEW c \in Call, NEW code \in Code, NEW r \in Call \cup {None},
           Return(c, code, r)
    PROVE  /\ pc' \in [Call -> PC]
           /\ answer' \in [Call -> [code : Code, run : Call \cup {None}]]
           /\ rowLock' \in [Approval -> Call \cup {None}]
<1>1. pc' \in [Call -> PC] BY DEF TypeOK, Return, PC
<1>2. [code |-> code, run |-> r] \in [code : Code, run : Call \cup {None}] OBVIOUS
<1>3. answer' \in [Call -> [code : Code, run : Call \cup {None}]]
  BY <1>2 DEF TypeOK, Return
<1>4. rowLock' \in [Approval -> Call \cup {None}] BY DEF TypeOK, Return, ReleaseLocks
<1> QED BY <1>1, <1>3, <1>4

\* The codes a call can answer.
LEMMA Codes == /\ Failure \subseteq Code
               /\ {"completed", "replayed", "approval_required", "approval_invalid",
                   "idempotency_conflict", "request_in_progress", "crashed"} \subseteq Code
BY DEF Code, Failure

\* Answering from the claim found under the key keeps the types.
LEMMA AnswerTypes ==
    ASSUME TypeOK, NEW c \in Call, IdempotencyKey(c) \in Key, AnswerExisting(c)
    PROVE  /\ pc' \in [Call -> PC]
           /\ answer' \in [Call -> [code : Code, run : Call \cup {None}]]
           /\ rowLock' \in [Approval -> Call \cup {None}]
<1> DEFINE claim == claims[IdempotencyKey(c)]
<1>1. claim \in Claim BY DEF TypeOK
<1>2. claim.run \in Call \cup {None} BY <1>1 DEF Claim
<1>3. \/ Return(c, "idempotency_conflict", None)
      \/ Return(c, "replayed", claim.run)
      \/ Return(c, "request_in_progress", None)
  BY DEF AnswerExisting
<1> QED BY <1>2, <1>3, ReturnTypes, Codes

\* The mutating calls between Admit and the claim carry a request id.
Identified ==
    \A c \in Call :
        /\ pc[c] \in {"lookup", "reserve", "claim"} => IsMutating(c)
        /\ pc[c] \in {"lookup", "authorize", "reserve", "claim"} /\ IsMutating(c)
             => req[c].rid # None

\* Those of them that may be looked up have an idempotency key.
LEMMA IdentifiedKey ==
    ASSUME Received, Identified, NEW c \in Call, pc[c] \in {"lookup", "reserve", "claim"}
    PROVE  IdempotencyKey(c) \in Key
BY KeyOfRequest DEF Received, Identified

\* A mutating call that is with its provider owns the running claim of its key.
Owned ==
    \A c \in Call : pc[c] \in {"provider", "finish"} /\ IsMutating(c) =>
        /\ IdempotencyKey(c) \in Key
        /\ claims[IdempotencyKey(c)].status = "running"
        /\ claims[IdempotencyKey(c)].op = req[c].op
        /\ claims[IdempotencyKey(c)].run = c

\* A claim was made by a mutating call for its own key and operation, that call has
\* gone past its claim, and the claim is completed only together with its answer.
ClaimsSound ==
    \A k \in Key : claims[k].status # "none" =>
        LET c == claims[k].run IN
        /\ c \in Call
        /\ req[c] \in Request
        /\ IsMutating(c)
        /\ IdempotencyKey(c) = k
        /\ claims[k].op = req[c].op
        /\ pc[c] \in {"provider", "finish", "returned"}
        /\ claims[k].status = "completed" => c \in effects /\ answer[c].code = "completed"

\* An effect belongs to a call that reached its provider, and a mutating one to the
\* call that owns the claim of its key.
EffectsSound ==
    \A c \in Call :
        /\ c \in effects => pc[c] \in {"finish", "returned"}
        /\ pc[c] = "finish" => c \in effects
        /\ c \in effects /\ IsMutating(c) =>
             /\ IdempotencyKey(c) \in Key
             /\ claims[IdempotencyKey(c)].status # "none"
             /\ claims[IdempotencyKey(c)].run = c

\* A call that has not returned has no answer, and a replay is faithful.
AnswersSound ==
    \A c \in Call :
        /\ pc[c] # "returned" => answer[c].code = "none"
        /\ answer[c].code = "replayed" =>
             /\ answer[c].run \in effects
             /\ answer[answer[c].run].code = "completed"
             /\ req[answer[c].run].op = req[c].op
             /\ IdempotencyKey(answer[c].run) = IdempotencyKey(c)

CoreInv == /\ TypeOK /\ Received /\ Identified /\ Owned
           /\ ClaimsSound /\ EffectsSound /\ AnswersSound

\* Calls that only move their pc, before the claim.
LEMMA MoveStep ==
    ASSUME CoreInv, NEW c \in Call, Admit(c) \/ Allow(c) \/ NeedApproval(c)
    PROVE  CoreInv'
<1> USE DEF CoreInv
<1>1. pc' = [pc EXCEPT ![c] = pc'[c]] /\ pc'[c] \in PC
      /\ UNCHANGED <<req, appr, answer, claims, approvals, rowLock, effects>>
  BY DEF Admit, Allow, NeedApproval, Goto, Authorized, PC, TypeOK
<1>2. TypeOK' BY <1>1 DEF TypeOK
<1>3. Received' BY <1>1 DEF Received, Admit, Allow, NeedApproval, TypeOK
<1>4. Identified'
  BY DEF Identified, Admit, Allow, NeedApproval, TypeOK, Goto, Authorized, IsMutating
<1>5. Owned'
  BY DEF Owned, Admit, Allow, NeedApproval, TypeOK, Goto, Authorized, IsMutating,
         IdempotencyKey
<1>6. ClaimsSound'
  BY DEF ClaimsSound, Admit, Allow, NeedApproval, TypeOK, Goto, Authorized, IsMutating,
         IdempotencyKey
<1>7. EffectsSound'
  BY DEF EffectsSound, Admit, Allow, NeedApproval, TypeOK, Goto, Authorized, IsMutating,
         IdempotencyKey
<1>8. AnswersSound'
  BY DEF AnswersSound, Admit, Allow, NeedApproval, TypeOK, Goto, Authorized, IsMutating,
         IdempotencyKey
<1> QED BY <1>2, <1>3, <1>4, <1>5, <1>6, <1>7, <1>8

\* A call that ends without a result: an error, a request for approval, a crash.  Its
\* provider may have acted; the claims stay as they are.
LEMMA EndStep ==
    ASSUME CoreInv, NEW c \in Call, pc[c] \notin {"new", "returned"},
           NEW code \in Code \ {"none", "completed", "replayed"},
           Return(c, code, None),
           UNCHANGED <<req, appr, claims>>,
           approvals' \in [Approval -> ApprovalRow],
           \/ effects' = effects
           \/ pc[c] = "provider" /\ effects' = effects \cup {c}
    PROVE  CoreInv'
<1> USE DEF CoreInv
<1>1. TypeOK' BY ReturnTypes DEF TypeOK
<1>2. Received' BY DEF Received, Return, TypeOK
<1>3. Identified' BY DEF Identified, Return, TypeOK, IsMutating
<1>4. Owned' BY DEF Owned, Return, TypeOK, IsMutating, IdempotencyKey
<1>5. ClaimsSound'
  <2> SUFFICES ASSUME NEW k \in Key, claims[k].status # "none"
               PROVE  /\ pc'[claims[k].run] \in {"provider", "finish", "returned"}
                      /\ claims[k].status = "completed" =>
                           /\ claims[k].run \in effects'
                           /\ answer'[claims[k].run].code = "completed"
    BY DEF ClaimsSound, IsMutating, IdempotencyKey
  <2>1. claims[k].status = "completed" => claims[k].run # c
    BY DEF ClaimsSound, AnswersSound, TypeOK
  <2> QED BY <2>1 DEF ClaimsSound, Return, TypeOK
<1>6. EffectsSound'
  <2> SUFFICES ASSUME NEW d \in Call
               PROVE  /\ d \in effects' => pc'[d] \in {"finish", "returned"}
                      /\ pc'[d] = "finish" => d \in effects'
                      /\ d \in effects' /\ IsMutating(d) =>
                           /\ IdempotencyKey(d) \in Key
                           /\ claims[IdempotencyKey(d)].status # "none"
                           /\ claims[IdempotencyKey(d)].run = d
    BY DEF EffectsSound, IsMutating, IdempotencyKey
  <2>1. CASE d # c BY <2>1 DEF EffectsSound, Return, TypeOK
  <2>2. CASE d = c
    <3>1. pc'[c] = "returned" BY DEF Return, TypeOK
    <3>2. pc[c] = "provider" /\ IsMutating(c) =>
            /\ IdempotencyKey(c) \in Key
            /\ claims[IdempotencyKey(c)].status # "none"
            /\ claims[IdempotencyKey(c)].run = c
      BY DEF Owned
    <3> QED BY <2>2, <3>1, <3>2 DEF EffectsSound
  <2> QED BY <2>1, <2>2
<1>7. AnswersSound'
  <2>1. \A d \in Call : d # c => answer'[d] = answer[d] /\ pc'[d] = pc[d]
    BY DEF Return, TypeOK
  <2>2. answer'[c].code = code /\ pc'[c] = "returned" BY DEF Return, TypeOK
  <2>3. answer[c].code = "none" BY DEF AnswersSound
  <2>4. \A d \in effects : d \in Call BY DEF TypeOK
  <2> QED BY <2>1, <2>2, <2>3, <2>4 DEF AnswersSound, IdempotencyKey
<1> QED BY <1>1, <1>2, <1>3, <1>4, <1>5, <1>6, <1>7

\* A call that is answered from the claim of its key.
LEMMA AnswerStep ==
    ASSUME CoreInv, NEW c \in Call, pc[c] \in {"lookup", "reserve", "claim"},
           KeyTaken(c), AnswerExisting(c),
           UNCHANGED <<req, appr, claims, approvals, effects>>
    PROVE  CoreInv'
<1> USE DEF CoreInv
<1> DEFINE k == IdempotencyKey(c)
<1>1. k \in Key BY IdentifiedKey
<1>2. CASE Return(c, "idempotency_conflict", None) \/ Return(c, "request_in_progress", None)
  BY <1>2, EndStep, Codes DEF TypeOK
<1>3. CASE claims[k].op = req[c].op /\ claims[k].status = "completed"
           /\ Return(c, "replayed", claims[k].run)
  <2>1. TypeOK' BY <1>1, AnswerTypes DEF TypeOK
  <2>2. Received' BY <1>3 DEF Received, Return, TypeOK
  <2>3. Identified' BY <1>3 DEF Identified, Return, TypeOK, IsMutating
  <2>4. Owned' BY <1>3 DEF Owned, Return, TypeOK, IsMutating, IdempotencyKey
  <2>5. ClaimsSound'
    <3> SUFFICES ASSUME NEW j \in Key, claims[j].status # "none"
                 PROVE  /\ pc'[claims[j].run] \in {"provider", "finish", "returned"}
                        /\ claims[j].status = "completed" =>
                             /\ claims[j].run \in effects
                             /\ answer'[claims[j].run].code = "completed"
      BY DEF ClaimsSound, IsMutating, IdempotencyKey
    <3>1. claims[j].run # c BY DEF ClaimsSound
    <3> QED BY <1>3, <3>1 DEF ClaimsSound, Return, TypeOK
  <2>6. EffectsSound' BY <1>3 DEF EffectsSound, Return, TypeOK, IsMutating, IdempotencyKey
  <2>7. AnswersSound'
    <3>1. \A d \in Call : d # c => answer'[d] = answer[d] /\ pc'[d] = pc[d]
      BY <1>3 DEF Return, TypeOK
    <3>2. answer'[c] = [code |-> "replayed", run |-> claims[k].run] /\ pc'[c] = "returned"
      BY <1>3 DEF Return, TypeOK
    <3>3. /\ claims[k].run \in effects /\ answer[claims[k].run].code = "completed"
          /\ req[claims[k].run].op = req[c].op /\ IdempotencyKey(claims[k].run) = k
      BY <1>1, <1>3 DEF ClaimsSound
    <3>4. answer[c].code = "none" BY DEF AnswersSound
    <3>5. \A d \in effects : d \in Call BY DEF TypeOK
    <3> QED BY <3>1, <3>2, <3>3, <3>4, <3>5 DEF AnswersSound, IdempotencyKey
  <2> QED BY <2>1, <2>2, <2>3, <2>4, <2>5, <2>6, <2>7
<1> QED BY <1>2, <1>3 DEF AnswerExisting

\* The claim row is inserted under its unique key.
LEMMA ClaimStep ==
    ASSUME CoreInv, NEW c \in Call, ClaimRequest(c)
    PROVE  CoreInv'
<1> USE DEF CoreInv
<1> DEFINE k == IdempotencyKey(c)
           row == [status |-> "running", op |-> req[c].op, run |-> c]
<1>1. k \in Key /\ pc[c] = "claim" /\ IsMutating(c) /\ req[c] \in Request
  BY IdentifiedKey DEF ClaimRequest, Identified, Received
<1>2. CASE Return(c, "approval_invalid", None) /\ UNCHANGED <<claims, approvals>>
  BY <1>1, <1>2, EndStep, Codes DEF TypeOK, ClaimRequest
<1>3. CASE KeyTaken(c) /\ AnswerExisting(c) /\ UNCHANGED <<claims, approvals>>
  BY <1>1, <1>3, AnswerStep DEF ClaimRequest
<1>4. CASE /\ ~KeyTaken(c)
           /\ claims' = [claims EXCEPT ![k] = row]
           /\ approvals' = ClaimedApprovals(c)
           /\ Goto(c, "provider")
           /\ ReleaseLocks(c)
           /\ UNCHANGED answer
  <2>1. UNCHANGED <<req, appr, answer, effects>> BY <1>4 DEF ClaimRequest
  <2>2. pc' = [pc EXCEPT ![c] = "provider"] BY <1>4 DEF Goto
  <2>3. claims'[k] = row /\ \A j \in Key : j # k => claims'[j] = claims[j]
    BY <1>1, <1>4 DEF TypeOK
  <2>4. claims[k].status = "none" BY <1>4 DEF KeyTaken
  <2>5. TypeOK'
    <3>1. row \in Claim BY <1>1, RequestFields DEF Claim
    <3>2. claims' \in [Key -> Claim] BY <1>4, <3>1 DEF TypeOK
    <3>3. approvals' \in [Approval -> ApprovalRow]
      BY <1>4 DEF TypeOK, ClaimedApprovals, ApprovalRow, ApprovalStatus
    <3>4. rowLock' \in [Approval -> Call \cup {None}] BY <1>4 DEF TypeOK, ReleaseLocks
    <3>5. pc' \in [Call -> PC] BY <2>2 DEF TypeOK, PC
    <3> QED BY <2>1, <3>2, <3>3, <3>4, <3>5 DEF TypeOK
  <2>6. Received' BY <1>1, <2>1, <2>2 DEF Received, TypeOK
  <2>7. Identified' BY <1>1, <2>1, <2>2 DEF Identified, TypeOK, IsMutating
  <2>8. Owned'
    <3> SUFFICES ASSUME NEW d \in Call, pc'[d] \in {"provider", "finish"}, IsMutating(d)
                 PROVE  /\ IdempotencyKey(d) \in Key
                        /\ claims'[IdempotencyKey(d)].status = "running"
                        /\ claims'[IdempotencyKey(d)].op = req[d].op
                        /\ claims'[IdempotencyKey(d)].run = d
      BY <2>1 DEF Owned, IsMutating, IdempotencyKey
    <3>1. CASE d = c BY <1>1, <2>3, <3>1
    <3>2. CASE d # c
      <4>1. pc[d] \in {"provider", "finish"} BY <2>2, <3>2 DEF TypeOK
      <4>2. IdempotencyKey(d) # k BY <2>4, <4>1 DEF Owned
      <4> QED BY <2>3, <4>1, <4>2 DEF Owned
    <3> QED BY <3>1, <3>2
  <2>9. ClaimsSound'
    <3> SUFFICES ASSUME NEW j \in Key, claims'[j].status # "none"
                 PROVE  /\ claims'[j].run \in Call
                        /\ req[claims'[j].run] \in Request
                        /\ IsMutating(claims'[j].run)
                        /\ IdempotencyKey(claims'[j].run) = j
                        /\ claims'[j].op = req[claims'[j].run].op
                        /\ pc'[claims'[j].run] \in {"provider", "finish", "returned"}
                        /\ claims'[j].status = "completed" =>
                             /\ claims'[j].run \in effects'
                             /\ answer'[claims'[j].run].code = "completed"
      BY <2>1 DEF ClaimsSound, IsMutating, IdempotencyKey
    <3>1. CASE j = k BY <1>1, <2>2, <2>3, <3>1 DEF TypeOK
    <3>2. CASE j # k
      <4>1. claims'[j] = claims[j] BY <2>3, <3>2
      <4> QED BY <2>1, <2>2, <4>1 DEF ClaimsSound, TypeOK
    <3> QED BY <3>1, <3>2
  <2>10. EffectsSound'
    BY <1>1, <2>1, <2>2, <2>3, <2>4 DEF EffectsSound, TypeOK, IsMutating, IdempotencyKey
  <2>11. AnswersSound'
    BY <1>1, <2>1, <2>2 DEF AnswersSound, TypeOK, IdempotencyKey
  <2> QED BY <2>5, <2>6, <2>7, <2>8, <2>9, <2>10, <2>11
<1> QED BY <1>1, <1>2, <1>3, <1>4 DEF ClaimRequest

\* The provider acts, in the transaction of its call.
LEMMA ExecuteStep ==
    ASSUME CoreInv, NEW c \in Call, Execute(c)
    PROVE  CoreInv'
<1> USE DEF CoreInv, Execute, Goto
<1>1. TypeOK' BY DEF TypeOK, PC
<1>2. Received' BY DEF Received, TypeOK
<1>3. Identified' BY DEF Identified, TypeOK, IsMutating
<1>4. Owned' BY DEF Owned, TypeOK, IsMutating, IdempotencyKey
<1>5. ClaimsSound'
  <2> SUFFICES ASSUME NEW j \in Key, claims'[j].status # "none"
               PROVE  /\ claims'[j].run \in Call
                      /\ req[claims'[j].run] \in Request
                      /\ IsMutating(claims'[j].run)
                      /\ IdempotencyKey(claims'[j].run) = j
                      /\ claims'[j].op = req[claims'[j].run].op
                      /\ pc'[claims'[j].run] \in {"provider", "finish", "returned"}
                      /\ claims'[j].status = "completed" =>
                           /\ claims'[j].run \in effects'
                           /\ answer'[claims'[j].run].code = "completed"
    BY DEF ClaimsSound, IsMutating, IdempotencyKey
  <2> QED BY DEF ClaimsSound, TypeOK
<1>6. EffectsSound' BY DEF EffectsSound, Owned, TypeOK, IsMutating, IdempotencyKey
<1>7. AnswersSound' BY DEF AnswersSound, TypeOK, IdempotencyKey
<1> QED BY <1>1, <1>2, <1>3, <1>4, <1>5, <1>6, <1>7

\* The execution completes: claim, approval and answer together.
LEMMA FinishStep ==
    ASSUME CoreInv, NEW c \in Call, Finish(c)
    PROVE  CoreInv'
<1> USE DEF CoreInv
<1> DEFINE k == IdempotencyKey(c)
<1>1. pc[c] = "finish" /\ c \in effects /\ Return(c, "completed", c)
      /\ UNCHANGED <<req, appr, effects>>
  BY DEF Finish, EffectsSound
<1>2. pc' = [pc EXCEPT ![c] = "returned"]
      /\ answer' = [answer EXCEPT ![c] = [code |-> "completed", run |-> c]]
  BY <1>1 DEF Return
<1>3. IsMutating(c) =>
        /\ k \in Key /\ claims[k].status = "running"
        /\ claims[k].op = req[c].op /\ claims[k].run = c
        /\ claims' = [claims EXCEPT ![k] = [status |-> "completed", op |-> req[c].op, run |-> c]]
  <2> SUFFICES ASSUME IsMutating(c)
               PROVE  /\ k \in Key
                      /\ claims[k].status = "running"
                      /\ claims[k].op = req[c].op /\ claims[k].run = c
                      /\ claims' = [claims EXCEPT ![k] =
                                     [status |-> "completed", op |-> req[c].op, run |-> c]]
    OBVIOUS
  <2>1. k \in Key /\ claims[k].status = "running" /\ claims[k].op = req[c].op /\ claims[k].run = c
    BY <1>1 DEF Owned
  <2>2. claims' = [claims EXCEPT ![k] =
                     [status |-> "completed", op |-> claims[k].op, run |-> c]]
    BY DEF Finish
  <2> QED BY <2>1, <2>2
<1>4. ~IsMutating(c) => claims' = claims BY DEF Finish
<1>5. TypeOK'
  <2>1. approvals' \in [Approval -> ApprovalRow]
    BY DEF Finish, ConsumedApprovals, TypeOK, ApprovalRow, ApprovalStatus
  <2>2. claims' \in [Key -> Claim] BY <1>3, <1>4 DEF TypeOK, Claim
  <2>3. /\ pc' \in [Call -> PC]
        /\ answer' \in [Call -> [code : Code, run : Call \cup {None}]]
        /\ rowLock' \in [Approval -> Call \cup {None}]
    BY <1>1, ReturnTypes, Codes
  <2> QED BY <1>1, <2>1, <2>2, <2>3 DEF TypeOK
<1>6. Received' BY <1>1, <1>2 DEF Received, TypeOK
<1>7. Identified' BY <1>1, <1>2 DEF Identified, TypeOK, IsMutating
<1>8. \A d \in Call : d # c /\ IdempotencyKey(d) = k /\ IsMutating(d) /\ IsMutating(c) =>
        pc[d] \notin {"provider", "finish"} /\ d \notin effects
  <2> SUFFICES ASSUME NEW d \in Call, d # c, IdempotencyKey(d) = k, IsMutating(d), IsMutating(c)
               PROVE  pc[d] \notin {"provider", "finish"} /\ d \notin effects
    OBVIOUS
  <2>1. claims[k].run = c BY <1>3
  <2>2. pc[d] \in {"provider", "finish"} => claims[k].run = d BY DEF Owned
  <2>3. d \in effects => claims[k].run = d BY DEF EffectsSound
  <2> QED BY <2>1, <2>2, <2>3
<1>9. Owned'
  BY <1>1, <1>2, <1>3, <1>4, <1>8 DEF Owned, TypeOK, IsMutating, IdempotencyKey
<1>10. ClaimsSound'
  <2> SUFFICES ASSUME NEW j \in Key, claims'[j].status # "none"
               PROVE  /\ claims'[j].run \in Call
                      /\ req[claims'[j].run] \in Request
                      /\ IsMutating(claims'[j].run)
                      /\ IdempotencyKey(claims'[j].run) = j
                      /\ claims'[j].op = req[claims'[j].run].op
                      /\ pc'[claims'[j].run] \in {"provider", "finish", "returned"}
                      /\ claims'[j].status = "completed" =>
                           /\ claims'[j].run \in effects'
                           /\ answer'[claims'[j].run].code = "completed"
    BY <1>1 DEF ClaimsSound, IsMutating, IdempotencyKey
  <2>1. CASE IsMutating(c) /\ j = k
    <3>1. claims'[j] = [status |-> "completed", op |-> req[c].op, run |-> c]
      BY <1>3, <2>1 DEF TypeOK
    <3>2. req[c] \in Request BY <1>1 DEF Received
    <3> QED BY <1>1, <1>2, <2>1, <3>1, <3>2 DEF TypeOK
  <2>2. CASE ~(IsMutating(c) /\ j = k)
    <3>1. claims'[j] = claims[j] BY <1>3, <1>4, <2>2 DEF TypeOK
    <3> QED BY <1>1, <1>2, <3>1 DEF ClaimsSound, TypeOK
  <2> QED BY <2>1, <2>2
<1>11. EffectsSound'
  <2> SUFFICES ASSUME NEW d \in Call
               PROVE  /\ d \in effects => pc'[d] \in {"finish", "returned"}
                      /\ pc'[d] = "finish" => d \in effects
                      /\ d \in effects /\ IsMutating(d) =>
                           /\ IdempotencyKey(d) \in Key
                           /\ claims'[IdempotencyKey(d)].status # "none"
                           /\ claims'[IdempotencyKey(d)].run = d
    BY <1>1 DEF EffectsSound, IsMutating, IdempotencyKey
  <2>1. CASE d = c BY <1>1, <1>2, <1>3, <2>1 DEF TypeOK
  <2>2. CASE d # c
    <3>1. d \in effects /\ IsMutating(d) =>
            claims'[IdempotencyKey(d)] = claims[IdempotencyKey(d)]
      BY <1>3, <1>4, <1>8, <2>2 DEF EffectsSound, TypeOK
    <3> QED BY <1>2, <2>2, <3>1 DEF EffectsSound, TypeOK
  <2> QED BY <2>1, <2>2
<1>12. AnswersSound'
  <2>1. answer[c].code = "none" BY <1>1 DEF AnswersSound
  <2> QED BY <1>1, <1>2, <2>1 DEF AnswersSound, TypeOK, IdempotencyKey
<1> QED BY <1>5, <1>6, <1>7, <1>9, <1>10, <1>11, <1>12

\* A call arrives.
LEMMA ReceiveStep ==
    ASSUME CoreInv, NEW c \in Call, Receive(c)
    PROVE  CoreInv'
<1> USE DEF CoreInv
<1>1. PICK r \in Request, a \in Approval \cup {None} :
          req' = [req EXCEPT ![c] = r] /\ appr' = [appr EXCEPT ![c] = a]
  BY DEF Receive
<1>2. pc' = [pc EXCEPT ![c] = "admit"] /\ pc[c] = "new"
      /\ UNCHANGED <<answer, claims, approvals, rowLock, effects>>
  BY DEF Receive, Goto
<1>3. c \notin effects BY <1>2 DEF EffectsSound
<1>4. TypeOK' BY <1>1, <1>2 DEF TypeOK, PC
<1>5. Received' BY <1>1, <1>2 DEF Received, TypeOK
<1>6. \A d \in Call : d # c => /\ pc'[d] = pc[d] /\ req'[d] = req[d]
                              /\ IdempotencyKey(d)' = IdempotencyKey(d)
                              /\ IsMutating(d)' = IsMutating(d)
  BY <1>1, <1>2 DEF TypeOK, IdempotencyKey, IsMutating
<1>7. pc'[c] = "admit" BY <1>2 DEF TypeOK
<1>8. Identified' BY <1>6, <1>7 DEF Identified
<1>9. Owned' BY <1>2, <1>6, <1>7 DEF Owned
<1>10. ClaimsSound' BY <1>2, <1>6, <1>7 DEF ClaimsSound
<1>11. EffectsSound' BY <1>2, <1>3, <1>6, <1>7 DEF EffectsSound
<1>12. AnswersSound'
  <2>1. answer[c].code = "none" BY <1>2 DEF AnswersSound
  <2>2. \A d \in effects : d \in Call /\ d # c BY <1>3 DEF TypeOK
  <2> QED BY <1>2, <1>6, <1>7, <2>1, <2>2 DEF AnswersSound
<1> QED BY <1>4, <1>5, <1>8, <1>9, <1>10, <1>11, <1>12

\* CoreInv does not look at approvals or row locks beyond their types.
LEMMA ApprovalsStep ==
    ASSUME CoreInv, approvals' \in [Approval -> ApprovalRow],
           rowLock' \in [Approval -> Call \cup {None}],
           UNCHANGED <<pc, req, appr, answer, claims, effects>>
    PROVE  CoreInv'
BY DEF CoreInv, TypeOK, Received, Identified, Owned, ClaimsSound, EffectsSound,
       AnswersSound, IsMutating, IdempotencyKey

\* The remaining steps either move the pc on towards the claim or end the call.
LEMMA MiddleStep ==
    ASSUME CoreInv, NEW c \in Call,
           \/ Lookup(c) \/ ValidateApproval(c) \/ FindPending(c) \/ CreatePending(c)
           \/ Reserve(c)
    PROVE  CoreInv'
<1> USE DEF CoreInv
<1>1. CASE AnswerExisting(c) /\ KeyTaken(c) /\ pc[c] \in {"lookup", "reserve"}
           /\ UNCHANGED <<req, appr, claims, approvals, effects>>
  BY <1>1, AnswerStep
<1>2. CASE /\ pc[c] \notin {"new", "returned"}
           /\ \E code \in {"approval_required", "approval_invalid"} : Return(c, code, None)
           /\ UNCHANGED <<req, appr, claims, effects>>
           /\ approvals' \in [Approval -> ApprovalRow]
  BY <1>2, EndStep, Codes
<1>3. ASSUME NEW label \in {"authorize", "ask", "pend", "reserve", "claim", "provider"},
             pc[c] \in {"lookup", "authorize", "ask", "reserve"},
             pc' = [pc EXCEPT ![c] = label],
             label \in {"authorize", "reserve", "claim"} /\ IsMutating(c) => req[c].rid # None,
             label \in {"reserve", "claim"} => IsMutating(c),
             label = "provider" => ~IsMutating(c),
             UNCHANGED <<req, appr, answer, claims, approvals, effects>>,
             rowLock' \in [Approval -> Call \cup {None}]
      PROVE  CoreInv'
  <2>1. TypeOK' BY <1>3 DEF TypeOK, PC
  <2>2. Received' BY <1>3 DEF Received, TypeOK
  <2>3. Identified' BY <1>3 DEF Identified, TypeOK, IsMutating
  <2>4. Owned' BY <1>3 DEF Owned, TypeOK, IsMutating, IdempotencyKey
  <2>5. ClaimsSound' BY <1>3 DEF ClaimsSound, TypeOK, IsMutating, IdempotencyKey
  <2>6. EffectsSound' BY <1>3 DEF EffectsSound, TypeOK, IsMutating, IdempotencyKey
  <2>7. AnswersSound' BY <1>3 DEF AnswersSound, TypeOK, IdempotencyKey
  <2> QED BY <2>1, <2>2, <2>3, <2>4, <2>5, <2>6, <2>7
<1>4. CASE Lookup(c)
  BY <1>1, <1>3, <1>4 DEF Lookup, Goto, Identified, TypeOK
<1>5. CASE ValidateApproval(c)
  BY <1>2, <1>3, <1>5 DEF ValidateApproval, Goto, Authorized, Identified, TypeOK
<1>6. CASE FindPending(c)
  BY <1>2, <1>3, <1>6 DEF FindPending, Goto, TypeOK
<1>7. CASE CreatePending(c)
  <2>1. req[c] \in Request BY <1>7 DEF CreatePending, Received
  <2>2. PrincipalOf[req[c].who] \in Principal BY <2>1, RequestFields, ConstantAssumption
  <2>3. approvals' \in [Approval -> ApprovalRow]
    BY <1>7, <2>1, <2>2, RequestFields
       DEF CreatePending, TypeOK, ApprovalRow, ApprovalStatus
  <2> QED BY <1>2, <1>7, <2>3 DEF CreatePending
<1>8. CASE Reserve(c)
  BY <1>1, <1>3, <1>8 DEF Reserve, Goto, Identified, TypeOK
<1> QED BY <1>4, <1>5, <1>6, <1>7, <1>8

\* Every step of the runtime keeps the invariant.
LEMMA CoreStep == CoreInv /\ [Next]_vars => CoreInv'
<1> SUFFICES ASSUME CoreInv, [Next]_vars PROVE CoreInv'
  OBVIOUS
<1>1. CASE UNCHANGED vars
  BY <1>1, ApprovalsStep DEF vars, CoreInv, TypeOK
<1>2. ASSUME NEW c \in Call, Receive(c) PROVE CoreInv'
  BY <1>2, ReceiveStep
<1>3. ASSUME NEW c \in Call, Reject(c) \/ OutputInvalid(c) \/ Crash(c) PROVE CoreInv'
  BY <1>3, EndStep, Codes DEF Reject, OutputInvalid, Crash, CoreInv, TypeOK, Failure
<1>4. ASSUME NEW c \in Call, ProviderError(c) PROVE CoreInv'
  BY <1>4, EndStep, Codes DEF ProviderError, CoreInv, TypeOK, Failure
<1>5. ASSUME NEW c \in Call, Step(c) PROVE CoreInv'
  BY <1>3, <1>4, <1>5, MoveStep, MiddleStep, ClaimStep, ExecuteStep, FinishStep DEF Step
<1>6. ASSUME NEW a \in Approval, Decide(a) PROVE CoreInv'
  <2>1. approvals' \in [Approval -> ApprovalRow]
    BY <1>6 DEF Decide, CoreInv, TypeOK, ApprovalRow, ApprovalStatus
  <2> QED BY <1>6, <2>1, ApprovalsStep DEF Decide, CoreInv, TypeOK
<1> QED BY <1>1, <1>2, <1>3, <1>5, <1>6 DEF Next

\* No call, claim or effect exists at the start.
LEMMA CoreInit == Init => CoreInv
<1> SUFFICES ASSUME Init PROVE CoreInv
  OBVIOUS
<1>1. TypeOK
  BY DEF Init, TypeOK, PC, Code, Claim, NoClaim, ApprovalRow, ApprovalStatus, NoRow
<1> QED BY <1>1 DEF Init, CoreInv, Received, Identified, Owned, ClaimsSound, EffectsSound,
                    AnswersSound, NoClaim

\* The inductive invariant of the runtime.
THEOREM CoreInvariant == Spec => []CoreInv
BY CoreInit, CoreStep, PTL DEF Spec

\* The state of the runtime always has its type: every claim, approval, lock and answer
\* is one the tables can hold, whatever calls, crashes and decisions interleave.
THEOREM TypeCorrect == Spec => []TypeOK
<1>1. CoreInv => TypeOK BY DEF CoreInv
<1> QED BY <1>1, CoreInvariant, PTL

\* reserve_request's boundary: one idempotency key causes at most one effect.
THEOREM AtMostOnce == Spec => []AtMostOnceEffect
<1>1. CoreInv => AtMostOnceEffect
  <2> SUFFICES ASSUME CoreInv, NEW c \in effects, NEW d \in effects,
                      IsMutating(c), IsMutating(d), IdempotencyKey(c) = IdempotencyKey(d)
               PROVE  c = d
    BY DEF AtMostOnceEffect
  <2>1. c \in Call /\ d \in Call BY DEF CoreInv, TypeOK
  <2> QED BY <2>1 DEF CoreInv, EffectsSound
<1> QED BY <1>1, CoreInvariant, PTL

\* A replayed answer is the stored answer of a call that performed this very operation
\* under this very key.
THEOREM ReplayIsFaithful == Spec => []FaithfulReplay
<1>1. CoreInv => FaithfulReplay BY DEF CoreInv, AnswersSound, FaithfulReplay
<1> QED BY <1>1, CoreInvariant, PTL

(***************************************************************************)
(* Approvals: what a row lock, a claim and an approval row say about each  *)
(* other.                                                                  *)
(***************************************************************************)

\* A call that must be holding the lock of the approval it names: validated, and its
\* transaction not yet over.
Holding(c) == \/ pc[c] \in {"reserve", "claim"}
              \/ pc[c] \in {"provider", "finish"} /\ ~IsMutating(c)

\* A call asks for an approval only if its operation needs one.
AskingGated == \A c \in Call : pc[c] \in {"ask", "pend"} => Gated(c)

\* Approvals are only ever requested for operations that need one.
RowsSound == \A a \in Approval : approvals[a].status # "absent" => approvals[a].op \in NeedsApproval

\* The lock of a row is held by a call that validated it, and keeps it approved.
LocksSound ==
    \A a \in Approval, c \in Call : rowLock[a] = c =>
        /\ appr[c] = a /\ Gated(c) /\ Holding(c)
        /\ approvals[a].status = "approved" /\ Bound(c, a)

\* Conversely such a call does hold it.
LocksHeld ==
    \A c \in Call : Gated(c) /\ Holding(c) => appr[c] \in Approval /\ rowLock[appr[c]] = c

\* The claim of a gated operation has spent the approval its call named.
PermitsSpent ==
    \A k \in Key : claims[k].status # "none" /\ claims[k].op \in NeedsApproval =>
        LET c == claims[k].run IN
        /\ appr[c] \in Approval
        /\ Bound(c, appr[c])
        /\ approvals[appr[c]].rid = req[c].rid
        /\ approvals[appr[c]].status =
             (IF claims[k].status = "completed" THEN "consumed" ELSE "executing")

\* No two claims have spent the same approval.
PermitsUnique ==
    \A j, k \in Key :
        /\ claims[j].status # "none" /\ claims[j].op \in NeedsApproval
        /\ claims[k].status # "none" /\ claims[k].op \in NeedsApproval
        /\ appr[claims[j].run] = appr[claims[k].run]
        => j = k

\* An executing approval has a running claim.
ExecutingClaimed ==
    \A a \in Approval : approvals[a].status = "executing" =>
        \E k \in Key : /\ claims[k].status = "running" /\ claims[k].op \in NeedsApproval
                      /\ appr[claims[k].run] = a

\* The gated reads that happened had an approval of their own.
ReadsBound ==
    \A c \in Call : c \in effects /\ Gated(c) /\ ~IsMutating(c) =>
        /\ appr[c] \in Approval
        /\ approvals[appr[c]].status # "absent"
        /\ Bound(c, appr[c])

\* A completed gated call has consumed its approval, and no other call has.
CompletedConsumed ==
    \A c \in Call : answer[c].code = "completed" /\ Gated(c) =>
        /\ appr[c] \in Approval
        /\ approvals[appr[c]].status = "consumed"
        /\ \A d \in Call : answer[d].code = "completed" /\ Gated(d) /\ appr[d] = appr[c] => d = c

ApprovalInv == /\ AskingGated /\ RowsSound /\ LocksSound /\ LocksHeld /\ PermitsSpent /\ PermitsUnique
               /\ ExecutingClaimed /\ ReadsBound /\ CompletedConsumed

Inv == CoreInv /\ ApprovalInv

\* What a gated call with its provider knows about its approval: a read holds the row,
\* a mutation has moved it to executing.
LEMMA InHand ==
    ASSUME Inv, NEW c \in Call, pc[c] \in {"provider", "finish"}, Gated(c)
    PROVE  /\ appr[c] \in Approval /\ Bound(c, appr[c])
           /\ ~IsMutating(c) => approvals[appr[c]].status = "approved"
           /\ IsMutating(c) => approvals[appr[c]].status = "executing"
<1> USE DEF Inv, ApprovalInv
<1>1. CASE ~IsMutating(c) BY <1>1 DEF LocksHeld, LocksSound, Holding
<1>2. CASE IsMutating(c)
  <2> DEFINE k == IdempotencyKey(c)
  <2>1. /\ k \in Key /\ claims[k].status = "running" /\ claims[k].run = c
        /\ claims[k].op \in NeedsApproval
    BY <1>2 DEF CoreInv, Owned, Gated
  <2> HIDE DEF k
  <2> QED BY <1>2, <2>1 DEF PermitsSpent
<1> QED BY <1>1, <1>2

\* A call that ends without a result lets go of its locks; at most it leaves a new
\* pending approval behind.
LEMMA EndApprovals ==
    ASSUME Inv, NEW c \in Call, pc[c] \notin {"new", "returned"},
           NEW code \in Code \ {"none", "completed"}, NEW r, Return(c, code, r),
           UNCHANGED <<req, appr, claims>>,
           \A a \in Approval :
               \/ approvals'[a] = approvals[a]
               \/ /\ approvals[a].status = "absent" /\ approvals'[a].status = "pending"
                  /\ approvals'[a].op \in NeedsApproval,
           \/ effects' = effects
           \/ pc[c] = "provider" /\ effects' = effects \cup {c}
    PROVE  ApprovalInv'
<1> USE DEF Inv, ApprovalInv
<1>1. /\ pc'[c] = "returned" /\ answer'[c].code = code
      /\ \A d \in Call : d # c => pc'[d] = pc[d] /\ answer'[d] = answer[d]
      /\ \A a \in Approval : rowLock'[a] = IF rowLock[a] = c THEN None ELSE rowLock[a]
  BY DEF Return, ReleaseLocks, CoreInv, TypeOK
<1>2. \A d \in Call : /\ Gated(d)' = Gated(d) /\ IsMutating(d)' = IsMutating(d)
                      /\ d # c => Holding(d)' = Holding(d)
  BY <1>1 DEF Gated, IsMutating, Holding
<1>3. ~Holding(c)' BY <1>1 DEF Holding
<1>4. \A a \in Approval : approvals[a].status # "absent" =>
          approvals'[a] = approvals[a] /\ \A d \in Call : Bound(d, a)' = Bound(d, a)
  BY DEF Bound
<1>5. None \notin Call BY ConstantAssumption
<1>6. RowsSound' BY DEF RowsSound
<1>7. LocksSound'
  <2> SUFFICES ASSUME NEW a \in Approval, NEW d \in Call, rowLock'[a] = d
               PROVE  /\ appr[d] = a /\ Gated(d)' /\ Holding(d)'
                      /\ approvals'[a].status = "approved" /\ Bound(d, a)'
    BY DEF LocksSound
  <2>1. rowLock[a] = d /\ d # c BY <1>1, <1>5
  <2> QED BY <1>2, <1>4, <2>1 DEF LocksSound
<1>8. LocksHeld'
  <2> SUFFICES ASSUME NEW d \in Call, Gated(d)', Holding(d)'
               PROVE  appr[d] \in Approval /\ rowLock'[appr[d]] = d
    BY DEF LocksHeld
  <2>1. d # c BY <1>3
  <2> QED BY <1>1, <1>2, <2>1 DEF LocksHeld
<1>9. PermitsSpent'
  <2> SUFFICES ASSUME NEW k \in Key, claims[k].status # "none", claims[k].op \in NeedsApproval
               PROVE  /\ appr[claims[k].run] \in Approval
                      /\ Bound(claims[k].run, appr[claims[k].run])'
                      /\ approvals'[appr[claims[k].run]].rid = req[claims[k].run].rid
                      /\ approvals'[appr[claims[k].run]].status =
                           (IF claims[k].status = "completed" THEN "consumed" ELSE "executing")
    BY DEF PermitsSpent, Bound
  <2>1. claims[k].run \in Call BY DEF CoreInv, ClaimsSound
  <2> QED BY <1>4, <2>1 DEF PermitsSpent
<1>10. PermitsUnique' BY DEF PermitsUnique
<1>11. ExecutingClaimed' BY DEF ExecutingClaimed
<1>12. ReadsBound'
  <2> SUFFICES ASSUME NEW d \in Call, d \in effects', Gated(d), ~IsMutating(d)
               PROVE  /\ appr[d] \in Approval
                      /\ approvals'[appr[d]].status # "absent"
                      /\ Bound(d, appr[d])'
    BY <1>2 DEF ReadsBound, Bound
  <2>1. CASE d \in effects BY <1>4, <2>1 DEF ReadsBound
  <2>2. CASE d = c /\ pc[c] = "provider" BY <1>4, <2>2, InHand
  <2> QED BY <2>1, <2>2
<1>13. CompletedConsumed'
  <2>1. \A d \in Call : answer'[d].code = "completed" => d # c /\ answer[d].code = "completed"
    BY <1>1
  <2> QED BY <1>2, <1>4, <2>1 DEF CompletedConsumed
<1>14. AskingGated' BY <1>1, <1>2 DEF AskingGated
<1> QED BY <1>6, <1>7, <1>8, <1>9, <1>10, <1>11, <1>12, <1>13, <1>14

\* A call moves on; it may just have locked the approval it validated, and its provider
\* may just have acted.
LEMMA MoveApprovals ==
    ASSUME Inv, NEW c \in Call, NEW label \in PC \ {"new", "returned"},
           pc[c] \notin {"new", "returned"}, pc' = [pc EXCEPT ![c] = label],
           label \in {"ask", "pend"} => Gated(c),
           UNCHANGED <<req, appr, answer, claims, approvals>>,
           \/ effects' = effects
           \/ pc[c] = "provider" /\ effects' = effects \cup {c},
           \/ rowLock' = rowLock /\ Holding(c)' = Holding(c)
           \/ rowLock' = rowLock /\ ~Gated(c)
           \/ /\ appr[c] \in Approval /\ CanLock(c, appr[c]) /\ Gated(c) /\ Holding(c)'
              /\ approvals[appr[c]].status = "approved" /\ Bound(c, appr[c])
              /\ rowLock' = [rowLock EXCEPT ![appr[c]] = c]
    PROVE  ApprovalInv'
<1> USE DEF Inv, ApprovalInv
<1>1. \A d \in Call : /\ Gated(d)' = Gated(d) /\ IsMutating(d)' = IsMutating(d)
                      /\ d # c => pc'[d] = pc[d] /\ Holding(d)' = Holding(d)
  BY DEF Gated, IsMutating, Holding, CoreInv, TypeOK
<1>2. \A a \in Approval, d \in Call : Bound(d, a)' = Bound(d, a) BY DEF Bound
<1>3. None \notin Call BY ConstantAssumption
<1>4. RowsSound' BY DEF RowsSound
<1>5. LocksSound'
  <2> SUFFICES ASSUME NEW a \in Approval, NEW d \in Call, rowLock'[a] = d
               PROVE  /\ appr[d] = a /\ Gated(d) /\ Holding(d)'
                      /\ approvals[a].status = "approved" /\ Bound(d, a)
    BY <1>1, <1>2 DEF LocksSound
  <2>1. CASE rowLock' = rowLock BY <1>1, <2>1 DEF LocksSound
  <2>2. CASE /\ appr[c] \in Approval /\ CanLock(c, appr[c]) /\ Gated(c) /\ Holding(c)'
             /\ approvals[appr[c]].status = "approved" /\ Bound(c, appr[c])
             /\ rowLock' = [rowLock EXCEPT ![appr[c]] = c]
    <3>1. CASE a = appr[c] BY <2>2, <3>1 DEF CoreInv, TypeOK
    <3>2. CASE a # appr[c]
      <4>1. rowLock[a] = d BY <2>2, <3>2 DEF CoreInv, TypeOK
      <4>2. d # c BY <3>2, <4>1 DEF LocksSound
      <4> QED BY <1>1, <4>1, <4>2 DEF LocksSound
    <3> QED BY <3>1, <3>2
  <2> QED BY <2>1, <2>2
<1>6. LocksHeld'
  <2> SUFFICES ASSUME NEW d \in Call, Gated(d), Holding(d)'
               PROVE  appr[d] \in Approval /\ rowLock'[appr[d]] = d
    BY <1>1 DEF LocksHeld
  <2>1. CASE rowLock' = rowLock /\ (Holding(c)' = Holding(c) \/ ~Gated(c))
    BY <1>1, <2>1 DEF LocksHeld
  <2>2. CASE /\ appr[c] \in Approval /\ CanLock(c, appr[c])
             /\ rowLock' = [rowLock EXCEPT ![appr[c]] = c]
    <3>1. CASE d = c BY <2>2, <3>1 DEF CoreInv, TypeOK
    <3>2. CASE d # c
      <4>1. appr[d] \in Approval /\ rowLock[appr[d]] = d BY <1>1, <3>2 DEF LocksHeld
      <4>2. appr[d] # appr[c] BY <1>3, <2>2, <3>2, <4>1 DEF CanLock
      <4> QED BY <2>2, <4>1, <4>2 DEF CoreInv, TypeOK
    <3> QED BY <3>1, <3>2
  <2> QED BY <2>1, <2>2
<1>7. PermitsSpent' BY DEF PermitsSpent, Bound
<1>8. PermitsUnique' BY DEF PermitsUnique
<1>9. ExecutingClaimed' BY DEF ExecutingClaimed
<1>10. ReadsBound'
  <2> SUFFICES ASSUME NEW d \in Call, d \in effects', Gated(d), ~IsMutating(d)
               PROVE  /\ appr[d] \in Approval
                      /\ approvals[appr[d]].status # "absent"
                      /\ Bound(d, appr[d])
    BY <1>1, <1>2 DEF ReadsBound
  <2>1. CASE d \in effects BY <2>1 DEF ReadsBound
  <2>2. CASE d = c /\ pc[c] = "provider" BY <2>2, InHand
  <2> QED BY <2>1, <2>2
<1>11. CompletedConsumed' BY <1>1 DEF CompletedConsumed
<1>12. AskingGated'
  <2>1. pc'[c] = label BY DEF CoreInv, TypeOK
  <2> QED BY <1>1, <2>1 DEF AskingGated
<1> QED BY <1>4, <1>5, <1>6, <1>7, <1>8, <1>9, <1>10, <1>11, <1>12

\* The claim and the approval it spends are committed together.
LEMMA ClaimApprovals ==
    ASSUME Inv, NEW c \in Call, pc[c] = "claim", ~KeyTaken(c),
           appr[c] # None => Claimable(c),
           claims' = [claims EXCEPT ![IdempotencyKey(c)] =
                        [status |-> "running", op |-> req[c].op, run |-> c]],
           approvals' = ClaimedApprovals(c),
           Goto(c, "provider"), ReleaseLocks(c), UNCHANGED <<answer, req, appr, effects>>
    PROVE  ApprovalInv'
<1> USE DEF Inv, ApprovalInv
<1> DEFINE k == IdempotencyKey(c)
<1>1. k \in Key /\ IsMutating(c) /\ claims[k].status = "none"
  BY IdentifiedKey DEF CoreInv, KeyTaken, Identified
<1>2. claims'[k] = [status |-> "running", op |-> req[c].op, run |-> c]
      /\ \A j \in Key : j # k => claims'[j] = claims[j]
  BY <1>1 DEF CoreInv, TypeOK
<1>3. /\ pc'[c] = "provider"
      /\ \A d \in Call : d # c => pc'[d] = pc[d]
      /\ \A a \in Approval : rowLock'[a] = IF rowLock[a] = c THEN None ELSE rowLock[a]
  BY DEF Goto, ReleaseLocks, CoreInv, TypeOK
<1> HIDE DEF k
<1>4. \A d \in Call : /\ Gated(d)' = Gated(d) /\ IsMutating(d)' = IsMutating(d)
                      /\ d # c => Holding(d)' = Holding(d)
  BY <1>3 DEF Gated, IsMutating, Holding
<1>5. ~Holding(c)' BY <1>1, <1>3, <1>4 DEF Holding
<1>6. None \notin Call /\ None \notin Approval BY ConstantAssumption
<1>7. Gated(c) <=> appr[c] # None
  <2>1. Gated(c) => appr[c] # None BY <1>6 DEF LocksHeld, Holding
  <2>2. appr[c] # None => Gated(c)
    BY DEF Claimable, Bound, RowsSound, Gated, CoreInv, TypeOK
  <2> QED BY <2>1, <2>2
<1>8. AskingGated' BY <1>3, <1>4 DEF AskingGated
<1>9. CASE ~Gated(c)
  <2>1. approvals' = approvals BY <1>7, <1>9 DEF ClaimedApprovals
  <2>2. claims'[k].op \notin NeedsApproval BY <1>2, <1>9 DEF Gated
  <2>3. \A a \in Approval : rowLock[a] # c BY <1>9 DEF LocksSound
  <2>4. \A a \in Approval, d \in Call : Bound(d, a)' = Bound(d, a) BY <2>1 DEF Bound
  <2>5. RowsSound' BY <2>1 DEF RowsSound
  <2>6. LocksSound'
    <3>1. \A a \in Approval : rowLock'[a] = rowLock[a] BY <1>3, <2>3
    <3> QED BY <1>4, <2>1, <2>3, <2>4, <3>1 DEF LocksSound
  <2>7. LocksHeld' BY <1>3, <1>4, <1>9, <2>3 DEF LocksHeld
  <2>8. \A j \in Key : claims'[j].op \in NeedsApproval => j # k /\ claims'[j] = claims[j]
    BY <1>2, <2>2
  <2>9. PermitsSpent' BY <2>1, <2>8 DEF PermitsSpent, Bound
  <2>10. PermitsUnique' BY <2>8 DEF PermitsUnique
  <2>11. ExecutingClaimed'
    <3>1. \A j \in Key : claims[j].status = "running" => claims'[j] = claims[j] BY <1>1, <1>2
    <3> QED BY <2>1, <3>1 DEF ExecutingClaimed
  <2>12. ReadsBound' BY <1>4, <2>1, <2>4 DEF ReadsBound
  <2>13. CompletedConsumed' BY <1>4, <2>1 DEF CompletedConsumed
  <2> QED BY <1>8, <2>5, <2>6, <2>7, <2>9, <2>10, <2>11, <2>12, <2>13
<1>10. CASE Gated(c)
  <2> DEFINE b == appr[c]
  <2>1. /\ b \in Approval /\ rowLock[b] = c /\ approvals[b].status = "approved"
        /\ Bound(c, b) /\ approvals[b].rid = req[c].rid
    BY <1>7, <1>10 DEF LocksHeld, LocksSound, Holding, Claimable
  <2>2. /\ approvals'[b].status = "executing" /\ approvals'[b].op = approvals[b].op
        /\ approvals'[b].principal = approvals[b].principal
        /\ approvals'[b].rid = approvals[b].rid
        /\ \A a \in Approval : a # b => approvals'[a] = approvals[a]
    BY <1>7, <1>10, <2>1 DEF ClaimedApprovals, CoreInv, TypeOK, ApprovalRow
  <2> HIDE DEF b
  <2>3. \A a \in Approval, d \in Call : Bound(d, a)' = Bound(d, a) BY <2>2 DEF Bound
  <2>4. \A j \in Key : claims[j].status # "none" /\ claims[j].op \in NeedsApproval =>
            claims[j].run \in Call /\ appr[claims[j].run] # b
    BY <2>1 DEF PermitsSpent, CoreInv, ClaimsSound
  <2>5. RowsSound' BY <2>1, <2>2 DEF RowsSound
  <2>6. LocksSound'
    <3> SUFFICES ASSUME NEW a \in Approval, NEW d \in Call, rowLock'[a] = d
                 PROVE  /\ appr[d] = a /\ Gated(d) /\ Holding(d)'
                        /\ approvals'[a].status = "approved" /\ Bound(d, a)
      BY <1>4, <2>3 DEF LocksSound
    <3>1. rowLock[a] = d /\ d # c BY <1>3, <1>6
    <3>2. a # b BY <2>1, <3>1
    <3> QED BY <1>4, <2>2, <3>1, <3>2 DEF LocksSound
  <2>7. LocksHeld' BY <1>3, <1>4, <1>5 DEF LocksHeld
  <2>8. PermitsSpent'
    <3> SUFFICES ASSUME NEW j \in Key, claims'[j].status # "none",
                        claims'[j].op \in NeedsApproval, NEW d, d = claims'[j].run
                 PROVE  /\ appr[d] \in Approval
                        /\ approvals'[appr[d]].principal = PrincipalOf[req[d].who]
                        /\ approvals'[appr[d]].op = req[d].op
                        /\ approvals'[appr[d]].rid = req[d].rid
                        /\ approvals'[appr[d]].status =
                             (IF claims'[j].status = "completed" THEN "consumed" ELSE "executing")
      BY DEF PermitsSpent, Bound
    <3>1. CASE j = k
      <4>1. d = c /\ claims'[j].status = "running" BY <1>2, <3>1
      <4> QED BY <2>1, <2>2, <4>1 DEF b, Bound
    <3>2. CASE j # k
      <4>1. claims'[j] = claims[j] BY <1>2, <3>2
      <4>2. appr[d] # b BY <2>4, <4>1
      <4> QED BY <2>2, <4>1, <4>2 DEF PermitsSpent, Bound
    <3> QED BY <3>1, <3>2
  <2>9. PermitsUnique'
    <3> SUFFICES ASSUME NEW i \in Key, NEW j \in Key,
                        claims'[i].status # "none", claims'[i].op \in NeedsApproval,
                        claims'[j].status # "none", claims'[j].op \in NeedsApproval,
                        appr[claims'[i].run] = appr[claims'[j].run], i # j
                 PROVE  FALSE
      BY DEF PermitsUnique
    <3>1. CASE i # k /\ j # k BY <1>2, <3>1 DEF PermitsUnique
    <3>2. CASE i = k BY <1>2, <2>4, <3>2 DEF b
    <3>3. CASE j = k BY <1>2, <2>4, <3>3 DEF b
    <3> QED BY <3>1, <3>2, <3>3
  <2>10. ExecutingClaimed'
    <3> SUFFICES ASSUME NEW a \in Approval, approvals'[a].status = "executing"
                 PROVE  \E j \in Key : /\ claims'[j].status = "running"
                                       /\ claims'[j].op \in NeedsApproval
                                       /\ appr[claims'[j].run] = a
      BY DEF ExecutingClaimed
    <3>1. CASE a = b BY <1>1, <1>2, <1>10, <3>1 DEF b, Gated
    <3>2. CASE a # b
      <4>1. PICK j \in Key : /\ claims[j].status = "running" /\ claims[j].op \in NeedsApproval
                             /\ appr[claims[j].run] = a
        BY <2>2, <3>2 DEF ExecutingClaimed
      <4>2. claims'[j] = claims[j] BY <1>1, <1>2, <4>1
      <4> QED BY <4>1, <4>2
    <3> QED BY <3>1, <3>2
  <2>11. ReadsBound' BY <1>4, <2>2, <2>3 DEF ReadsBound
  <2>12. CompletedConsumed' BY <1>4, <2>1, <2>2 DEF CompletedConsumed
  <2> QED BY <1>8, <2>5, <2>6, <2>7, <2>8, <2>9, <2>10, <2>11, <2>12
<1> QED BY <1>9, <1>10

\* Completion consumes the approval of the execution, and of no other.
LEMMA FinishApprovals ==
    ASSUME Inv, NEW c \in Call, Finish(c)
    PROVE  ApprovalInv'
<1> USE DEF Inv, ApprovalInv
<1> DEFINE k == IdempotencyKey(c)
           b == appr[c]
<1>1. /\ pc[c] = "finish" /\ UNCHANGED <<req, appr, effects>>
      /\ pc'[c] = "returned" /\ answer'[c].code = "completed"
      /\ \A d \in Call : d # c => pc'[d] = pc[d] /\ answer'[d] = answer[d]
      /\ \A a \in Approval : rowLock'[a] = IF rowLock[a] = c THEN None ELSE rowLock[a]
  BY DEF Finish, Return, ReleaseLocks, CoreInv, TypeOK
<1>2. \A d \in Call : /\ Gated(d)' = Gated(d) /\ IsMutating(d)' = IsMutating(d)
                      /\ d # c => Holding(d)' = Holding(d)
  BY <1>1 DEF Gated, IsMutating, Holding
<1>3. ~Holding(c)' BY <1>1 DEF Holding
<1>4. None \notin Call BY ConstantAssumption
<1>5. IsMutating(c) => /\ k \in Key /\ claims[k].status = "running" /\ claims[k].run = c
                       /\ claims[k].op = req[c].op
                       /\ claims'[k].status = "completed" /\ claims'[k].run = c
                       /\ claims'[k].op = claims[k].op
  BY <1>1 DEF CoreInv, Owned, Finish, TypeOK
<1>6. \A j \in Key : ~(IsMutating(c) /\ j = k) => claims'[j] = claims[j]
  BY <1>5 DEF Finish, CoreInv, TypeOK
<1>7. Gated(c) => /\ b \in Approval /\ Bound(c, b)
                  /\ approvals[b].status \in {"approved", "executing"}
                  /\ approvals'[b].status = "consumed" /\ approvals'[b].op = approvals[b].op
                  /\ approvals'[b].principal = approvals[b].principal
                  /\ approvals'[b].rid = approvals[b].rid
  BY <1>1, InHand DEF Finish, ConsumedApprovals, CoreInv, TypeOK, ApprovalRow
<1>8. \A a \in Approval : ~(Gated(c) /\ a = b) => approvals'[a] = approvals[a]
  BY <1>7 DEF Finish, ConsumedApprovals, CoreInv, TypeOK
<1>9. \A a \in Approval, d \in Call : Bound(d, a)' = Bound(d, a)
  BY <1>1, <1>7, <1>8 DEF Bound
<1>10. \A j \in Key : claims'[j].status # "none" =>
           /\ claims[j].status # "none" /\ claims'[j].run = claims[j].run
           /\ claims'[j].op = claims[j].op /\ claims[j].run \in Call
  BY <1>5, <1>6 DEF CoreInv, ClaimsSound
\* Another claim has spent another approval.
<1>11. \A j \in Key : /\ claims[j].status # "none" /\ claims[j].op \in NeedsApproval
                      /\ Gated(c) /\ appr[claims[j].run] = b
                      => IsMutating(c) /\ j = k
  <2> SUFFICES ASSUME NEW j \in Key, claims[j].status # "none",
                      claims[j].op \in NeedsApproval, Gated(c), appr[claims[j].run] = b
               PROVE  IsMutating(c) /\ j = k
    OBVIOUS
  <2>1. approvals[b].status \in {"executing", "consumed"} BY DEF PermitsSpent
  <2>2. IsMutating(c) BY <1>1, <2>1, InHand
  <2>3. claims[k].op \in NeedsApproval BY <1>5, <2>2 DEF Gated
  <2>4. k \in Key /\ claims[k].status # "none" /\ claims[k].run = c BY <1>5, <2>2
  <2>5. \A i \in Key : i = k => j = i
    BY <2>3, <2>4 DEF PermitsUnique
  <2> QED BY <2>2, <2>4, <2>5
<1> HIDE DEF k, b
<1>12. RowsSound' BY <1>7, <1>8 DEF RowsSound
<1>13. LocksSound'
  <2> SUFFICES ASSUME NEW a \in Approval, NEW d \in Call, rowLock'[a] = d
               PROVE  /\ appr[d] = a /\ Gated(d) /\ Holding(d)'
                      /\ approvals'[a].status = "approved" /\ Bound(d, a)
    BY <1>1, <1>2, <1>9 DEF LocksSound
  <2>1. rowLock[a] = d /\ d # c BY <1>1, <1>4
  <2>2. approvals[a].status = "approved" BY <2>1 DEF LocksSound
  <2>3. ~(Gated(c) /\ a = b)
    <3> SUFFICES ASSUME Gated(c), a = b PROVE FALSE
      OBVIOUS
    <3>1. ~IsMutating(c) BY <1>1, <2>2, InHand DEF b
    <3>2. rowLock[b] = c BY <1>1, <3>1 DEF LocksHeld, Holding, b
    <3> QED BY <2>1, <3>2
  <2> QED BY <1>2, <1>8, <2>1, <2>3 DEF LocksSound
<1>14. LocksHeld' BY <1>1, <1>2, <1>3 DEF LocksHeld
<1>15. PermitsSpent'
  <2> SUFFICES ASSUME NEW j \in Key, claims'[j].status # "none",
                      claims'[j].op \in NeedsApproval, NEW d, d = claims[j].run
               PROVE  /\ appr[d] \in Approval
                      /\ approvals'[appr[d]].principal = PrincipalOf[req[d].who]
                      /\ approvals'[appr[d]].op = req[d].op
                      /\ approvals'[appr[d]].rid = req[d].rid
                      /\ approvals'[appr[d]].status =
                           (IF claims'[j].status = "completed" THEN "consumed" ELSE "executing")
    BY <1>1, <1>10 DEF PermitsSpent, Bound
  <2>1. /\ appr[d] \in Approval /\ Bound(d, appr[d]) /\ approvals[appr[d]].rid = req[d].rid
        /\ approvals[appr[d]].status =
             (IF claims[j].status = "completed" THEN "consumed" ELSE "executing")
    BY <1>10 DEF PermitsSpent
  <2>2. CASE IsMutating(c) /\ j = k
    <3>1. Gated(c) BY <1>5, <1>10, <2>2 DEF Gated
    <3>2. d = c /\ appr[d] = b BY <1>5, <2>2 DEF b
    <3>3. claims'[j].status = "completed" BY <1>5, <2>2
    <3> QED BY <1>7, <2>1, <3>1, <3>2, <3>3 DEF Bound
  <2>3. CASE ~(IsMutating(c) /\ j = k)
    <3>1. claims'[j] = claims[j] BY <1>6, <2>3
    <3>2. ~(Gated(c) /\ appr[d] = b) BY <1>10, <1>11, <2>3
    <3>3. approvals'[appr[d]] = approvals[appr[d]] BY <1>8, <2>1, <3>2
    <3> QED BY <2>1, <3>1, <3>3 DEF Bound
  <2> QED BY <2>2, <2>3
<1>16. PermitsUnique' BY <1>1, <1>10 DEF PermitsUnique
<1>17. ExecutingClaimed'
  <2> SUFFICES ASSUME NEW a \in Approval, approvals'[a].status = "executing"
               PROVE  \E j \in Key : /\ claims'[j].status = "running"
                                     /\ claims'[j].op \in NeedsApproval
                                     /\ appr[claims'[j].run] = a
    BY <1>1 DEF ExecutingClaimed
  <2>1. ~(Gated(c) /\ a = b) /\ approvals'[a] = approvals[a] BY <1>7, <1>8
  <2>2. PICK j \in Key : /\ claims[j].status = "running" /\ claims[j].op \in NeedsApproval
                         /\ appr[claims[j].run] = a
    BY <2>1 DEF ExecutingClaimed
  <2>3. ~(IsMutating(c) /\ j = k)
    <3> SUFFICES ASSUME IsMutating(c), j = k PROVE FALSE
      OBVIOUS
    <3>1. a = b BY <1>5, <2>2 DEF b
    <3>2. Gated(c) BY <1>5, <2>2 DEF Gated
    <3> QED BY <2>1, <3>1, <3>2
  <2> QED BY <1>6, <2>2, <2>3
<1>18. ReadsBound' BY <1>1, <1>2, <1>7, <1>8, <1>9 DEF ReadsBound
<1>19. CompletedConsumed'
  <2>1. \A d \in Call : d # c /\ answer[d].code = "completed" /\ Gated(d) /\ Gated(c) =>
            appr[d] # b
    BY <1>7 DEF CompletedConsumed
  <2> QED BY <1>1, <1>2, <1>7, <1>8, <2>1 DEF CompletedConsumed, b
<1>20. AskingGated' BY <1>1, <1>2 DEF AskingGated
<1> QED BY <1>12, <1>13, <1>14, <1>15, <1>16, <1>17, <1>18, <1>19, <1>20

\* A human decides a pending approval nobody has locked.
LEMMA DecideApprovals ==
    ASSUME Inv, NEW b \in Approval, Decide(b)
    PROVE  ApprovalInv'
<1> USE DEF Inv, ApprovalInv
<1>1. /\ approvals[b].status = "pending"
      /\ UNCHANGED <<pc, req, appr, answer, claims, rowLock, effects>>
  BY DEF Decide
<1>2. /\ approvals'[b].status \in {"approved", "denied"} /\ approvals'[b].op = approvals[b].op
      /\ approvals'[b].principal = approvals[b].principal
      /\ approvals'[b].rid = approvals[b].rid
      /\ \A a \in Approval : a # b => approvals'[a] = approvals[a]
  BY DEF Decide, CoreInv, TypeOK, ApprovalRow
<1>3. \A a \in Approval, d \in Call : Bound(d, a)' = Bound(d, a) BY <1>1, <1>2 DEF Bound
<1>4. \A d \in Call : /\ Gated(d)' = Gated(d) /\ IsMutating(d)' = IsMutating(d)
                      /\ Holding(d)' = Holding(d)
  BY <1>1 DEF Gated, IsMutating, Holding
<1>5. RowsSound' BY <1>1, <1>2 DEF RowsSound
<1>6. LocksSound' BY <1>1, <1>2, <1>3, <1>4 DEF LocksSound
<1>7. LocksHeld' BY <1>1, <1>4 DEF LocksHeld
<1>8. PermitsSpent' BY <1>1, <1>2 DEF PermitsSpent, Bound
<1>9. PermitsUnique' BY <1>1 DEF PermitsUnique
<1>10. ExecutingClaimed' BY <1>1, <1>2 DEF ExecutingClaimed
<1>11. ReadsBound' BY <1>1, <1>2, <1>3, <1>4 DEF ReadsBound
<1>12. CompletedConsumed' BY <1>1, <1>2, <1>4 DEF CompletedConsumed
<1>13. AskingGated' BY <1>1, <1>4 DEF AskingGated
<1> QED BY <1>5, <1>6, <1>7, <1>8, <1>9, <1>10, <1>11, <1>12, <1>13

\* A new call has no lock, claim, effect or answer.
LEMMA ReceiveApprovals ==
    ASSUME Inv, NEW c \in Call, Receive(c)
    PROVE  ApprovalInv'
<1> USE DEF Inv, ApprovalInv
<1>1. /\ pc[c] = "new" /\ pc'[c] = "admit"
      /\ \A d \in Call : d # c => pc'[d] = pc[d] /\ req'[d] = req[d] /\ appr'[d] = appr[d]
      /\ UNCHANGED <<answer, claims, approvals, rowLock, effects>>
  BY DEF Receive, Goto, CoreInv, TypeOK
<1>2. \A d \in Call : d # c =>
          /\ Gated(d)' = Gated(d) /\ IsMutating(d)' = IsMutating(d)
          /\ Holding(d)' = Holding(d)
          /\ \A a \in Approval : Bound(d, a)' = Bound(d, a)
  BY <1>1 DEF Gated, IsMutating, Holding, Bound
<1>3. /\ ~Holding(c)' /\ ~Holding(c) BY <1>1 DEF Holding
<1>4. c \notin effects /\ answer[c].code = "none"
  BY <1>1 DEF CoreInv, EffectsSound, AnswersSound
<1>5. \A k \in Key : claims[k].status # "none" => claims[k].run \in Call /\ claims[k].run # c
  BY <1>1 DEF CoreInv, ClaimsSound
<1>6. RowsSound' BY <1>1 DEF RowsSound
<1>7. LocksSound' BY <1>1, <1>2, <1>3 DEF LocksSound
<1>8. LocksHeld' BY <1>1, <1>2, <1>3 DEF LocksHeld
<1>9. PermitsSpent'
  <2> SUFFICES ASSUME NEW k \in Key, claims[k].status # "none", claims[k].op \in NeedsApproval,
                      NEW d \in Call, d = claims[k].run, d # c
               PROVE  /\ appr'[d] \in Approval
                      /\ approvals[appr'[d]].principal = PrincipalOf[req'[d].who]
                      /\ approvals[appr'[d]].op = req'[d].op
                      /\ approvals[appr'[d]].rid = req'[d].rid
                      /\ approvals[appr'[d]].status =
                           (IF claims[k].status = "completed" THEN "consumed" ELSE "executing")
    BY <1>1, <1>5 DEF PermitsSpent, Bound
  <2> QED BY <1>1 DEF PermitsSpent, Bound
<1>10. PermitsUnique' BY <1>1, <1>5 DEF PermitsUnique
<1>11. ExecutingClaimed' BY <1>1, <1>5 DEF ExecutingClaimed
<1>12. ReadsBound' BY <1>1, <1>2, <1>4 DEF ReadsBound
<1>13. CompletedConsumed' BY <1>1, <1>2, <1>4 DEF CompletedConsumed
<1>14. AskingGated' BY <1>1, <1>2 DEF AskingGated
<1> QED BY <1>6, <1>7, <1>8, <1>9, <1>10, <1>11, <1>12, <1>13, <1>14

\* A call is answered from the claim of its key.
LEMMA AnswerApprovals ==
    ASSUME Inv, NEW c \in Call, pc[c] \notin {"new", "returned"}, AnswerExisting(c),
           UNCHANGED <<req, appr, claims, approvals, effects>>
    PROVE  ApprovalInv'
<1>1. \E code \in {"idempotency_conflict", "replayed", "request_in_progress"}, r \in {None,
          claims[IdempotencyKey(c)].run} : Return(c, code, r)
  BY DEF AnswerExisting
<1> QED BY <1>1, EndApprovals, Codes

\* The steps between the admission of a call and its claim.
LEMMA MiddleApprovals ==
    ASSUME Inv, NEW c \in Call,
           \/ Admit(c) \/ Lookup(c) \/ Allow(c) \/ NeedApproval(c) \/ ValidateApproval(c)
           \/ FindPending(c) \/ CreatePending(c) \/ Reserve(c)
    PROVE  ApprovalInv'
<1> USE DEF Inv
<1>1. pc \in [Call -> PC] BY DEF CoreInv, TypeOK
<1>2. CASE Admit(c) \/ NeedApproval(c)
  <2>1. PICK label \in {"lookup", "authorize", "ask"} :
            pc' = [pc EXCEPT ![c] = label] /\ (label = "ask" => Gated(c))
    BY <1>2 DEF Admit, NeedApproval, Goto
  <2>2. Holding(c)' = Holding(c) BY <1>1, <1>2, <2>1 DEF Admit, NeedApproval, Holding
  <2> QED BY <1>2, <2>1, <2>2, MoveApprovals DEF Admit, NeedApproval, PC
<1>3. CASE Allow(c)
  <2>1. PICK label \in {"reserve", "provider"} : pc' = [pc EXCEPT ![c] = label]
    BY <1>3 DEF Allow, Authorized, Goto
  <2> QED BY <1>3, <2>1, MoveApprovals DEF Allow, PC
<1>4. CASE Lookup(c)
  <2>1. CASE KeyTaken(c) BY <1>4, <2>1, AnswerApprovals DEF Lookup
  <2>2. CASE ~KeyTaken(c)
    <3>1. pc' = [pc EXCEPT ![c] = "authorize"] BY <1>4, <2>2 DEF Lookup, Goto
    <3>2. Holding(c)' = Holding(c) BY <1>1, <1>4, <3>1 DEF Lookup, Holding
    <3> QED BY <1>4, <2>2, <3>1, <3>2, MoveApprovals DEF Lookup, PC
  <2> QED BY <2>1, <2>2
<1>5. CASE ValidateApproval(c)
  <2>1. CASE approvals[appr[c]].status = "approved" /\ Bound(c, appr[c])
    <3>1. PICK label \in {"reserve", "provider"} :
              /\ pc' = [pc EXCEPT ![c] = label]
              /\ label = "provider" => ~IsMutating(c)
      BY <1>5, <2>1 DEF ValidateApproval, Authorized, Goto
    <3>2. Holding(c)' BY <1>1, <1>5, <3>1 DEF Holding, ValidateApproval, IsMutating
    <3>3. appr[c] \in Approval BY <1>5 DEF ValidateApproval, CoreInv, TypeOK
    <3> QED BY <1>5, <2>1, <3>1, <3>2, <3>3, MoveApprovals DEF ValidateApproval, PC
  <2>2. CASE ~(approvals[appr[c]].status = "approved" /\ Bound(c, appr[c]))
    BY <1>5, <2>2, EndApprovals, Codes DEF ValidateApproval
  <2> QED BY <2>1, <2>2
<1>6. CASE FindPending(c)
  <2>1. CASE Return(c, "approval_required", None)
    BY <1>6, <2>1, EndApprovals, Codes DEF FindPending
  <2>2. CASE Goto(c, "pend") /\ UNCHANGED <<answer, rowLock>>
    <3>1. Holding(c)' = Holding(c) BY <1>1, <1>6, <2>2 DEF FindPending, Holding, Goto
    <3>2. Gated(c) BY <1>6 DEF FindPending, ApprovalInv, AskingGated
    <3> QED BY <1>6, <2>2, <3>1, <3>2, MoveApprovals DEF FindPending, Goto, PC
  <2> QED BY <1>6, <2>1, <2>2 DEF FindPending
<1>7. CASE CreatePending(c)
  <2>1. Gated(c) BY <1>7 DEF CreatePending, ApprovalInv, AskingGated
  <2>2. \A a \in Approval :
            \/ approvals'[a] = approvals[a]
            \/ /\ approvals[a].status = "absent" /\ approvals'[a].status = "pending"
               /\ approvals'[a].op \in NeedsApproval
    BY <1>7, <2>1 DEF CreatePending, CoreInv, TypeOK, Gated
  <2> QED BY <1>7, <2>2, EndApprovals, Codes DEF CreatePending
<1>8. CASE Reserve(c)
  <2>1. CASE KeyTaken(c) BY <1>8, <2>1, AnswerApprovals DEF Reserve
  <2>2. CASE ~KeyTaken(c)
    <3>1. pc' = [pc EXCEPT ![c] = "claim"] BY <1>8, <2>2 DEF Reserve, Goto
    <3>2. Holding(c)' = Holding(c) BY <1>1, <1>8, <3>1 DEF Reserve, Holding
    <3> QED BY <1>8, <2>2, <3>1, <3>2, MoveApprovals DEF Reserve, PC
  <2> QED BY <2>1, <2>2
<1> QED BY <1>2, <1>3, <1>4, <1>5, <1>6, <1>7, <1>8

\* Every step of the runtime keeps the approvals in order.
LEMMA InvStep == Inv /\ [Next]_vars => Inv'
<1> SUFFICES ASSUME Inv, [Next]_vars PROVE Inv'
  OBVIOUS
<1>1. CoreInv' BY CoreStep DEF Inv
<1>2. CASE UNCHANGED vars
  <2>1. ApprovalInv'
    BY <1>2 DEF vars, Inv, ApprovalInv, AskingGated, RowsSound, LocksSound, LocksHeld,
                PermitsSpent, PermitsUnique, ExecutingClaimed, ReadsBound, CompletedConsumed,
                Gated, IsMutating, Holding, Bound
  <2> QED BY <1>1, <2>1 DEF Inv
<1>3. ASSUME NEW c \in Call, Reject(c) \/ OutputInvalid(c) \/ Crash(c) \/ ProviderError(c)
      PROVE  ApprovalInv'
  BY <1>3, EndApprovals, Codes DEF Reject, OutputInvalid, Crash, ProviderError, Failure
<1>4. ASSUME NEW c \in Call, ClaimRequest(c) PROVE ApprovalInv'
  <2>1. CASE Return(c, "approval_invalid", None) /\ UNCHANGED <<claims, approvals>>
    BY <1>4, <2>1, EndApprovals, Codes DEF ClaimRequest
  <2>2. CASE AnswerExisting(c) /\ UNCHANGED <<claims, approvals>>
    BY <1>4, <2>2, AnswerApprovals DEF ClaimRequest
  <2>3. CASE ~KeyTaken(c) /\ (appr[c] # None => Claimable(c))
    BY <1>4, <2>3, ClaimApprovals DEF ClaimRequest
  <2> QED BY <1>4, <2>1, <2>2, <2>3 DEF ClaimRequest
<1>5. ASSUME NEW c \in Call, Execute(c) PROVE ApprovalInv'
  <2>1. pc' = [pc EXCEPT ![c] = "finish"] /\ pc[c] = "provider" BY <1>5 DEF Execute, Goto
  <2>2. Holding(c)' = Holding(c)
    BY <1>5, <2>1 DEF Execute, Holding, IsMutating, Inv, CoreInv, TypeOK
  <2> QED BY <1>5, <2>1, <2>2, MoveApprovals DEF Execute, PC
<1>6. ASSUME NEW c \in Call, Step(c) PROVE ApprovalInv'
  BY <1>3, <1>4, <1>5, <1>6, MiddleApprovals, FinishApprovals DEF Step
<1>7. CASE Next
  BY <1>3, <1>6, <1>7, <1>1, ReceiveApprovals, DecideApprovals DEF Next, Inv
<1> QED BY <1>2, <1>7

\* At the start there are no approvals and no calls.
LEMMA InvInit == Init => Inv
<1> SUFFICES ASSUME Init PROVE Inv
  OBVIOUS
<1>1. CoreInv BY CoreInit
<1>2. ApprovalInv
  BY ConstantAssumption DEF Init, ApprovalInv, AskingGated, RowsSound, LocksSound, LocksHeld,
     PermitsSpent, PermitsUnique, ExecutingClaimed, ReadsBound, CompletedConsumed, Holding,
     NoClaim, NoRow
<1> QED BY <1>1, <1>2 DEF Inv

\* The inductive invariant of the runtime with its approvals.
THEOREM Invariant == Spec => []Inv
BY InvInit, InvStep, PTL DEF Spec

\* No gated effect without an approval of exactly this principal and invocation, which
\* for a mutation had left "approved" for good before the provider ran.
THEOREM ApprovalsGuard == Spec => []ApprovalGuardsEffect
<1>1. Inv => ApprovalGuardsEffect
  <2> SUFFICES ASSUME Inv, NEW c \in effects, Gated(c)
               PROVE  /\ appr[c] # None
                      /\ Bound(c, appr[c])
                      /\ IsMutating(c) => /\ approvals[appr[c]].status \in {"executing", "consumed"}
                                          /\ approvals[appr[c]].rid = req[c].rid
    BY DEF ApprovalGuardsEffect
  <2>1. c \in Call /\ None \notin Approval BY ConstantAssumption DEF Inv, CoreInv, TypeOK
  <2>2. CASE ~IsMutating(c) BY <2>1, <2>2 DEF Inv, ApprovalInv, ReadsBound
  <2>3. CASE IsMutating(c)
    <3>1. PICK k \in Key : claims[k].status # "none" /\ claims[k].run = c
      BY <2>1, <2>3 DEF Inv, CoreInv, EffectsSound
    <3>2. claims[k].op \in NeedsApproval BY <3>1 DEF Inv, CoreInv, ClaimsSound, Gated
    <3> QED BY <2>1, <3>1, <3>2 DEF Inv, ApprovalInv, PermitsSpent
  <2> QED BY <2>2, <2>3
<1> QED BY <1>1, Invariant, PTL

\* One approval row authorises one mutation, and one completed execution of any kind.
THEOREM ApprovalsSingleUse == Spec => []SingleUseApproval
<1>1. Inv => SingleUseApproval
  <2> SUFFICES ASSUME Inv, NEW c \in Call, NEW d \in Call, c # d, Gated(c), Gated(d),
                      appr[c] = appr[d]
               PROVE  /\ ~(answer[c].code = "completed" /\ answer[d].code = "completed")
                      /\ ~({c, d} \subseteq effects /\ IsMutating(c) /\ IsMutating(d))
    BY DEF SingleUseApproval
  <2>1. ~(answer[c].code = "completed" /\ answer[d].code = "completed")
    BY DEF Inv, ApprovalInv, CompletedConsumed
  <2>2. ASSUME c \in effects, d \in effects, IsMutating(c), IsMutating(d) PROVE FALSE
    <3>1. PICK j \in Key : claims[j].status # "none" /\ claims[j].run = c
      BY <2>2 DEF Inv, CoreInv, EffectsSound
    <3>2. PICK k \in Key : claims[k].status # "none" /\ claims[k].run = d
      BY <2>2 DEF Inv, CoreInv, EffectsSound
    <3>3. claims[j].op \in NeedsApproval /\ claims[k].op \in NeedsApproval
      BY <3>1, <3>2 DEF Inv, CoreInv, ClaimsSound, Gated
    <3> QED BY <3>1, <3>2, <3>3 DEF Inv, ApprovalInv, PermitsUnique
  <2> QED BY <2>1, <2>2
<1> QED BY <1>1, Invariant, PTL

\* Claims and approvals never disagree about an execution.
THEOREM ClaimsAgree == Spec => []ClaimApprovalAgreement
<1>1. Inv => ClaimApprovalAgreement
  <2> SUFFICES ASSUME Inv PROVE ClaimApprovalAgreement
    OBVIOUS
  <2>1. None \notin Approval BY ConstantAssumption
  <2> QED BY <2>1 DEF ClaimApprovalAgreement, Inv, ApprovalInv, ExecutingClaimed, PermitsSpent
<1> QED BY <1>1, Invariant, PTL

\* A step of a call that leaves claims and approvals alone, or only adds a row, keeps
\* the authority that was handed out.
LEMMA QuietAuthority ==
    ASSUME Inv, UNCHANGED claims,
           \A a \in Approval : \/ approvals'[a] = approvals[a]
                              \/ approvals[a].status \in {"absent", "pending"}
    PROVE  KeepsAuthority
BY DEF KeepsAuthority

\* The claim takes a free key and an approved row.
LEMMA ClaimAuthority ==
    ASSUME Inv, NEW c \in Call, ClaimRequest(c)
    PROVE  KeepsAuthority
<1> DEFINE k == IdempotencyKey(c)
<1>1. k \in Key BY IdentifiedKey DEF ClaimRequest, Inv, CoreInv
<1>2. CASE UNCHANGED <<claims, approvals>> BY <1>2, QuietAuthority
<1>3. CASE /\ claims[k].status = "none"
           /\ claims' = [claims EXCEPT ![k] = [status |-> "running", op |-> req[c].op, run |-> c]]
           /\ appr[c] # None => Claimable(c)
           /\ approvals' = ClaimedApprovals(c)
  <2>1. \A j \in Key : claims[j].status # "none" => claims'[j] = claims[j]
    BY <1>1, <1>3 DEF Inv, CoreInv, TypeOK
  <2>2. \A a \in Approval : approvals'[a] = approvals[a] \/ approvals[a].status = "approved"
    BY <1>3 DEF ClaimedApprovals, Claimable, Inv, CoreInv, TypeOK
  <2> QED BY <2>1, <2>2 DEF KeepsAuthority
<1> QED BY <1>2, <1>3 DEF ClaimRequest, KeyTaken

\* Completion settles the call's own running claim and consumes its own approval.
LEMMA FinishAuthority ==
    ASSUME Inv, NEW c \in Call, Finish(c)
    PROVE  KeepsAuthority
<1> DEFINE k == IdempotencyKey(c)
<1>1. pc[c] = "finish" BY DEF Finish
<1>2. \A j \in Key : claims[j].status # "none" =>
        /\ claims'[j].op = claims[j].op /\ claims'[j].run = claims[j].run
        /\ claims'[j].status \in {claims[j].status, "completed"}
  <2>1. CASE ~IsMutating(c) BY <2>1 DEF Finish
  <2>2. CASE IsMutating(c)
    <3>1. k \in Key /\ claims[k].run = c BY <1>1, <2>2 DEF Inv, CoreInv, Owned
    <3>2. claims' = [claims EXCEPT ![k] = [status |-> "completed", op |-> claims[k].op, run |-> c]]
      BY <2>2 DEF Finish
    <3> HIDE DEF k
    <3> QED BY <3>1, <3>2 DEF Inv, CoreInv, TypeOK
  <2> QED BY <2>1, <2>2
<1>3. \A a \in Approval : \/ approvals'[a] = approvals[a]
                         \/ /\ approvals[a].status \in {"approved", "executing"}
                            /\ approvals'[a].status = "consumed"
  <2>1. CASE ~Gated(c) BY <2>1 DEF Finish, ConsumedApprovals
  <2>2. CASE Gated(c)
    <3>1. appr[c] \in Approval /\ approvals[appr[c]].status \in {"approved", "executing"}
      BY <1>1, <2>2, InHand
    <3>2. approvals' = [approvals EXCEPT ![appr[c]].status = "consumed"]
      BY <2>2 DEF Finish, ConsumedApprovals
    <3> QED BY <3>1, <3>2 DEF Inv, CoreInv, TypeOK, ApprovalRow
  <2> QED BY <2>1, <2>2
<1> QED BY <1>2, <1>3 DEF KeepsAuthority

\* No step releases a claim, rewrites what it was made for, or gives a denied, executing
\* or consumed approval back.
THEOREM AuthorityNeverReturns == Spec => NoResurrection
<1>1. Inv /\ [Next]_vars => [KeepsAuthority]_vars
  <2> SUFFICES ASSUME Inv, Next PROVE KeepsAuthority
    OBVIOUS
  <2>1. ASSUME NEW c \in Call, CreatePending(c) PROVE KeepsAuthority
    BY <2>1, QuietAuthority DEF CreatePending, Inv, CoreInv, TypeOK
  <2>2. ASSUME NEW a \in Approval, Decide(a) PROVE KeepsAuthority
    BY <2>2, QuietAuthority DEF Decide, Inv, CoreInv, TypeOK
  <2>3. ASSUME NEW c \in Call, Receive(c) \/ Crash(c) PROVE KeepsAuthority
    BY <2>3, QuietAuthority DEF Receive, Crash
  <2>4. ASSUME NEW c \in Call, Step(c) PROVE KeepsAuthority
    BY <2>1, <2>4, QuietAuthority, ClaimAuthority, FinishAuthority
       DEF Step, Admit, Reject, Lookup, Allow, NeedApproval, ValidateApproval, FindPending,
           Reserve, Execute, ProviderError, OutputInvalid
  <2> QED BY <2>2, <2>3, <2>4 DEF Next
<1> QED BY <1>1, Invariant, PTL DEF Spec, NoResurrection

(***************************************************************************)
(* Kernel implements PermitLedger: its initial states map to the ledger's, *)
(* and every step of a call, crash or decision is one step of the ledger   *)
(* or leaves it alone, for any calls, keys, operations and approvals.      *)
(***************************************************************************)

\* The state of the ledger is determined by these.
LEMMA LedgerUnchanged ==
    ASSUME UNCHANGED <<req, claims, approvals, effects>>
    PROVE  UNCHANGED Ledger!vars
BY DEF Ledger!vars, Phase, Order, Performer, Permit, IsMutating, IdempotencyKey

\* As long as no call gets a request or acts, performers stay.
LEMMA PerformerUnchanged ==
    ASSUME UNCHANGED <<req, effects>>
    PROVE  Performer' = Performer
BY DEF Performer, IsMutating, IdempotencyKey

\* A permit moves when the status of its approval row does.
LEMMA PermitMoves ==
    ASSUME Inv, NEW a \in Approval, NEW row \in ApprovalRow,
           approvals' = [approvals EXCEPT ![a] = row]
    PROVE  Permit' = [Permit EXCEPT ![a] =
                        IF row.status \in {"executing", "consumed"} THEN "spent" ELSE row.status]
<1>1. approvals \in [Approval -> ApprovalRow] BY DEF Inv, CoreInv, TypeOK
<1> QED BY <1>1 DEF Permit

\* A new call has no part in any order.
LEMMA ReceiveLedger ==
    ASSUME Inv, NEW c \in Call, Receive(c)
    PROVE  UNCHANGED Ledger!vars
<1>1. /\ c \notin effects /\ UNCHANGED <<claims, approvals, effects>>
      /\ \A d \in effects : req'[d] = req[d]
  BY DEF Receive, Inv, CoreInv, TypeOK, EffectsSound
<1>2. \A k : {d \in effects : IsMutating(d) /\ IdempotencyKey(d) = k}
           = {d \in effects' : IsMutating(d)' /\ IdempotencyKey(d)' = k}
  BY <1>1 DEF IsMutating, IdempotencyKey
<1>3. Performer' = Performer BY <1>2 DEF Performer
<1> QED BY <1>1, <1>3 DEF Ledger!vars, Phase, Order, Permit

\* Asking for a human's approval requests a permit.
LEMMA CreatePendingLedger ==
    ASSUME Inv, NEW c \in Call, CreatePending(c)
    PROVE  \E a \in Approval : Ledger!RequestPermit(a)
<1>1. req[c] \in Request BY DEF CreatePending, Inv, CoreInv, Received
<1>2. PrincipalOf[req[c].who] \in Principal BY <1>1, RequestFields, ConstantAssumption
<1> DEFINE row == [status |-> "pending", principal |-> PrincipalOf[req[c].who],
                   op |-> req[c].op, rid |-> req[c].rid]
<1>3. row \in ApprovalRow BY <1>1, <1>2, RequestFields DEF ApprovalRow, ApprovalStatus
<1>4. row.status = "pending" OBVIOUS
<1>5. PICK a \in Approval : /\ approvals[a].status = "absent"
                            /\ approvals' = [approvals EXCEPT ![a] = row]
  BY DEF CreatePending
<1> HIDE DEF row
<1>6. Permit' = [Permit EXCEPT ![a] = "pending"] BY <1>3, <1>4, <1>5, PermitMoves
<1>7. Permit[a] = "absent" BY <1>5 DEF Permit
<1>8. UNCHANGED <<Phase, Order>> BY DEF CreatePending, Phase, Order
<1>9. Performer' = Performer BY PerformerUnchanged DEF CreatePending
<1> QED BY <1>6, <1>7, <1>8, <1>9 DEF Ledger!RequestPermit, Ledger!MovePermit

\* A human's decision decides the permit.
LEMMA DecideLedger ==
    ASSUME Inv, NEW a \in Approval, Decide(a)
    PROVE  Ledger!DecidePermit(a)
<1>1. PICK decision \in {"approved", "denied"} :
          approvals' = [approvals EXCEPT ![a].status = decision]
  BY DEF Decide
<1>2. approvals \in [Approval -> ApprovalRow] BY DEF Inv, CoreInv, TypeOK
<1>3. Permit' = [Permit EXCEPT ![a] = decision] BY <1>1, <1>2 DEF Permit, ApprovalRow
<1>4. Permit[a] = "pending" BY DEF Permit, Decide
<1>5. UNCHANGED <<Phase, Order>> BY DEF Decide, Phase, Order
<1>6. Performer' = Performer BY PerformerUnchanged DEF Decide
<1> QED BY <1>3, <1>4, <1>5, <1>6 DEF Ledger!DecidePermit, Ledger!MovePermit

\* The commit of a claim authorises its order, and spends the permit it needs.
LEMMA ClaimLedger ==
    ASSUME Inv, NEW c \in Call, ClaimRequest(c)
    PROVE  [Ledger!Next]_Ledger!vars
<1> DEFINE k == IdempotencyKey(c)
<1> DEFINE op == req[c].op
<1>1. k \in Key /\ op \in Operation
  BY IdentifiedKey, RequestFields DEF ClaimRequest, Inv, CoreInv, Received
<1>2. CASE UNCHANGED <<claims, approvals>>
  BY <1>2, LedgerUnchanged DEF ClaimRequest
<1>3. CASE /\ claims[k].status = "none"
           /\ claims' = [claims EXCEPT ![k] = [status |-> "running", op |-> op, run |-> c]]
           /\ appr[c] # None => Claimable(c)
           /\ approvals' = ClaimedApprovals(c)
  <2> HIDE DEF k, op
  <2>1. claims \in [Key -> Claim] BY DEF Inv, CoreInv, TypeOK
  <2>2. Phase[k] = "idle" /\ Phase' = [Phase EXCEPT ![k] = "authorised"]
    BY <1>1, <1>3, <2>1 DEF Phase
  <2>3. Order' = [Order EXCEPT ![k] = op] BY <1>1, <1>3, <2>1 DEF Order
  <2>4. Performer' = Performer BY PerformerUnchanged DEF ClaimRequest
  <2>5. appr[c] \in Approval \cup {None} /\ None \notin Approval
    BY ConstantAssumption DEF Inv, CoreInv, TypeOK
  <2>6. CASE op \in NeedsApproval
    <3>1. appr[c] \in Approval
      BY <2>6 DEF op, ClaimRequest, Inv, ApprovalInv, LocksHeld, Gated, Holding
    <3>2. approvals[appr[c]].status = "approved" BY <1>3, <2>5, <3>1 DEF Claimable
    <3>3. approvals' = [approvals EXCEPT ![appr[c]].status = "executing"]
      BY <1>3, <2>5, <3>1 DEF ClaimedApprovals
    <3>4. Permit[appr[c]] = "approved" BY <3>1, <3>2 DEF Permit
    <3>5. Permit' = [Permit EXCEPT ![appr[c]] = "spent"]
      BY <3>1, <3>3 DEF Permit, Inv, CoreInv, TypeOK, ApprovalRow
    <3>6. Ledger!Authorise(k, op)
      BY <2>2, <2>3, <2>4, <2>6, <3>1, <3>4, <3>5 DEF Ledger!Authorise, Ledger!MovePermit
    <3> QED BY <1>1, <3>6 DEF Ledger!Next
  <2>7. CASE op \notin NeedsApproval
    <3>1. appr[c] = None
      BY <1>3, <2>5, <2>7 DEF op, Claimable, Bound, Inv, ApprovalInv, RowsSound
    <3>2. Permit' = Permit BY <1>3, <3>1 DEF ClaimedApprovals, Permit
    <3>3. Ledger!Authorise(k, op)
      BY <2>2, <2>3, <2>4, <2>7, <3>2 DEF Ledger!Authorise
    <3> QED BY <1>1, <3>3 DEF Ledger!Next
  <2> QED BY <2>6, <2>7
<1> QED BY <1>2, <1>3 DEF ClaimRequest, KeyTaken

\* The provider of a mutating call performs the order of its key; that of a read
\* performs none.
LEMMA EffectLedger ==
    ASSUME Inv, NEW c \in Call, pc[c] = "provider", effects' = effects \cup {c},
           UNCHANGED <<req, claims, approvals>>
    PROVE  [Ledger!Next]_Ledger!vars
<1> DEFINE k == IdempotencyKey(c)
<1>1. UNCHANGED <<Phase, Order, Permit>> BY DEF Phase, Order, Permit
<1>2. \A d : IsMutating(d)' = IsMutating(d) /\ IdempotencyKey(d)' = IdempotencyKey(d)
  BY DEF IsMutating, IdempotencyKey
<1>3. CASE ~IsMutating(c)
  <2>1. Performer' = Performer BY <1>2, <1>3 DEF Performer
  <2> QED BY <1>1, <2>1 DEF Ledger!vars
<1>4. CASE IsMutating(c)
  <2>1. k \in Key /\ claims[k].status = "running" /\ claims[k].run = c
    BY <1>4 DEF Inv, CoreInv, Owned
  <2>2. c \notin effects BY DEF Inv, CoreInv, EffectsSound
  <2>3. {d \in effects : IsMutating(d) /\ IdempotencyKey(d) = k} = {}
    BY <2>1, <2>2 DEF Inv, CoreInv, EffectsSound, TypeOK
  <2> HIDE DEF k
  <2>4. Phase[k] = "authorised" BY <2>1 DEF Phase
  <2>5. Performer[k] = {} BY <2>1, <2>3 DEF Performer
  <2>6. Performer' = [Performer EXCEPT ![k] = {c}]
    <3>1. \A j \in Key : Performer'[j] = IF j = k THEN {c} ELSE Performer[j]
      <4> SUFFICES ASSUME NEW j \in Key
                   PROVE  Performer'[j] = IF j = k THEN {c} ELSE Performer[j]
        OBVIOUS
      <4>1. Performer'[j] = {d \in effects \cup {c} : IsMutating(d) /\ IdempotencyKey(d) = j}
        BY <1>2 DEF Performer
      <4>2. Performer[j] = {d \in effects : IsMutating(d) /\ IdempotencyKey(d) = j}
        BY DEF Performer
      <4> QED BY <1>4, <2>3, <4>1, <4>2 DEF k
    <3> QED BY <3>1, <2>1 DEF Performer
  <2>7. Ledger!Perform(k, c) BY <1>1, <2>4, <2>5, <2>6 DEF Ledger!Perform
  <2> QED BY <2>1, <2>7 DEF Ledger!Next
<1> QED BY <1>3, <1>4

\* Completion settles the order of a mutation and spends the permit of a read; the
\* permit of a mutation was spent before.
LEMMA FinishLedger ==
    ASSUME Inv, NEW c \in Call, Finish(c)
    PROVE  [Ledger!Next]_Ledger!vars
<1> DEFINE k == IdempotencyKey(c)
<1>1. pc[c] = "finish" /\ UNCHANGED <<req, effects>> BY DEF Finish
<1>2. Performer' = Performer BY <1>1, PerformerUnchanged
<1>3. approvals \in [Approval -> ApprovalRow] /\ claims \in [Key -> Claim]
  BY DEF Inv, CoreInv, TypeOK
<1>4. CASE IsMutating(c)
  <2>1. /\ k \in Key /\ claims[k].status = "running" /\ claims[k].run = c
        /\ claims' = [claims EXCEPT ![k] =
                        [status |-> "completed", op |-> claims[k].op, run |-> c]]
    BY <1>1, <1>4 DEF Finish, Inv, CoreInv, Owned
  <2>2. c \in {d \in effects : IsMutating(d) /\ IdempotencyKey(d) = k}
    BY <1>1, <1>4 DEF Inv, CoreInv, EffectsSound
  <2> HIDE DEF k
  <2>3. Phase[k] = "authorised" /\ Phase' = [Phase EXCEPT ![k] = "settled"]
    BY <1>3, <2>1 DEF Phase
  <2>4. Order' = Order BY <1>3, <2>1 DEF Order
  <2>5. Performer[k] # {} BY <2>1, <2>2 DEF Performer
  <2>6. Permit' = Permit
    <3>1. CASE ~Gated(c) BY <3>1 DEF Finish, ConsumedApprovals, Permit
    <3>2. CASE Gated(c)
      <4>1. appr[c] \in Approval /\ approvals[appr[c]].status = "executing"
        BY <1>1, <1>4, <3>2, InHand
      <4>2. approvals' = [approvals EXCEPT ![appr[c]].status = "consumed"]
        BY <3>2 DEF Finish, ConsumedApprovals
      <4> QED BY <1>3, <4>1, <4>2 DEF Permit, ApprovalRow
    <3> QED BY <3>1, <3>2
  <2>7. Ledger!Settle(k) BY <1>2, <2>3, <2>4, <2>5, <2>6 DEF Ledger!Settle
  <2> QED BY <2>1, <2>7 DEF Ledger!Next
<1>5. CASE ~IsMutating(c)
  <2>1. claims' = claims BY <1>5 DEF Finish
  <2>2. UNCHANGED <<Phase, Order>> BY <2>1 DEF Phase, Order
  <2>3. CASE ~Gated(c)
    <3>1. approvals' = approvals BY <2>3 DEF Finish, ConsumedApprovals
    <3> QED BY <1>1, <2>1, <3>1, LedgerUnchanged
  <2>4. CASE Gated(c)
    <3>1. appr[c] \in Approval /\ approvals[appr[c]].status = "approved"
      BY <1>1, <1>5, <2>4, InHand
    <3>2. approvals' = [approvals EXCEPT ![appr[c]].status = "consumed"]
      BY <2>4 DEF Finish, ConsumedApprovals
    <3>3. Permit[appr[c]] = "approved" BY <3>1 DEF Permit
    <3>4. Permit' = [Permit EXCEPT ![appr[c]] = "spent"]
      BY <1>3, <3>1, <3>2 DEF Permit, ApprovalRow
    <3>5. Ledger!ReadUnderPermit(appr[c])
      BY <1>2, <2>2, <3>3, <3>4 DEF Ledger!ReadUnderPermit, Ledger!MovePermit
    <3> QED BY <3>1, <3>5 DEF Ledger!Next
  <2> QED BY <2>3, <2>4
<1> QED BY <1>4, <1>5

\* A provider that raises may or may not have acted.
LEMMA ProviderErrorLedger ==
    ASSUME Inv, NEW c \in Call, ProviderError(c)
    PROVE  [Ledger!Next]_Ledger!vars
<1>1. pc[c] = "provider" /\ UNCHANGED <<req, claims, approvals>> BY DEF ProviderError
<1>2. CASE effects' = effects BY <1>1, <1>2, LedgerUnchanged
<1>3. CASE effects' = effects \cup {c} BY <1>1, <1>3, EffectLedger
<1> QED BY <1>2, <1>3 DEF ProviderError

\* Every step of the runtime is a step of the ledger or leaves it alone.
LEMMA LedgerStep == Inv /\ [Next]_vars => [Ledger!Next]_Ledger!vars
<1> SUFFICES ASSUME Inv, [Next]_vars PROVE [Ledger!Next]_Ledger!vars
  OBVIOUS
<1>1. CASE UNCHANGED vars BY <1>1, LedgerUnchanged DEF vars
<1>2. ASSUME NEW c \in Call, Receive(c) PROVE [Ledger!Next]_Ledger!vars
  BY <1>2, ReceiveLedger
<1>3. ASSUME NEW c \in Call, Crash(c) PROVE [Ledger!Next]_Ledger!vars
  BY <1>3, LedgerUnchanged DEF Crash
<1>4. ASSUME NEW c \in Call, Step(c) PROVE [Ledger!Next]_Ledger!vars
  <2>1. CASE UNCHANGED <<req, claims, approvals, effects>> BY <2>1, LedgerUnchanged
  <2>2. CASE CreatePending(c) BY <2>2, CreatePendingLedger DEF Ledger!Next
  <2>3. CASE Execute(c) BY <2>3, EffectLedger DEF Execute
  <2> QED
    BY <1>4, <2>1, <2>2, <2>3, ClaimLedger, FinishLedger, ProviderErrorLedger
       DEF Step, Admit, Reject, Lookup, Allow, NeedApproval, ValidateApproval, FindPending,
           Reserve, OutputInvalid
<1>5. ASSUME NEW a \in Approval, Decide(a) PROVE [Ledger!Next]_Ledger!vars
  BY <1>5, DecideLedger DEF Ledger!Next
<1> QED BY <1>1, <1>2, <1>3, <1>4, <1>5 DEF Next

\* OperlyKernelRuntime.execute with its claims and approvals implements the ledger of
\* single-use permits and at-most-once orders: whatever calls race, crash and retry, an
\* order is authorised, performed and settled once, and a permit is spent once.
THEOREM Refinement == Spec => ImplementsLedger
<1>1. Init => Ledger!Init
  BY DEF Init, Ledger!Init, Phase, Order, Performer, Permit, NoClaim, NoRow
<1> QED BY <1>1, LedgerStep, Invariant, PTL DEF Spec, ImplementsLedger, Ledger!Spec
=============================================================================
