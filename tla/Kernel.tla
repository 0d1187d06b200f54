------------------------------- MODULE Kernel -------------------------------
(***************************************************************************)
(* The governed execution boundary of Operly: OperlyKernelRuntime.execute  *)
(* (packages/kernel/runtime.py) with its idempotency claims                *)
(* (idempotency.py) and its human approvals (approvals.py).                *)
(*                                                                         *)
(* A call is one invocation of execute() in some API or worker process;    *)
(* a client retry, a duplicate delivery or a resume after an approval is   *)
(* another call.  Every action is what one call does between two database  *)
(* round trips that other calls can observe: calls run at READ COMMITTED,  *)
(* so a row read by one action may have changed before the next, unless    *)
(* the call holds the row lock taken by SELECT ... FOR UPDATE.             *)
(***************************************************************************)

CONSTANTS
    Call,           \* invocations of execute(); each is used once
    Ingress,        \* authenticated callers: scope, principal and ingress namespace
    Principal,      \* principals, as recorded on an approval
    PrincipalOf,    \* the (scoped) principal of an ingress
    RequestId,      \* transport-stable request identifiers
    Operation,      \* resolved capability together with its exact arguments
    Mutating,       \* operations whose capability risk is not READ_ONLY
    NeedsApproval,  \* operations whose capability has approval_required
    Approval,       \* identifiers of approval rows
    Request,        \* the requests callers make
    None

ASSUME ConstantAssumption ==
    /\ PrincipalOf \in [Ingress -> Principal]
    /\ Mutating \subseteq Operation
    /\ NeedsApproval \subseteq Operation
    /\ Request \subseteq [who : Ingress, rid : RequestId \cup {None}, op : Operation]
    /\ None \notin Call \cup Approval \cup RequestId \cup Operation \cup Principal \cup Request

VARIABLES
    pc,         \* where each call is in execute()
    req,        \* the request a call carries
    appr,       \* the approval_id supplied with it, or None
    answer,     \* what the call returned, and whose result it carries
    claims,     \* kernel_request_claims, by idempotency key
    approvals,  \* kernel_approvals
    rowLock,    \* which call holds the FOR UPDATE lock of an approval row
    effects     \* calls whose provider performed its external effect (history)

vars == <<pc, req, appr, answer, claims, approvals, rowLock, effects>>

-----------------------------------------------------------------------------
Key == Ingress \X RequestId

PC == {"new", "admit", "lookup", "authorize", "ask", "pend", "reserve",
       "claim", "provider", "finish", "returned"}

Failure == {"invalid_request", "forbidden", "runtime_unavailable"}

Code == {"none", "completed", "replayed", "approval_required", "approval_invalid",
         "idempotency_conflict", "request_in_progress", "crashed"} \cup Failure

ApprovalStatus == {"absent", "pending", "approved", "denied", "executing", "consumed"}

Claim == [status : {"none", "running", "completed"},
          op : Operation \cup {None}, run : Call \cup {None}]

ApprovalRow == [status : ApprovalStatus, principal : Principal \cup {None},
                op : Operation \cup {None}, rid : RequestId \cup {None}]

TypeOK ==
    /\ pc \in [Call -> PC]
    /\ req \in [Call -> Request \cup {None}]
    /\ appr \in [Call -> Approval \cup {None}]
    /\ answer \in [Call -> [code : Code, run : Call \cup {None}]]
    /\ claims \in [Key -> Claim]
    /\ approvals \in [Approval -> ApprovalRow]
    /\ rowLock \in [Approval -> Call \cup {None}]
    /\ effects \in SUBSET Call

BugNoClaim == [status |-> "unclaimed", op |-> None, run |-> None]
NoClaim == [status |-> "none", op |-> None, run |-> None]
NoRow == [status |-> "absent", principal |-> None, op |-> None, rid |-> None]

Init ==
    /\ pc = [c \in Call |-> "new"]
    /\ req = [c \in Call |-> None]
    /\ appr = [c \in Call |-> None]
    /\ answer = [c \in Call |-> [code |-> "none", run |-> None]]
    /\ claims = [k \in Key |-> NoClaim]
    /\ approvals = [a \in Approval |-> NoRow]
    /\ rowLock = [a \in Approval |-> None]
    /\ effects = {}

-----------------------------------------------------------------------------
(* What a call knows about its own request. *)

IsMutating(c) == req[c].op \in Mutating
Gated(c) == req[c].op \in NeedsApproval

\* _idempotency_key: scope, principal and ingress namespace, then the request id.
IdempotencyKey(c) == <<req[c].who, req[c].rid>>

\* _scope_filters and _validate_binding: scope, principal, capability, arguments.
Bound(c, a) ==
    /\ approvals[a].principal = PrincipalOf[req[c].who]
    /\ approvals[a].op = req[c].op

\* Mutant: a transaction that ends without letting go of its row locks.
BugReleaseLocks(c) == UNCHANGED rowLock

\* The transaction of call c ends: its row locks go.
ReleaseLocks(c) ==
    rowLock' = [a \in Approval |-> IF rowLock[a] = c THEN None ELSE rowLock[a]]

\* Mutant: plain SELECT instead of SELECT ... FOR UPDATE.
BugCanLock(c, a) == TRUE

\* The lock of row a is free, or already held by c.
CanLock(c, a) == rowLock[a] \in {None, c}

Return(c, code, run) ==
    /\ pc' = [pc EXCEPT ![c] = "returned"]
    /\ answer' = [answer EXCEPT ![c] = [code |-> code, run |-> run]]
    /\ ReleaseLocks(c)

Goto(c, label) == pc' = [pc EXCEPT ![c] = label]

\* Mutant: only a completed claim blocks the key.
BugKeyTaken(c) == claims[IdempotencyKey(c)].status = "completed"

\* The unique constraint on idempotency_key, as an INSERT meets it.
KeyTaken(c) == claims[IdempotencyKey(c)].status # "none"

\* Mutant: the payload hash is not compared.
BugAnswerExisting(c) ==
    LET claim == claims[IdempotencyKey(c)] IN
    IF claim.status = "completed" THEN Return(c, "replayed", claim.run)
    ELSE Return(c, "request_in_progress", None)

\* _validate_existing on the claim found for the key of c: another payload is a
\* conflict, a completed claim is replayed, a running one is in progress.
AnswerExisting(c) ==
    LET claim == claims[IdempotencyKey(c)] IN
    IF claim.op # req[c].op THEN Return(c, "idempotency_conflict", None)
    ELSE IF claim.status = "completed" THEN Return(c, "replayed", claim.run)
    ELSE Return(c, "request_in_progress", None)

-----------------------------------------------------------------------------
(* A caller invokes execute(), naming an approval row that exists, or none. *)
Receive(c) ==
    /\ pc[c] = "new"
    /\ \E r \in Request, a \in {b \in Approval : approvals[b].status # "absent"} \cup {None} :
         /\ req' = [req EXCEPT ![c] = r]
         /\ appr' = [appr EXCEPT ![c] = a]
    /\ Goto(c, "admit")
    /\ UNCHANGED <<answer, claims, approvals, rowLock, effects>>

\* Resolution, scope, context, schema and policy all pass.  A mutation without a
\* request id never gets past here.
Admit(c) ==
    /\ pc[c] = "admit"
    /\ IsMutating(c) => req[c].rid # None
    /\ Goto(c, IF IsMutating(c) THEN "lookup" ELSE "authorize")
    /\ UNCHANGED <<req, appr, answer, claims, approvals, rowLock, effects>>

\* One of those checks fails: rollback, failure audit, error to the caller.
Reject(c) ==
    /\ pc[c] = "admit"
    /\ \E code \in Failure : Return(c, code, None)
    /\ UNCHANGED <<req, appr, claims, approvals, effects>>

\* find_completed_request, before any approval is looked at.
Lookup(c) ==
    /\ pc[c] = "lookup"
    /\ IF KeyTaken(c)
         THEN AnswerExisting(c)
         ELSE Goto(c, "authorize") /\ UNCHANGED <<answer, rowLock>>
    /\ UNCHANGED <<req, appr, claims, approvals, effects>>

Authorized(c) == Goto(c, IF IsMutating(c) THEN "reserve" ELSE "provider")

\* The policy answers ALLOW.
Allow(c) ==
    /\ pc[c] = "authorize"
    /\ ~Gated(c)
    /\ Authorized(c)
    /\ UNCHANGED <<req, appr, answer, claims, approvals, rowLock, effects>>

\* The policy answers ASK and no approval was supplied.
NeedApproval(c) ==
    /\ pc[c] = "authorize"
    /\ Gated(c) /\ appr[c] = None
    /\ Goto(c, "ask")
    /\ UNCHANGED <<req, appr, answer, claims, approvals, rowLock, effects>>

\* validate_approved_invocation: lock the row, which must be approved and bound.
ValidateApproval(c) ==
    /\ pc[c] = "authorize"
    /\ Gated(c) /\ appr[c] # None
    /\ CanLock(c, appr[c])
    /\ IF approvals[appr[c]].status = "approved" /\ Bound(c, appr[c])
         THEN /\ rowLock' = [rowLock EXCEPT ![appr[c]] = c]
              /\ Authorized(c)
              /\ UNCHANGED answer
         ELSE Return(c, "approval_invalid", None)
    /\ UNCHANGED <<req, appr, claims, approvals, effects>>

\* create_pending_approval looks for a pending row of the same invocation.  The
\* request id only narrows the search when the request has one.
PendingFor(c, a) ==
    /\ approvals[a].status = "pending"
    /\ Bound(c, a)
    /\ req[c].rid # None => approvals[a].rid = req[c].rid

FindPending(c) ==
    /\ pc[c] = "ask"
    /\ IF \E a \in Approval : PendingFor(c, a)
         THEN Return(c, "approval_required", None)
         ELSE Goto(c, "pend") /\ UNCHANGED <<answer, rowLock>>
    /\ UNCHANGED <<req, appr, claims, approvals, effects>>

\* ... and inserts one when it saw none.  Nothing makes the row unique.
CreatePending(c) ==
    /\ pc[c] = "pend"
    /\ \E a \in Approval :
         /\ approvals[a].status = "absent"
         /\ approvals' = [approvals EXCEPT ![a] =
                [status |-> "pending", principal |-> PrincipalOf[req[c].who],
                 op |-> req[c].op, rid |-> req[c].rid]]
    /\ Return(c, "approval_required", None)
    /\ UNCHANGED <<req, appr, claims, effects>>

\* reserve_request reads the claim of the key once more.
Reserve(c) ==
    /\ pc[c] = "reserve"
    /\ IF KeyTaken(c)
         THEN AnswerExisting(c)
         ELSE Goto(c, "claim") /\ UNCHANGED <<answer, rowLock>>
    /\ UNCHANGED <<req, appr, claims, approvals, effects>>

\* claim_approved_invocation accepts the approval the request names.
Claimable(c) ==
    /\ approvals[appr[c]].status = "approved"
    /\ Bound(c, appr[c])
    /\ approvals[appr[c]].rid = req[c].rid

\* Mutant: the approval stays approved until the execution completes.
BugClaimedApprovals(c) == approvals

\* claim_approved_invocation moves the named approval from approved to executing.
ClaimedApprovals(c) ==
    IF appr[c] = None THEN approvals
    ELSE [approvals EXCEPT ![appr[c]].status = "executing"]

\* The rest of reserve_request: claim the approval, insert the claim row under its
\* unique key, commit both.  The loser of the unique key rolls back its approval
\* transition and answers from the winner's row.
ClaimRequest(c) ==
    /\ pc[c] = "claim"
    /\ appr[c] # None => CanLock(c, appr[c])
    /\ LET k == IdempotencyKey(c) IN
       IF appr[c] # None /\ ~Claimable(c)
         THEN Return(c, "approval_invalid", None) /\ UNCHANGED <<claims, approvals>>
       ELSE IF KeyTaken(c)
         THEN AnswerExisting(c) /\ UNCHANGED <<claims, approvals>>
       ELSE /\ claims' = [claims EXCEPT ![k] =
                  [status |-> "running", op |-> req[c].op, run |-> c]]
            /\ approvals' = ClaimedApprovals(c)
            /\ Goto(c, "provider")
            /\ ReleaseLocks(c)
            /\ UNCHANGED answer
    /\ UNCHANGED <<req, appr, effects>>

\* provider.execute returns.
Execute(c) ==
    /\ pc[c] = "provider"
    /\ effects' = effects \cup {c}
    /\ Goto(c, "finish")
    /\ UNCHANGED <<req, appr, answer, claims, approvals, rowLock>>

\* Mutant: a failed provider gives the claim back so that the client may retry.
BugProviderError(c) ==
    /\ pc[c] = "provider"
    /\ effects' \in {effects, effects \cup {c}}
    /\ Return(c, "runtime_unavailable", None)
    /\ claims' = IF IsMutating(c) THEN [claims EXCEPT ![IdempotencyKey(c)] = NoClaim]
                 ELSE claims
    /\ UNCHANGED <<req, appr, approvals>>

\* provider.execute raises; whether the outside world changed is unknown.  The
\* transaction is rolled back, the committed claim and approval stay as they are.
ProviderError(c) ==
    /\ pc[c] = "provider"
    /\ effects' \in {effects, effects \cup {c}}
    /\ \E code \in Failure : Return(c, code, None)
    /\ UNCHANGED <<req, appr, claims, approvals>>

\* Mutant: consume_approval is skipped when the approval is already executing.
BugConsumedApprovals(c) ==
    IF Gated(c) /\ approvals[appr[c]].status = "approved"
    THEN [approvals EXCEPT ![appr[c]].status = "consumed"] ELSE approvals

\* consume_approval on the approval this execution used, if any.
ConsumedApprovals(c) ==
    IF Gated(c) THEN [approvals EXCEPT ![appr[c]].status = "consumed"] ELSE approvals

\* Output accepted: audit rows, consume_approval and complete_request commit as one.
Finish(c) ==
    /\ pc[c] = "finish"
    /\ approvals' = ConsumedApprovals(c)
    /\ claims' = IF IsMutating(c)
                   THEN [claims EXCEPT ![IdempotencyKey(c)] =
                           [status |-> "completed", op |-> @.op, run |-> c]]
                   ELSE claims
    /\ Return(c, "completed", c)
    /\ UNCHANGED <<req, appr, effects>>

\* The provider's result does not match the output schema.
OutputInvalid(c) ==
    /\ pc[c] = "finish"
    /\ Return(c, "invalid_request", None)
    /\ UNCHANGED <<req, appr, claims, approvals, effects>>

\* The process dies, the request is cancelled, or an exception execute() does not
\* handle propagates: the open transaction is rolled back.
Crash(c) ==
    /\ pc[c] \notin {"new", "returned"}
    /\ Return(c, "crashed", None)
    /\ UNCHANGED <<req, appr, claims, approvals, effects>>

\* decide_approval by a human: only a pending row whose lock is free.
Decide(a) ==
    /\ approvals[a].status = "pending"
    /\ rowLock[a] = None
    /\ \E decision \in {"approved", "denied"} :
         approvals' = [approvals EXCEPT ![a].status = decision]
    /\ UNCHANGED <<pc, req, appr, answer, claims, rowLock, effects>>

\* What the code of a call does by itself, once it has been received.
Step(c) ==
    \/ Admit(c) \/ Reject(c) \/ Lookup(c)
    \/ Allow(c) \/ NeedApproval(c) \/ ValidateApproval(c)
    \/ FindPending(c) \/ CreatePending(c)
    \/ Reserve(c) \/ ClaimRequest(c)
    \/ Execute(c) \/ ProviderError(c) \/ Finish(c) \/ OutputInvalid(c)

Next ==
    \/ \E c \in Call : Receive(c) \/ Step(c) \/ Crash(c)
    \/ \E a \in Approval : Decide(a)

Spec == Init /\ [][Next]_vars

\* A scheduled coroutine keeps running until execute() returns.
Fairness == \A c \in Call : WF_vars(Step(c))
FairSpec == Spec /\ Fairness
-----------------------------------------------------------------------------
(***************************************************************************)
(* Correctness.                                                            *)
(***************************************************************************)

\* The at-most-once boundary of reserve_request: whatever retries, races, crashes
\* and provider failures occur, one idempotency key causes at most one provider
\* side effect of a mutating capability.
AtMostOnceEffect ==
    \A c, d \in effects :
        /\ IsMutating(c) /\ IsMutating(d)
        /\ IdempotencyKey(c) = IdempotencyKey(d)
        => c = d

\* No approval-gated effect without a human's approval of exactly that principal and
\* invocation; for a mutation the approval row has left "approved" for good before the
\* provider runs, and it was requested under the same request id.
ApprovalGuardsEffect ==
    \A c \in effects : Gated(c) =>
        /\ appr[c] # None
        /\ Bound(c, appr[c])
        /\ IsMutating(c) => /\ approvals[appr[c]].status \in {"executing", "consumed"}
                            /\ approvals[appr[c]].rid = req[c].rid

\* One approval row authorises one mutation, and one completed execution of any kind:
\* two resumes of the same approval, through whatever ingress, never both get through.
SingleUseApproval ==
    \A c, d \in Call :
        /\ c # d
        /\ req[c] # None /\ req[d] # None
        /\ Gated(c) /\ Gated(d)
        /\ appr[c] # None /\ appr[c] = appr[d]
        => /\ ~(answer[c].code = "completed" /\ answer[d].code = "completed")
           /\ ~({c, d} \subseteq effects /\ IsMutating(c) /\ IsMutating(d))

\* A replayed answer is the stored answer of a call that really performed this very
\* operation under this very key; it never stands for a crashed or failed attempt.
FaithfulReplay ==
    \A c \in Call : answer[c].code = "replayed" =>
        LET d == answer[c].run IN
        /\ d \in effects
        /\ answer[d].code = "completed"
        /\ req[d].op = req[c].op
        /\ IdempotencyKey(d) = IdempotencyKey(c)

\* Claims and approvals never disagree about an execution: an approval is "executing"
\* only while the claim of a call that named it is running, and a gated claim is
\* completed exactly when its approval is consumed.  A crash cannot split the two.
ClaimApprovalAgreement ==
    /\ \A a \in Approval : approvals[a].status = "executing" =>
         \E k \in Key : claims[k].status = "running" /\ appr[claims[k].run] = a
    /\ \A k \in Key : claims[k].status # "none" /\ claims[k].op \in NeedsApproval =>
         /\ appr[claims[k].run] # None
         /\ approvals[appr[claims[k].run]].status =
              (IF claims[k].status = "completed" THEN "consumed" ELSE "executing")

\* A step that takes no authority back and hands none out again: a claim keeps its
\* payload and its run, an approval only moves forward.
KeepsAuthority ==
    /\ \A k \in Key : claims[k].status # "none" =>
         /\ claims'[k].op = claims[k].op
         /\ claims'[k].run = claims[k].run
         /\ claims'[k].status \in {claims[k].status, "completed"}
    /\ \A a \in Approval :
         /\ approvals[a].status \in {"denied", "consumed"} =>
              approvals'[a] = approvals[a]
         /\ approvals[a].status = "executing" =>
              approvals'[a].status \in {"executing", "consumed"}

\* No step resurrects authority: a claim keeps its payload and its run once made and is
\* never released, a denied or consumed approval is final, and an executing approval can
\* only be consumed (rolled-back losers of the unique key included).
NoResurrection == [][KeepsAuthority]_vars

\* Every received call returns: row locks of approvals never leave calls waiting on
\* each other.
EveryCallReturns == \A c \in Call : pc[c] = "admit" ~> pc[c] = "returned"

\* The abstract promise of the boundary: PermitLedger.
Performer == [k \in Key |-> {c \in effects : IsMutating(c) /\ IdempotencyKey(c) = k}]
Order == [k \in Key |-> claims[k].op]
Phase == [k \in Key |->
            IF claims[k].status = "none" THEN "idle"
            ELSE IF claims[k].status = "running" THEN "authorised" ELSE "settled"]
Permit == [a \in Approval |->
             IF approvals[a].status \in {"executing", "consumed"} THEN "spent"
             ELSE approvals[a].status]

Ledger == INSTANCE PermitLedger WITH
            phase <- Phase, order <- Order, performer <- Performer, permit <- Permit

\* The runtime implements the ledger of single-use permits and at-most-once orders:
\* every step of every call is a step of PermitLedger or leaves it alone.
ImplementsLedger == Ledger!Spec
=============================================================================
