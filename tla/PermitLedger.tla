---------------------------- MODULE PermitLedger ----------------------------
(***************************************************************************)
(* What the Kernel promises its callers, without calls, transactions,      *)
(* locks or crashes.  An order (an idempotency key) is authorised once,    *)
(* performed at most once and then settled; an operation that needs a      *)
(* human permit spends a granted one at the moment it is authorised; a     *)
(* permit is spent at most once.                                           *)
(***************************************************************************)
CONSTANTS Key, Operation, NeedsApproval, Approval, Call, None

VARIABLES
    phase,      \* of each order: idle, authorised, settled
    order,      \* the operation an order was authorised for
    performer,  \* the calls that performed an order
    permit      \* of each permit: absent, pending, approved, denied, spent

vars == <<phase, order, performer, permit>>

Init ==
    /\ phase = [k \in Key |-> "idle"]
    /\ order = [k \in Key |-> None]
    /\ performer = [k \in Key |-> {}]
    /\ permit = [a \in Approval |-> "absent"]

MovePermit(a, from, to) ==
    /\ permit[a] = from
    /\ permit' = [permit EXCEPT ![a] = to]

RequestPermit(a) == MovePermit(a, "absent", "pending") /\ UNCHANGED <<phase, order, performer>>

DecidePermit(a) ==
    /\ \E decision \in {"approved", "denied"} : MovePermit(a, "pending", decision)
    /\ UNCHANGED <<phase, order, performer>>

\* A gated operation that changes nothing spends its permit when it completes.
ReadUnderPermit(a) == MovePermit(a, "approved", "spent") /\ UNCHANGED <<phase, order, performer>>

Authorise(k, op) ==
    /\ phase[k] = "idle"
    /\ phase' = [phase EXCEPT ![k] = "authorised"]
    /\ order' = [order EXCEPT ![k] = op]
    /\ IF op \in NeedsApproval
         THEN \E a \in Approval : MovePermit(a, "approved", "spent")
         ELSE UNCHANGED permit
    /\ UNCHANGED performer

Perform(k, c) ==
    /\ phase[k] = "authorised"
    /\ performer[k] = {}
    /\ performer' = [performer EXCEPT ![k] = {c}]
    /\ UNCHANGED <<phase, order, permit>>

Settle(k) ==
    /\ phase[k] = "authorised"
    /\ performer[k] # {}
    /\ phase' = [phase EXCEPT ![k] = "settled"]
    /\ UNCHANGED <<order, performer, permit>>

Next ==
    \/ \E a \in Approval : RequestPermit(a) \/ DecidePermit(a) \/ ReadUnderPermit(a)
    \/ \E k \in Key : \/ \E op \in Operation : Authorise(k, op)
                      \/ \E c \in Call : Perform(k, c)
                      \/ Settle(k)

Spec == Init /\ [][Next]_vars
=============================================================================
