--------------------------- MODULE PluginMetering ---------------------------
(***************************************************************************)
(* What a hosted plugin uses and what it is charged: the resource budgets  *)
(* of one installation (packages/plugins/budgets.py) and the two ways out  *)
(* of its runtime that are metered, the egress broker (egress_router.py)   *)
(* and the capability gateway (gateway.py, gateway_router.py).             *)
(*                                                                         *)
(* A call is one database transaction until it commits.  consume reads the *)
(* clock, then takes row locks (SELECT ... FOR UPDATE on the budgets and   *)
(* the usage buckets) that last until the transaction ends, and writes the *)
(* quantities it projected from what it read.  The checks before the first *)
(* consume (identity, grant, binding, arguments) only read; a call that    *)
(* they refuse changes nothing and is left out.  Every charge is of one    *)
(* unit; the charge for the bytes of a request body follows the rule of    *)
(* the charge for the request and is left out too.                         *)
(***************************************************************************)
EXTENDS Naturals, FiniteSets

CONSTANTS
    Call,        \* calls of the runtime, one transaction each
    Window,      \* window lengths (window_seconds) in ticks of the clock
    Canonical,   \* the hourly window that meters a resource without a budget
    Offer,       \* the budgets the owner may configure: [metric, window, limit]
    MaxChanges,  \* bound on configure requests
    StartTime,   \* the first and the last time of the clock
    MaxTime,
    Unset

VARIABLES
    time,        \* the clock
    limit,       \* digital_resource_budgets: hard_limit by metric and window, or Unset
    bucket,      \* digital_usage_buckets: quantity by metric, window and window start
    ledger,      \* digital_usage_ledger: a row for each charge
    call,        \* each call: kind, where it is, the time its consume read, its open charges
    changes,     \* configure requests so far
    since,       \* when a budget was first configured, or Unset (history)
    ceiling,     \* the highest limit a budget ever had (history)
    sent         \* calls that left the platform, by the row of their charge, but for
                 \* those whose charge was rolled back afterwards (history)

meteringVars == <<time, limit, bucket, ledger, call, changes, since, ceiling, sent>>

-----------------------------------------------------------------------------
Metric == {"requests", "response", "invocations"}
Kind == {"egress", "read", "mutation"}
Time == 0..MaxTime
Charge == [metric : Metric, stamp : Time, budgets : SUBSET Window,
           projected : [Window -> Nat \cup {Unset}]]
CallRow == [kind : Kind \cup {Unset}, stamp : Time, charges : SUBSET Charge,
            at : {"unsent", "charging", "charged", "sent", "metering", "metered", "reserved", "done"}]
LedgerRow == [metric : Metric, stamp : Time, call : Call]

ASSUME TimeAssumption == MaxTime \in Nat /\ StartTime \in Time /\ MaxChanges \in Nat
ASSUME WindowAssumption == Window \subseteq Nat \ {0} /\ Canonical \in Window
ASSUME OfferAssumption == Offer \subseteq [metric : Metric, window : Window, limit : Nat]
ASSUME UnsetAssumption == Unset \notin Nat

Unsent == [kind |-> Unset, at |-> "unsent", stamp |-> 0, charges |-> {}]
Over == [Unsent EXCEPT !.at = "done"]

MeteringInit ==
    /\ time = StartTime
    /\ limit = [b \in Metric \X Window |-> Unset]
    /\ bucket = [b \in Metric \X Window \X Time |-> 0]
    /\ ledger = {}
    /\ call = [c \in Call |-> Unsent]
    /\ changes = 0
    /\ since = [b \in Metric \X Window |-> Unset]
    /\ ceiling = [b \in Metric \X Window |-> 0]
    /\ sent = {}

\* _window_start
WindowStart(now, window) == now - (now % window)

\* The windows with a budget for the metric.
Budgets(m) == {w \in Window : limit[<<m, w>>] # Unset}

\* The windows consume charges: every budget of the metric, or the hourly one.
Windows(m) == IF Budgets(m) = {} THEN {Canonical} ELSE Budgets(m)

\* Mutant: the buckets and budgets are read without FOR UPDATE.
BugLocks(m, now, budgets, windows) == {}
\* The rows that consume locks: the budgets there are, and the buckets.  A bucket
\* that is not there yet is inserted; the unique key makes a second insert wait for
\* the first, and then read its row.
Locks(m, now, budgets, windows) ==
    {<<m, w>> : w \in budgets} \cup {<<m, w, WindowStart(now, w)>> : w \in windows}

\* The windows of a charge.
Charged(g) == {w \in Window : g.projected[w] # Unset}

Held(c) == UNION {Locks(g.metric, g.stamp, g.budgets, Charged(g)) : g \in call[c].charges}

-----------------------------------------------------------------------------
(* The owner.                                                              *)

\* configure: inserts the budget or updates it, which waits for its row lock.
Configure(o) ==
    LET b == <<o.metric, o.window>>
    IN /\ changes < MaxChanges /\ limit[b] # o.limit
       /\ limit[b] # Unset => \A c \in Call : b \notin Held(c)
       /\ limit' = [limit EXCEPT ![b] = o.limit]
       /\ changes' = changes + 1
       /\ since' = [since EXCEPT ![b] = IF since[b] = Unset THEN time ELSE since[b]]
       /\ ceiling' = [ceiling EXCEPT ![b] = IF o.limit > ceiling[b] THEN o.limit ELSE ceiling[b]]
       /\ UNCHANGED <<time, bucket, ledger, call, sent>>

Tick ==
    /\ time < MaxTime
    /\ time' = time + 1
    /\ UNCHANGED <<limit, bucket, ledger, call, changes, since, ceiling, sent>>

-----------------------------------------------------------------------------
(* Transactions.                                                           *)

Unmoved == UNCHANGED <<time, limit, changes, since, ceiling>>

\* The transaction of c ends; a call that is done keeps nothing.
End(c, at) ==
    call' = [call EXCEPT ![c] = IF at = "done" THEN Over
                                ELSE [call[c] EXCEPT !.at = at, !.charges = {}]]

\* The ledger rows of the open charges of c.
Entries(c) == {[metric |-> g.metric, stamp |-> g.stamp, call |-> c] : g \in call[c].charges}

\* commit: the projected quantities and one ledger entry per charge.
CommitCharges(c, at) ==
    /\ bucket' = [b \in DOMAIN bucket |->
         LET mine == {g \in call[c].charges : /\ g.metric = b[1] /\ b[2] \in Charged(g)
                                              /\ WindowStart(g.stamp, b[2]) = b[3]}
         IN IF mine = {} THEN bucket[b] ELSE (CHOOSE g \in mine : TRUE).projected[b[2]]]
    /\ ledger' = ledger \cup Entries(c)
    /\ End(c, at)
    /\ UNCHANGED sent /\ Unmoved

\* rollback: the charges go, also those for a call that has left the platform.
RollBackCharges(c) ==
    /\ sent' = sent \ Entries(c)
    /\ End(c, "done")
    /\ UNCHANGED <<bucket, ledger>> /\ Unmoved

\* consume begins: it reads the clock before it waits for a lock.
Begin(c, kind) ==
    /\ call[c].at = "unsent"
    /\ call' = [call EXCEPT ![c].kind = kind, ![c].at = "charging", ![c].stamp = time]
    /\ UNCHANGED <<bucket, ledger, sent>> /\ Unmoved

MetricOf(c) ==
    IF call[c].kind # "egress" THEN "invocations"
    ELSE IF call[c].at = "charging" THEN "requests" ELSE "response"

Projected(m, now, w) == bucket[<<m, w, WindowStart(now, w)>>] + 1

\* Mutant: the quantity already used is compared, not the projected one.
BugExceeds(m, now, w) == limit[<<m, w>>] # Unset /\ Projected(m, now, w) - 1 > limit[<<m, w>>]
Exceeds(m, now, w) == limit[<<m, w>>] # Unset /\ Projected(m, now, w) > limit[<<m, w>>]

\* consume, once it has its locks: every budget of the metric must allow the charge.
Consume(c) ==
    LET m == MetricOf(c)
        now == call[c].stamp
        windows == Windows(m)
    IN /\ call[c].at \in {"charging", "metering"}
       /\ \A d \in Call \ {c} : Held(d) \cap Locks(m, now, Budgets(m), windows) = {}
       /\ IF \E w \in windows : Exceeds(m, now, w)
          THEN RollBackCharges(c)
          ELSE /\ call' = [call EXCEPT
                    ![c].at = IF call[c].at = "charging" THEN "charged" ELSE "metered",
                    ![c].charges = call[c].charges \cup {[metric |-> m, stamp |-> now, budgets |-> Budgets(m),
                        projected |-> [w \in Window |->
                                        IF w \in windows THEN Projected(m, now, w) ELSE Unset]]}]
               /\ UNCHANGED <<bucket, ledger, sent>> /\ Unmoved

Leave(c, at) ==
    /\ call' = [call EXCEPT ![c] = IF at = "done" THEN Over ELSE [call[c] EXCEPT !.at = at]]
    /\ sent' = sent \cup {[metric |-> IF call[c].kind = "egress" THEN "requests" ELSE "invocations",
                            stamp |-> call[c].stamp, call |-> c]}
    /\ UNCHANGED <<bucket, ledger>> /\ Unmoved

-----------------------------------------------------------------------------
(* runtime_egress: the request goes out under the locks of its charge.  A  *)
(* response with a body is charged too, and only then is all committed.    *)

Send(c) ==
    /\ call[c].kind = "egress" /\ call[c].at = "charged"
    /\ Leave(c, "sent")

EmptyResponse(c) ==
    /\ call[c].kind = "egress" /\ call[c].at = "sent"
    /\ CommitCharges(c, "done")

ResponseBody(c) ==
    /\ call[c].kind = "egress" /\ call[c].at = "sent"
    /\ call' = [call EXCEPT ![c].at = "metering", ![c].stamp = time]
    /\ UNCHANGED <<bucket, ledger, sent>> /\ Unmoved

ResponseMetered(c) == call[c].at = "metered" /\ CommitCharges(c, "done")

\* A timeout, a network error or a response above the requested size.
EgressFails(c) ==
    /\ call[c].kind = "egress" /\ call[c].at = "sent"
    /\ RollBackCharges(c)

-----------------------------------------------------------------------------
(* invoke: the Kernel runs in the same transaction.                        *)

\* Denied, invalid, waiting for approval, in progress: the Kernel rolls back
\* before it records the failure.
KernelRefuses(c) ==
    /\ call[c].kind # "egress" /\ call[c].at = "charged"
    /\ RollBackCharges(c)

\* A request that was completed before is answered from its record.
KernelReplays(c) ==
    /\ call[c].kind = "mutation" /\ call[c].at = "charged"
    /\ CommitCharges(c, "done")

\* Mutant: the reservation is only flushed.
BugKernelReserves(c) ==
    /\ call[c].kind = "mutation" /\ call[c].at = "charged"
    /\ End(c, "reserved")
    /\ UNCHANGED <<bucket, ledger, sent>> /\ Unmoved
\* A mutation: the reservation is committed before the provider runs, and the
\* charge with it.
KernelReserves(c) ==
    /\ call[c].kind = "mutation" /\ call[c].at = "charged"
    /\ CommitCharges(c, "reserved")

ProviderRuns(c) ==
    \/ call[c].kind = "mutation" /\ call[c].at = "reserved" /\ Leave(c, "done")
    \/ call[c].kind = "read" /\ call[c].at = "charged" /\ Leave(c, "sent")

ReadSucceeds(c) ==
    /\ call[c].kind = "read" /\ call[c].at = "sent"
    /\ CommitCharges(c, "done")

ReadFails(c) ==
    /\ call[c].kind = "read" /\ call[c].at = "sent"
    /\ RollBackCharges(c)

\* The process or its connection is lost: the database rolls back.
CallDies(c) ==
    /\ call[c].at \notin {"unsent", "done"}
    /\ RollBackCharges(c)

MeteringNext ==
    \/ Tick
    \/ \E o \in Offer : Configure(o)
    \/ \E c \in Call :
         \/ \E kind \in Kind : Begin(c, kind)
         \/ Consume(c) \/ CallDies(c)
         \/ Send(c) \/ EmptyResponse(c) \/ ResponseBody(c) \/ ResponseMetered(c) \/ EgressFails(c)
         \/ KernelRefuses(c) \/ KernelReplays(c) \/ KernelReserves(c)
         \/ ProviderRuns(c) \/ ReadSucceeds(c) \/ ReadFails(c)

MeteringSpec == MeteringInit /\ [][MeteringNext]_meteringVars

-----------------------------------------------------------------------------
(* Properties.                                                             *)

\* Every variable has its type.
MeteringTypeOK ==
    /\ time \in Time
    /\ limit \in [Metric \X Window -> Nat \cup {Unset}]
    /\ bucket \in [Metric \X Window \X Time -> Nat]
    /\ ledger \subseteq LedgerRow
    /\ call \in [Call -> CallRow]
    /\ changes \in 0..MaxChanges
    /\ since \in [Metric \X Window -> Time \cup {Unset}]
    /\ ceiling \in [Metric \X Window -> Nat]
    /\ sent \subseteq LedgerRow

\* How many rows there are of a metric in the window that starts then.
InWindow(entries, m, w, start) ==
    Cardinality({e \in entries : e.metric = m /\ WindowStart(e.stamp, w) = start})

\* The windows that began under a budget.
Governed == {b \in Metric \X Window \X Time :
               /\ WindowStart(b[3], b[2]) = b[3]
               /\ since[<<b[1], b[2]>>] # Unset /\ b[3] > since[<<b[1], b[2]>>]}

\* "Race-safe multi-window quota": in a window that began under a budget the
\* bucket holds what the ledger records, however calls, window changes and
\* configure requests overlap (consume writes absolute quantities).
MeteringIsExact ==
    \A b \in Governed : bucket[b] = InWindow(ledger, b[1], b[2], b[3])

\* In such a window no more calls leave the platform than the budget allows,
\* not counting those whose charge a failure rolled back afterwards ("consumed
\* before the side effect").
SendsWithinLimit ==
    \A b \in Governed : b[1] # "response" =>
        InWindow(sent, b[1], b[2], b[3]) <= ceiling[<<b[1], b[2]>>]
=============================================================================
