----------------------------- MODULE EventOutbox -----------------------------
(***************************************************************************)
(* From an inbound webhook to the subscribers of its event: the receipt    *)
(* and the outbox row it writes (packages/plugins/webhooks.py, events.py), *)
(* the fan-out into one delivery per subscription and the delivery itself  *)
(* (worker.py, deliveries.py), with the owner's subscriptions              *)
(* (event_router.py).                                                      *)
(*                                                                         *)
(* An element of EventWorker is one _fanout_event or _process_delivery     *)
(* task.  As in PluginLifecycle, a task reads its row once; complete and   *)
(* fail look at that copy, and only a rollback makes it read the row       *)
(* again.  An EventDeliveryError does not roll back.                       *)
(***************************************************************************)
EXTENDS Naturals, FiniteSets

CONSTANTS
    EventWorker,   \* fan-out and delivery tasks
    Hook,          \* inbound requests; each carries the event id EventOf[h]
    Event,         \* event ids of the senders (the dedupe key)
    EventOf,
    Subscription,  \* subscriptions whose pattern matches the events
    MaxDeliveryAttempts,  \* attempts before a row becomes a dead letter
    MaxEventFaults,  \* bound on crashes, stalls and lost answers
    Nil

VARIABLES
    hook,          \* where each inbound request is
    receipt,       \* dedupe keys with a digital_webhook_receipts row
    outbox,        \* digital_event_outbox rows
    subscription,  \* enabled, or not (yet)
    delivery,      \* digital_event_deliveries rows by event and subscription
    at,            \* where each task is
    item,          \* the row it works on
    copy,          \* what its session loaded: subscriptions or enabled, and attempts
    outcome,       \* the answer its request got
    eventFaults,   \* faults so far
    accepted,      \* answers 2xx a subscriber gave, per delivery (history)
    eventOvertaken,  \* tasks whose row was leased to another one (history)
    late           \* an overtaken task has committed (history)

eventRows == <<hook, receipt, outbox, subscription, delivery>>
taskVars == <<at, item, copy, outcome>>
eventHistory == <<eventFaults, accepted, eventOvertaken, late>>
eventVars == <<eventRows, taskVars, eventHistory>>

-----------------------------------------------------------------------------
Delivery == Event \X Subscription
Item == ({"event"} \X Event) \cup ({"delivery"} \X Delivery)
Row == [status : {"absent", "pending", "retry", "leased", "delivered", "dead_letter"},
        owner : EventWorker \cup {Nil}, lease : {"null", "live", "expired"},
        attempts : 0..MaxDeliveryAttempts]
Absent == [status |-> "absent", owner |-> Nil, lease |-> "null", attempts |-> 0]
Pending == [Absent EXCEPT !.status = "pending"]

ASSUME EventAssumption ==
    /\ MaxDeliveryAttempts \in Nat /\ MaxEventFaults \in Nat
    /\ EventOf \in [Hook -> Event]
    /\ Nil \notin EventWorker \cup Item

EventInit ==
    /\ hook = [h \in Hook |-> "unsent"]
    /\ receipt = {}
    /\ outbox = [e \in Event |-> Absent]
    /\ subscription = [s \in Subscription |-> "absent"]
    /\ delivery = [d \in Delivery |-> Absent]
    /\ at = [w \in EventWorker |-> "idle"]
    /\ item = [w \in EventWorker |-> Nil]
    /\ copy = [w \in EventWorker |-> Nil]
    /\ outcome = [w \in EventWorker |-> Nil]
    /\ eventFaults = 0 /\ accepted = [d \in Delivery |-> 0] /\ eventOvertaken = {} /\ late = FALSE

-----------------------------------------------------------------------------
(* Inbound requests.                                                       *)

\* receive looks for a receipt with the dedupe key.
HookRead(h) ==
    /\ hook[h] = "unsent"
    /\ hook' = [hook EXCEPT ![h] = IF EventOf[h] \in receipt THEN "answered" ELSE "read"]
    /\ UNCHANGED <<receipt, outbox, subscription, delivery, taskVars, eventHistory>>

\* Mutant: the receipt is not unique.
BugHookWrite(h) ==
    /\ hook[h] = "read"
    /\ receipt' = receipt \cup {EventOf[h]}
    /\ outbox' = [outbox EXCEPT ![EventOf[h]] = Pending]
    /\ hook' = [hook EXCEPT ![h] = "answered"]
    /\ UNCHANGED <<subscription, delivery, taskVars, eventHistory>>
\* It writes the receipt and the outbox row in one transaction.  When another
\* request with the same key was faster, uq_digital_webhook_endpoint_dedupe
\* rejects it and the sender gets an error.
HookWrite(h) ==
    /\ hook[h] = "read"
    /\ IF EventOf[h] \in receipt
       THEN UNCHANGED <<receipt, outbox>>
       ELSE /\ receipt' = receipt \cup {EventOf[h]}
            /\ outbox' = [outbox EXCEPT ![EventOf[h]] = Pending]
    /\ hook' = [hook EXCEPT ![h] = "answered"]
    /\ UNCHANGED <<subscription, delivery, taskVars, eventHistory>>

-----------------------------------------------------------------------------
(* Subscriptions.                                                          *)

CreateEventSubscription(s) ==
    /\ subscription[s] = "absent"
    /\ subscription' = [subscription EXCEPT ![s] = "enabled"]
    /\ UNCHANGED <<hook, receipt, outbox, delivery, taskVars, eventHistory>>

DisableEventSubscription(s) ==
    /\ subscription[s] = "enabled"
    /\ subscription' = [subscription EXCEPT ![s] = "disabled"]
    /\ UNCHANGED <<hook, receipt, outbox, delivery, taskVars, eventHistory>>

-----------------------------------------------------------------------------
(* The two leased queues have the same columns and the same rules.         *)

\* Mutant: a lease that ran out is not taken over.
BugAvailableRow(row) == row.status \in {"pending", "retry"}
AvailableRow(row) ==
    \/ row.status \in {"pending", "retry"}
    \/ row.status = "leased" /\ row.lease = "expired"

LeasedRow(row, w) ==
    [status |-> "leased", owner |-> w, lease |-> "live",
     attempts |-> IF row.attempts < MaxDeliveryAttempts THEN row.attempts + 1 ELSE MaxDeliveryAttempts]

\* complete and fail: the attempts stay, the lease goes.
ReleasedRow(row, status) ==
    [status |-> status, owner |-> Nil, lease |-> "null", attempts |-> row.attempts]

AfterFailure(attempts, permanent) ==
    IF permanent \/ attempts >= MaxDeliveryAttempts THEN "dead_letter" ELSE "retry"

OwnsRow(w, row) == row.status = "leased" /\ row.owner = w

Take(w, i) ==
    /\ at[w] = "idle"
    /\ at' = [at EXCEPT ![w] = "leased"]
    /\ item' = [item EXCEPT ![w] = i]
    /\ eventOvertaken' = eventOvertaken \cup {v \in EventWorker : item[v] = i}
    /\ UNCHANGED <<hook, receipt, subscription, copy, outcome, eventFaults, accepted, late>>

LeaseEvent(w, e) ==
    /\ AvailableRow(outbox[e])
    /\ outbox' = [outbox EXCEPT ![e] = LeasedRow(outbox[e], w)]
    /\ Take(w, <<"event", e>>)
    /\ UNCHANGED delivery

LeaseDelivery(w, d) ==
    /\ AvailableRow(delivery[d])
    /\ delivery' = [delivery EXCEPT ![d] = LeasedRow(delivery[d], w)]
    /\ Take(w, <<"delivery", d>>)
    /\ UNCHANGED outbox

Busy(i, w) == w # Nil /\ item[w] = i

\* A lease that runs out under its task counts as a fault (a stall, or a batch
\* whose earlier deliveries took the lease's time); one that a crash left does not.
LeaseExpires ==
    /\ \/ \E e \in Event :
            /\ outbox[e].lease = "live"
            /\ eventFaults' = IF Busy(<<"event", e>>, outbox[e].owner) THEN eventFaults + 1 ELSE eventFaults
            /\ outbox' = [outbox EXCEPT ![e].lease = "expired"]
            /\ UNCHANGED delivery
       \/ \E d \in Delivery :
            /\ delivery[d].lease = "live"
            /\ eventFaults' = IF Busy(<<"delivery", d>>, delivery[d].owner) THEN eventFaults + 1 ELSE eventFaults
            /\ delivery' = [delivery EXCEPT ![d].lease = "expired"]
            /\ UNCHANGED outbox
    /\ eventFaults' <= MaxEventFaults
    /\ UNCHANGED <<hook, receipt, subscription, taskVars, accepted, eventOvertaken, late>>

-----------------------------------------------------------------------------
(* Tasks.                                                                  *)

RowOf(i) == IF i[1] = "event" THEN outbox[i[2]] ELSE delivery[i[2]]

EndTask(w) ==
    /\ at' = [at EXCEPT ![w] = "idle"]
    /\ item' = [item EXCEPT ![w] = Nil]
    /\ copy' = [copy EXCEPT ![w] = Nil]
    /\ outcome' = [outcome EXCEPT ![w] = Nil]
    /\ eventOvertaken' = eventOvertaken \ {w}
    /\ UNCHANGED <<hook, receipt, subscription, accepted>>

\* The task checks that it owns its row and loads what it needs: the enabled
\* subscriptions (fan-out), or the subscription of the delivery.
StartTask(w) ==
    /\ at[w] = "leased"
    /\ IF OwnsRow(w, RowOf(item[w]))
       THEN /\ at' = [at EXCEPT ![w] = "working"]
            /\ copy' = [copy EXCEPT ![w] =
                 [enabled |-> {s \in Subscription : subscription[s] = "enabled"},
                  attempts |-> RowOf(item[w]).attempts]]
            /\ UNCHANGED <<eventRows, item, outcome, eventHistory>>
       ELSE EndTask(w) /\ UNCHANGED <<outbox, delivery, eventFaults, late>>

\* Each task commits its own row as it loaded it.
SetRow(w, status) ==
    IF item[w][1] = "event"
    THEN outbox' = [outbox EXCEPT ![item[w][2]] = ReleasedRow(outbox[item[w][2]], status)]
    ELSE delivery' = [delivery EXCEPT ![item[w][2]] = ReleasedRow(delivery[item[w][2]], status)]
CommitTask(w, status) ==
    /\ SetRow(w, status)
    /\ late' = (late \/ w \in eventOvertaken)
    /\ EndTask(w)
    /\ UNCHANGED eventFaults

\* _fanout_event: a delivery for every matched subscription that has none, and
\* the event is complete, in one transaction.
Fanout(w) ==
    /\ at[w] = "working" /\ item[w][1] = "event"
    /\ delivery' = [d \in Delivery |->
         IF d[1] = item[w][2] /\ d[2] \in copy[w].enabled /\ delivery[d].status = "absent"
         THEN Pending ELSE delivery[d]]
    /\ CommitTask(w, "delivered")

\* deliver.  The subscriber may accept the event while the answer is lost
\* (a timeout), which counts as a fault.
Answer == {"ok", "lost", "unavailable", "rejected"}
Deliver(w) ==
    LET d == item[w][2]
    IN /\ at[w] = "working" /\ item[w][1] = "delivery"
       /\ at' = [at EXCEPT ![w] = "answered"]
       /\ IF d[2] \in copy[w].enabled
          THEN \E a \in Answer :
                 /\ outcome' = [outcome EXCEPT ![w] = a]
                 /\ accepted' = [accepted EXCEPT ![d] = IF a \in {"ok", "lost"} THEN 1 ELSE accepted[d]]
                 /\ eventFaults' = IF a = "lost" THEN eventFaults + 1 ELSE eventFaults
                 /\ eventFaults' <= MaxEventFaults
          ELSE /\ outcome' = [outcome EXCEPT ![w] = "rejected"]
               /\ UNCHANGED <<accepted, eventFaults>>
       /\ UNCHANGED <<eventRows, item, copy, eventOvertaken, late>>

\* Mutant: every answer below 500 counts as success.
BugSettled(answer, attempts) ==
    IF answer \in {"ok", "rejected"} THEN "delivered" ELSE AfterFailure(attempts, FALSE)
\* 2xx completes; 408, 425, 429, 5xx, timeouts and network errors are retried;
\* the rest is permanent.
Settled(answer, attempts) ==
    IF answer = "ok" THEN "delivered" ELSE AfterFailure(attempts, answer = "rejected")

RecordDelivery(w) ==
    /\ at[w] = "answered"
    /\ CommitTask(w, Settled(outcome[w], copy[w].attempts))
    /\ UNCHANGED outbox

\* Any other exception: roll back, read the row again, record the failure.
RollBackTask(w) ==
    /\ at[w] = "working"
    /\ IF OwnsRow(w, RowOf(item[w]))
       THEN /\ at' = [at EXCEPT ![w] = "failing"]
            /\ copy' = [copy EXCEPT ![w].attempts = RowOf(item[w]).attempts]
            /\ UNCHANGED <<eventRows, item, outcome, eventHistory>>
       ELSE EndTask(w) /\ UNCHANGED <<outbox, delivery, eventFaults, late>>

RecordFailure(w) ==
    /\ at[w] = "failing"
    /\ CommitTask(w, AfterFailure(copy[w].attempts, FALSE))
    /\ IF item[w][1] = "event" THEN UNCHANGED delivery ELSE UNCHANGED outbox

TaskDies(w) ==
    /\ at[w] # "idle" /\ eventFaults < MaxEventFaults
    /\ eventFaults' = eventFaults + 1
    /\ EndTask(w)
    /\ UNCHANGED <<outbox, delivery, late>>

LeaseRow(w) ==
    \/ \E e \in Event : LeaseEvent(w, e)
    \/ \E d \in Delivery : LeaseDelivery(w, d)

TaskStep(w) ==
    StartTask(w) \/ Fanout(w) \/ Deliver(w) \/ RecordDelivery(w) \/ RollBackTask(w) \/ RecordFailure(w)

EventNext ==
    \/ \E h \in Hook : HookRead(h) \/ HookWrite(h)
    \/ \E s \in Subscription : CreateEventSubscription(s) \/ DisableEventSubscription(s)
    \/ \E w \in EventWorker : LeaseRow(w) \/ TaskStep(w) \/ TaskDies(w)
    \/ LeaseExpires

\* A free worker polls both queues, a task ends (every request has a timeout),
\* and a lease runs out.
EventFairness ==
    /\ \A w \in EventWorker : WF_eventVars(LeaseRow(w) \/ TaskStep(w))
    /\ WF_eventVars(LeaseExpires)

EventSpec == EventInit /\ [][EventNext]_eventVars /\ EventFairness

-----------------------------------------------------------------------------
(* Properties.                                                             *)

Consistent(row) ==
    (row.status = "leased") = (row.owner # Nil) /\ (row.status = "leased") = (row.lease # "null")

\* Every variable has its type, and a row of either queue is leased exactly
\* when it has an owner and a lease.
EventTypeOK ==
    /\ hook \in [Hook -> {"unsent", "read", "answered"}]
    /\ receipt \subseteq Event
    /\ outbox \in [Event -> Row] /\ delivery \in [Delivery -> Row]
    /\ \A e \in Event : Consistent(outbox[e])
    /\ \A d \in Delivery : Consistent(delivery[d])
    /\ subscription \in [Subscription -> {"absent", "enabled", "disabled"}]
    /\ at \in [EventWorker -> {"idle", "leased", "working", "answered", "failing"}]
    /\ eventFaults \in 0..MaxEventFaults
    /\ item \in [EventWorker -> Item \cup {Nil}]
    /\ accepted \in [Delivery -> 0..1]
    /\ eventOvertaken \subseteq EventWorker /\ late \in BOOLEAN

\* A delivery that is recorded as delivered was accepted by its subscriber
\* with a 2xx answer, whichever task recorded it.
DeliveredIsTrue ==
    \A d \in Delivery : delivery[d].status = "delivered" => accepted[d] = 1

\* A fanned-out event and an acknowledged delivery stay what they are: a
\* duplicate webhook, a retry or a take-over does not open them again, unless a
\* task commits after its lease was given away.
DeliveredIsFinal ==
    [][/\ \A e \in Event : outbox[e].status = "delivered" /\ outbox'[e] # outbox[e] => late'
       /\ \A d \in Delivery : delivery[d].status = "delivered" /\ delivery'[d] # delivery[d] => late']_eventVars

\* An accepted webhook reaches every subscription: its delivery is acknowledged
\* or ends as a dead letter, through crashes, lost answers and expired leases.
Owed(e, s) == outbox[e].status = "pending" /\ subscription[s] = "enabled"
Reached(e, s) ==
    \/ delivery[<<e, s>>].status \in {"delivered", "dead_letter"}
    \/ outbox[e].status = "dead_letter" \/ subscription[s] = "disabled" \/ late
=============================================================================
