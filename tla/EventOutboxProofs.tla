-------------------------- MODULE EventOutboxProofs --------------------------
(***************************************************************************)
(* Proofs about EventOutbox, for any number of tasks, webhooks, events and *)
(* subscriptions.                                                          *)
(***************************************************************************)
EXTENDS EventOutbox, TLAPS

CopyRow == [enabled : SUBSET Subscription, attempts : 0..MaxDeliveryAttempts]

\* A task past its start.
Under == {"working", "answered", "failing"}

\* What a task holds at each place; an answer that counts as success was one.
TaskAt(w) ==
    /\ at[w] = "idle" => item[w] = Nil /\ w \notin eventOvertaken
    /\ at[w] # "idle" => item[w] \in Item
    /\ at[w] \in Under => copy[w] \in CopyRow
    /\ at[w] = "answered" => /\ item[w] \in {"delivery"} \X Delivery
                             /\ outcome[w] = "ok" => accepted[item[w][2]] = 1

TaskInv ==
    /\ copy \in [EventWorker -> CopyRow \cup {Nil}]
    /\ outcome \in [EventWorker -> Answer \cup {Nil}]
    /\ \A w \in EventWorker : TaskAt(w)

\* An event without a receipt has no outbox row, and no task works on it.
ReceiptInv ==
    \A e \in Event : e \notin receipt =>
        /\ outbox[e].status = "absent"
        /\ \A w \in EventWorker : item[w] # <<"event", e>>

\* Until a task commits after its lease was given away, a task that was not
\* overtaken owns its row.
OwnInv ==
    ~late => \A w \in EventWorker : at[w] # "idle" /\ w \notin eventOvertaken => OwnsRow(w, RowOf(item[w]))

Inv == EventTypeOK /\ TaskInv /\ ReceiptInv /\ OwnInv /\ DeliveredIsTrue

-----------------------------------------------------------------------------
(* What the steps of a task do to it, and that they leave the other tasks  *)
(* alone.                                                                  *)

LocalOK ==
    /\ at \in [EventWorker -> {"idle", "leased", "working", "answered", "failing"}]
    /\ item \in [EventWorker -> Item \cup {Nil}]
    /\ copy \in [EventWorker -> CopyRow \cup {Nil}]
    /\ outcome \in [EventWorker -> Answer \cup {Nil}]

\* The rows of the two queues.
QueuesOK ==
    /\ outbox \in [Event -> Row] /\ delivery \in [Delivery -> Row]
    /\ \A e \in Event : Consistent(outbox[e])
    /\ \A d \in Delivery : Consistent(delivery[d])

Same(v) == at'[v] = at[v] /\ item'[v] = item[v] /\ copy'[v] = copy[v] /\ outcome'[v] = outcome[v]
Others(w) == \A v \in EventWorker \ {w} : Same(v)

\* A task that ends holds nothing.
LEMMA DoneAt ==
    ASSUME LocalOK, NEW w \in EventWorker, EndTask(w)
    PROVE  /\ LocalOK' /\ Others(w) /\ at'[w] = "idle" /\ item'[w] = Nil
           /\ eventOvertaken' = eventOvertaken \ {w}
           /\ UNCHANGED <<hook, receipt, subscription, accepted>>
BY DEF LocalOK, EndTask, Others, Same

\* The kinds of items.
LEMMA ItemAt ==
    ASSUME NEW i \in Item
    PROVE  \/ i[1] = "event" /\ i[2] \in Event /\ i = <<"event", i[2]>>
           \/ i[1] = "delivery" /\ i[2] \in Delivery /\ i = <<"delivery", i[2]>>
BY DEF Item

\* Rows that the actions write.
LEMMA RowsAt ==
    ASSUME NEW row \in Row, NEW w \in EventWorker,
           NEW status \in {"retry", "delivered", "dead_letter"}
    PROVE  /\ ReleasedRow(row, status) \in Row /\ Consistent(ReleasedRow(row, status))
           /\ LeasedRow(row, w) \in Row /\ Consistent(LeasedRow(row, w))
           /\ Pending \in Row /\ Consistent(Pending) /\ Absent \in Row /\ Consistent(Absent)
<1>1. MaxDeliveryAttempts \in Nat /\ Nil \notin EventWorker BY EventAssumption
<1>2. row.attempts \in 0..MaxDeliveryAttempts BY DEF Row
<1>3. (IF row.attempts < MaxDeliveryAttempts THEN row.attempts + 1 ELSE MaxDeliveryAttempts) \in 0..MaxDeliveryAttempts
  BY <1>1, <1>2
<1>4. ReleasedRow(row, status) \in Row /\ Consistent(ReleasedRow(row, status))
  BY <1>2 DEF ReleasedRow, Row, Consistent
<1>5. LeasedRow(row, w) \in Row /\ Consistent(LeasedRow(row, w)) BY <1>1, <1>3 DEF LeasedRow, Row, Consistent
<1>6. Absent \in Row /\ Consistent(Absent) BY <1>1 DEF Absent, Row, Consistent
<1>7. Pending = [status |-> "pending", owner |-> Nil, lease |-> "null", attempts |-> 0]
  BY DEF Pending, Absent
<1>8. Pending \in Row /\ Consistent(Pending) BY <1>1, <1>7 DEF Row, Consistent
<1> QED BY <1>4, <1>5, <1>6, <1>8

\* What a commit does: the row of the task gets its new status, a fan-out creates the
\* deliveries that are missing, and the task ends.
Ends(w, status) ==
    /\ at[w] \in Under /\ item[w] \in Item
    /\ \A e \in Event : \/ item[w] # <<"event", e>> /\ outbox'[e] = outbox[e]
                        \/ item[w] = <<"event", e>> /\ outbox'[e] = ReleasedRow(outbox[e], status)
    /\ \A d \in Delivery :
         \/ item[w] # <<"delivery", d>> /\ delivery'[d] = delivery[d]
         \/ item[w] # <<"delivery", d>> /\ delivery[d].status = "absent" /\ delivery'[d] = Pending
         \/ item[w] = <<"delivery", d>> /\ delivery'[d] = ReleasedRow(delivery[d], status)
    /\ late' = (late \/ w \in eventOvertaken)
    /\ Others(w) /\ at'[w] = "idle" /\ item'[w] = Nil /\ eventOvertaken' = eventOvertaken \ {w}
    /\ UNCHANGED <<hook, receipt, subscription, accepted, eventFaults>>

Commits(w) == Fanout(w) \/ RecordDelivery(w) \/ RecordFailure(w)

\* The commits end the task, keep the queues in order, and record a delivery as
\* delivered only on the strength of an answer.
LEMMA CommitAt ==
    ASSUME EventTypeOK, TaskInv, NEW w \in EventWorker, Commits(w)
    PROVE  \E status \in {"retry", "delivered", "dead_letter"} :
             /\ LocalOK' /\ QueuesOK' /\ Ends(w, status)
             /\ status = "delivered" => \/ item[w][1] = "event"
                                        \/ at[w] = "answered" /\ outcome[w] = "ok"
<1>0. LocalOK /\ QueuesOK BY DEF EventTypeOK, TaskInv, LocalOK, QueuesOK
<1>1. at[w] \in Under BY DEF Commits, Fanout, RecordDelivery, RecordFailure, Under
<1>2. item[w] \in Item BY <1>1 DEF TaskInv, TaskAt, Under
<1>3. PICK status \in {"retry", "delivered", "dead_letter"} :
        /\ CommitTask(w, status)
        /\ status = "delivered" => \/ Fanout(w)
                                   \/ RecordDelivery(w) /\ outcome[w] = "ok"
  BY DEF Commits, Fanout, RecordDelivery, RecordFailure, Settled, AfterFailure
<1>4. SetRow(w, status) /\ late' = (late \/ w \in eventOvertaken) /\ EndTask(w) /\ eventFaults' = eventFaults
  BY <1>3 DEF CommitTask
<1>5. /\ LocalOK' /\ Others(w) /\ at'[w] = "idle" /\ item'[w] = Nil /\ eventOvertaken' = eventOvertaken \ {w}
      /\ UNCHANGED <<hook, receipt, subscription, accepted>>
  BY <1>0, <1>4, DoneAt
<1>6. status = "delivered" => \/ item[w][1] = "event"
                              \/ at[w] = "answered" /\ outcome[w] = "ok"
  BY <1>3 DEF Fanout, RecordDelivery
<1>7. CASE item[w][1] = "event"
  <2> DEFINE e == item[w][2]
  <2>1. e \in Event /\ item[w] = <<"event", e>> BY <1>2, <1>7, ItemAt
  <2>2. outbox' = [outbox EXCEPT ![e] = ReleasedRow(outbox[e], status)] BY <1>4, <1>7 DEF SetRow
  <2>3. \A f \in Event : \/ item[w] # <<"event", f>> /\ outbox'[f] = outbox[f]
                         \/ item[w] = <<"event", f>> /\ outbox'[f] = ReleasedRow(outbox[f], status)
    BY <1>0, <2>1, <2>2 DEF QueuesOK
  <2>4. \A d \in Delivery : item[w] # <<"delivery", d>> BY <2>1
  <2>5. /\ delivery' = delivery \/ delivery' = [d \in Delivery |->
               IF d[1] = e /\ d[2] \in copy[w].enabled /\ delivery[d].status = "absent"
               THEN Pending ELSE delivery[d]]
    <3>1. Fanout(w) \/ RecordFailure(w)
      BY <1>7, <2>1 DEF Commits, RecordDelivery, TaskInv, TaskAt
    <3> QED BY <1>7, <3>1 DEF Fanout, RecordFailure
  <2>6. \A d \in Delivery : delivery'[d] = delivery[d] \/ (delivery[d].status = "absent" /\ delivery'[d] = Pending)
    BY <2>5
  <2>7. delivery' \in [Delivery -> Row]
    <3>1. outbox[e] \in Row BY <1>0, <2>1 DEF QueuesOK
    <3>2. Pending \in Row BY <3>1, RowsAt
    <3> QED BY <1>0, <2>5, <3>2 DEF QueuesOK
  <2>8. QueuesOK'
    <3>1. outbox[e] \in Row BY <1>0, <2>1 DEF QueuesOK
    <3>2. ReleasedRow(outbox[e], status) \in Row /\ Consistent(ReleasedRow(outbox[e], status)) /\ Consistent(Pending)
      BY <3>1, RowsAt
    <3>3. outbox' \in [Event -> Row] /\ outbox'[e] = ReleasedRow(outbox[e], status)
          /\ \A f \in Event \ {e} : outbox'[f] = outbox[f]
      BY <1>0, <2>1, <2>2, <3>2 DEF QueuesOK
    <3>4. \A f \in Event : Consistent(outbox'[f]) BY <1>0, <3>2, <3>3 DEF QueuesOK
    <3>5. \A d \in Delivery : Consistent(delivery'[d]) BY <1>0, <2>6, <3>2 DEF QueuesOK
    <3> QED BY <2>7, <3>3, <3>4, <3>5 DEF QueuesOK, Consistent
  <2>9. Ends(w, status) BY <1>1, <1>2, <1>4, <1>5, <2>3, <2>4, <2>6 DEF Ends
  <2> QED BY <1>5, <1>6, <2>8, <2>9
<1>8. CASE item[w][1] # "event"
  <2> DEFINE d == item[w][2]
  <2>1. d \in Delivery /\ item[w] = <<"delivery", d>> BY <1>2, <1>8, ItemAt
  <2>2. delivery' = [delivery EXCEPT ![d] = ReleasedRow(delivery[d], status)] BY <1>4, <1>8 DEF SetRow
  <2>3. \A f \in Delivery : \/ item[w] # <<"delivery", f>> /\ delivery'[f] = delivery[f]
                            \/ item[w] = <<"delivery", f>> /\ delivery'[f] = ReleasedRow(delivery[f], status)
    BY <1>0, <2>1, <2>2 DEF QueuesOK
  <2>4. \A e \in Event : item[w] # <<"event", e>> BY <2>1
  <2>5. outbox' = outbox BY <1>8 DEF Commits, Fanout, RecordDelivery, RecordFailure
  <2>6. QueuesOK'
    <3>1. delivery[d] \in Row BY <1>0, <2>1 DEF QueuesOK
    <3>2. ReleasedRow(delivery[d], status) \in Row /\ Consistent(ReleasedRow(delivery[d], status))
      BY <3>1, RowsAt
    <3>3. delivery' \in [Delivery -> Row] /\ delivery'[d] = ReleasedRow(delivery[d], status)
          /\ \A f \in Delivery \ {d} : delivery'[f] = delivery[f]
      BY <1>0, <2>1, <2>2, <3>2 DEF QueuesOK
    <3>4. \A f \in Delivery : Consistent(delivery'[f]) BY <1>0, <3>2, <3>3 DEF QueuesOK
    <3> QED BY <1>0, <2>5, <3>3, <3>4 DEF QueuesOK, Consistent
  <2>7. Ends(w, status) BY <1>1, <1>2, <1>4, <1>5, <2>3, <2>4, <2>5 DEF Ends
  <2> QED BY <1>5, <1>6, <2>6, <2>7
<1> QED BY <1>7, <1>8

-----------------------------------------------------------------------------
(* The types, step by step.                                                *)

\* An answer is not taken back.
Grows == \A d \in Delivery : accepted[d] = 1 => accepted'[d] = 1

\* The other tasks hold what they held.
LEMMA TaskKept ==
    ASSUME TaskInv, NEW w \in EventWorker, LocalOK', Others(w), Grows, TaskAt(w)',
           \A v \in EventWorker \ {w} : v \in eventOvertaken' => v \in eventOvertaken \/ item[v] # Nil
    PROVE  TaskInv'
<1>1. ASSUME NEW v \in EventWorker PROVE TaskAt(v)'
  <2>1. CASE v = w BY <2>1
  <2>2. CASE v # w
    <3>1. TaskAt(v) /\ Same(v) BY <2>2 DEF TaskInv, Others
    <3>2. at[v] = "idle" => v \notin eventOvertaken' BY <2>2, <3>1 DEF TaskAt
    <3>3. item[v] \in {"delivery"} \X Delivery => item[v][2] \in Delivery OBVIOUS
    <3> QED BY <3>1, <3>2, <3>3 DEF TaskAt, Same, Grows
  <2> QED BY <2>1, <2>2
<1> QED BY <1>1 DEF TaskInv, LocalOK

\* A commit keeps the types.
LEMMA CommitTypes ==
    ASSUME EventTypeOK, TaskInv, NEW w \in EventWorker, Commits(w)
    PROVE  (EventTypeOK /\ TaskInv)'
<1>1. PICK status \in {"retry", "delivered", "dead_letter"} : LocalOK' /\ QueuesOK' /\ Ends(w, status)
  BY CommitAt
<1>2. /\ UNCHANGED <<hook, receipt, subscription, accepted, eventFaults>> /\ Others(w)
      /\ at'[w] = "idle" /\ item'[w] = Nil /\ eventOvertaken' = eventOvertaken \ {w}
  BY <1>1 DEF Ends
<1>3. late' \in BOOLEAN BY <1>1 DEF Ends
<1>4. EventTypeOK' BY <1>1, <1>2, <1>3 DEF EventTypeOK, LocalOK, QueuesOK
<1>5. TaskAt(w)' BY <1>2 DEF TaskAt, Under
<1>6. TaskInv' BY <1>1, <1>2, <1>5, TaskKept DEF Grows
<1> QED BY <1>4, <1>6

\* A step of a task that leaves the rows alone: it goes on with its row or ends.
Quiet(w) == StartTask(w) \/ Deliver(w) \/ RollBackTask(w) \/ TaskDies(w)

Stays(w) ==
    /\ Others(w) /\ Grows /\ UNCHANGED <<eventRows, late>>
    /\ at'[w] # "idle" => at[w] # "idle" /\ item'[w] = item[w] /\ eventOvertaken' = eventOvertaken
    /\ eventOvertaken' \in {eventOvertaken, eventOvertaken \ {w}}

LEMMA QuietTypes ==
    ASSUME EventTypeOK, TaskInv, NEW w \in EventWorker, Quiet(w)
    PROVE  (EventTypeOK /\ TaskInv)' /\ Stays(w)
<1>0. LocalOK /\ QueuesOK /\ TaskAt(w) /\ MaxEventFaults \in Nat
  BY EventAssumption DEF EventTypeOK, TaskInv, LocalOK, QueuesOK
<1>1. ASSUME LocalOK', Stays(w), TaskAt(w)', eventFaults' \in 0..MaxEventFaults, accepted' \in [Delivery -> 0..1]
      PROVE  (EventTypeOK /\ TaskInv)' /\ Stays(w)
  <2>1. UNCHANGED <<hook, receipt, outbox, subscription, delivery, late>> /\ eventOvertaken' \subseteq EventWorker
    BY <1>1 DEF Stays, eventRows, EventTypeOK
  <2>2. EventTypeOK' BY <1>1, <2>1 DEF EventTypeOK, LocalOK
  <2>3. TaskInv' BY <1>1, TaskKept DEF Stays
  <2> QED BY <1>1, <2>2, <2>3
<1>2. ASSUME EndTask(w), UNCHANGED <<outbox, delivery, late>>, eventFaults' \in 0..MaxEventFaults
      PROVE  (EventTypeOK /\ TaskInv)' /\ Stays(w)
  <2>1. /\ LocalOK' /\ Others(w) /\ at'[w] = "idle" /\ item'[w] = Nil
        /\ eventOvertaken' = eventOvertaken \ {w} /\ UNCHANGED <<hook, receipt, subscription, accepted>>
    BY <1>0, <1>2, DoneAt
  <2>2. Stays(w) BY <1>2, <2>1 DEF Stays, Grows, eventRows
  <2>3. TaskAt(w)' BY <2>1 DEF TaskAt, Under
  <2> QED BY <1>1, <1>2, <2>1, <2>2, <2>3 DEF EventTypeOK
<1>3. ASSUME at[w] # "idle" PROVE item[w] \in Item /\ RowOf(item[w]) \in Row
                                  /\ RowOf(item[w]).attempts \in 0..MaxDeliveryAttempts
  <2>1. item[w] \in Item BY <1>0, <1>3 DEF TaskAt
  <2>2. RowOf(item[w]) \in Row BY <1>0, <2>1, ItemAt DEF RowOf, QueuesOK
  <2> QED BY <2>1, <2>2 DEF Row
<1>4. ASSUME NEW place \in {"working", "failing"}, NEW row \in CopyRow, at[w] # "idle",
             at' = [at EXCEPT ![w] = place], copy' = [copy EXCEPT ![w] = row],
             UNCHANGED <<eventRows, item, outcome, eventHistory>>
      PROVE  (EventTypeOK /\ TaskInv)' /\ Stays(w)
  <2>1. LocalOK' /\ Others(w) /\ at'[w] = place /\ copy'[w] = row
    BY <1>0, <1>4 DEF LocalOK, Others, Same
  <2>2. Stays(w) BY <1>4, <2>1 DEF Stays, Grows, eventHistory
  <2>3. TaskAt(w)' BY <1>0, <1>4, <2>1 DEF TaskAt, eventHistory
  <2> QED BY <1>1, <1>4, <2>1, <2>2, <2>3 DEF EventTypeOK, eventHistory
<1>5. CASE StartTask(w)
  <2>1. CASE OwnsRow(w, RowOf(item[w]))
    <3> DEFINE row == [enabled |-> {s \in Subscription : subscription[s] = "enabled"},
                       attempts |-> RowOf(item[w]).attempts]
    <3>1. at[w] # "idle" BY <1>5 DEF StartTask
    <3>2. row \in CopyRow BY <1>3, <3>1 DEF CopyRow
    <3>3. at' = [at EXCEPT ![w] = "working"] /\ copy' = [copy EXCEPT ![w] = row]
          /\ UNCHANGED <<eventRows, item, outcome, eventHistory>>
      BY <1>5, <2>1 DEF StartTask
    <3> HIDE DEF row
    <3> QED BY <1>4, <3>1, <3>2, <3>3
  <2>2. CASE ~OwnsRow(w, RowOf(item[w])) BY <1>2, <1>5, <2>2 DEF StartTask, EventTypeOK
  <2> QED BY <2>1, <2>2
<1>6. CASE RollBackTask(w)
  <2>1. CASE OwnsRow(w, RowOf(item[w]))
    <3> DEFINE row == [copy[w] EXCEPT !.attempts = RowOf(item[w]).attempts]
    <3>1. at[w] # "idle" /\ copy[w] \in CopyRow BY <1>0, <1>6 DEF RollBackTask, TaskAt, Under
    <3>2. row \in CopyRow BY <1>3, <3>1 DEF CopyRow
    <3>3. at' = [at EXCEPT ![w] = "failing"] /\ copy' = [copy EXCEPT ![w] = row]
          /\ UNCHANGED <<eventRows, item, outcome, eventHistory>>
      BY <1>6, <2>1 DEF RollBackTask
    <3> HIDE DEF row
    <3> QED BY <1>4, <3>1, <3>2, <3>3
  <2>2. CASE ~OwnsRow(w, RowOf(item[w])) BY <1>2, <1>6, <2>2 DEF RollBackTask, EventTypeOK
  <2> QED BY <2>1, <2>2
<1>7. CASE TaskDies(w)
  <2>1. eventFaults' \in 0..MaxEventFaults BY <1>0, <1>7 DEF TaskDies, EventTypeOK
  <2> QED BY <1>2, <1>7, <2>1 DEF TaskDies
<1>8. CASE Deliver(w)
  <2> DEFINE d == item[w][2]
  <2>1. at[w] = "working" /\ item[w][1] = "delivery" BY <1>8 DEF Deliver
  <2>2. d \in Delivery /\ item[w] \in Item /\ item[w] \in {"delivery"} \X Delivery
    <3>1. item[w] \in Item BY <1>3, <2>1
    <3> QED BY <2>1, <3>1, ItemAt
  <2>3. /\ at' = [at EXCEPT ![w] = "answered"] /\ UNCHANGED <<eventRows, item, copy, eventOvertaken, late>>
        /\ \E a \in Answer :
             /\ outcome' = [outcome EXCEPT ![w] = a]
             /\ \/ accepted' = [accepted EXCEPT ![d] = IF a \in {"ok", "lost"} THEN 1 ELSE accepted[d]]
                \/ a = "rejected" /\ accepted' = accepted
        /\ eventFaults' \in {eventFaults, eventFaults + 1} /\ eventFaults' <= MaxEventFaults
    BY <1>8 DEF Deliver, Answer, EventTypeOK
  <2>4. PICK a \in Answer :
             /\ outcome' = [outcome EXCEPT ![w] = a]
             /\ \/ accepted' = [accepted EXCEPT ![d] = IF a \in {"ok", "lost"} THEN 1 ELSE accepted[d]]
                \/ a = "rejected" /\ accepted' = accepted
    BY <2>3
  <2>5. accepted' \in [Delivery -> 0..1] /\ Grows /\ (a = "ok" => accepted'[d] = 1)
    BY <2>2, <2>4 DEF EventTypeOK, Grows
  <2>6. LocalOK' /\ Others(w) /\ at'[w] = "answered" /\ outcome'[w] = a
    BY <1>0, <2>3, <2>4 DEF LocalOK, Others, Same
  <2>7. Stays(w) BY <2>1, <2>3, <2>5, <2>6 DEF Stays
  <2>8. TaskAt(w)' BY <1>0, <2>1, <2>2, <2>3, <2>5, <2>6 DEF TaskAt, Under
  <2>9. eventFaults' \in 0..MaxEventFaults BY <1>0, <2>3 DEF EventTypeOK
  <2> QED BY <1>1, <2>5, <2>6, <2>7, <2>8, <2>9
<1> QED BY <1>5, <1>6, <1>7, <1>8 DEF Quiet

\* What a lease does: an idle task gets the row of item i, and every task that works
\* on that row is overtaken.
Leases(w, i) ==
    /\ at[w] = "idle" /\ Others(w) /\ at'[w] = "leased" /\ item'[w] = i
    /\ \A e \in Event : \/ i # <<"event", e>> /\ outbox'[e] = outbox[e]
                        \/ /\ i = <<"event", e>> /\ AvailableRow(outbox[e])
                           /\ outbox'[e] = LeasedRow(outbox[e], w)
    /\ \A d \in Delivery : \/ i # <<"delivery", d>> /\ delivery'[d] = delivery[d]
                           \/ /\ i = <<"delivery", d>> /\ AvailableRow(delivery[d])
                              /\ delivery'[d] = LeasedRow(delivery[d], w)
    /\ eventOvertaken' = eventOvertaken \cup {v \in EventWorker : item[v] = i}
    /\ UNCHANGED <<hook, receipt, subscription, accepted, late>>

LEMMA LeaseTypes ==
    ASSUME EventTypeOK, TaskInv, NEW w \in EventWorker, LeaseRow(w)
    PROVE  (EventTypeOK /\ TaskInv)' /\ \E i \in Item : Leases(w, i)
<1>0. LocalOK /\ QueuesOK /\ TaskAt(w) /\ Nil \notin Item
  BY EventAssumption DEF EventTypeOK, TaskInv, LocalOK, QueuesOK
<1>1. ASSUME NEW i \in Item, Take(w, i), QueuesOK', Leases(w, i)
      PROVE  (EventTypeOK /\ TaskInv)' /\ \E j \in Item : Leases(w, j)
  <2>1. /\ at[w] = "idle" /\ at' = [at EXCEPT ![w] = "leased"] /\ item' = [item EXCEPT ![w] = i]
        /\ eventOvertaken' = eventOvertaken \cup {v \in EventWorker : item[v] = i}
        /\ UNCHANGED <<hook, receipt, subscription, copy, outcome, eventFaults, accepted, late>>
    BY <1>1 DEF Take
  <2>2. LocalOK' /\ Others(w) /\ at'[w] = "leased" /\ item'[w] = i
    BY <1>0, <2>1 DEF LocalOK, Others, Same
  <2>3. EventTypeOK' BY <1>1, <2>1, <2>2 DEF EventTypeOK, LocalOK, QueuesOK
  <2>4. TaskAt(w)' BY <2>2 DEF TaskAt, Under
  <2>5. \A v \in EventWorker \ {w} : v \in eventOvertaken' => v \in eventOvertaken \/ item[v] # Nil BY <1>0, <2>1
  <2>6. TaskInv' BY <2>1, <2>2, <2>4, <2>5, TaskKept DEF Grows
  <2> QED BY <1>1, <2>3, <2>6
<1>2. ASSUME NEW i \in Item, Take(w, i)
      PROVE  /\ at[w] = "idle" /\ Others(w) /\ at'[w] = "leased" /\ item'[w] = i
             /\ eventOvertaken' = eventOvertaken \cup {v \in EventWorker : item[v] = i}
             /\ UNCHANGED <<hook, receipt, subscription, accepted, late>>
  BY <1>0, <1>2 DEF Take, LocalOK, Others, Same
<1>3. ASSUME NEW e \in Event, LeaseEvent(w, e) PROVE (EventTypeOK /\ TaskInv)' /\ \E i \in Item : Leases(w, i)
  <2> DEFINE i == <<"event", e>>
             row == LeasedRow(outbox[e], w)
  <2>1. i \in Item BY DEF Item
  <2>2. /\ AvailableRow(outbox[e]) /\ outbox' = [outbox EXCEPT ![e] = row] /\ Take(w, i) /\ delivery' = delivery
    BY <1>3 DEF LeaseEvent
  <2>3. row \in Row /\ Consistent(row) BY <1>0, RowsAt DEF QueuesOK
  <2> HIDE DEF row
  <2>4. outbox' \in [Event -> Row] /\ outbox'[e] = row /\ \A f \in Event \ {e} : outbox'[f] = outbox[f]
    BY <1>0, <2>2, <2>3 DEF QueuesOK
  <2>5. \A f \in Event : Consistent(outbox'[f]) BY <1>0, <2>3, <2>4 DEF QueuesOK
  <2>6. QueuesOK' BY <1>0, <2>2, <2>4, <2>5 DEF QueuesOK, Consistent
  <2>7. \A f \in Event : \/ i # <<"event", f>> /\ outbox'[f] = outbox[f]
                         \/ /\ i = <<"event", f>> /\ AvailableRow(outbox[f])
                            /\ outbox'[f] = LeasedRow(outbox[f], w)
    BY <2>2, <2>4 DEF row
  <2>8. \A d \in Delivery : i # <<"delivery", d>> /\ delivery'[d] = delivery[d] BY <2>2
  <2>9. Leases(w, i) BY <1>2, <2>1, <2>2, <2>7, <2>8 DEF Leases
  <2> QED BY <1>1, <2>1, <2>2, <2>6, <2>9
<1>4. ASSUME NEW d \in Delivery, LeaseDelivery(w, d) PROVE (EventTypeOK /\ TaskInv)' /\ \E i \in Item : Leases(w, i)
  <2> DEFINE i == <<"delivery", d>>
             row == LeasedRow(delivery[d], w)
  <2>1. i \in Item BY DEF Item
  <2>2. /\ AvailableRow(delivery[d]) /\ delivery' = [delivery EXCEPT ![d] = row] /\ Take(w, i) /\ outbox' = outbox
    BY <1>4 DEF LeaseDelivery
  <2>3. row \in Row /\ Consistent(row) BY <1>0, RowsAt DEF QueuesOK
  <2> HIDE DEF row
  <2>4. delivery' \in [Delivery -> Row] /\ delivery'[d] = row
        /\ \A f \in Delivery \ {d} : delivery'[f] = delivery[f]
    BY <1>0, <2>2, <2>3 DEF QueuesOK
  <2>5. \A f \in Delivery : Consistent(delivery'[f]) BY <1>0, <2>3, <2>4 DEF QueuesOK
  <2>6. QueuesOK' BY <1>0, <2>2, <2>4, <2>5 DEF QueuesOK, Consistent
  <2>7. \A f \in Delivery : \/ i # <<"delivery", f>> /\ delivery'[f] = delivery[f]
                            \/ /\ i = <<"delivery", f>> /\ AvailableRow(delivery[f])
                               /\ delivery'[f] = LeasedRow(delivery[f], w)
    BY <2>2, <2>4 DEF row
  <2>8. \A e \in Event : i # <<"event", e>> /\ outbox'[e] = outbox[e] BY <2>2
  <2>9. Leases(w, i) BY <1>2, <2>1, <2>2, <2>7, <2>8 DEF Leases
  <2> QED BY <1>1, <2>1, <2>2, <2>6, <2>9
<1> QED BY <1>3, <1>4 DEF LeaseRow

\* A step outside the tasks: rows keep their status and their owner, except that the
\* first webhook of an event writes its outbox row.
Outside ==
    /\ UNCHANGED <<at, item, copy, outcome, accepted, eventOvertaken, late>>
    /\ \A e \in Event : \/ outbox'[e] = outbox[e] /\ (e \in receipt => e \in receipt')
                        \/ e \notin receipt /\ e \in receipt' /\ outbox'[e] = Pending
                        \/ /\ outbox[e].status = "leased" /\ receipt' = receipt
                           /\ outbox'[e].status = "leased" /\ outbox'[e].owner = outbox[e].owner
    /\ \A d \in Delivery : \/ delivery'[d] = delivery[d]
                           \/ /\ delivery[d].status = "leased"
                              /\ delivery'[d].status = "leased" /\ delivery'[d].owner = delivery[d].owner

OutsideStep ==
    \/ \E h \in Hook : HookRead(h) \/ HookWrite(h)
    \/ \E s \in Subscription : CreateEventSubscription(s) \/ DisableEventSubscription(s)
    \/ LeaseExpires
    \/ UNCHANGED eventVars

LEMMA OutsideTypes ==
    ASSUME EventTypeOK, TaskInv, OutsideStep
    PROVE  (EventTypeOK /\ TaskInv)' /\ Outside
<1>0. LocalOK /\ QueuesOK /\ MaxEventFaults \in Nat /\ EventOf \in [Hook -> Event]
  BY EventAssumption DEF EventTypeOK, TaskInv, LocalOK, QueuesOK
<1>1. UNCHANGED <<at, item, copy, outcome, accepted, eventOvertaken, late>>
  BY DEF OutsideStep, HookRead, HookWrite, CreateEventSubscription, DisableEventSubscription, LeaseExpires,
         eventVars, taskVars, eventHistory
<1>2. ASSUME hook' \in [Hook -> {"unsent", "read", "answered"}], receipt' \subseteq Event, QueuesOK',
             subscription' \in [Subscription -> {"absent", "enabled", "disabled"}],
             eventFaults' \in 0..MaxEventFaults
      PROVE  (EventTypeOK /\ TaskInv)'
  <2>1. EventTypeOK' BY <1>1, <1>2 DEF EventTypeOK, QueuesOK
  <2>2. TaskInv' BY <1>1 DEF TaskInv, TaskAt
  <2> QED BY <2>1, <2>2
<1>3. ASSUME UNCHANGED <<receipt, outbox, delivery, eventFaults>>,
             hook' \in [Hook -> {"unsent", "read", "answered"}],
             subscription' \in [Subscription -> {"absent", "enabled", "disabled"}]
      PROVE  (EventTypeOK /\ TaskInv)' /\ Outside
  <2>1. QueuesOK' BY <1>0, <1>3 DEF QueuesOK
  <2>2. Outside BY <1>1, <1>3 DEF Outside
  <2> QED BY <1>2, <1>3, <2>1, <2>2 DEF EventTypeOK
<1>4. ASSUME NEW h \in Hook, HookRead(h) PROVE (EventTypeOK /\ TaskInv)' /\ Outside
  BY <1>3, <1>4 DEF HookRead, eventHistory, EventTypeOK
<1>5. ASSUME NEW s \in Subscription, CreateEventSubscription(s) \/ DisableEventSubscription(s)
      PROVE  (EventTypeOK /\ TaskInv)' /\ Outside
  BY <1>3, <1>5 DEF CreateEventSubscription, DisableEventSubscription, eventHistory, EventTypeOK
<1>6. CASE UNCHANGED eventVars BY <1>3, <1>6 DEF eventVars, eventRows, eventHistory, EventTypeOK
<1>7. ASSUME NEW h \in Hook, HookWrite(h) PROVE (EventTypeOK /\ TaskInv)' /\ Outside
  <2> DEFINE e == EventOf[h]
  <2>1. hook' \in [Hook -> {"unsent", "read", "answered"}] /\ UNCHANGED <<subscription, delivery, eventFaults>>
    BY <1>7 DEF HookWrite, eventHistory, EventTypeOK
  <2>2. CASE e \in receipt
    <3>1. UNCHANGED <<receipt, outbox>> BY <1>7, <2>2 DEF HookWrite
    <3> QED BY <1>3, <2>1, <3>1 DEF EventTypeOK
  <2>3. CASE e \notin receipt
    <3>1. receipt' = receipt \cup {e} /\ outbox' = [outbox EXCEPT ![e] = Pending]
      BY <1>7, <2>3 DEF HookWrite
    <3>2. e \in Event /\ outbox[e] \in Row BY <1>0 DEF QueuesOK
    <3>3. Pending \in Row /\ Consistent(Pending)
      <4>1. MaxDeliveryAttempts \in Nat BY EventAssumption
      <4>2. Pending = [status |-> "pending", owner |-> Nil, lease |-> "null", attempts |-> 0]
        BY DEF Pending, Absent
      <4> QED BY <4>1, <4>2 DEF Row, Consistent
    <3>4. outbox' \in [Event -> Row] /\ outbox'[e] = Pending /\ \A f \in Event \ {e} : outbox'[f] = outbox[f]
      BY <1>0, <3>1, <3>2, <3>3 DEF QueuesOK
    <3>5. \A f \in Event : Consistent(outbox'[f]) BY <1>0, <3>3, <3>4 DEF QueuesOK
    <3>6. QueuesOK' BY <1>0, <2>1, <3>4, <3>5 DEF QueuesOK, Consistent
    <3>7. Outside BY <1>1, <2>1, <2>3, <3>1, <3>4 DEF Outside
    <3>8. receipt' \subseteq Event BY <3>1, <3>2 DEF EventTypeOK
    <3> QED BY <1>2, <2>1, <3>6, <3>7, <3>8 DEF EventTypeOK
  <2> QED BY <2>2, <2>3
<1>8. ASSUME LeaseExpires PROVE (EventTypeOK /\ TaskInv)' /\ Outside
  <2>1. UNCHANGED <<hook, receipt, subscription>> /\ eventFaults' \in 0..MaxEventFaults
    <3>1. eventFaults' = eventFaults \/ eventFaults' = eventFaults + 1 BY <1>8, Zenon DEF LeaseExpires
    <3>2. eventFaults' <= MaxEventFaults /\ UNCHANGED <<hook, receipt, subscription>> BY <1>8, Zenon DEF LeaseExpires
    <3> QED BY <1>0, <3>1, <3>2 DEF EventTypeOK
  <2>2. ASSUME NEW row \in Row, row.lease = "live", Consistent(row)
        PROVE  /\ [row EXCEPT !.lease = "expired"] \in Row /\ Consistent([row EXCEPT !.lease = "expired"])
               /\ row.status = "leased" /\ [row EXCEPT !.lease = "expired"].status = "leased"
               /\ [row EXCEPT !.lease = "expired"].owner = row.owner
    BY <2>2 DEF Row, Consistent
  <2>3. ASSUME NEW e \in Event, outbox[e].lease = "live", outbox' = [outbox EXCEPT ![e].lease = "expired"],
               delivery' = delivery
        PROVE  QueuesOK' /\ Outside
    <3> DEFINE row == [outbox[e] EXCEPT !.lease = "expired"]
    <3>1. /\ row \in Row /\ Consistent(row) /\ outbox[e].status = "leased" /\ row.status = "leased"
          /\ row.owner = outbox[e].owner
      BY <1>0, <2>2, <2>3 DEF QueuesOK
    <3>2. outbox' = [outbox EXCEPT ![e] = row] BY <2>3
    <3> HIDE DEF row
    <3>3. outbox' \in [Event -> Row] /\ outbox'[e] = row /\ \A f \in Event \ {e} : outbox'[f] = outbox[f]
      BY <1>0, <3>1, <3>2 DEF QueuesOK
    <3>4. \A f \in Event : Consistent(outbox'[f]) BY <1>0, <3>1, <3>3 DEF QueuesOK
    <3>5. QueuesOK' BY <1>0, <2>3, <3>3, <3>4 DEF QueuesOK, Consistent
    <3>6. Outside BY <1>1, <2>1, <2>3, <3>1, <3>3 DEF Outside
    <3> QED BY <3>5, <3>6
  <2>4. ASSUME NEW d \in Delivery, delivery[d].lease = "live",
               delivery' = [delivery EXCEPT ![d].lease = "expired"], outbox' = outbox
        PROVE  QueuesOK' /\ Outside
    <3> DEFINE row == [delivery[d] EXCEPT !.lease = "expired"]
    <3>1. /\ row \in Row /\ Consistent(row) /\ delivery[d].status = "leased" /\ row.status = "leased"
          /\ row.owner = delivery[d].owner
      BY <1>0, <2>2, <2>4 DEF QueuesOK
    <3>2. delivery' = [delivery EXCEPT ![d] = row] BY <2>4
    <3> HIDE DEF row
    <3>3. delivery' \in [Delivery -> Row] /\ delivery'[d] = row
          /\ \A f \in Delivery \ {d} : delivery'[f] = delivery[f]
      BY <1>0, <3>1, <3>2 DEF QueuesOK
    <3>4. \A f \in Delivery : Consistent(delivery'[f]) BY <1>0, <3>1, <3>3 DEF QueuesOK
    <3>5. QueuesOK' BY <1>0, <2>4, <3>3, <3>4 DEF QueuesOK, Consistent
    <3>6. Outside BY <1>1, <2>1, <2>4, <3>1, <3>3 DEF Outside
    <3> QED BY <3>5, <3>6
  <2>5. QueuesOK' /\ Outside BY <1>8, <2>3, <2>4 DEF LeaseExpires
  <2> QED BY <1>2, <2>1, <2>5 DEF EventTypeOK
<1> QED BY <1>4, <1>5, <1>6, <1>7, <1>8 DEF OutsideStep

-----------------------------------------------------------------------------
(* The invariant.                                                          *)

LEMMA InitInv == EventInit => Inv
<1> SUFFICES ASSUME EventInit PROVE Inv
  OBVIOUS
<1>1. MaxDeliveryAttempts \in Nat /\ MaxEventFaults \in Nat BY EventAssumption
<1>2. Absent \in Row /\ Consistent(Absent) /\ Absent.status = "absent"
  BY <1>1 DEF Absent, Row, Consistent
<1>3. EventTypeOK
  <2>1. QueuesOK BY <1>2 DEF EventInit, QueuesOK
  <2>2. 0 \in 0..MaxEventFaults BY <1>1
  <2>3. /\ hook \in [Hook -> {"unsent", "read", "answered"}] /\ receipt \subseteq Event
        /\ subscription \in [Subscription -> {"absent", "enabled", "disabled"}]
        /\ at \in [EventWorker -> {"idle", "leased", "working", "answered", "failing"}]
        /\ eventFaults \in 0..MaxEventFaults /\ eventOvertaken \subseteq EventWorker /\ late \in BOOLEAN
        /\ item \in [EventWorker -> Item \cup {Nil}]
    BY <2>2 DEF EventInit
  <2>4. accepted \in [Delivery -> 0..1] BY DEF EventInit
  <2> QED BY <2>1, <2>3, <2>4 DEF EventTypeOK, QueuesOK
<1>4. TaskInv
  <2>1. copy \in [EventWorker -> CopyRow \cup {Nil}] /\ outcome \in [EventWorker -> Answer \cup {Nil}] BY DEF EventInit
  <2>2. \A w \in EventWorker : at[w] = "idle" /\ item[w] = Nil /\ w \notin eventOvertaken BY DEF EventInit
  <2> QED BY <2>1, <2>2 DEF TaskInv, TaskAt, Under
<1>5. ReceiptInv
  <2>1. \A e \in Event : <<"event", e>> # Nil BY EventAssumption DEF Item
  <2>2. \A w \in EventWorker : item[w] = Nil BY DEF EventInit
  <2> QED BY <1>2, <2>1, <2>2 DEF EventInit, ReceiptInv
<1>6. OwnInv BY DEF EventInit, OwnInv
<1>7. DeliveredIsTrue BY <1>2 DEF EventInit, DeliveredIsTrue
<1> QED BY <1>3, <1>4, <1>5, <1>6, <1>7 DEF Inv

\* Every step is one of four kinds.
LEMMA Kinds ==
    ASSUME [EventNext]_eventVars
    PROVE  OutsideStep \/ \E w \in EventWorker : Commits(w) \/ Quiet(w) \/ LeaseRow(w)
BY DEF EventNext, TaskStep, OutsideStep, Commits, Quiet

LEMMA TypeStep ==
    ASSUME EventTypeOK, TaskInv, [EventNext]_eventVars
    PROVE  (EventTypeOK /\ TaskInv)'
BY Kinds, CommitTypes, QuietTypes, LeaseTypes, OutsideTypes

\* A row that a task owns is the outbox row or the delivery its item names.
LEMMA OwnsAt ==
    ASSUME NEW w, NEW i \in Item
    PROVE  /\ \A e \in Event : i = <<"event", e>> => RowOf(i) = outbox[e] /\ RowOf(i)' = outbox'[e]
           /\ \A d \in Delivery : i = <<"delivery", d>> => RowOf(i) = delivery[d] /\ RowOf(i)' = delivery'[d]
           /\ \/ \E e \in Event : i = <<"event", e>>
              \/ \E d \in Delivery : i = <<"delivery", d>>
BY ItemAt DEF RowOf

\* A row is left alone by a step: it stays the same, or it had no owner.
LEMMA KeepsOwner ==
    ASSUME NEW w \in EventWorker, NEW i \in Item, OwnsRow(w, RowOf(i)),
           \A e \in Event : i = <<"event", e>> => \/ outbox'[e] = outbox[e]
                                                  \/ outbox[e].status # "leased"
                                                  \/ /\ outbox'[e].status = outbox[e].status
                                                     /\ outbox'[e].owner = outbox[e].owner,
           \A d \in Delivery : i = <<"delivery", d>> => \/ delivery'[d] = delivery[d]
                                                        \/ delivery[d].status # "leased"
                                                        \/ /\ delivery'[d].status = delivery[d].status
                                                           /\ delivery'[d].owner = delivery[d].owner
    PROVE  OwnsRow(w, RowOf(i)')
BY OwnsAt DEF OwnsRow

\* A commit in time is one of the row's owner.
LEMMA InTime ==
    ASSUME EventTypeOK, TaskInv, OwnInv, NEW w \in EventWorker, Commits(w), ~late'
    PROVE  ~late /\ w \notin eventOvertaken /\ item[w] \in Item /\ OwnsRow(w, RowOf(item[w]))
<1>1. \E status \in {"retry", "delivered", "dead_letter"} : Ends(w, status) BY CommitAt
<1>2. at[w] \in Under /\ item[w] \in Item /\ late' = (late \/ w \in eventOvertaken) BY <1>1 DEF Ends
<1>3. ~late /\ w \notin eventOvertaken BY <1>2, Zenon
<1> QED BY <1>2, <1>3 DEF OwnInv, Under

\* The tasks that were not overtaken keep their rows.
LEMMA OwnStep ==
    ASSUME EventTypeOK, TaskInv, ReceiptInv, OwnInv, [EventNext]_eventVars
    PROVE  OwnInv'
<1> SUFFICES ASSUME ~late', NEW v \in EventWorker, at'[v] # "idle", v \notin eventOvertaken'
             PROVE  OwnsRow(v, RowOf(item[v]))'
  BY Zenon DEF OwnInv
<1>0. ASSUME ~late, at[v] # "idle", v \notin eventOvertaken
      PROVE  \E i \in Item : i = item[v] /\ OwnsRow(v, RowOf(i))
  BY <1>0 DEF OwnInv, TaskInv, TaskAt
<1>1. ASSUME NEW w \in EventWorker, Commits(w) PROVE OwnsRow(v, RowOf(item[v]))'
  <2>1. PICK status \in {"retry", "delivered", "dead_letter"} : Ends(w, status) BY <1>1, CommitAt
  <2>2. v # w /\ v \notin eventOvertaken BY <2>1 DEF Ends
  <2>3. at'[v] = at[v] /\ item'[v] = item[v] BY <2>1, <2>2 DEF Ends, Others, Same
  <2>4. ~late /\ item[w] \in Item /\ OwnsRow(w, RowOf(item[w])) BY <1>1, InTime
  <2>5. PICK i \in Item : i = item[v] /\ OwnsRow(v, RowOf(i)) BY <1>0, <2>2, <2>3, <2>4
  <2>6. i # item[w] BY <2>2, <2>4, <2>5 DEF OwnsRow
  <2>7. \A e \in Event : i = <<"event", e>> => outbox'[e] = outbox[e]
    BY <2>1, <2>6 DEF Ends
  <2>8. \A d \in Delivery : i = <<"delivery", d>> => delivery'[d] = delivery[d] \/ delivery[d].status # "leased"
    BY <2>1, <2>6 DEF Ends
  <2>9. OwnsRow(v, RowOf(i)') BY <2>5, <2>7, <2>8, KeepsOwner
  <2> QED BY <2>3, <2>5, <2>9 DEF RowOf
<1>2. ASSUME NEW w \in EventWorker, Quiet(w) PROVE OwnsRow(v, RowOf(item[v]))'
  <2>1. Stays(w) BY <1>2, QuietTypes
  <2>2. item'[v] = item[v] /\ at[v] # "idle" /\ v \notin eventOvertaken /\ ~late
    BY <2>1 DEF Stays, Others, Same
  <2>3. PICK i \in Item : i = item[v] /\ OwnsRow(v, RowOf(i)) BY <1>0, <2>2
  <2> QED BY <2>1, <2>2, <2>3 DEF Stays, eventRows, RowOf
<1>3. ASSUME NEW w \in EventWorker, LeaseRow(w) PROVE OwnsRow(v, RowOf(item[v]))'
  <2>1. PICK i \in Item : Leases(w, i) BY <1>3, LeaseTypes
  <2>2. CASE v = w
    <3>1. item'[v] = i BY <2>1, <2>2 DEF Leases
    <3>0. \A row : OwnsRow(w, LeasedRow(row, w)) BY DEF OwnsRow, LeasedRow
    <3>2. \A e \in Event : i = <<"event", e>> => outbox'[e] = LeasedRow(outbox[e], w) BY <2>1 DEF Leases
    <3>3. \A d \in Delivery : i = <<"delivery", d>> => delivery'[d] = LeasedRow(delivery[d], w)
      BY <2>1 DEF Leases
    <3>4. OwnsRow(w, RowOf(i)')
      <4>1. CASE \E e \in Event : i = <<"event", e>> BY <3>0, <3>2, <4>1, OwnsAt
      <4>2. CASE \E d \in Delivery : i = <<"delivery", d>> BY <3>0, <3>3, <4>2, OwnsAt
      <4> QED BY <4>1, <4>2, OwnsAt
    <3> QED BY <2>2, <3>1, <3>4 DEF RowOf
  <2>3. CASE v # w
    <3>1. Same(v) /\ v \notin eventOvertaken /\ item[v] # i /\ ~late BY <2>1, <2>3 DEF Leases, Others
    <3>2. PICK j \in Item : j = item[v] /\ OwnsRow(v, RowOf(j)) BY <1>0, <3>1 DEF Same
    <3>3. \A e \in Event : j = <<"event", e>> => outbox'[e] = outbox[e] BY <2>1, <3>1, <3>2 DEF Leases
    <3>4. \A d \in Delivery : j = <<"delivery", d>> => delivery'[d] = delivery[d]
      BY <2>1, <3>1, <3>2 DEF Leases
    <3>5. OwnsRow(v, RowOf(j)') BY <3>2, <3>3, <3>4, KeepsOwner
    <3> QED BY <3>1, <3>2, <3>5 DEF RowOf, Same
  <2> QED BY <2>2, <2>3
<1>4. ASSUME OutsideStep PROVE OwnsRow(v, RowOf(item[v]))'
  <2>1. Outside BY <1>4, OutsideTypes
  <2>2. item' = item /\ at' = at /\ eventOvertaken' = eventOvertaken /\ late' = late BY <2>1 DEF Outside
  <2>3. PICK i \in Item : i = item[v] /\ OwnsRow(v, RowOf(i)) BY <1>0, <2>2
  <2>4. \A e \in Event : \/ outbox'[e] = outbox[e]
                         \/ outbox[e].status # "leased"
                         \/ outbox'[e].status = outbox[e].status /\ outbox'[e].owner = outbox[e].owner
    BY <2>1 DEF Outside, ReceiptInv
  <2>5. \A d \in Delivery : \/ delivery'[d] = delivery[d]
                            \/ delivery'[d].status = delivery[d].status /\ delivery'[d].owner = delivery[d].owner
    BY <2>1 DEF Outside
  <2>6. OwnsRow(v, RowOf(i)') BY <2>3, <2>4, <2>5, KeepsOwner
  <2> QED BY <2>2, <2>3, <2>6 DEF RowOf
<1> QED BY <1>1, <1>2, <1>3, <1>4, Kinds

\* The outbox row of an event that no webhook has brought is neither leased nor
\* committed.
LEMMA ReceiptStep ==
    ASSUME EventTypeOK, TaskInv, ReceiptInv, [EventNext]_eventVars
    PROVE  ReceiptInv'
<1> SUFFICES ASSUME NEW e \in Event, e \notin receipt'
             PROVE  outbox'[e].status = "absent" /\ \A v \in EventWorker : item'[v] # <<"event", e>>
  BY DEF ReceiptInv
<1>0. <<"event", e>> # Nil BY EventAssumption DEF Item
<1>1. ASSUME NEW w \in EventWorker, Commits(w)
      PROVE  outbox'[e].status = "absent" /\ \A v \in EventWorker : item'[v] # <<"event", e>>
  <2>1. PICK status \in {"retry", "delivered", "dead_letter"} : Ends(w, status) BY <1>1, CommitAt
  <2>2. receipt' = receipt /\ item'[w] = Nil /\ \A v \in EventWorker \ {w} : item'[v] = item[v]
    BY <2>1 DEF Ends, Others, Same
  <2>3. outbox[e].status = "absent" /\ \A v \in EventWorker : item[v] # <<"event", e>> BY <2>2 DEF ReceiptInv
  <2>4. outbox'[e] = outbox[e] BY <2>1, <2>3 DEF Ends
  <2> QED BY <1>0, <2>2, <2>3, <2>4
<1>2. ASSUME NEW w \in EventWorker, Quiet(w)
      PROVE  outbox'[e].status = "absent" /\ \A v \in EventWorker : item'[v] # <<"event", e>>
  <2>1. Stays(w) /\ TaskInv' BY <1>2, QuietTypes
  <2>2. receipt' = receipt /\ outbox' = outbox /\ \A v \in EventWorker \ {w} : item'[v] = item[v]
    BY <2>1 DEF Stays, Others, Same, eventRows
  <2>3. item'[w] \in {Nil, item[w]} BY <2>1 DEF Stays, TaskInv, TaskAt
  <2> QED BY <1>0, <2>2, <2>3 DEF ReceiptInv
<1>3. ASSUME NEW w \in EventWorker, LeaseRow(w)
      PROVE  outbox'[e].status = "absent" /\ \A v \in EventWorker : item'[v] # <<"event", e>>
  <2>1. PICK i \in Item : Leases(w, i) BY <1>3, LeaseTypes
  <2>2. receipt' = receipt /\ item'[w] = i /\ \A v \in EventWorker \ {w} : item'[v] = item[v]
    BY <2>1 DEF Leases, Others, Same
  <2>3. outbox[e].status = "absent" /\ \A v \in EventWorker : item[v] # <<"event", e>> BY <2>2 DEF ReceiptInv
  <2>4. i # <<"event", e>> /\ outbox'[e] = outbox[e] BY <2>1, <2>3 DEF Leases, AvailableRow
  <2> QED BY <2>2, <2>3, <2>4
<1>4. ASSUME OutsideStep
      PROVE  outbox'[e].status = "absent" /\ \A v \in EventWorker : item'[v] # <<"event", e>>
  <2>1. Outside BY <1>4, OutsideTypes
  <2> QED BY <2>1 DEF Outside, ReceiptInv
<1> QED BY <1>1, <1>2, <1>3, <1>4, Kinds

\* A delivery becomes delivered only when its subscriber has answered 2xx.
LEMMA TrueStep ==
    ASSUME EventTypeOK, TaskInv, DeliveredIsTrue, [EventNext]_eventVars
    PROVE  DeliveredIsTrue'
<1> SUFFICES ASSUME NEW d \in Delivery, delivery'[d].status = "delivered" PROVE accepted'[d] = 1
  BY DEF DeliveredIsTrue
<1>0. delivery[d].status = "delivered" => accepted[d] = 1 BY DEF DeliveredIsTrue
<1>1. ASSUME NEW w \in EventWorker, Commits(w) PROVE accepted'[d] = 1
  <2>1. PICK status \in {"retry", "delivered", "dead_letter"} :
          /\ Ends(w, status)
          /\ status = "delivered" => \/ item[w][1] = "event"
                                     \/ at[w] = "answered" /\ outcome[w] = "ok"
    BY <1>1, CommitAt
  <2>2. accepted' = accepted BY <2>1 DEF Ends
  <2>3. CASE delivery'[d] = delivery[d] BY <1>0, <2>2, <2>3
  <2>4. CASE delivery'[d] = Pending BY <2>4 DEF Pending, Absent
  <2>5. CASE item[w] = <<"delivery", d>> /\ delivery'[d] = ReleasedRow(delivery[d], status)
    <3>1. status = "delivered" BY <2>5 DEF ReleasedRow
    <3>2. item[w][1] # "event" /\ item[w][2] = d BY <2>5
    <3> QED BY <2>1, <2>2, <3>1, <3>2 DEF TaskInv, TaskAt
  <2> QED BY <2>1, <2>3, <2>4, <2>5 DEF Ends
<1>2. ASSUME NEW w \in EventWorker, Quiet(w) PROVE accepted'[d] = 1
  <2>1. Stays(w) BY <1>2, QuietTypes
  <2> QED BY <1>0, <2>1 DEF Stays, Grows, eventRows
<1>3. ASSUME NEW w \in EventWorker, LeaseRow(w) PROVE accepted'[d] = 1
  <2>1. PICK i \in Item : Leases(w, i) BY <1>3, LeaseTypes
  <2>2. accepted' = accepted /\ (delivery'[d] = delivery[d] \/ delivery'[d] = LeasedRow(delivery[d], w))
    BY <2>1 DEF Leases
  <2>3. LeasedRow(delivery[d], w).status = "leased" BY DEF LeasedRow
  <2> QED BY <1>0, <2>2, <2>3
<1>4. ASSUME OutsideStep PROVE accepted'[d] = 1
  <2>1. Outside BY <1>4, OutsideTypes
  <2> QED BY <1>0, <2>1 DEF Outside
<1> QED BY <1>1, <1>2, <1>3, <1>4, Kinds

\* A row that is delivered is changed only by a task that was overtaken.
LEMMA FinalStep ==
    ASSUME EventTypeOK, TaskInv, ReceiptInv, OwnInv, [EventNext]_eventVars, ~late'
    PROVE  /\ \A e \in Event : outbox[e].status = "delivered" => outbox'[e] = outbox[e]
           /\ \A d \in Delivery : delivery[d].status = "delivered" => delivery'[d] = delivery[d]
<1> DEFINE Kept == /\ \A e \in Event : outbox[e].status = "delivered" => outbox'[e] = outbox[e]
                   /\ \A d \in Delivery : delivery[d].status = "delivered" => delivery'[d] = delivery[d]
<1>1. ASSUME NEW w \in EventWorker, Commits(w) PROVE Kept
  <2>1. PICK status \in {"retry", "delivered", "dead_letter"} : Ends(w, status) BY <1>1, CommitAt
  <2>2. PICK i \in Item : i = item[w] /\ OwnsRow(w, RowOf(i)) BY <1>1, InTime
  <2>3. \A e \in Event : i = <<"event", e>> => outbox[e].status = "leased" BY <2>2, OwnsAt DEF OwnsRow
  <2>4. \A d \in Delivery : i = <<"delivery", d>> => delivery[d].status = "leased" BY <2>2, OwnsAt DEF OwnsRow
  <2> QED BY <2>1, <2>2, <2>3, <2>4 DEF Ends
<1>2. ASSUME NEW w \in EventWorker, Quiet(w) PROVE Kept
  BY <1>2, QuietTypes DEF Stays, eventRows
<1>3. ASSUME NEW w \in EventWorker, LeaseRow(w) PROVE Kept
  <2>1. PICK i \in Item : Leases(w, i) BY <1>3, LeaseTypes
  <2> QED BY <2>1 DEF Leases, AvailableRow
<1>4. ASSUME OutsideStep PROVE Kept
  <2>1. Outside BY <1>4, OutsideTypes
  <2> QED BY <2>1 DEF Outside, ReceiptInv
<1> HIDE DEF Kept
<1>5. Kept BY <1>1, <1>2, <1>3, <1>4, Kinds
<1> QED BY <1>5 DEF Kept

-----------------------------------------------------------------------------
(* The theorems.                                                           *)

LEMMA InvStep == Inv /\ [EventNext]_eventVars => Inv'
BY TypeStep, ReceiptStep, OwnStep, TrueStep DEF Inv

\* The invariant holds for any number of tasks, webhooks, events and subscriptions:
\* the types of the rows, what each task holds, receipts before rows, ownership
\* until a late commit, and deliveries that were made.
THEOREM Invariance == EventSpec => []Inv
<1>1. EventInit => Inv BY InitInv
<1>2. Inv /\ [EventNext]_eventVars => Inv' BY InvStep
<1> QED BY <1>1, <1>2, PTL DEF EventSpec

\* Every variable has its type, and a row of either queue is leased exactly when it
\* has an owner and a lease, whichever tasks commit late.
THEOREM TypeCorrect == EventSpec => []EventTypeOK
<1>1. EventSpec => []Inv BY Invariance
<1>2. Inv => EventTypeOK BY DEF Inv
<1> QED BY <1>1, <1>2, PTL

\* A delivery that is recorded as delivered was accepted by its subscriber with a 2xx
\* answer (deliveries.py deliver, then complete), through crashes, lost answers,
\* expired leases and commits of overtaken tasks.
THEOREM DeliveriesAreTrue == EventSpec => []DeliveredIsTrue
<1>1. EventSpec => []Inv BY Invariance
<1>2. Inv => DeliveredIsTrue BY DEF Inv
<1> QED BY <1>1, <1>2, PTL

\* A fanned-out event and an acknowledged delivery are not opened again by a duplicate
\* webhook, a retry or a take-over; only a task that commits after its lease was given
\* away (complete and fail look at the copy it loaded) can do that.
THEOREM DeliveriesAreFinal == EventSpec => DeliveredIsFinal
<1> DEFINE Step == /\ \A e \in Event : outbox[e].status = "delivered" /\ outbox'[e] # outbox[e] => late'
                   /\ \A d \in Delivery : delivery[d].status = "delivered" /\ delivery'[d] # delivery[d] => late'
<1>1. EventSpec => []Inv BY Invariance
<1>2. Inv /\ [EventNext]_eventVars => [Step]_eventVars
  <2> SUFFICES ASSUME Inv, [EventNext]_eventVars PROVE Step
    OBVIOUS
  <2>1. CASE late' BY <2>1
  <2>2. CASE ~late' BY <2>2, FinalStep DEF Inv
  <2> QED BY <2>1, <2>2
<1>3. DeliveredIsFinal <=> [][Step]_eventVars BY DEF DeliveredIsFinal
<1> HIDE DEF Step
<1> QED BY <1>1, <1>2, <1>3, PTL DEF EventSpec
=============================================================================
