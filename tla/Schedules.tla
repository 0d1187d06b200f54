------------------------------ MODULE Schedules ------------------------------
(***************************************************************************)
(* Scheduled workflows: the rows that say when a workflow runs next        *)
(* (workflow_schedules), the schedulers of all replicas that fire them     *)
(* (packages/workflow/scheduler.py, _enqueue_due_schedules), and the       *)
(* owner's requests that arm and disarm them (provider.py, concurrency.py).*)
(*                                                                         *)
(* A scheduler's transaction locks the due rows (FOR UPDATE SKIP LOCKED)   *)
(* until it commits and reads each workflow without a lock.  A request     *)
(* loads the workflow, then its schedule, and commits later; an update     *)
(* locks the workflow row in between but goes on with the copy it loaded   *)
(* before.  SQLAlchemy writes a column only when its value differs from    *)
(* the loaded one (Column).  A lease on a schedule row is taken and given  *)
(* back in one transaction, so nobody ever sees it.                        *)
(***************************************************************************)
EXTENDS Naturals, FiniteSets

CONSTANTS
    Workflow,    \* numbered as they are created; each has at most one schedule row
    Scheduler,   \* replicas
    Request,     \* requests of the owner, one operation each, numbered as they arrive
    Offer,       \* the schedules a request may ask for: [type, at, every]
    ScheduleBatch,   \* limit(25)
    MaxTime,     \* bound on the clock
    MaxRequests, \* bound on requests, those that create a workflow included
    MaxTimerFaults,   \* bound on crashes and on deletions of owners
    Null

VARIABLES
    now,         \* the clock, in seconds
    definition,  \* workflow_definitions: status, current_version, owner; Null before create
    schedule,    \* workflow_schedules: id, spec, enabled, next_run_at; Null if absent
    scheduled,   \* occurrences with a run under the dedupe key of the schedule row
    lock,        \* who holds the row lock of a workflow
    locked,      \* the schedule rows a scheduler holds
    plan,        \* what its transaction has decided for each of them
    request,     \* each request: where it is, its operation and what it loaded
    timerFaults,
    first,       \* the occurrence a schedule was last armed for, if nothing overlapped (history)
    earlier,     \* the runs it had then (history)
    blind        \* workflows switched off by a request with an old copy of the row (history)

rows == <<now, definition, schedule, scheduled>>
history == <<timerFaults, first, earlier, blind>>
timerVars == <<rows, lock, locked, plan, request, history>>

-----------------------------------------------------------------------------
Time == 0..2 * MaxTime
Status == {"enabled", "disabled", "archived"}
Definition == [status : Status, version : Nat, owned : BOOLEAN]
ScheduleRow == [id : Nat, spec : Offer, enabled : BOOLEAN, next : Time \cup {Null}]
Operation == {"update", "enable", "disable", "archive"}

RequestRow == [at : {"idle", "loaded", "read", "done"}, op : Operation \cup {Null},
               workflow : Workflow \cup {Null}, offer : Offer \cup {Null},
               definition : Definition \cup {Null}, row : ScheduleRow \cup {Null},
               next : Time \cup {Null}]

\* The clock and the schedules stay within Time: an interval is not longer than
\* the clock runs, and no occurrence is asked for beyond the horizon.
ASSUME TimeAssumption == MaxTime \in Nat \ {0} /\ MaxTimerFaults \in Nat
ASSUME OfferAssumption ==
    \A spec \in Offer :
        /\ spec.type \in {"once", "interval", "calendar"}
        /\ spec.type = "once" => spec.at \in Time
        /\ spec.type = "interval" => spec.at \in Time \cup {Null} /\ spec.every \in 1..MaxTime
        /\ spec.type = "calendar" => spec.at \subseteq Time
ASSUME NullAssumption ==
    Null \notin Nat \cup Offer \cup Workflow \cup Definition \cup ScheduleRow

\* A request that has not begun, or is over.
Quiet(state) == [at |-> state, op |-> Null, workflow |-> Null, offer |-> Null,
                 definition |-> Null, row |-> Null, next |-> Null]

TimerTypeOK ==
    /\ now \in 1..MaxTime
    /\ definition \in [Workflow -> Definition \cup {Null}]
    /\ schedule \in [Workflow -> ScheduleRow \cup {Null}]
    /\ scheduled \in [Workflow -> SUBSET Time]
    /\ lock \in [Workflow -> Scheduler \cup Request \cup {Null}]
    /\ locked \in [Scheduler -> SUBSET Workflow]
    /\ plan \in [Scheduler -> [Workflow -> {"none", "off", "fire", "exhaust"}]]
    /\ request \in [Request -> RequestRow]
    /\ timerFaults \in 0..MaxTimerFaults
    /\ first \in [Workflow -> Time \cup {Null}]
    /\ earlier \in [Workflow -> SUBSET Time]
    /\ blind \subseteq Workflow

TimerInit ==
    /\ now = 1
    /\ definition = [w \in Workflow |-> Null]
    /\ schedule = [w \in Workflow |-> Null]
    /\ scheduled = [w \in Workflow |-> {}]
    /\ lock = [w \in Workflow |-> Null]
    /\ locked = [s \in Scheduler |-> {}]
    /\ plan = [s \in Scheduler |-> [w \in Workflow |-> "none"]]
    /\ request = [r \in Request |-> Quiet("idle")]
    /\ timerFaults = 0
    /\ first = [w \in Workflow |-> Null]
    /\ earlier = [w \in Workflow |-> {}]
    /\ blind = {}

\* Room for another request.
Spare == Cardinality({w \in Workflow : definition[w] # Null})
         + Cardinality({r \in Request : request[r].at # "idle"}) < MaxRequests

-----------------------------------------------------------------------------
(* next_schedule_time.  The calendar of a daily, weekly or cron schedule is *)
(* the set of the times it names in the horizon of the search.              *)

\* The search of a cron schedule is given up with an error after a year (29 February).
Raises(spec, after) == spec.type = "calendar" /\ \A t \in spec.at : t <= after

\* The next occurrence strictly after a time, Null if there is none.
NextScheduleTime(spec, after) ==
    CASE spec.type = "once" -> IF spec.at > after THEN spec.at ELSE Null
      [] spec.type = "interval" ->
           LET start == IF spec.at = Null THEN after ELSE spec.at
           IN  IF start > after THEN start
               ELSE start + ((after - start) \div spec.every + 1) * spec.every
      [] OTHER -> CHOOSE t \in spec.at : t > after /\ \A u \in spec.at : u > after => t <= u

-----------------------------------------------------------------------------
(* The scheduler. *)

\* Mutant: an occurrence is due only when its time has passed.
BugDue(w) ==
    /\ schedule[w] # Null
    /\ schedule[w].enabled /\ schedule[w].next # Null /\ schedule[w].next < now

Due(w) ==
    /\ schedule[w] # Null
    /\ schedule[w].enabled /\ schedule[w].next # Null /\ schedule[w].next <= now

\* No scheduler holds the row of the schedule.
RowFree(w) == \A s \in Scheduler : w \notin locked[s]

\* The transaction ends and with it the row locks.
EndBatch(s) ==
    /\ locked' = [locked EXCEPT ![s] = {}]
    /\ plan' = [plan EXCEPT ![s] = [w \in Workflow |-> "none"]]

Unlocked(holder) == [w \in Workflow |-> IF lock[w] = holder THEN Null ELSE lock[w]]

\* The oldest due rows that nobody holds, up to the limit.
SelectDue(s) ==
    LET free == {w \in Workflow : Due(w) /\ RowFree(w)} IN
    /\ locked[s] = {}
    /\ free # {}
    /\ \E batch \in SUBSET free :
         /\ Cardinality(batch) = IF Cardinality(free) < ScheduleBatch THEN Cardinality(free) ELSE ScheduleBatch
         /\ \A w \in batch, v \in free \ batch : schedule[w].next <= schedule[v].next
         /\ locked' = [locked EXCEPT ![s] = batch]
    /\ UNCHANGED <<rows, lock, plan, request, history>>

\* Mutant: the schedule goes on from the present.
BugFollowing(w) == NextScheduleTime(schedule[w].spec, now)

\* The occurrence after the one that fires.
Following(w) == NextScheduleTime(schedule[w].spec, schedule[w].next)

\* next_schedule_time raises, or queue_workflow_run does: "no executable
\* authority user".
FiringRaises(w) ==
    /\ definition[w].status = "enabled"
    /\ \/ Raises(schedule[w].spec, schedule[w].next)
       \/ schedule[w].next \notin scheduled[w] /\ ~definition[w].owned

Verdict(w) ==
    CASE definition[w].status # "enabled" -> "off"
      [] definition[w].status = "enabled" /\ Following(w) = Null -> "exhaust"
      [] OTHER -> "fire"

\* One round of the loop over the due rows.  The rows it inserts share the lock
\* of the workflow they refer to, which an update excludes; the last occurrence
\* also disables the workflow, and that UPDATE takes the lock.
Fire(s, w) ==
    /\ w \in locked[s] /\ plan[s][w] = "none"
    /\ ~FiringRaises(w)
    /\ plan' = [plan EXCEPT ![s][w] = Verdict(w)]
    /\ \/ Verdict(w) = "off" /\ UNCHANGED lock
       \/ Verdict(w) = "fire" /\ lock[w] \notin Request /\ UNCHANGED lock
       \/ Verdict(w) = "exhaust" /\ lock[w] = Null /\ lock' = [lock EXCEPT ![w] = s]
    /\ UNCHANGED <<rows, locked, request, history>>

\* An exception leaves _enqueue_due_schedules: the whole batch is rolled back.
Abort(s) ==
    /\ \E w \in locked[s] : plan[s][w] = "none" /\ FiringRaises(w)
    /\ EndBatch(s)
    /\ lock' = Unlocked(s)
    /\ UNCHANGED <<rows, request, history>>

\* Runs, schedules and exhausted workflows become durable together.
CommitBatch(s) ==
    LET did(w, verdicts) == w \in locked[s] /\ plan[s][w] \in verdicts IN
    /\ locked[s] # {}
    /\ \A w \in locked[s] : plan[s][w] # "none"
    /\ scheduled' = [w \in Workflow |->
                       IF did(w, {"fire", "exhaust"}) THEN scheduled[w] \cup {schedule[w].next}
                       ELSE scheduled[w]]
    /\ schedule' = [w \in Workflow |->
                      CASE did(w, {"off"}) -> [schedule[w] EXCEPT !.enabled = FALSE]
                        [] did(w, {"fire"}) -> [schedule[w] EXCEPT !.next = Following(w)]
                        [] did(w, {"exhaust"}) -> [schedule[w] EXCEPT !.next = Null, !.enabled = FALSE]
                        [] OTHER -> schedule[w]]
    /\ definition' = [w \in Workflow |->
                        IF did(w, {"exhaust"}) THEN [definition[w] EXCEPT !.status = "disabled"]
                        ELSE definition[w]]
    /\ first' = [w \in Workflow |-> IF did(w, {"off"}) THEN Null ELSE first[w]]
    /\ EndBatch(s)
    /\ lock' = Unlocked(s)
    /\ UNCHANGED <<now, request, timerFaults, earlier, blind>>

EnqueueDue(s) == SelectDue(s) \/ (\E w \in Workflow : Fire(s, w)) \/ Abort(s) \/ CommitBatch(s)

\* The replica dies; the database rolls its transaction back.
SchedulerDies(s) ==
    /\ timerFaults < MaxTimerFaults
    /\ locked[s] # {}
    /\ timerFaults' = timerFaults + 1
    /\ EndBatch(s)
    /\ lock' = Unlocked(s)
    /\ UNCHANGED <<rows, request, first, earlier, blind>>

-----------------------------------------------------------------------------
(* Requests. *)

\* _future_schedule_time, a second before now.
FutureTime(spec, enabled) ==
    IF spec = Null \/ ~enabled THEN Null ELSE NextScheduleTime(spec, now - 1)

\* ... which refuses a schedule without a future occurrence.
Refused(spec, enabled) ==
    /\ spec # Null /\ enabled
    /\ Raises(spec, now - 1) \/ NextScheduleTime(spec, now - 1) = Null

\* _create
Create(w) ==
    /\ definition[w] = Null /\ Spare
    /\ \A v \in Workflow : v < w => definition[v] # Null
    /\ \E spec \in Offer \cup {Null}, enabled \in BOOLEAN :
         /\ ~Refused(spec, enabled)
         /\ definition' = [definition EXCEPT ![w] =
                             [status |-> IF enabled THEN "enabled" ELSE "disabled",
                              version |-> 1, owned |-> TRUE]]
         /\ schedule' = [schedule EXCEPT ![w] =
                           IF spec = Null THEN Null
                           ELSE [id |-> 1, spec |-> spec, enabled |-> enabled,
                                 next |-> FutureTime(spec, enabled)]]
         /\ first' = [first EXCEPT ![w] = FutureTime(spec, enabled)]
    /\ UNCHANGED <<now, scheduled, lock, locked, plan, request, timerFaults, earlier, blind>>

\* _workflow: the definition is loaded; an archived one is not edited or enabled.
Load(r) ==
    /\ request[r].at = "idle" /\ Spare
    /\ \A q \in Request : q < r => request[q].at # "idle"
    /\ \E w \in Workflow, op \in Operation, offer \in Offer \cup {Null} :
         /\ definition[w] # Null
         /\ definition[w].status = "archived" => op \in {"disable", "archive"}
         /\ op # "update" => offer = Null
         /\ request' = [request EXCEPT ![r] =
                          [Quiet("loaded") EXCEPT !.op = op, !.workflow = w, !.offer = offer,
                                                  !.definition = definition[w]]]
    /\ UNCHANGED <<rows, lock, locked, plan, history>>

SpecOf(row) == IF row = Null THEN Null ELSE row.spec

\* The schedule is loaded, behind the workflow's row lock if this is an update,
\* and the next occurrence is computed from the present.
Read(r) ==
    LET w == request[r].workflow
        update == request[r].op = "update"
        spec == IF update THEN request[r].offer ELSE SpecOf(schedule[w])
        armed == IF update THEN request[r].definition.status = "enabled" ELSE request[r].op = "enable"
    IN
    /\ request[r].at = "loaded"
    /\ update => lock[w] = Null /\ \A s \in Scheduler : plan[s][w] \notin {"fire", "exhaust"}
    /\ IF Refused(spec, armed) \/ (update /\ spec = SpecOf(schedule[w]))
       THEN request' = [request EXCEPT ![r] = Quiet("done")] /\ UNCHANGED lock
       ELSE /\ request' = [request EXCEPT ![r].at = "read", ![r].row = schedule[w],
                                          ![r].next = FutureTime(spec, armed)]
            /\ lock' = [lock EXCEPT ![w] = IF update THEN r ELSE lock[w]]
    /\ UNCHANGED <<rows, locked, plan, history>>

\* A column keeps the value of the database when the request leaves it at the
\* value it loaded.
Column(current, loaded, new) == IF new = loaded THEN current ELSE new

\* The status a request assigns.
NewStatus(q) ==
    CASE q.op = "enable" -> "enabled"
      [] q.op = "archive" -> "archived"
      [] q.op = "disable" /\ q.definition.status # "archived" -> "disabled"
      [] OTHER -> q.definition.status

\* Mutant: disabling leaves the schedule to the scheduler.
BugNewRow(q) ==
    CASE q.op = "update" /\ q.offer = Null -> Null
      [] q.op = "update" /\ q.offer # Null ->
           [id |-> IF q.row = Null THEN q.definition.version + 1 ELSE q.row.id,
            spec |-> q.offer, enabled |-> q.definition.status = "enabled", next |-> q.next]
      [] q.op = "enable" /\ q.row # Null -> [q.row EXCEPT !.enabled = TRUE, !.next = q.next]
      [] OTHER -> q.row

\* The schedule row it leaves behind: deleted, inserted or assigned to.
NewRow(q) ==
    CASE q.op = "update" /\ q.offer = Null -> Null
      [] q.op = "update" /\ q.offer # Null ->
           [id |-> IF q.row = Null THEN q.definition.version + 1 ELSE q.row.id,
            spec |-> q.offer, enabled |-> q.definition.status = "enabled", next |-> q.next]
      [] q.op = "enable" /\ q.row # Null -> [q.row EXCEPT !.enabled = TRUE, !.next = q.next]
      [] q.op \in {"disable", "archive"} /\ q.row # Null ->
           [q.row EXCEPT !.enabled = FALSE, !.next = Null]
      [] OTHER -> Null

WritesStatus(q) == q.op = "update" \/ NewStatus(q) # q.definition.status
WritesRow(q) == NewRow(q) # q.row

\* uq_workflow_versions_number, or an UPDATE of a row that is gone.
Conflict(q) ==
    \/ q.op = "update" /\ q.definition.version # definition[q.workflow].version
    \/ /\ WritesRow(q) /\ q.row # Null
       /\ schedule[q.workflow] = Null \/ schedule[q.workflow].id # q.row.id

\* What becomes of the rows when the request commits.
Written(q) ==
    LET w == q.workflow
        cur == schedule[w]
        new == NewRow(q)
        merged == IF q.row = Null \/ new = Null THEN new
                  ELSE [id |-> cur.id,
                        spec |-> Column(cur.spec, q.row.spec, new.spec),
                        enabled |-> Column(cur.enabled, q.row.enabled, new.enabled),
                        next |-> Column(cur.next, q.row.next, new.next)]
        clean == q.row = cur /\ q.definition.status = definition[w].status
    IN
    /\ definition' = [definition EXCEPT ![w] =
                        [status |-> Column(definition[w].status, q.definition.status, NewStatus(q)),
                         version |-> IF q.op = "update" THEN q.definition.version + 1
                                     ELSE definition[w].version,
                         owned |-> definition[w].owned]]
    /\ schedule' = [schedule EXCEPT ![w] = IF WritesRow(q) THEN merged ELSE cur]
    /\ scheduled' = [scheduled EXCEPT ![w] = IF WritesRow(q) /\ (q.row = Null \/ new = Null) THEN {}
                                            ELSE scheduled[w]]
    /\ first' = [first EXCEPT ![w] = IF clean /\ new # Null /\ new.enabled THEN new.next ELSE Null]
    /\ earlier' = [earlier EXCEPT ![w] = IF first'[w] = Null THEN {} ELSE scheduled'[w]]
    /\ blind' = IF q.op \in {"disable", "archive"} /\ q.row # cur THEN blind \cup {w} ELSE blind
    /\ UNCHANGED <<now, timerFaults>>

\* The request's transaction commits, as soon as it gets its row locks.
Commit(r) ==
    LET q == request[r] IN
    /\ q.at = "read"
    /\ lock[q.workflow] \in {Null, r} \/ (lock[q.workflow] \in Scheduler /\ ~WritesStatus(q))
    /\ WritesRow(q) => RowFree(q.workflow)
    /\ IF Conflict(q) THEN UNCHANGED <<rows, history>> ELSE Written(q)
    /\ request' = [request EXCEPT ![r] = Quiet("done")]
    /\ lock' = Unlocked(r)
    /\ UNCHANGED <<locked, plan>>

\* A scheduler holds the schedule and needs the lock of the workflow; the request
\* holds that and needs the schedule.  The database aborts one of them.
Deadlock(r, s) ==
    LET q == request[r]
        w == q.workflow
    IN
    /\ q.at = "read" /\ WritesStatus(q) /\ WritesRow(q)
    /\ w \in locked[s] /\ plan[s][w] = "none" /\ ~FiringRaises(w)
    /\ Verdict(w) = "exhaust" \/ (Verdict(w) = "fire" /\ q.op = "update")
    /\ lock[w] \in {Null, r}
    /\ request' = [request EXCEPT ![r] = Quiet("done")]
    /\ \/ /\ lock' = Unlocked(r)
          /\ UNCHANGED <<rows, locked, plan, history>>
       \/ /\ EndBatch(s)
          /\ lock' = [w2 \in Workflow |-> IF lock[w2] \in {r, s} THEN Null ELSE lock[w2]]
          /\ IF Conflict(q) THEN UNCHANGED <<rows, history>> ELSE Written(q)

-----------------------------------------------------------------------------
\* Time passes.
Clock ==
    /\ now < MaxTime
    /\ now' = now + 1
    /\ UNCHANGED <<definition, schedule, scheduled, lock, locked, plan, request, history>>

\* The owner's account is deleted: owner_user_id is set null.
OwnerLeaves(w) ==
    /\ timerFaults < MaxTimerFaults
    /\ definition[w] # Null /\ definition[w].owned
    /\ lock[w] = Null
    /\ timerFaults' = timerFaults + 1
    /\ definition' = [definition EXCEPT ![w].owned = FALSE]
    /\ UNCHANGED <<now, schedule, scheduled, lock, locked, plan, request, first, earlier, blind>>

RequestStep(r) == Load(r) \/ Read(r) \/ Commit(r)

TimerNext ==
    \/ Clock
    \/ \E w \in Workflow : Create(w) \/ OwnerLeaves(w)
    \/ \E r \in Request : RequestStep(r) \/ (\E s \in Scheduler : Deadlock(r, s))
    \/ \E s \in Scheduler : EnqueueDue(s) \/ SchedulerDies(s)

TimerSpec == TimerInit /\ [][TimerNext]_timerVars

\* Every replica ticks forever, the database resolves a deadlock, and a request
\* that has begun goes on.
TimerFairness ==
    /\ \A s \in Scheduler : WF_timerVars(EnqueueDue(s) \/ \E r \in Request : Deadlock(r, s))
    /\ \A r \in Request : WF_timerVars(Read(r) \/ Commit(r))

-----------------------------------------------------------------------------
(* Properties. *)

\* The occurrences of a schedule that was armed for its occurrence f.
Occurrences(spec, f) ==
    {t \in Time : /\ t >= f
                  /\ CASE spec.type = "once" -> t = spec.at
                       [] spec.type = "interval" -> (t - f) % spec.every = 0
                       [] OTHER -> t \in spec.at}

\* A scheduler that was down, crashed or raced its replicas catches up: every
\* occurrence from the one a schedule was armed for to the one it waits for has
\* its run, and no other time has got one since (_enqueue_due_schedules goes on
\* from the occurrence it fires).  Nothing is promised once a request commits over
\* rows that changed after it loaded them.
OccurrencesCatchUp ==
    \A w \in Workflow : first[w] # Null =>
        LET passed == {t \in Occurrences(schedule[w].spec, first[w]) :
                          schedule[w].next = Null \/ t < schedule[w].next}
        IN  passed \subseteq scheduled[w] /\ scheduled[w] \subseteq earlier[w] \cup passed

\* "Stop future scheduled/event runs": once a disabling or archiving request
\* has committed, no scheduler queues a run of the workflow, not even one that
\* had read it as enabled before; the row lock of the schedule makes the request
\* wait.  A request with an old copy of the schedule writes no column of it and
\* does not wait.
DisabledIsQuiet ==
    [][\A w \in Workflow :
         ~(scheduled'[w] \subseteq scheduled[w]) => definition[w].status = "enabled" \/ w \in blind]_timerVars

Overdue(w) ==
    schedule[w] # Null /\ schedule[w].enabled /\ schedule[w].next # Null /\ schedule[w].next <= now

\* A row that makes every tick of every replica raise.
PoisonedRow == \E w \in Workflow : Overdue(w) /\ FiringRaises(w)

\* No due occurrence waits, unless a schedule whose firing raises stops them all.
OccurrencesHandled == (\A w \in Workflow : ~Overdue(w)) \/ PoisonedRow
=============================================================================
