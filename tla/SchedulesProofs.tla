--------------------------- MODULE SchedulesProofs ---------------------------
(***************************************************************************)
(* Proofs about Schedules, for any number of workflows, replicas and       *)
(* requests and any schedules within the horizon.                          *)
(***************************************************************************)
EXTENDS Schedules, WellFoundedInduction, TLAPS

\* A time that a schedule names.
OnGrid(spec, t) ==
    CASE spec.type = "once" -> t = spec.at
      [] spec.type = "interval" -> \/ spec.at = Null
                                   \/ spec.at <= t /\ (t - spec.at) % spec.every = 0
      [] OTHER -> t \in spec.at

\* The time a request that arms a schedule has computed is one of that schedule.
Armed(q) ==
    /\ q.op = "enable" /\ q.row # Null => q.next \in Time /\ OnGrid(q.row.spec, q.next)
    /\ q.op = "update" /\ q.offer # Null /\ q.definition.status = "enabled" =>
         q.next \in Time /\ OnGrid(q.offer, q.next)

\* A workflow that is not created has no rows.
RowsInv == \A w \in Workflow : definition[w] = Null => schedule[w] = Null /\ scheduled[w] = {}

\* A row that a scheduler holds is due, and no other one holds it.
LockInv ==
    \A s \in Scheduler : \A w \in locked[s] :
        /\ schedule[w] # Null /\ schedule[w].enabled
        /\ schedule[w].next # Null /\ schedule[w].next <= now
        /\ \A z \in Scheduler \ {s} : w \notin locked[z]

\* What a transaction has decided for a row still holds when it commits.
PlanOf(s, w) ==
    /\ plan[s][w] # "none" => w \in locked[s]
    /\ plan[s][w] \in {"fire", "exhaust"} =>
         /\ definition[w].status = "enabled" \/ w \in blind
         /\ ~Raises(schedule[w].spec, schedule[w].next)
         /\ plan[s][w] = "exhaust" <=> Following(w) = Null

PlanInv == \A s \in Scheduler, w \in Workflow : PlanOf(s, w)

RequestInv ==
    \A r \in Request : request[r].at \in {"loaded", "read"} =>
        /\ request[r].workflow \in Workflow /\ request[r].op \in Operation
        /\ request[r].definition \in Definition
        /\ definition[request[r].workflow] # Null
        /\ request[r].at = "read" => Armed(request[r])

\* The times of the schedule that are behind the one it waits for.
Passed(spec, f, next) == {t \in Occurrences(spec, f) : next = Null \/ t < next}

CatchUpOf(w) ==
    first[w] # Null =>
        /\ schedule[w] # Null
        /\ OnGrid(schedule[w].spec, first[w])
        /\ schedule[w].next # Null => schedule[w].next \in Occurrences(schedule[w].spec, first[w])
        /\ Passed(schedule[w].spec, first[w], schedule[w].next) \subseteq scheduled[w]
        /\ scheduled[w] \subseteq earlier[w] \cup Passed(schedule[w].spec, first[w], schedule[w].next)

CatchUpInv == \A w \in Workflow : CatchUpOf(w)

Inv == TimerTypeOK /\ RowsInv /\ LockInv /\ PlanInv /\ RequestInv /\ CatchUpInv

-----------------------------------------------------------------------------
(* Intervals.                                                              *)

\* What leaves no remainder is a multiple.
LEMMA Multiple ==
    ASSUME NEW d \in Nat, NEW e \in Nat \ {0}, d % e = 0
    PROVE  \E k \in Nat : d = k * e
<1> d \div e \in Nat /\ d = (d \div e) * e
  OBVIOUS
<1> QED OBVIOUS

\* A sum of multiples is one.
LEMMA MultipleSum ==
    ASSUME NEW c \in Nat, NEW d \in Nat, NEW e \in Nat \ {0}, c % e = 0, d % e = 0
    PROVE  (c + d) % e = 0
<1>1. PICK i \in Nat : c = i * e
  BY Multiple
<1>2. PICK j \in Nat : d = j * e
  BY Multiple
<1>3. c + d = (i + j) * e
  BY <1>1, <1>2
<1>4. ((i + j) * e) % e = 0
  OBVIOUS
<1> QED BY <1>3, <1>4

\* Two multiples are at least one interval apart.
LEMMA MultipleGap ==
    ASSUME NEW c \in Nat, NEW d \in Nat, NEW e \in Nat \ {0}, c % e = 0, d % e = 0, c < d
    PROVE  c + e <= d
<1>1. PICK i \in Nat : c = i * e
  BY Multiple
<1>2. PICK j \in Nat : d = j * e
  BY Multiple
<1>3. j >= i + 1
  <2> SUFFICES ASSUME j <= i PROVE FALSE
    OBVIOUS
  <2> j * e <= i * e
    OBVIOUS
  <2> QED BY <1>1, <1>2
<1>4. j * e >= (i + 1) * e
  BY <1>3
<1>5. (i + 1) * e = i * e + e
  OBVIOUS
<1> QED BY <1>1, <1>2, <1>4, <1>5

\* The next multiple of an interval from a start that has passed.
LEMMA Jump ==
    ASSUME NEW a \in Nat, NEW b \in Nat, NEW e \in Nat \ {0}, a <= b,
           NEW n, n = a + ((b - a) \div e + 1) * e
    PROVE  n \in Nat /\ b < n /\ n <= b + e /\ (n - a) % e = 0
OBVIOUS

LEMMA JumpOn ==
    ASSUME NEW a \in Nat, NEW b \in Nat, NEW e \in Nat \ {0}, a <= b, (b - a) % e = 0
    PROVE  a + ((b - a) \div e + 1) * e = b + e
OBVIOUS

\* A non-empty set of numbers has a least one.
LEMMA Least ==
    ASSUME NEW S, S \subseteq Nat, S # {}
    PROVE  \E t \in S : \A u \in S : t <= u
<1> DEFINE R == {p \in Nat \X Nat : p[1] < p[2]}
<1>1. IsWellFoundedOn(R, Nat)
  BY NatLessThanWellFounded DEF OpToRel
<1>2. PICK t \in S : \A u \in S : <<u, t>> \notin R
  BY <1>1, WFMin
<1>3. ASSUME NEW u \in S PROVE t <= u
  <2>1. <<u, t>> \in Nat \X Nat /\ <<u, t>>[1] = u /\ <<u, t>>[2] = t
    OBVIOUS
  <2>2. ~(u < t)
    BY <1>2, <2>1
  <2> QED BY <2>2
<1> QED BY <1>3

-----------------------------------------------------------------------------
(* next_schedule_time.                                                     *)

\* The next time of a schedule is later, is one of its times and lies in the horizon.
LEMMA NextTime ==
    ASSUME NEW spec \in Offer, NEW after \in 0..MaxTime, ~Raises(spec, after),
           NextScheduleTime(spec, after) # Null
    PROVE  /\ NextScheduleTime(spec, after) \in Time
           /\ after < NextScheduleTime(spec, after)
           /\ OnGrid(spec, NextScheduleTime(spec, after))
<1> DEFINE n == NextScheduleTime(spec, after)
<1>1. CASE spec.type = "once"
  BY <1>1, OfferAssumption, TimeAssumption DEF NextScheduleTime, OnGrid, Time
<1>2. CASE spec.type = "interval"
  <2> DEFINE start == IF spec.at = Null THEN after ELSE spec.at
  <2>1. start \in Nat /\ start <= 2 * MaxTime /\ spec.every \in Nat \ {0} /\ spec.every <= MaxTime
    BY <1>2, OfferAssumption, TimeAssumption DEF Time
  <2>2. CASE start > after
    <3>1. n = start /\ spec.at = start
      BY <1>2, <2>2 DEF NextScheduleTime
    <3> HIDE DEF start, n
    <3>2. (start - start) % spec.every = 0
      BY <2>1
    <3>3. n \in Time /\ after < n
      BY <2>1, <2>2, <3>1, TimeAssumption DEF Time
    <3>4. spec.at <= n /\ (n - spec.at) % spec.every = 0
      BY <2>1, <3>1, <3>2
    <3>5. OnGrid(spec, n)
      BY <1>2, <3>4 DEF OnGrid
    <3> QED BY <3>3, <3>5 DEF n
  <2>3. CASE start <= after
    <3> HIDE DEF start
    <3>1. n = start + ((after - start) \div spec.every + 1) * spec.every
      BY <1>2, <2>1, <2>3 DEF NextScheduleTime, start
    <3> HIDE DEF n
    <3>0. after \in Nat /\ start \in Nat /\ spec.every \in Nat \ {0}
      BY <2>1, TimeAssumption
    <3>2. n \in Nat /\ after < n /\ n <= after + spec.every /\ (n - start) % spec.every = 0
      BY <2>3, <3>0, <3>1, Jump, Zenon
    <3>3. spec.at = Null \/ spec.at = start
      BY DEF start
    <3>4. n \in Time /\ after < n
      BY <2>1, <3>2, TimeAssumption DEF Time
    <3>5. OnGrid(spec, n)
      BY <1>2, <2>3, <3>0, <3>2, <3>3 DEF OnGrid
    <3> QED BY <3>4, <3>5 DEF n
  <2> QED BY <2>1, <2>2, <2>3
<1>3. CASE spec.type = "calendar"
  <2> DEFINE S == {t \in spec.at : t > after}
  <2>1. S \subseteq Nat /\ spec.at \subseteq Time
    BY <1>3, OfferAssumption DEF Time
  <2>2. S # {}
    BY <1>3, <2>1, TimeAssumption DEF Raises, Time
  <2>3. \E t \in S : \A u \in S : t <= u
    BY <2>1, <2>2, Least
  <2>4. \E t \in spec.at : t > after /\ \A u \in spec.at : u > after => t <= u
    BY <2>3
  <2>5. n = CHOOSE t \in spec.at : t > after /\ \A u \in spec.at : u > after => t <= u
    BY <1>3 DEF NextScheduleTime
  <2>6. n \in spec.at /\ n > after
    BY <2>4, <2>5
  <2> QED BY <1>3, <2>1, <2>6 DEF OnGrid, Time
<1> QED BY <1>1, <1>2, <1>3, OfferAssumption

\* Only a schedule with one occurrence has no next one.
LEMMA Exhausted ==
    ASSUME NEW spec \in Offer, NEW after \in 0..MaxTime, ~Raises(spec, after),
           NextScheduleTime(spec, after) = Null
    PROVE  spec.type = "once" /\ spec.at <= after
<1>1. CASE spec.type = "once"
  BY <1>1, OfferAssumption, NullAssumption DEF NextScheduleTime, Time
<1>2. CASE spec.type = "interval"
  <2> DEFINE start == IF spec.at = Null THEN after ELSE spec.at
  <2>1. start \in Nat /\ spec.every \in Nat \ {0}
    BY <1>2, OfferAssumption, TimeAssumption DEF Time
  <2> HIDE DEF start
  <2> after \in Nat
    BY TimeAssumption
  <2>2. start <= after => start + ((after - start) \div spec.every + 1) * spec.every \in Nat
    BY <2>1, Jump, Zenon
  <2>3. NextScheduleTime(spec, after) \in Nat
    BY <1>2, <2>1, <2>2 DEF NextScheduleTime, start
  <2> QED BY <2>3, NullAssumption
<1>3. CASE spec.type = "calendar"
  <2> DEFINE S == {t \in spec.at : t > after}
  <2>1. S \subseteq Nat /\ spec.at \subseteq Time
    BY <1>3, OfferAssumption DEF Time
  <2>2. S # {}
    BY <1>3, <2>1, TimeAssumption DEF Raises, Time
  <2>3. \E t \in S : \A u \in S : t <= u
    BY <2>1, <2>2, Least
  <2>4. \E t \in spec.at : t > after /\ \A u \in spec.at : u > after => t <= u
    BY <2>3
  <2>5. NextScheduleTime(spec, after) =
          CHOOSE t \in spec.at : t > after /\ \A u \in spec.at : u > after => t <= u
    BY <1>3 DEF NextScheduleTime
  <2>6. NextScheduleTime(spec, after) \in spec.at
    BY <2>4, <2>5
  <2> QED BY <2>1, <2>6, NullAssumption DEF Time
<1> QED BY <1>1, <1>2, <1>3, OfferAssumption

\* After an occurrence of a schedule comes the one next_schedule_time returns, and
\* none between them.
LEMMA NextOccurrence ==
    ASSUME NEW spec \in Offer, NEW f \in Time, OnGrid(spec, f),
           NEW t \in Occurrences(spec, f), t <= MaxTime, ~Raises(spec, t),
           NEW n, n = NextScheduleTime(spec, t), n # Null
    PROVE  /\ n \in Occurrences(spec, f)
           /\ \A u \in Occurrences(spec, f) : u < n <=> u <= t
<1>1. t \in Nat /\ f \in Nat /\ f <= t /\ t \in 0..MaxTime
  BY TimeAssumption DEF Occurrences, Time
<1>2. n \in Time /\ t < n /\ OnGrid(spec, n)
  BY <1>1, NextTime
<1>3. CASE spec.type = "once"
  BY <1>2, <1>3 DEF Occurrences, OnGrid, Time
<1>4. CASE spec.type = "interval"
  <2> DEFINE e == spec.every
  <2>1. e \in Nat \ {0} /\ (spec.at = Null \/ spec.at \in Nat)
    BY <1>4, OfferAssumption, TimeAssumption DEF Time
  <2>2. t - f \in Nat /\ (t - f) % e = 0
    BY <1>1, <1>4 DEF Occurrences
  <2>3. n = t + e
    <3>1. CASE spec.at = Null
      <4>1. (t - t) % e = 0 /\ t <= t
        BY <1>1, <2>1
      <4>2. n = t + ((t - t) \div e + 1) * e
        BY <1>1, <1>4, <3>1 DEF NextScheduleTime
      <4> HIDE DEF e
      <4> QED BY <1>1, <2>1, <4>1, <4>2, JumpOn, Zenon
    <3>2. CASE spec.at # Null
      <4>1. PICK a \in Nat : a = spec.at
        BY <2>1, <3>2
      <4>2. a <= f /\ (f - a) % e = 0
        BY <1>4, <3>2, <4>1 DEF OnGrid
      <4>3. f - a \in Nat /\ t - a = (f - a) + (t - f) /\ a <= t
        BY <1>1, <4>2
      <4> n = a + ((t - a) \div e + 1) * e
        BY <1>1, <1>4, <3>2, <4>1, <4>3 DEF NextScheduleTime
      <4> HIDE DEF e
      <4>4. ((f - a) + (t - f)) % e = 0
        BY <2>1, <2>2, <4>2, <4>3, MultipleSum
      <4>5. (t - a) % e = 0
        BY <4>3, <4>4
      <4> QED BY <1>1, <2>1, <4>3, <4>5, JumpOn, Zenon
    <3> QED BY <3>1, <3>2
  <2> HIDE DEF e
  <2>4. e % e = 0 /\ n - f = (t - f) + e
    BY <1>1, <2>1, <2>3
  <2>5. (n - f) % e = 0
    BY <2>1, <2>2, <2>4, MultipleSum
  <2>6. n \in Occurrences(spec, f)
    BY <1>1, <1>2, <1>4, <2>5 DEF Occurrences, Time, e
  <2>7. ASSUME NEW u \in Occurrences(spec, f), t < u PROVE n <= u
    <3>1. u \in Nat /\ u - f \in Nat /\ (u - f) % e = 0
      BY <1>1, <1>4 DEF Occurrences, Time, e
    <3>2. t - f < u - f
      BY <1>1, <2>7, <3>1
    <3>3. (t - f) + e <= u - f
      BY <2>1, <2>2, <3>1, <3>2, MultipleGap
    <3> QED BY <1>1, <2>1, <2>3, <3>1, <3>3
  <2>8. \A u \in Occurrences(spec, f) : u \in Nat
    BY DEF Occurrences, Time
  <2> QED BY <1>1, <1>2, <2>6, <2>7, <2>8 DEF Time
<1>5. CASE spec.type = "calendar"
  <2>1. n \in spec.at /\ spec.at \subseteq Time
    BY <1>2, <1>5, OfferAssumption DEF OnGrid
  <2>2. n \in Occurrences(spec, f)
    BY <1>1, <1>2, <1>5, <2>1 DEF Occurrences, Time
  <2>3. n = CHOOSE m \in spec.at : m > t /\ \A u \in spec.at : u > t => m <= u
    BY <1>5 DEF NextScheduleTime
  <2> DEFINE S == {m \in spec.at : m > t}
  <2>4. \E m \in S : \A u \in S : m <= u
    <3>1. S \subseteq Nat /\ n \in S
      BY <1>2, <2>1 DEF Time
    <3> QED BY <3>1, Least, Zenon
  <2>5. \E m \in spec.at : m > t /\ \A u \in spec.at : u > t => m <= u
    BY <2>4
  <2>6. \A u \in spec.at : u > t => n <= u
    BY <2>3, <2>5
  <2>7. \A u \in Occurrences(spec, f) : u \in spec.at /\ u \in Nat
    BY <1>5 DEF Occurrences, Time
  <2> QED BY <1>1, <1>2, <2>2, <2>6, <2>7 DEF Time
<1> QED BY <1>3, <1>4, <1>5, OfferAssumption

\* So the occurrences behind a schedule grow by the one that fires.
LEMMA PassedGrows ==
    ASSUME NEW spec \in Offer, NEW f \in Time, OnGrid(spec, f),
           NEW t \in Occurrences(spec, f), t <= MaxTime, ~Raises(spec, t),
           NEW n, n = NextScheduleTime(spec, t)
    PROVE  Passed(spec, f, n) = Passed(spec, f, t) \cup {t}
<1>1. t \in 0..MaxTime /\ f <= t /\ t # Null
  BY TimeAssumption, NullAssumption DEF Occurrences, Time
<1>2. CASE n # Null
  <2>1. n \in Occurrences(spec, f) /\ \A u \in Occurrences(spec, f) : u < n <=> u <= t
    BY <1>2, NextOccurrence
  <2>2. \A u \in Occurrences(spec, f) : u \in Nat
    BY DEF Occurrences, Time
  <2>3. t \in Nat
    BY <1>1, TimeAssumption
  <2>4. \A u \in Occurrences(spec, f) : u < n <=> u < t \/ u = t
    BY <2>1, <2>2, <2>3
  <2> QED BY <1>1, <1>2, <2>4 DEF Passed
<1>3. CASE n = Null
  <2>1. spec.type = "once"
    BY <1>1, <1>3, Exhausted
  <2> QED BY <1>1, <1>3, <2>1 DEF Passed, Occurrences
<1> QED BY <1>2, <1>3

-----------------------------------------------------------------------------
(* What a request writes.                                                  *)

\* The row a request leaves behind is one, or none.
LEMMA NewRowType ==
    ASSUME NEW q \in RequestRow, q.op \in Operation, q.definition \in Definition
    PROVE  NewRow(q) \in ScheduleRow \cup {Null}
<1>0. /\ q.row \in ScheduleRow \cup {Null} /\ q.offer \in Offer \cup {Null}
      /\ q.next \in Time \cup {Null} /\ q.definition.version + 1 \in Nat
  BY DEF RequestRow, Definition
<1>1. CASE q.op = "update"
  BY <1>0, <1>1 DEF NewRow, ScheduleRow
<1>2. CASE q.op = "enable"
  BY <1>0, <1>2 DEF NewRow, ScheduleRow
<1>3. CASE q.op \in {"disable", "archive"}
  BY <1>0, <1>3 DEF NewRow, ScheduleRow
<1> QED BY <1>1, <1>2, <1>3 DEF Operation

LEMMA NewStatusType ==
    ASSUME NEW q \in RequestRow, q.op \in Operation, q.definition \in Definition
    PROVE  NewStatus(q) \in Status
BY DEF NewStatus, Operation, Definition, Status

\* Only the rows of its workflow change.
LEMMA WrittenRows ==
    ASSUME TimerTypeOK, RequestInv, NEW r \in Request, request[r].at = "read",
           ~Conflict(request[r]), Written(request[r]),
           NEW w, w = request[r].workflow
    PROVE  /\ w \in Workflow /\ definition[w] # Null
           /\ now' = now /\ timerFaults' = timerFaults
           /\ definition' \in [Workflow -> Definition \cup {Null}] /\ definition'[w] # Null
           /\ schedule' \in [Workflow -> ScheduleRow \cup {Null}]
           /\ scheduled' \in [Workflow -> SUBSET Time]
           /\ first' \in [Workflow -> Time \cup {Null}]
           /\ earlier' \in [Workflow -> SUBSET Time]
           /\ blind \subseteq blind' /\ blind' \subseteq Workflow
           /\ \A v \in Workflow \ {w} :
                /\ definition'[v] = definition[v] /\ schedule'[v] = schedule[v]
                /\ scheduled'[v] = scheduled[v] /\ first'[v] = first[v] /\ earlier'[v] = earlier[v]
           /\ ~WritesRow(request[r]) => schedule'[w] = schedule[w] /\ scheduled'[w] = scheduled[w]
<1> DEFINE q == request[r]
           new == NewRow(q)
           cur == schedule[w]
           merged == IF q.row = Null \/ new = Null THEN new
                     ELSE [id |-> cur.id,
                           spec |-> Column(cur.spec, q.row.spec, new.spec),
                           enabled |-> Column(cur.enabled, q.row.enabled, new.enabled),
                           next |-> Column(cur.next, q.row.next, new.next)]
<1>1. /\ q \in RequestRow /\ w \in Workflow /\ q.op \in Operation /\ q.definition \in Definition
      /\ definition[w] \in Definition /\ cur \in ScheduleRow \cup {Null}
      /\ q.row \in ScheduleRow \cup {Null} /\ definition[w] # Null
  BY DEF TimerTypeOK, RequestInv, RequestRow
<1>2. new \in ScheduleRow \cup {Null} /\ NewStatus(q) \in Status
  BY <1>1, NewRowType, NewStatusType
<1>3. [status |-> Column(definition[w].status, q.definition.status, NewStatus(q)),
       version |-> IF q.op = "update" THEN q.definition.version + 1 ELSE definition[w].version,
       owned |-> definition[w].owned] \in Definition
  BY <1>1, <1>2 DEF Definition, Column
<1>4. definition' \in [Workflow -> Definition \cup {Null}] /\ definition'[w] # Null
      /\ \A v \in Workflow \ {w} : definition'[v] = definition[v]
  BY <1>1, <1>3, NullAssumption DEF Written, TimerTypeOK
<1>5. (WritesRow(q) => merged \in ScheduleRow \cup {Null})
  <2> SUFFICES ASSUME WritesRow(q), q.row # Null, new # Null PROVE merged \in ScheduleRow \cup {Null}
    BY <1>2
  <2>1. cur # Null
    BY DEF Conflict
  <2>2. cur \in ScheduleRow /\ q.row \in ScheduleRow /\ new \in ScheduleRow
    BY <1>1, <1>2, <2>1
  <2> HIDE DEF q, new, cur
  <2> QED BY <2>2 DEF ScheduleRow, Column
<1> HIDE DEF q, new
<1>6. schedule' = [schedule EXCEPT ![w] = IF WritesRow(q) THEN merged ELSE cur]
  BY DEF Written, q, new
<1>7. /\ schedule' \in [Workflow -> ScheduleRow \cup {Null}]
      /\ \A v \in Workflow \ {w} : schedule'[v] = schedule[v]
      /\ ~WritesRow(q) => schedule'[w] = schedule[w]
  <2> HIDE DEF merged
  <2> QED BY <1>1, <1>5, <1>6 DEF TimerTypeOK
<1>8. scheduled' = [scheduled EXCEPT ![w] = IF WritesRow(q) /\ (q.row = Null \/ new = Null) THEN {}
                                            ELSE scheduled[w]]
  BY DEF Written, q, new
<1>9. /\ scheduled' \in [Workflow -> SUBSET Time]
      /\ \A v \in Workflow \ {w} : scheduled'[v] = scheduled[v]
      /\ ~WritesRow(q) => scheduled'[w] = scheduled[w]
  BY <1>1, <1>8 DEF TimerTypeOK
<1>10. PICK f : f \in Time \cup {Null} /\ first' = [first EXCEPT ![w] = f]
  <2>1. new # Null => new.next \in Time \cup {Null}
    BY <1>2 DEF ScheduleRow
  <2> QED BY <2>1 DEF Written, q, new
<1>11. PICK e : first' = [first EXCEPT ![w] = f] /\ e \in {{}, scheduled'[w]}
                /\ earlier' = [earlier EXCEPT ![w] = e]
  BY <1>10 DEF Written, q, new
<1>12. /\ first' \in [Workflow -> Time \cup {Null}] /\ earlier' \in [Workflow -> SUBSET Time]
       /\ \A v \in Workflow \ {w} : first'[v] = first[v] /\ earlier'[v] = earlier[v]
  BY <1>1, <1>9, <1>10, <1>11 DEF TimerTypeOK
<1>13. blind \subseteq blind' /\ blind' \subseteq Workflow /\ now' = now /\ timerFaults' = timerFaults
  BY <1>1 DEF Written, TimerTypeOK, q
<1> QED BY <1>1, <1>4, <1>7, <1>9, <1>12, <1>13 DEF q

\* A request that arms a schedule nobody changed since it loaded it leaves the row
\* waiting for the occurrence it is armed for, with no run since.
LEMMA WrittenCatchUp ==
    ASSUME TimerTypeOK, RequestInv, NEW r \in Request, request[r].at = "read",
           ~Conflict(request[r]), Written(request[r]),
           NEW w, w = request[r].workflow, first'[w] # Null
    PROVE  /\ schedule'[w] # Null /\ schedule'[w].next = first'[w]
           /\ OnGrid(schedule'[w].spec, first'[w])
           /\ earlier'[w] = scheduled'[w]
<1> DEFINE q == request[r]
           new == NewRow(q)
           cur == schedule[w]
<1>1. /\ q \in RequestRow /\ w \in Workflow /\ q.op \in Operation /\ q.definition \in Definition
      /\ cur \in ScheduleRow \cup {Null} /\ q.row \in ScheduleRow \cup {Null} /\ Armed(q)
  BY DEF TimerTypeOK, RequestInv, RequestRow
<1>2. new \in ScheduleRow \cup {Null}
  BY <1>1, NewRowType
<1> HIDE DEF q, new
<1>3. /\ first' = [first EXCEPT ![w] =
                     IF q.row = cur /\ q.definition.status = definition[w].status
                        /\ new # Null /\ new.enabled THEN new.next ELSE Null]
      /\ earlier' = [earlier EXCEPT ![w] = IF first'[w] = Null THEN {} ELSE scheduled'[w]]
  BY DEF Written, q, new
<1>4. q.row = cur /\ new # Null /\ new.enabled /\ first'[w] = new.next /\ earlier'[w] = scheduled'[w]
  BY <1>1, <1>3 DEF TimerTypeOK
<1>5. schedule'[w] = new
  <2> DEFINE merged == IF q.row = Null \/ new = Null THEN new
                       ELSE [id |-> cur.id,
                             spec |-> Column(cur.spec, q.row.spec, new.spec),
                             enabled |-> Column(cur.enabled, q.row.enabled, new.enabled),
                             next |-> Column(cur.next, q.row.next, new.next)]
  <2>1. schedule' = [schedule EXCEPT ![w] = IF WritesRow(q) THEN merged ELSE cur]
    BY DEF Written, q, new
  <2>2. schedule'[w] = IF WritesRow(q) THEN merged ELSE cur
    BY <1>1, <2>1 DEF TimerTypeOK
  <2>3. ~WritesRow(q) => cur = new
    BY <1>4 DEF WritesRow, new
  <2>4. q.row # Null /\ q.op \in {"update", "enable"} => new.id = q.row.id
    BY <1>1, <1>4, NullAssumption DEF NewRow, new, ScheduleRow
  <2>5. q.op \in {"update", "enable"}
    <3> SUFFICES ASSUME q.op \in {"disable", "archive"} PROVE FALSE
      BY <1>1 DEF Operation
    <3>1. q.row # Null
      BY <1>4 DEF NewRow, new
    <3> QED BY <1>1, <1>4, <3>1 DEF NewRow, new, ScheduleRow
  <2>6. q.row # Null => merged = new
    <3> SUFFICES ASSUME q.row # Null PROVE merged = new
      OBVIOUS
    <3>1. cur \in ScheduleRow /\ new \in ScheduleRow /\ q.row = cur /\ new.id = cur.id
      BY <1>1, <1>2, <1>4, <2>4, <2>5
    <3>2. merged = [id |-> new.id, spec |-> new.spec, enabled |-> new.enabled, next |-> new.next]
      BY <1>4, <3>1 DEF Column
    <3> HIDE DEF merged
    <3> QED BY <3>1, <3>2 DEF ScheduleRow
  <2> QED BY <2>2, <2>3, <2>6
<1>6. OnGrid(new.spec, new.next)
  <2>1. CASE q.op = "update"
    BY <1>1, <1>4, <2>1 DEF NewRow, new, Armed
  <2>2. CASE q.op = "enable"
    <3>1. q.row # Null /\ q.row \in ScheduleRow
      BY <1>1, <1>4, <2>2 DEF NewRow, new
    <3>2. new = [q.row EXCEPT !.enabled = TRUE, !.next = q.next]
      BY <2>2, <3>1 DEF NewRow, new
    <3>3. new.spec = q.row.spec /\ new.next = q.next
      BY <3>1, <3>2 DEF ScheduleRow
    <3> QED BY <1>1, <2>2, <3>1, <3>3 DEF Armed
  <2>3. CASE q.op \in {"disable", "archive"}
    <3>1. q.row # Null
      BY <1>4, <2>3 DEF NewRow, new
    <3> QED BY <1>1, <1>4, <2>3, <3>1 DEF NewRow, new, ScheduleRow
  <2> QED BY <1>1, <2>1, <2>2, <2>3 DEF Operation
<1> QED BY <1>4, <1>5, <1>6

-----------------------------------------------------------------------------
(* Types.                                                                  *)

\* _future_schedule_time returns a time of the schedule, unless it refuses it.
LEMMA FutureType ==
    ASSUME TimerTypeOK, NEW spec \in Offer \cup {Null}, NEW enabled \in BOOLEAN,
           ~Refused(spec, enabled)
    PROVE  /\ FutureTime(spec, enabled) \in Time \cup {Null}
           /\ spec # Null /\ enabled =>
                FutureTime(spec, enabled) \in Time /\ OnGrid(spec, FutureTime(spec, enabled))
<1>1. CASE spec = Null \/ ~enabled
  BY <1>1 DEF FutureTime
<1>2. CASE spec # Null /\ enabled
  <2>1. now - 1 \in 0..MaxTime
    BY TimeAssumption DEF TimerTypeOK
  <2>2. ~Raises(spec, now - 1) /\ NextScheduleTime(spec, now - 1) # Null /\ spec \in Offer
    BY <1>2 DEF Refused
  <2>3. FutureTime(spec, enabled) = NextScheduleTime(spec, now - 1)
    BY <1>2 DEF FutureTime
  <2> QED BY <2>1, <2>2, <2>3, NextTime
<1> QED BY <1>1, <1>2

\* The occurrence after one that is due lies in the horizon.
LEMMA FollowingType ==
    ASSUME TimerTypeOK, LockInv, NEW s \in Scheduler, NEW w \in locked[s],
           ~Raises(schedule[w].spec, schedule[w].next)
    PROVE  /\ w \in Workflow /\ schedule[w] \in ScheduleRow /\ schedule[w].spec \in Offer
           /\ schedule[w].next \in 0..MaxTime
           /\ Following(w) \in Time \cup {Null}
<1>1. w \in Workflow /\ schedule[w] \in ScheduleRow /\ schedule[w].next # Null
      /\ schedule[w].next <= now
  BY DEF TimerTypeOK, LockInv
<1>2. schedule[w].spec \in Offer /\ schedule[w].next \in 0..MaxTime
  BY <1>1, TimeAssumption DEF ScheduleRow, Time, TimerTypeOK
<1>3. Following(w) \in Time \cup {Null}
  BY <1>2, NextTime DEF Following
<1> QED BY <1>1, <1>2, <1>3

LEMMA EndBatchType ==
    ASSUME TimerTypeOK, NEW s \in Scheduler, EndBatch(s)
    PROVE  /\ locked' \in [Scheduler -> SUBSET Workflow]
           /\ plan' \in [Scheduler -> [Workflow -> {"none", "off", "fire", "exhaust"}]]
           /\ locked'[s] = {} /\ \A w \in Workflow : plan'[s][w] = "none"
           /\ \A z \in Scheduler \ {s} : locked'[z] = locked[z] /\ plan'[z] = plan[z]
BY DEF EndBatch, TimerTypeOK

LEMMA UnlockedType ==
    ASSUME TimerTypeOK, NEW h
    PROVE  Unlocked(h) \in [Workflow -> Scheduler \cup Request \cup {Null}]
BY DEF Unlocked, TimerTypeOK

LEMMA DoneType ==
    ASSUME TimerTypeOK, NEW r \in Request, request' = [request EXCEPT ![r] = Quiet("done")]
    PROVE  /\ request' \in [Request -> RequestRow] /\ request'[r].at = "done"
           /\ \A p \in Request \ {r} : request'[p] = request[p]
BY DEF TimerTypeOK, Quiet, RequestRow

LEMMA InitInv == TimerInit => Inv
<1> SUFFICES ASSUME TimerInit PROVE Inv
  OBVIOUS
<1>1. TimerTypeOK
  BY TimeAssumption DEF TimerInit, TimerTypeOK, Quiet, RequestRow
<1>2. RowsInv /\ LockInv /\ PlanInv /\ RequestInv /\ CatchUpInv
  BY DEF TimerInit, RowsInv, LockInv, PlanInv, PlanOf, RequestInv, CatchUpInv, CatchUpOf, Quiet
<1> QED BY <1>1, <1>2 DEF Inv

\* What a transaction of a scheduler leaves behind when it commits.
LEMMA CommitBatchTypes ==
    ASSUME TimerTypeOK, RowsInv, LockInv, PlanInv, NEW s \in Scheduler, CommitBatch(s)
    PROVE  TimerTypeOK'
<1>1. locked' \in [Scheduler -> SUBSET Workflow]
      /\ plan' \in [Scheduler -> [Workflow -> {"none", "off", "fire", "exhaust"}]]
  BY EndBatchType DEF CommitBatch
<1>2. lock' \in [Workflow -> Scheduler \cup Request \cup {Null}]
  BY UnlockedType DEF CommitBatch
<1>3. scheduled' \in [Workflow -> SUBSET Time]
  <2> SUFFICES ASSUME NEW w \in Workflow
               PROVE  (IF w \in locked[s] /\ plan[s][w] \in {"fire", "exhaust"}
                       THEN scheduled[w] \cup {schedule[w].next} ELSE scheduled[w]) \in SUBSET Time
    BY DEF CommitBatch
  <2>1. w \in locked[s] => schedule[w].next \in Time
    BY DEF LockInv, TimerTypeOK, ScheduleRow
  <2> QED BY <2>1 DEF TimerTypeOK
<1>4. schedule' \in [Workflow -> ScheduleRow \cup {Null}]
  <2> DEFINE row(w) ==
         CASE w \in locked[s] /\ plan[s][w] \in {"off"} -> [schedule[w] EXCEPT !.enabled = FALSE]
           [] w \in locked[s] /\ plan[s][w] \in {"fire"} -> [schedule[w] EXCEPT !.next = Following(w)]
           [] w \in locked[s] /\ plan[s][w] \in {"exhaust"} ->
                [schedule[w] EXCEPT !.next = Null, !.enabled = FALSE]
           [] OTHER -> schedule[w]
  <2>1. ASSUME NEW w \in Workflow PROVE row(w) \in ScheduleRow \cup {Null}
    <3>1. CASE w \notin locked[s]
      BY <3>1 DEF TimerTypeOK
    <3>2. CASE w \in locked[s]
      <4>1. schedule[w] \in ScheduleRow
        BY <3>2 DEF TimerTypeOK, LockInv
      <4>2. plan[s][w] = "fire" => Following(w) \in Time \cup {Null}
        BY <3>2, FollowingType DEF PlanInv, PlanOf
      <4>3. plan[s][w] \in {"none", "off", "fire", "exhaust"}
        BY DEF TimerTypeOK
      <4>4. CASE plan[s][w] = "fire"
        <5>1. row(w) = [schedule[w] EXCEPT !.next = Following(w)]
          BY <3>2, <4>4
        <5> QED BY <4>1, <4>2, <4>4, <5>1 DEF ScheduleRow
      <4>5. CASE plan[s][w] # "fire"
        BY <3>2, <4>1, <4>3, <4>5 DEF ScheduleRow
      <4> QED BY <4>4, <4>5
    <3> QED BY <3>1, <3>2
  <2>2. schedule' = [w \in Workflow |-> row(w)]
    BY DEF CommitBatch
  <2> HIDE DEF row
  <2> QED BY <2>1, <2>2
<1>5. definition' \in [Workflow -> Definition \cup {Null}]
  <2> SUFFICES ASSUME NEW w \in Workflow
               PROVE  (IF w \in locked[s] /\ plan[s][w] \in {"exhaust"}
                       THEN [definition[w] EXCEPT !.status = "disabled"] ELSE definition[w])
                      \in Definition \cup {Null}
    BY DEF CommitBatch
  <2>0. w \in locked[s] => definition[w] # Null
    BY DEF LockInv, RowsInv
  <2>1. definition[w] \in Definition => [definition[w] EXCEPT !.status = "disabled"] \in Definition
    BY DEF Definition, Status
  <2> QED BY <2>0, <2>1 DEF TimerTypeOK
<1>6. first' \in [Workflow -> Time \cup {Null}]
  BY DEF CommitBatch, TimerTypeOK
<1> QED BY <1>1, <1>2, <1>3, <1>4, <1>5, <1>6 DEF CommitBatch, TimerTypeOK

\* A request that begins has a workflow, an operation and the definition it loaded.
LEMMA LoadedType ==
    ASSUME TimerTypeOK, NEW r \in Request, Load(r)
    PROVE  /\ request' \in [Request -> RequestRow]
           /\ request'[r].at = "loaded" /\ request'[r].workflow \in Workflow
           /\ request'[r].op \in Operation /\ request'[r].definition \in Definition
           /\ definition[request'[r].workflow] # Null
           /\ \A p \in Request \ {r} : request'[p] = request[p]
<1>1. PICK w \in Workflow, op \in Operation, offer \in Offer \cup {Null} :
        /\ definition[w] # Null
        /\ request' = [request EXCEPT ![r] =
                         [Quiet("loaded") EXCEPT !.op = op, !.workflow = w, !.offer = offer,
                                                 !.definition = definition[w]]]
  BY DEF Load
<1> DEFINE q == [Quiet("loaded") EXCEPT !.op = op, !.workflow = w, !.offer = offer,
                                        !.definition = definition[w]]
<1>2. definition[w] \in Definition
  BY <1>1 DEF TimerTypeOK
<1>3. q.at = "loaded" /\ q.op = op /\ q.workflow = w /\ q.definition = definition[w]
  BY DEF Quiet
<1>4. q \in RequestRow
  BY <1>2 DEF RequestRow, Quiet
<1>5. request'[r] = q /\ request' \in [Request -> RequestRow]
      /\ \A p \in Request \ {r} : request'[p] = request[p]
  BY <1>1, <1>4 DEF TimerTypeOK
<1> HIDE DEF q
<1> QED BY <1>1, <1>2, <1>3, <1>5

\* A request that has read keeps what it loaded, and the time it has computed is one
\* of the schedule it arms.
LEMMA ReadType ==
    ASSUME TimerTypeOK, RequestInv, NEW r \in Request, Read(r)
    PROVE  /\ request' \in [Request -> RequestRow]
           /\ request'[r].at \in {"read", "done"}
           /\ request'[r].at = "read" =>
                /\ request'[r].workflow = request[r].workflow /\ request'[r].op = request[r].op
                /\ request'[r].definition = request[r].definition
                /\ Armed(request'[r])
           /\ \A p \in Request \ {r} : request'[p] = request[p]
           /\ lock' \in [Workflow -> Scheduler \cup Request \cup {Null}]
<1> DEFINE q == request[r]
           w == q.workflow
           update == q.op = "update"
           spec == IF update THEN q.offer ELSE SpecOf(schedule[w])
           armed == IF update THEN q.definition.status = "enabled" ELSE q.op = "enable"
<1>1. /\ q \in RequestRow /\ q.at = "loaded" /\ w \in Workflow /\ q.op \in Operation
      /\ q.definition \in Definition /\ schedule[w] \in ScheduleRow \cup {Null}
      /\ spec \in Offer \cup {Null} /\ armed \in BOOLEAN
  BY DEF Read, TimerTypeOK, RequestInv, RequestRow, SpecOf, ScheduleRow
<1>2. CASE request' = [request EXCEPT ![r] = Quiet("done")] /\ UNCHANGED lock
  BY <1>2, DoneType DEF TimerTypeOK
<1>3. CASE /\ ~Refused(spec, armed)
           /\ request' = [request EXCEPT ![r].at = "read", ![r].row = schedule[w],
                                         ![r].next = FutureTime(spec, armed)]
           /\ lock' = [lock EXCEPT ![w] = IF update THEN r ELSE lock[w]]
  <2>1. /\ FutureTime(spec, armed) \in Time \cup {Null}
        /\ spec # Null /\ armed =>
             FutureTime(spec, armed) \in Time /\ OnGrid(spec, FutureTime(spec, armed))
    <3> HIDE DEF spec, armed
    <3> QED BY <1>1, <1>3, FutureType
  <2>2. PICK f : f = FutureTime(spec, armed)
    OBVIOUS
  <2>3. request'[r] = [q EXCEPT !.at = "read", !.row = schedule[w], !.next = f]
        /\ \A p \in Request \ {r} : request'[p] = request[p]
    BY <1>3, <2>2 DEF TimerTypeOK
  <2>4. request'[r] \in RequestRow /\ request'[r].at = "read" /\ request'[r].workflow = w
        /\ request'[r].op = q.op /\ request'[r].definition = q.definition
        /\ request'[r].offer = q.offer /\ request'[r].row = schedule[w] /\ request'[r].next = f
    <3>1. f \in Time \cup {Null}
      BY <2>1, <2>2
    <3>2. PICK row \in ScheduleRow \cup {Null} : row = schedule[w]
      BY <1>1
    <3>3. request'[r] = [q EXCEPT !.at = "read", !.row = row, !.next = f]
      BY <2>3, <3>2
    <3> HIDE DEF q
    <3>4. request'[r] \in RequestRow
      BY <1>1, <3>1, <3>3 DEF RequestRow
    <3>5. request'[r].at = "read" /\ request'[r].workflow = w
          /\ request'[r].op = q.op /\ request'[r].definition = q.definition
          /\ request'[r].offer = q.offer /\ request'[r].row = row /\ request'[r].next = f
      BY <1>1, <3>3 DEF RequestRow
    <3> QED BY <3>2, <3>4, <3>5
  <2>5. request' \in [Request -> RequestRow]
    <3>1. DOMAIN request' = Request /\ request' = [p \in Request |-> request'[p]]
      BY <1>3 DEF TimerTypeOK
    <3>2. \A p \in Request : request'[p] \in RequestRow
      BY <2>3, <2>4 DEF TimerTypeOK
    <3> QED BY <3>1, <3>2
  <2>6. Armed(request'[r])
    <3>1. ASSUME q.op = "enable", schedule[w] # Null PROVE f \in Time /\ OnGrid(schedule[w].spec, f)
      <4>1. spec = schedule[w].spec /\ armed = TRUE /\ schedule[w] \in ScheduleRow
        BY <1>1, <3>1 DEF SpecOf
      <4>2. spec # Null
        BY <4>1, NullAssumption DEF ScheduleRow
      <4> QED BY <2>1, <2>2, <4>1, <4>2
    <3>2. ASSUME update, q.offer # Null, q.definition.status = "enabled"
          PROVE  f \in Time /\ OnGrid(q.offer, f)
      BY <2>1, <2>2, <3>2
    <3> QED BY <2>4, <3>1, <3>2 DEF Armed
  <2>7. lock' \in [Workflow -> Scheduler \cup Request \cup {Null}]
    BY <1>1, <1>3 DEF TimerTypeOK
  <2> QED BY <2>3, <2>4, <2>5, <2>6, <2>7
<1> QED BY <1>2, <1>3 DEF Read

LEMMA TypeStep == Inv /\ [TimerNext]_timerVars => TimerTypeOK'
<1> SUFFICES ASSUME Inv, [TimerNext]_timerVars PROVE TimerTypeOK'
  OBVIOUS
<1> USE DEF Inv
<1>1. CASE UNCHANGED timerVars
  BY <1>1 DEF timerVars, rows, history, TimerTypeOK
<1>2. CASE Clock
  BY <1>2, TimeAssumption DEF Clock, history, TimerTypeOK
<1>3. ASSUME NEW w \in Workflow, Create(w) PROVE TimerTypeOK'
  <2>1. PICK spec \in Offer \cup {Null}, enabled \in BOOLEAN :
          /\ ~Refused(spec, enabled)
          /\ definition' = [definition EXCEPT ![w] =
                              [status |-> IF enabled THEN "enabled" ELSE "disabled",
                               version |-> 1, owned |-> TRUE]]
          /\ schedule' = [schedule EXCEPT ![w] =
                            IF spec = Null THEN Null
                            ELSE [id |-> 1, spec |-> spec, enabled |-> enabled,
                                  next |-> FutureTime(spec, enabled)]]
          /\ first' = [first EXCEPT ![w] = FutureTime(spec, enabled)]
    BY <1>3 DEF Create
  <2>2. PICK f \in Time \cup {Null} : f = FutureTime(spec, enabled)
    BY <2>1, FutureType
  <2>3. definition' \in [Workflow -> Definition \cup {Null}]
        /\ schedule' \in [Workflow -> ScheduleRow \cup {Null}]
        /\ first' \in [Workflow -> Time \cup {Null}]
    BY <2>1, <2>2 DEF TimerTypeOK, Definition, Status, ScheduleRow
  <2> QED BY <1>3, <2>3 DEF Create, TimerTypeOK
<1>4. ASSUME NEW w \in Workflow, OwnerLeaves(w) PROVE TimerTypeOK'
  <2>1. definition' \in [Workflow -> Definition \cup {Null}]
    BY <1>4 DEF OwnerLeaves, TimerTypeOK, Definition
  <2>2. timerFaults' \in 0..MaxTimerFaults
    BY <1>4, TimeAssumption DEF OwnerLeaves, TimerTypeOK
  <2> QED BY <1>4, <2>1, <2>2 DEF OwnerLeaves, TimerTypeOK
<1>5. ASSUME NEW r \in Request, Load(r) PROVE TimerTypeOK'
  BY <1>5, LoadedType DEF Load, rows, history, TimerTypeOK
<1>6. ASSUME NEW r \in Request, Read(r) PROVE TimerTypeOK'
  BY <1>6, ReadType DEF Read, rows, history, TimerTypeOK
<1>7. ASSUME NEW r \in Request, request[r].at = "read", ~Conflict(request[r]), Written(request[r])
      PROVE  /\ now' \in 1..MaxTime /\ timerFaults' \in 0..MaxTimerFaults
             /\ definition' \in [Workflow -> Definition \cup {Null}]
             /\ schedule' \in [Workflow -> ScheduleRow \cup {Null}]
             /\ scheduled' \in [Workflow -> SUBSET Time]
             /\ first' \in [Workflow -> Time \cup {Null}]
             /\ earlier' \in [Workflow -> SUBSET Time] /\ blind' \subseteq Workflow
  BY <1>7, WrittenRows DEF TimerTypeOK
<1>8. ASSUME NEW r \in Request, Commit(r) PROVE TimerTypeOK'
  <2>1. request' \in [Request -> RequestRow] /\ lock' \in [Workflow -> Scheduler \cup Request \cup {Null}]
    BY <1>8, DoneType, UnlockedType DEF Commit
  <2>2. CASE Conflict(request[r])
    BY <1>8, <2>1, <2>2 DEF Commit, rows, history, TimerTypeOK
  <2>3. CASE ~Conflict(request[r])
    BY <1>7, <1>8, <2>1, <2>3 DEF Commit, TimerTypeOK
  <2> QED BY <2>2, <2>3
<1>9. ASSUME NEW r \in Request, NEW s \in Scheduler, Deadlock(r, s) PROVE TimerTypeOK'
  <2>1. request' \in [Request -> RequestRow]
    BY <1>9, DoneType DEF Deadlock
  <2>2. CASE lock' = Unlocked(r) /\ UNCHANGED <<rows, locked, plan, history>>
    BY <2>1, <2>2, UnlockedType DEF rows, history, TimerTypeOK
  <2>3. ASSUME EndBatch(s), lock' = [v \in Workflow |-> IF lock[v] \in {r, s} THEN Null ELSE lock[v]],
               IF Conflict(request[r]) THEN UNCHANGED <<rows, history>> ELSE Written(request[r])
        PROVE  TimerTypeOK'
    <3>1. lock' \in [Workflow -> Scheduler \cup Request \cup {Null}]
      BY <2>3 DEF TimerTypeOK
    <3>2. /\ locked' \in [Scheduler -> SUBSET Workflow]
          /\ plan' \in [Scheduler -> [Workflow -> {"none", "off", "fire", "exhaust"}]]
      BY <2>3, EndBatchType
    <3>3. CASE Conflict(request[r])
      BY <2>1, <2>3, <3>1, <3>2, <3>3 DEF rows, history, TimerTypeOK
    <3>4. CASE ~Conflict(request[r])
      <4>1. request[r].at = "read"
        BY <1>9 DEF Deadlock
      <4> QED BY <1>7, <2>1, <2>3, <3>1, <3>2, <3>4, <4>1 DEF TimerTypeOK
    <3> QED BY <3>3, <3>4
  <2> QED BY <1>9, <2>2, <2>3 DEF Deadlock
<1>10. ASSUME NEW s \in Scheduler, SelectDue(s) PROVE TimerTypeOK'
  <2>1. locked' \in [Scheduler -> SUBSET Workflow]
    BY <1>10 DEF SelectDue, TimerTypeOK
  <2> QED BY <1>10, <2>1 DEF SelectDue, rows, history, TimerTypeOK
<1>11. ASSUME NEW s \in Scheduler, NEW w \in Workflow, Fire(s, w) PROVE TimerTypeOK'
  <2>1. Verdict(w) \in {"off", "fire", "exhaust"}
    BY DEF Verdict
  <2>2. plan' \in [Scheduler -> [Workflow -> {"none", "off", "fire", "exhaust"}]]
    BY <1>11, <2>1 DEF Fire, TimerTypeOK
  <2>3. lock' \in [Workflow -> Scheduler \cup Request \cup {Null}]
    BY <1>11 DEF Fire, TimerTypeOK
  <2> QED BY <1>11, <2>2, <2>3 DEF Fire, rows, history, TimerTypeOK
<1>12. ASSUME NEW s \in Scheduler, Abort(s) PROVE TimerTypeOK'
  BY <1>12, EndBatchType, UnlockedType DEF Abort, rows, history, TimerTypeOK
<1>13. ASSUME NEW s \in Scheduler, CommitBatch(s) PROVE TimerTypeOK'
  BY <1>13, CommitBatchTypes
<1>14. ASSUME NEW s \in Scheduler, SchedulerDies(s) PROVE TimerTypeOK'
  <2>1. timerFaults' \in 0..MaxTimerFaults
    BY <1>14, TimeAssumption DEF SchedulerDies, TimerTypeOK
  <2> QED BY <1>14, <2>1, EndBatchType, UnlockedType DEF SchedulerDies, rows, TimerTypeOK
<1> QED BY <1>1, <1>2, <1>3, <1>4, <1>5, <1>6, <1>8, <1>9, <1>10, <1>11, <1>12, <1>13, <1>14
        DEF TimerNext, RequestStep, EnqueueDue

-----------------------------------------------------------------------------
(* What a committed batch does to each row.                                *)

LEMMA CommitBatchAt ==
    ASSUME TimerTypeOK, RowsInv, LockInv, NEW s \in Scheduler, CommitBatch(s), NEW w \in Workflow
    PROVE  /\ w \notin locked[s] =>
                /\ definition'[w] = definition[w] /\ schedule'[w] = schedule[w]
                /\ scheduled'[w] = scheduled[w] /\ first'[w] = first[w]
           /\ w \in locked[s] =>
                /\ definition[w] \in Definition /\ definition'[w] \in Definition
                /\ schedule[w] \in ScheduleRow
                /\ plan[s][w] \in {"off", "fire", "exhaust"}
                /\ plan[s][w] = "off" => first'[w] = Null /\ scheduled'[w] = scheduled[w]
                /\ plan[s][w] = "fire" => schedule'[w] = [schedule[w] EXCEPT !.next = Following(w)]
                /\ plan[s][w] = "exhaust" =>
                     schedule'[w] = [schedule[w] EXCEPT !.next = Null, !.enabled = FALSE]
                /\ plan[s][w] # "off" =>
                     first'[w] = first[w] /\ scheduled'[w] = scheduled[w] \cup {schedule[w].next}
<1>1. CASE w \notin locked[s]
  BY <1>1 DEF CommitBatch
<1>2. CASE w \in locked[s]
  <2>1. definition[w] \in Definition /\ schedule[w] \in ScheduleRow
    BY <1>2 DEF TimerTypeOK, RowsInv, LockInv
  <2>2. plan[s][w] \in {"off", "fire", "exhaust"}
    <3>1. plan[s][w] # "none"
      BY <1>2 DEF CommitBatch
    <3>2. plan[s][w] \in {"none", "off", "fire", "exhaust"}
      BY DEF TimerTypeOK
    <3> QED BY <3>1, <3>2
  <2>3. definition'[w] = IF plan[s][w] = "exhaust" THEN [definition[w] EXCEPT !.status = "disabled"]
                         ELSE definition[w]
    BY <1>2 DEF CommitBatch
  <2>4. definition'[w] \in Definition
    <3>1. [definition[w] EXCEPT !.status = "disabled"] \in Definition
      BY <2>1 DEF Definition, Status
    <3> QED BY <2>1, <2>3, <3>1
  <2>5. first'[w] = (IF plan[s][w] = "off" THEN Null ELSE first[w])
        /\ scheduled'[w] = (IF plan[s][w] \in {"fire", "exhaust"} THEN scheduled[w] \cup {schedule[w].next}
                            ELSE scheduled[w])
    BY <1>2 DEF CommitBatch
  <2>6. plan[s][w] = "fire" => schedule'[w] = [schedule[w] EXCEPT !.next = Following(w)]
    BY <1>2 DEF CommitBatch
  <2>7. plan[s][w] = "exhaust" => schedule'[w] = [schedule[w] EXCEPT !.next = Null, !.enabled = FALSE]
    BY <1>2 DEF CommitBatch
  <2> QED BY <1>2, <2>1, <2>2, <2>4, <2>5, <2>6, <2>7
<1> QED BY <1>1, <1>2

-----------------------------------------------------------------------------
(* Rows and requests.                                                      *)

\* Definitions stay.
LEMMA DefinitionsStay ==
    ASSUME Inv, [TimerNext]_timerVars, NEW w \in Workflow, definition[w] # Null
    PROVE  definition'[w] # Null
<1> USE DEF Inv
<1>1. CASE definition' = definition
  BY <1>1
<1>2. ASSUME NEW v \in Workflow, Create(v) PROVE definition'[w] # Null
  <2>1. v # w
    BY <1>2 DEF Create
  <2> QED BY <1>2, <2>1 DEF Create, TimerTypeOK
<1>3. ASSUME NEW v \in Workflow, OwnerLeaves(v) PROVE definition'[w] # Null
  <2>1. definition[v] \in Definition
    BY <1>3 DEF OwnerLeaves, TimerTypeOK
  <2>2. [definition[v] EXCEPT !.owned = FALSE] \in Definition
    BY <2>1 DEF Definition
  <2>3. definition' = [definition EXCEPT ![v] = [definition[v] EXCEPT !.owned = FALSE]]
    BY <1>3 DEF OwnerLeaves
  <2> QED BY <2>2, <2>3, NullAssumption DEF TimerTypeOK
<1>4. ASSUME NEW r \in Request, request[r].at = "read", ~Conflict(request[r]), Written(request[r])
      PROVE  definition'[w] # Null
  BY <1>4, WrittenRows
<1>5. ASSUME NEW s \in Scheduler, CommitBatch(s) PROVE definition'[w] # Null
  BY <1>5, CommitBatchAt, NullAssumption
<1> QED BY <1>1, <1>2, <1>3, <1>4, <1>5
        DEF TimerNext, RequestStep, EnqueueDue, timerVars, rows, history, Clock, Load, Read, Commit,
            Deadlock, SelectDue, Fire, Abort, SchedulerDies

LEMMA RowsStep == Inv /\ [TimerNext]_timerVars => RowsInv'
<1> SUFFICES ASSUME Inv, [TimerNext]_timerVars, NEW w \in Workflow, definition'[w] = Null
             PROVE  schedule'[w] = Null /\ scheduled'[w] = {}
  BY DEF RowsInv
<1> USE DEF Inv
<1>0. schedule[w] = Null /\ scheduled[w] = {} /\ \A s \in Scheduler : w \notin locked[s]
  BY DefinitionsStay DEF RowsInv, LockInv
<1>1. CASE schedule' = schedule /\ scheduled' = scheduled
  BY <1>0, <1>1
<1>2. ASSUME NEW v \in Workflow, Create(v) PROVE schedule'[w] = Null /\ scheduled'[w] = {}
  <2>1. v # w
    <3> SUFFICES ASSUME v = w PROVE FALSE
      OBVIOUS
    <3>1. PICK enabled \in BOOLEAN :
            definition' = [definition EXCEPT ![w] = [status |-> IF enabled THEN "enabled" ELSE "disabled",
                                                     version |-> 1, owned |-> TRUE]]
      BY <1>2 DEF Create
    <3>2. definition'[w] \in Definition
      BY <3>1 DEF TimerTypeOK, Definition, Status
    <3> QED BY <3>2, NullAssumption
  <2> QED BY <1>0, <1>2, <2>1 DEF Create, TimerTypeOK
<1>3. ASSUME NEW r \in Request, request[r].at = "read", ~Conflict(request[r]), Written(request[r])
      PROVE  schedule'[w] = Null /\ scheduled'[w] = {}
  BY <1>0, <1>3, WrittenRows
<1>4. ASSUME NEW s \in Scheduler, CommitBatch(s) PROVE schedule'[w] = Null /\ scheduled'[w] = {}
  BY <1>0, <1>4, CommitBatchAt
<1> QED BY <1>1, <1>2, <1>3, <1>4
        DEF TimerNext, RequestStep, EnqueueDue, timerVars, rows, history, Clock, Load, Read, Commit,
            Deadlock, SelectDue, Fire, Abort, SchedulerDies, OwnerLeaves

LEMMA RequestsStep == Inv /\ [TimerNext]_timerVars => RequestInv'
<1> SUFFICES ASSUME Inv, [TimerNext]_timerVars, NEW r \in Request, request'[r].at \in {"loaded", "read"}
             PROVE  /\ request'[r].workflow \in Workflow /\ request'[r].op \in Operation
                    /\ request'[r].definition \in Definition
                    /\ definition'[request'[r].workflow] # Null
                    /\ request'[r].at = "read" => Armed(request'[r])
  BY DEF RequestInv, Armed
<1> USE DEF Inv
<1>1. CASE request'[r] = request[r]
  <2>1. PICK w : w = request[r].workflow
    OBVIOUS
  <2>2. w \in Workflow /\ definition[w] # Null
    BY <1>1, <2>1 DEF RequestInv
  <2>3. definition'[w] # Null
    BY <2>2, DefinitionsStay
  <2> QED BY <1>1, <2>1, <2>3 DEF RequestInv
<1>2. CASE Load(r)
  <2>1. definition' = definition
    BY <1>2 DEF Load, rows
  <2> QED BY <1>2, <2>1, LoadedType
<1>3. CASE Read(r)
  <2>1. definition' = definition /\ request[r].at = "loaded"
    BY <1>3 DEF Read, rows
  <2> QED BY <1>3, <2>1, ReadType DEF RequestInv
<1>4. CASE request' = [request EXCEPT ![r] = Quiet("done")]
  BY <1>4, DoneType
<1>5. ASSUME NEW p \in Request, p # r, Load(p) \/ Read(p) \/ request' = [request EXCEPT ![p] = Quiet("done")]
      PROVE  request'[r] = request[r]
  BY <1>5, LoadedType, ReadType, DoneType
<1> QED BY <1>1, <1>2, <1>3, <1>4, <1>5
        DEF TimerNext, RequestStep, EnqueueDue, timerVars, rows, history, Clock, Commit, Create,
            Deadlock, SelectDue, Fire, Abort, SchedulerDies, OwnerLeaves, CommitBatch

-----------------------------------------------------------------------------
(* Row locks and what transactions have decided.                           *)

\* Rows that stay locked and are left alone stay as they were.
LEMMA LockKept ==
    ASSUME TimerTypeOK, TimerTypeOK', LockInv, now <= now',
           \A s \in Scheduler : locked'[s] \subseteq locked[s],
           \A s \in Scheduler : \A w \in locked'[s] : schedule'[w] = schedule[w]
    PROVE  LockInv'
<1> SUFFICES ASSUME NEW s \in Scheduler, NEW w \in locked'[s]
             PROVE  /\ schedule'[w] # Null /\ schedule'[w].enabled
                    /\ schedule'[w].next # Null /\ schedule'[w].next <= now'
                    /\ \A z \in Scheduler \ {s} : w \notin locked'[z]
  BY DEF LockInv
<1>1. w \in locked[s] /\ schedule'[w] = schedule[w] /\ w \in Workflow
  BY DEF TimerTypeOK
<1>2. schedule[w] # Null /\ schedule[w].enabled /\ schedule[w].next # Null /\ schedule[w].next <= now
      /\ \A z \in Scheduler \ {s} : w \notin locked[z]
  BY <1>1 DEF LockInv
<1>3. schedule[w].next \in Nat /\ now \in Nat /\ now' \in Nat
  BY <1>1, <1>2 DEF TimerTypeOK, ScheduleRow, Time
<1>4. schedule[w].next <= now'
  BY <1>2, <1>3
<1> QED BY <1>1, <1>2, <1>4

\* A request writes no row that a scheduler holds.
LEMMA HeldIsKept ==
    ASSUME Inv, NEW r \in Request, request[r].at = "read", ~Conflict(request[r]), Written(request[r]),
           NEW v \in Workflow, WritesRow(request[r]) => v # request[r].workflow
    PROVE  schedule'[v] = schedule[v]
BY WrittenRows DEF Inv

LEMMA LockStep == Inv /\ [TimerNext]_timerVars => LockInv'
<1> SUFFICES ASSUME Inv, [TimerNext]_timerVars PROVE LockInv'
  OBVIOUS
<1>0. TimerTypeOK'
  BY TypeStep
<1> USE DEF Inv
<1>n. now \in Nat
  BY DEF TimerTypeOK
<1>1. CASE UNCHANGED <<now, locked, schedule>> \/ Clock
  BY <1>0, <1>1, <1>n, LockKept DEF Clock
<1>2. ASSUME NEW w \in Workflow, Create(w) PROVE LockInv'
  <2>1. now' = now /\ locked' = locked /\ \A v \in Workflow \ {w} : schedule'[v] = schedule[v]
    BY <1>2 DEF Create, TimerTypeOK
  <2>2. \A s \in Scheduler : w \notin locked[s]
    BY <1>2 DEF Create, RowsInv, LockInv
  <2> QED BY <1>0, <1>n, <2>1, <2>2, LockKept DEF TimerTypeOK
<1>3. ASSUME NEW r \in Request, Commit(r) PROVE LockInv'
  <2>1. locked' = locked /\ request[r].at = "read"
        /\ (WritesRow(request[r]) => RowFree(request[r].workflow))
    BY <1>3 DEF Commit
  <2>2. CASE Conflict(request[r])
    BY <1>0, <1>3, <1>n, <2>1, <2>2, LockKept DEF Commit, rows
  <2>3. CASE ~Conflict(request[r])
    <3>1. Written(request[r]) /\ now' = now
      BY <1>3, <2>3 DEF Commit, Written
    <3>2. ASSUME NEW s \in Scheduler, NEW w \in locked[s] PROVE schedule'[w] = schedule[w]
      <4>1. w \in Workflow
        BY DEF TimerTypeOK
      <4>2. WritesRow(request[r]) => w # request[r].workflow
        BY <2>1 DEF RowFree
      <4> QED BY <2>1, <2>3, <3>1, <4>1, <4>2, HeldIsKept
    <3> QED BY <1>0, <1>n, <2>1, <3>1, <3>2, LockKept
  <2> QED BY <2>2, <2>3
<1>4. ASSUME NEW r \in Request, NEW s \in Scheduler, Deadlock(r, s) PROVE LockInv'
  <2>1. CASE UNCHANGED <<rows, locked, plan, history>>
    BY <1>0, <1>n, <2>1, LockKept DEF rows
  <2>2. ASSUME EndBatch(s),
               IF Conflict(request[r]) THEN UNCHANGED <<rows, history>> ELSE Written(request[r])
        PROVE  LockInv'
    <3>1. locked'[s] = {} /\ \A z \in Scheduler \ {s} : locked'[z] = locked[z]
      BY <2>2, EndBatchType
    <3>2. CASE Conflict(request[r])
      BY <1>0, <1>n, <2>2, <3>1, <3>2, LockKept DEF rows
    <3>3. CASE ~Conflict(request[r])
      <4>1. Written(request[r]) /\ now' = now
        BY <2>2, <3>3 DEF Written
      <4>2. request[r].at = "read" /\ request[r].workflow \in locked[s]
        BY <1>4 DEF Deadlock
      <4>3. ASSUME NEW z \in Scheduler, NEW w \in locked'[z] PROVE schedule'[w] = schedule[w]
        <5>1. z # s /\ w \in locked[z] /\ w \in Workflow
          BY <3>1 DEF TimerTypeOK
        <5>2. w # request[r].workflow
          BY <4>2, <5>1 DEF LockInv
        <5> QED BY <3>3, <4>1, <4>2, <5>1, <5>2, HeldIsKept
      <4> QED BY <1>0, <1>n, <3>1, <4>1, <4>3, LockKept
    <3> QED BY <3>2, <3>3
  <2> QED BY <1>4, <2>1, <2>2 DEF Deadlock
<1>5. ASSUME NEW s \in Scheduler, SelectDue(s) PROVE LockInv'
  <2>1. PICK batch \in SUBSET {w \in Workflow : Due(w) /\ RowFree(w)} :
          locked' = [locked EXCEPT ![s] = batch]
    BY <1>5 DEF SelectDue
  <2>2. UNCHANGED <<now, schedule>>
    BY <1>5 DEF SelectDue, rows
  <2>3. locked'[s] = batch /\ \A z \in Scheduler \ {s} : locked'[z] = locked[z]
    BY <2>1 DEF TimerTypeOK
  <2> QED BY <2>1, <2>2, <2>3 DEF LockInv, Due, RowFree
<1>6. ASSUME NEW s \in Scheduler, CommitBatch(s) PROVE LockInv'
  <2>1. now' = now /\ locked'[s] = {} /\ \A z \in Scheduler \ {s} : locked'[z] = locked[z]
    BY <1>6, EndBatchType DEF CommitBatch
  <2>2. ASSUME NEW z \in Scheduler, NEW w \in locked'[z] PROVE schedule'[w] = schedule[w]
    <3>1. z # s /\ w \in locked[z] /\ w \in Workflow
      BY <2>1 DEF TimerTypeOK
    <3>2. w \notin locked[s]
      BY <3>1 DEF LockInv
    <3> QED BY <1>6, <3>1, <3>2, CommitBatchAt
  <2> QED BY <1>0, <1>n, <2>1, <2>2, LockKept
<1>7. ASSUME NEW s \in Scheduler, Abort(s) \/ SchedulerDies(s) PROVE LockInv'
  <2>1. now' = now /\ schedule' = schedule /\ EndBatch(s)
    BY <1>7 DEF Abort, SchedulerDies, rows
  <2> QED BY <1>0, <1>n, <2>1, EndBatchType, LockKept
<1> QED BY <1>1, <1>2, <1>3, <1>4, <1>5, <1>6, <1>7
        DEF TimerNext, RequestStep, EnqueueDue, timerVars, rows, history, Load, Read, Fire, OwnerLeaves

\* What a request that leaves a held row alone does to the status of its workflow:
\* an enabled one is disabled only by a request with an old copy of the row.
LEMMA StatusKept ==
    ASSUME TimerTypeOK, RequestInv, NEW r \in Request, request[r].at = "read",
           Written(request[r]), ~WritesRow(request[r]),
           NEW w, w = request[r].workflow, schedule[w] # Null, schedule[w].enabled,
           definition[w].status = "enabled"
    PROVE  definition'[w].status = "enabled" \/ w \in blind'
<1> DEFINE q == request[r]
<1>1. /\ w \in Workflow /\ q.op \in Operation /\ schedule[w] \in ScheduleRow
  BY DEF TimerTypeOK, RequestInv
<1>2. definition'[w].status = Column(definition[w].status, q.definition.status, NewStatus(q))
  BY <1>1 DEF Written, TimerTypeOK
<1>3. CASE q.op \in {"update", "enable"}
  <2>1. NewStatus(q) = q.definition.status \/ NewStatus(q) = "enabled"
    BY <1>3 DEF NewStatus
  <2> QED BY <1>2, <2>1 DEF Column
<1>4. CASE q.op \in {"disable", "archive"}
  <2>1. CASE q.row # schedule[w]
    BY <1>4, <2>1 DEF Written
  <2>2. CASE q.row = schedule[w]
    <3>1. NewRow(q) = [schedule[w] EXCEPT !.enabled = FALSE, !.next = Null]
      BY <1>4, <2>2 DEF NewRow
    <3>2. NewRow(q).enabled = FALSE
      BY <1>1, <3>1 DEF ScheduleRow
    <3> QED BY <1>1, <2>2, <3>2 DEF WritesRow
  <2> QED BY <2>1, <2>2
<1> QED BY <1>1, <1>3, <1>4 DEF Operation

LEMMA PlanKept ==
    ASSUME PlanInv, NEW s \in Scheduler, NEW w \in Workflow,
           plan'[s][w] # "none" =>
             /\ plan'[s][w] = plan[s][w] /\ locked'[s] = locked[s] /\ schedule'[w] = schedule[w]
             /\ definition[w].status = "enabled" \/ w \in blind =>
                  definition'[w].status = "enabled" \/ w \in blind'
    PROVE  PlanOf(s, w)'
<1>1. CASE plan'[s][w] = "none"
  BY <1>1 DEF PlanOf
<1>2. CASE plan'[s][w] # "none"
  <2>1. PlanOf(s, w)
    BY DEF PlanInv, PlanOf
  <2>2. Following(w)' = Following(w)
    BY <1>2 DEF Following
  <2> QED BY <1>2, <2>1, <2>2 DEF PlanOf
<1> QED BY <1>1, <1>2

LEMMA PlanStep == Inv /\ [TimerNext]_timerVars => PlanInv'
<1> SUFFICES ASSUME Inv, [TimerNext]_timerVars, NEW z \in Scheduler, NEW v \in Workflow
             PROVE  PlanOf(z, v)'
  BY DEF PlanInv, PlanOf
<1> USE DEF Inv
<1>0. plan[z][v] # "none" => /\ v \in locked[z] /\ schedule[v] # Null /\ schedule[v].enabled
                             /\ \A s \in Scheduler \ {z} : v \notin locked[s]
  BY DEF PlanInv, PlanOf, LockInv
<1>1. CASE UNCHANGED <<plan, locked, schedule, definition, blind>>
  BY <1>1, PlanKept
<1>2. ASSUME NEW w \in Workflow, Create(w) PROVE PlanOf(z, v)'
  <2>1. UNCHANGED <<plan, locked, blind>>
    BY <1>2 DEF Create
  <2>2. plan[z][v] # "none" => v # w
    BY <1>0, <1>2 DEF Create, RowsInv
  <2>3. v # w => definition'[v] = definition[v] /\ schedule'[v] = schedule[v]
    BY <1>2 DEF Create, TimerTypeOK
  <2> QED BY <2>1, <2>2, <2>3, PlanKept
<1>3. ASSUME NEW w \in Workflow, OwnerLeaves(w) PROVE PlanOf(z, v)'
  <2>1. UNCHANGED <<plan, locked, schedule, blind>>
    BY <1>3 DEF OwnerLeaves
  <2>2. definition'[v].status = definition[v].status
    BY <1>3 DEF OwnerLeaves, TimerTypeOK, Definition
  <2> QED BY <2>1, <2>2, PlanKept
<1>4. ASSUME NEW r \in Request, request[r].at = "read", ~Conflict(request[r]), Written(request[r]),
             plan'[z][v] # "none" => /\ plan'[z][v] = plan[z][v] /\ locked'[z] = locked[z]
                                     /\ WritesRow(request[r]) => v # request[r].workflow
      PROVE  PlanOf(z, v)'
  <2> SUFFICES ASSUME plan'[z][v] # "none" PROVE PlanOf(z, v)'
    BY PlanKept
  <2>1. schedule'[v] = schedule[v] /\ blind \subseteq blind'
    BY <1>4, WrittenRows, HeldIsKept
  <2>2. CASE v # request[r].workflow
    <3>1. definition'[v] = definition[v]
      BY <1>4, <2>2, WrittenRows
    <3> QED BY <1>4, <2>1, <3>1, PlanKept
  <2>3. CASE v = request[r].workflow
    <3>1. definition[v].status = "enabled" => definition'[v].status = "enabled" \/ v \in blind'
      BY <1>0, <1>4, <2>3, StatusKept
    <3> QED BY <1>4, <2>1, <3>1, PlanKept
  <2> QED BY <2>2, <2>3
<1>5. ASSUME NEW r \in Request, Commit(r) PROVE PlanOf(z, v)'
  <2>1. UNCHANGED <<plan, locked>> /\ request[r].at = "read"
        /\ (WritesRow(request[r]) => RowFree(request[r].workflow))
    BY <1>5 DEF Commit
  <2>2. CASE Conflict(request[r])
    BY <1>5, <2>1, <2>2, PlanKept DEF Commit, rows, history
  <2>3. CASE ~Conflict(request[r])
    <3>1. Written(request[r])
      BY <1>5, <2>3 DEF Commit
    <3> QED BY <1>0, <1>4, <2>1, <2>3, <3>1 DEF RowFree
  <2> QED BY <2>2, <2>3
<1>6. ASSUME NEW s \in Scheduler, EndBatch(s)
      PROVE  plan'[z][v] # "none" => z # s /\ plan'[z][v] = plan[z][v] /\ locked'[z] = locked[z]
  BY <1>6, EndBatchType
<1>7. ASSUME NEW r \in Request, NEW s \in Scheduler, Deadlock(r, s) PROVE PlanOf(z, v)'
  <2>1. CASE UNCHANGED <<rows, locked, plan, history>>
    BY <2>1, PlanKept DEF rows, history
  <2>2. ASSUME EndBatch(s),
               IF Conflict(request[r]) THEN UNCHANGED <<rows, history>> ELSE Written(request[r])
        PROVE  PlanOf(z, v)'
    <3>1. CASE Conflict(request[r])
      BY <1>6, <2>2, <3>1, PlanKept DEF rows, history
    <3>2. CASE ~Conflict(request[r])
      <4>1. Written(request[r])
        BY <2>2, <3>2
      <4>2. request[r].at = "read" /\ request[r].workflow \in locked[s]
        BY <1>7 DEF Deadlock
      <4>3. plan'[z][v] # "none" => v # request[r].workflow
        BY <1>0, <1>6, <2>2, <4>2
      <4> QED BY <1>4, <1>6, <2>2, <3>2, <4>1, <4>2, <4>3
    <3> QED BY <3>1, <3>2
  <2> QED BY <1>7, <2>1, <2>2 DEF Deadlock
<1>8. ASSUME NEW s \in Scheduler, SelectDue(s) PROVE PlanOf(z, v)'
  <2>1. UNCHANGED <<plan, schedule, definition, blind>> /\ locked[s] = {}
        /\ (z # s => locked'[z] = locked[z])
    BY <1>8 DEF SelectDue, rows, history, TimerTypeOK
  <2>2. plan[z][v] # "none" => z # s
    BY <1>0, <2>1
  <2> QED BY <2>1, <2>2, PlanKept
<1>9. ASSUME NEW s \in Scheduler, NEW w \in Workflow, Fire(s, w) PROVE PlanOf(z, v)'
  <2>1. UNCHANGED <<locked, schedule, definition, blind>>
    BY <1>9 DEF Fire, rows, history
  <2>2. CASE z = s /\ v = w
    <3>1. plan'[z][v] = Verdict(v) /\ v \in locked[z] /\ ~FiringRaises(v)
      BY <1>9, <2>2 DEF Fire, TimerTypeOK
    <3>2. Verdict(v) \in {"fire", "exhaust"} =>
            definition[v].status = "enabled" /\ (Verdict(v) = "exhaust" <=> Following(v) = Null)
      BY DEF Verdict
    <3>3. definition[v].status = "enabled" => ~Raises(schedule[v].spec, schedule[v].next)
      BY <3>1 DEF FiringRaises
    <3>4. Following(v)' = Following(v)
      BY <2>1 DEF Following
    <3> QED BY <2>1, <3>1, <3>2, <3>3, <3>4 DEF PlanOf
  <2>3. CASE ~(z = s /\ v = w)
    <3>1. plan'[z][v] = plan[z][v]
      BY <1>9, <2>3 DEF Fire, TimerTypeOK
    <3> QED BY <2>1, <3>1, PlanKept
  <2> QED BY <2>2, <2>3
<1>10. ASSUME NEW s \in Scheduler, CommitBatch(s) PROVE PlanOf(z, v)'
  <2> SUFFICES ASSUME plan'[z][v] # "none" PROVE PlanOf(z, v)'
    BY PlanKept
  <2>1. z # s /\ plan'[z][v] = plan[z][v] /\ locked'[z] = locked[z] /\ blind' = blind
    BY <1>6, <1>10 DEF CommitBatch
  <2>2. v \notin locked[s]
    BY <1>0, <2>1
  <2>3. definition'[v] = definition[v] /\ schedule'[v] = schedule[v]
    BY <1>10, <2>2, CommitBatchAt
  <2> QED BY <2>1, <2>3, PlanKept
<1>11. ASSUME NEW s \in Scheduler, Abort(s) \/ SchedulerDies(s) PROVE PlanOf(z, v)'
  <2>1. EndBatch(s) /\ UNCHANGED <<schedule, definition, blind>>
    BY <1>11 DEF Abort, SchedulerDies, rows, history
  <2> QED BY <1>6, <2>1, PlanKept
<1> QED BY <1>1, <1>2, <1>3, <1>5, <1>7, <1>8, <1>9, <1>10, <1>11
        DEF TimerNext, RequestStep, EnqueueDue, timerVars, rows, history, Load, Read, Clock

-----------------------------------------------------------------------------
(* Occurrences and runs.                                                   *)

\* A schedule that was just armed waits for its first occurrence, with none behind it.
LEMMA JustArmed ==
    ASSUME NEW spec \in Offer, NEW f \in Time, OnGrid(spec, f)
    PROVE  f \in Occurrences(spec, f) /\ Passed(spec, f, f) = {}
<1>1. f \in Nat /\ f # Null /\ \A t \in Occurrences(spec, f) : t \in Nat /\ ~(t < f)
  BY NullAssumption DEF Occurrences, Time
<1>2. CASE spec.type = "interval"
  <2>1. (f - f) % spec.every = 0
    BY <1>1, <1>2, OfferAssumption
  <2> QED BY <1>1, <1>2, <2>1 DEF Occurrences, Passed
<1>3. CASE spec.type # "interval"
  BY <1>1, <1>3 DEF Occurrences, Passed, OnGrid
<1> QED BY <1>2, <1>3

LEMMA CatchUpStep == Inv /\ [TimerNext]_timerVars => CatchUpInv'
<1> SUFFICES ASSUME Inv, [TimerNext]_timerVars, NEW w \in Workflow, first'[w] # Null
             PROVE  /\ schedule'[w] # Null
                    /\ OnGrid(schedule'[w].spec, first'[w])
                    /\ schedule'[w].next # Null =>
                         schedule'[w].next \in Occurrences(schedule'[w].spec, first'[w])
                    /\ Passed(schedule'[w].spec, first'[w], schedule'[w].next) \subseteq scheduled'[w]
                    /\ scheduled'[w] \subseteq
                         earlier'[w] \cup Passed(schedule'[w].spec, first'[w], schedule'[w].next)
  BY DEF CatchUpInv, CatchUpOf, OnGrid, Passed, Occurrences
<1> DEFINE Goal == /\ schedule'[w] # Null
                   /\ OnGrid(schedule'[w].spec, first'[w])
                   /\ schedule'[w].next # Null =>
                        schedule'[w].next \in Occurrences(schedule'[w].spec, first'[w])
                   /\ Passed(schedule'[w].spec, first'[w], schedule'[w].next) \subseteq scheduled'[w]
                   /\ scheduled'[w] \subseteq
                        earlier'[w] \cup Passed(schedule'[w].spec, first'[w], schedule'[w].next)
<1> SUFFICES Goal
  OBVIOUS
<1> USE DEF Inv
<1>0. TimerTypeOK' /\ CatchUpOf(w)
  BY TypeStep DEF CatchUpInv
<1>1. CASE /\ schedule'[w] = schedule[w] /\ scheduled'[w] = scheduled[w]
           /\ first'[w] = first[w] /\ earlier'[w] = earlier[w]
  BY <1>0, <1>1 DEF CatchUpOf
<1>2. ASSUME schedule'[w] # Null, schedule'[w].next = first'[w], OnGrid(schedule'[w].spec, first'[w]),
             scheduled'[w] \subseteq earlier'[w]
      PROVE  Goal
  <2>1. schedule'[w].spec \in Offer /\ first'[w] \in Time
    BY <1>0, <1>2 DEF TimerTypeOK, ScheduleRow
  <2>2. PICK spec \in Offer, f \in Time : spec = schedule'[w].spec /\ f = first'[w]
    BY <2>1
  <2>3. f \in Occurrences(spec, f) /\ Passed(spec, f, f) = {}
    BY <1>2, <2>2, JustArmed
  <2> QED BY <1>2, <2>2, <2>3
<1>3. ASSUME NEW v \in Workflow, Create(v) PROVE Goal
  <2>1. CASE v # w
    <3>1. /\ schedule'[w] = schedule[w] /\ scheduled'[w] = scheduled[w]
          /\ first'[w] = first[w] /\ earlier'[w] = earlier[w]
      BY <1>3, <2>1 DEF Create, TimerTypeOK
    <3> QED BY <1>1, <3>1
  <2>2. CASE v = w
    <3>1. PICK spec \in Offer \cup {Null}, enabled \in BOOLEAN :
            /\ ~Refused(spec, enabled)
            /\ schedule' = [schedule EXCEPT ![w] =
                              IF spec = Null THEN Null
                              ELSE [id |-> 1, spec |-> spec, enabled |-> enabled,
                                    next |-> FutureTime(spec, enabled)]]
            /\ first' = [first EXCEPT ![w] = FutureTime(spec, enabled)]
      BY <1>3, <2>2 DEF Create
    <3>2. scheduled[w] = {} /\ scheduled' = scheduled
      BY <1>3, <2>2 DEF Create, RowsInv
    <3>3. first'[w] = FutureTime(spec, enabled)
      BY <3>1 DEF TimerTypeOK
    <3>4. spec # Null /\ enabled
      BY <3>3 DEF FutureTime
    <3>5. OnGrid(spec, FutureTime(spec, enabled))
      BY <3>1, <3>4, FutureType
    <3>6. schedule'[w] = [id |-> 1, spec |-> spec, enabled |-> enabled,
                          next |-> FutureTime(spec, enabled)]
      BY <3>1, <3>4 DEF TimerTypeOK
    <3>7. schedule'[w].next = FutureTime(spec, enabled) /\ schedule'[w].spec = spec
      BY <3>6
    <3>8. schedule'[w] # Null
      <4>1. PICK f \in Time \cup {Null} : f = FutureTime(spec, enabled)
        BY <3>1, FutureType
      <4>2. schedule'[w] = [id |-> 1, spec |-> spec, enabled |-> enabled, next |-> f]
        BY <3>6, <4>1
      <4>3. spec \in Offer
        BY <3>4
      <4>4. schedule'[w] \in ScheduleRow
        BY <4>2, <4>3 DEF ScheduleRow
      <4> QED BY <4>4, NullAssumption
    <3> QED BY <1>2, <3>2, <3>3, <3>5, <3>7, <3>8
  <2> QED BY <2>1, <2>2
<1>4. ASSUME NEW r \in Request, request[r].at = "read", ~Conflict(request[r]), Written(request[r])
      PROVE  Goal
  <2>1. CASE w # request[r].workflow
    <3>1. /\ schedule'[w] = schedule[w] /\ scheduled'[w] = scheduled[w]
          /\ first'[w] = first[w] /\ earlier'[w] = earlier[w]
      BY <1>4, <2>1, WrittenRows
    <3> QED BY <1>1, <3>1
  <2>2. CASE w = request[r].workflow
    BY <1>2, <1>4, <2>2, WrittenCatchUp
  <2> QED BY <2>1, <2>2
<1>5. ASSUME NEW s \in Scheduler, CommitBatch(s) PROVE Goal
  <2>0. earlier' = earlier
    BY <1>5 DEF CommitBatch
  <2>1. CASE w \notin locked[s]
    BY <1>1, <1>5, <2>0, <2>1, CommitBatchAt
  <2>2. CASE w \in locked[s]
    <3>1. /\ plan[s][w] \in {"fire", "exhaust"} /\ schedule[w] \in ScheduleRow
          /\ first'[w] = first[w] /\ scheduled'[w] = scheduled[w] \cup {schedule[w].next}
      BY <1>5, <2>2, CommitBatchAt
    <3>2. ~Raises(schedule[w].spec, schedule[w].next)
          /\ (plan[s][w] = "exhaust" <=> Following(w) = Null)
      BY <3>1 DEF PlanInv, PlanOf
    <3>3. schedule[w].spec \in Offer /\ schedule[w].next \in 0..MaxTime /\ Following(w) \in Time \cup {Null}
      BY <2>2, <3>2, FollowingType
    <3>4. schedule'[w].spec = schedule[w].spec /\ schedule'[w].next = Following(w) /\ schedule'[w] # Null
      <4>1. CASE plan[s][w] = "fire"
        <5>1. schedule'[w] = [schedule[w] EXCEPT !.next = Following(w)]
          BY <1>5, <2>2, <4>1, CommitBatchAt
        <5>2. schedule'[w] \in ScheduleRow
          BY <3>1, <3>3, <5>1 DEF ScheduleRow
        <5> QED BY <3>1, <5>1, <5>2, NullAssumption DEF ScheduleRow
      <4>2. CASE plan[s][w] = "exhaust"
        <5>1. schedule'[w] = [schedule[w] EXCEPT !.next = Null, !.enabled = FALSE]
          BY <1>5, <2>2, <4>2, CommitBatchAt
        <5>2. schedule'[w] \in ScheduleRow
          BY <3>1, <5>1 DEF ScheduleRow
        <5> QED BY <3>1, <3>2, <4>2, <5>1, <5>2, NullAssumption DEF ScheduleRow
      <4> QED BY <3>1, <4>1, <4>2
    <3>5. PICK spec \in Offer, f \in Time, t \in 0..MaxTime, n \in Time \cup {Null} :
            spec = schedule[w].spec /\ f = first[w] /\ t = schedule[w].next /\ n = Following(w)
      BY <3>1, <3>3 DEF TimerTypeOK
    <3>6. t # Null
      BY TimeAssumption, NullAssumption
    <3>7. OnGrid(spec, f) /\ t \in Occurrences(spec, f)
          /\ Passed(spec, f, t) \subseteq scheduled[w]
          /\ scheduled[w] \subseteq earlier[w] \cup Passed(spec, f, t)
      BY <1>0, <3>1, <3>5, <3>6 DEF CatchUpOf
    <3>8. ~Raises(spec, t) /\ n = NextScheduleTime(spec, t) /\ t <= MaxTime
      BY <3>2, <3>5, TimeAssumption DEF Following
    <3>9. Passed(spec, f, n) = Passed(spec, f, t) \cup {t}
      BY <3>7, <3>8, PassedGrows
    <3>10. n # Null => n \in Occurrences(spec, f)
      BY <3>7, <3>8, NextOccurrence
    <3> QED BY <2>0, <3>1, <3>4, <3>5, <3>7, <3>9, <3>10
  <2> QED BY <2>1, <2>2
<1> HIDE DEF Goal
<1> QED BY <1>1, <1>3, <1>4, <1>5
        DEF TimerNext, RequestStep, EnqueueDue, timerVars, rows, history, Clock, Load, Read, Commit,
            Deadlock, SelectDue, Fire, Abort, SchedulerDies, OwnerLeaves

-----------------------------------------------------------------------------
LEMMA InvStep == Inv /\ [TimerNext]_timerVars => Inv'
BY TypeStep, RowsStep, LockStep, PlanStep, RequestsStep, CatchUpStep DEF Inv

\* The inductive invariant: rows held by one scheduler only, what it decided for
\* them, what requests have computed, and the occurrences behind each schedule.
THEOREM Invariance == TimerSpec => []Inv
<1>1. TimerInit => Inv
  BY InitInv
<1>2. Inv /\ [TimerNext]_timerVars => Inv'
  BY InvStep
<1> QED BY <1>1, <1>2, PTL DEF TimerSpec

\* Every variable keeps its type; the times that next_schedule_time computes stay
\* within the horizon.
THEOREM TypeCorrect == TimerSpec => []TimerTypeOK
<1>1. Inv => TimerTypeOK
  BY DEF Inv
<1> QED BY <1>1, Invariance, PTL

\* Every occurrence a schedule has passed since it was armed has its run and no other
\* time has got one, whatever crashes, aborts, replicas and requests come between.
THEOREM SchedulesCatchUp == TimerSpec => []OccurrencesCatchUp
<1>1. Inv => OccurrencesCatchUp
  BY DEF Inv, CatchUpInv, CatchUpOf, OccurrencesCatchUp, Passed
<1> QED BY <1>1, Invariance, PTL

\* Once a disabling request with a fresh copy of the schedule has committed, no
\* scheduler queues a run of the workflow.
THEOREM DisabledStaysQuiet == TimerSpec => DisabledIsQuiet
<1>1. ASSUME Inv, [TimerNext]_timerVars
      PROVE  [\A w \in Workflow : ~(scheduled'[w] \subseteq scheduled[w]) =>
                definition[w].status = "enabled" \/ w \in blind]_timerVars
  <2> SUFFICES ASSUME TimerNext, NEW w \in Workflow, ~(scheduled'[w] \subseteq scheduled[w])
               PROVE  definition[w].status = "enabled" \/ w \in blind
    BY <1>1
  <2> USE <1>1 DEF Inv
  <2>1. ASSUME NEW r \in Request, request[r].at = "read", ~Conflict(request[r]), Written(request[r])
        PROVE  FALSE
    <3>1. CASE w # request[r].workflow
      BY <2>1, <3>1, WrittenRows
    <3>2. CASE w = request[r].workflow
      BY <2>1, <3>2 DEF Written, TimerTypeOK
    <3> QED BY <3>1, <3>2
  <2>2. ASSUME NEW s \in Scheduler, CommitBatch(s)
        PROVE  definition[w].status = "enabled" \/ w \in blind
    <3>1. w \in locked[s] /\ plan[s][w] \in {"fire", "exhaust"}
      BY <2>2, CommitBatchAt
    <3> QED BY <3>1 DEF PlanInv, PlanOf
  <2> QED BY <2>1, <2>2
          DEF TimerNext, RequestStep, EnqueueDue, rows, history, Clock, Load, Read, Commit, Create,
              Deadlock, SelectDue, Fire, Abort, SchedulerDies, OwnerLeaves
<1> QED BY <1>1, Invariance, PTL DEF TimerSpec, DisabledIsQuiet

=============================================================================
