------------------------- MODULE EventDispatchProofs -------------------------
(***************************************************************************)
(* Proofs about EventDispatch, for any number of dispatchers, triggers and *)
(* events.                                                                 *)
(***************************************************************************)
EXTENDS EventDispatch, FiniteSetTheorems, WellFoundedInduction, TLAPS

\* One transaction at a time is behind the lock of the cursor, and the others have
\* selected, queued and written nothing.  What a transaction inserts is not there yet.
TickInv ==
    /\ \A d, e \in ticking : d = e
    /\ ticking # {} => cursor # None
    /\ cursor # None => cursor <= Len(log)
    /\ start <= Len(log)
    /\ \A d \in Dispatcher \ ticking : batch[d] = {} /\ queue[d] = {} /\ last[d] = 0
    /\ \A d \in Dispatcher : /\ batch[d] \subseteq Visible
                             /\ last[d] \in Visible \cup {0}
                             /\ \A key \in queue[d] : runs[key] = 0

\* The depth of a row counts the runs along its causes, and no row as deep as the
\* limit has a run or is about to get one.
DepthInv ==
    /\ \A n \in Logged : log[n].cause # 0 =>
         log[n].cause \in Logged /\ log[n].depth = log[log[n].cause].depth + 1
    /\ \A t \in Trigger, n \in Position :
         runs[<<t, n>>] > 0 \/ (\E d \in Dispatcher : <<t, n>> \in queue[d])
         => n \in Logged /\ WithinDepth(n)

\* When the transactions that write events do not overlap, an event that is not
\* visible yet is the last one and not behind the cursor.  A tick takes the
\* events after the cursor in their order and leaves none out.
OnceInv ==
    /\ \A n \in Open : n = Len(log) /\ (cursor # None => cursor < n \/ n <= start)
    /\ ExactlyOnce
    /\ \A d \in ticking :
         /\ \A n \in batch[d] : /\ last[d] < n
                                /\ \A m \in Visible : cursor < m /\ last[d] < m /\ m < n => m \in batch[d]
         /\ \A t \in Trigger \ touched, n \in Visible :
              cursor < n /\ n <= last[d] /\ Eligible(t, n)
              => <<t, n>> \in queue[d] \/ runs[<<t, n>>] = 1

-----------------------------------------------------------------------------
(* The log only grows, and a row changes its status once.                  *)

\* What a step may do to the log.
LogKept ==
    /\ log' \in Seq(EventRow) /\ Len(log) <= Len(log') /\ Len(log') <= MaxEvents
    /\ \A n \in Logged : /\ log'[n].type = log[n].type
                         /\ log'[n].depth = log[n].depth
                         /\ log'[n].cause = log[n].cause
                         /\ log[n].status # "open" => log'[n].status = log[n].status

\* A new row is open, and carries the lineage of the row that caused it.
LogNew ==
    \A n \in 1..Len(log') \ Logged :
        /\ log'[n].status = "open" /\ n = Len(log') /\ Cardinality(Open) < MaxOpen
        /\ log'[n].cause # 0 =>
             log'[n].cause \in Logged /\ log'[n].depth = log[log'[n].cause].depth + 1

\* Everything but the log and the runs that wrote to it.
Dispatching == <<cursor, ticking, batch, queue, last, runs, workflow, start, touched, faults, changes>>

\* Positions of the log.
LEMMA LoggedAt ==
    ASSUME TypeOK
    PROVE  /\ Len(log) \in Nat /\ MaxEvents \in Nat
           /\ Logged \subseteq Position /\ Open \subseteq Logged /\ Visible \subseteq Logged
           /\ \A n \in Logged : log[n] \in EventRow
BY DispatchAssumption DEF TypeOK, Logged, Position, Open, Visible

\* A stamp appends an open row.
LEMMA StampAt ==
    ASSUME TypeOK, NEW type \in Seq(STRING), NEW depth \in Nat, NEW cause \in 0..MaxEvents,
           Stamp(type, depth, cause)
    PROVE  /\ LogKept /\ Len(log') = Len(log) + 1
           /\ \A n \in Logged : log'[n] = log[n]
           /\ log'[Len(log) + 1] = [status |-> "open", type |-> type, depth |-> depth, cause |-> cause]
<1> DEFINE new == [status |-> "open", type |-> type, depth |-> depth, cause |-> cause]
<1>1. new \in EventRow BY DEF EventRow
<1>2. log \in Seq(EventRow) /\ log' = Append(log, new) /\ Len(log) < MaxEvents
  BY DEF TypeOK, Stamp
<1>3. /\ log' \in Seq(EventRow) /\ Len(log') = Len(log) + 1 /\ log'[Len(log) + 1] = new
      /\ \A n \in 1..Len(log) : log'[n] = log[n]
  BY <1>1, <1>2
<1> QED BY <1>2, <1>3, DispatchAssumption DEF LogKept, Logged

\* The end of a transaction settles its row.
LEMMA SettleAt ==
    ASSUME TypeOK, NEW n \in Logged, Settle(n)
    PROVE  /\ LogKept /\ Len(log') = Len(log) /\ n \in Open
           /\ \A m \in Logged \ {n} : log'[m] = log[m]
           /\ log'[n].status \in {"visible", "aborted"}
<1>1. log \in Seq(EventRow) /\ n \in 1..Len(log) /\ log[n] \in EventRow /\ n \in Open
  BY DEF TypeOK, Logged, Settle
<1>2. PICK status \in {"visible", "aborted"} : log' = [log EXCEPT ![n].status = status]
  BY DEF Settle
<1>3. [log[n] EXCEPT !.status = status] \in EventRow BY <1>1 DEF EventRow
<1>4. /\ log' \in Seq(EventRow) /\ Len(log') = Len(log)
      /\ \A m \in 1..Len(log) : log'[m] = IF m = n THEN [log[n] EXCEPT !.status = status] ELSE log[m]
  BY <1>1, <1>2, <1>3
<1>5. /\ log'[n].status = status /\ log'[n].type = log[n].type
      /\ log'[n].depth = log[n].depth /\ log'[n].cause = log[n].cause
  BY <1>1, <1>4 DEF EventRow
<1>6. log[n].status = "open" /\ Len(log) <= MaxEvents BY <1>1 DEF Open, TypeOK
<1>7. \A m \in Logged \ {n} : log'[m] = log[m] BY <1>4 DEF Logged
<1>8. LogKept BY <1>4, <1>5, <1>6, <1>7 DEF LogKept
<1> QED BY <1>1, <1>4, <1>5, <1>7, <1>8

\* The steps that write to the log.
LEMMA LogStep ==
    ASSUME TypeOK,
           \/ Publish
           \/ \E t \in Trigger, n \in Logged : Emit(t, n)
           \/ \E n \in Logged : Settle(n)
    PROVE  LogKept /\ LogNew /\ UNCHANGED Dispatching /\ emitted' \subseteq Trigger \X Position
<1>1. CASE Publish
  <2>1. PICK type \in RootTypes : Stamp(type, 0, 0) BY <1>1 DEF Publish
  <2>2. type \in Seq(STRING) BY DispatchAssumption
  <2>3. 0 \in 0..MaxEvents BY DispatchAssumption
  <2>4. LogKept /\ Len(log') = Len(log) + 1 /\ log'[Len(log) + 1].status = "open"
        /\ log'[Len(log) + 1].cause = 0
    <3>1. 0 \in Nat OBVIOUS
    <3>2. /\ LogKept /\ Len(log') = Len(log) + 1
          /\ log'[Len(log) + 1] = [status |-> "open", type |-> type, depth |-> 0, cause |-> 0]
      BY <2>1, <2>2, <2>3, <3>1, StampAt
    <3> QED BY <3>2
  <2>5. LogNew BY <2>1, <2>4, LoggedAt DEF LogNew, Logged, Stamp
  <2> QED BY <1>1, <2>4, <2>5 DEF Publish, Dispatching, TypeOK
<1>2. ASSUME NEW t \in Trigger, NEW n \in Logged, Emit(t, n)
      PROVE  LogKept /\ LogNew /\ UNCHANGED Dispatching /\ emitted' \subseteq Trigger \X Position
  <2>1. Emits[t] \in Seq(STRING) BY DispatchAssumption
  <2>2. n \in Position /\ log[n] \in EventRow BY LoggedAt
  <2>3. Lineage(n) \in Nat BY <2>2 DEF Lineage, EventRow
  <2>4. n \in 0..MaxEvents BY <2>2 DEF Position
  <2>5. Stamp(Emits[t], Lineage(n), n) BY <1>2 DEF Emit
  <2>6. LogKept /\ Len(log') = Len(log) + 1 /\ log'[Len(log) + 1].status = "open"
        /\ log'[Len(log) + 1].cause = n /\ log'[Len(log) + 1].depth = log[n].depth + 1
    <3>1. /\ LogKept /\ Len(log') = Len(log) + 1
          /\ log'[Len(log) + 1] =
               [status |-> "open", type |-> Emits[t], depth |-> Lineage(n), cause |-> n]
      BY <2>1, <2>3, <2>4, <2>5, StampAt
    <3> QED BY <3>1 DEF Lineage
  <2>7. LogNew BY <2>5, <2>6, LoggedAt DEF LogNew, Logged, Stamp
  <2> QED BY <1>2, <2>2, <2>6, <2>7 DEF Emit, Dispatching, TypeOK
<1>3. ASSUME NEW n \in Logged, Settle(n)
      PROVE  LogKept /\ LogNew /\ UNCHANGED Dispatching /\ emitted' \subseteq Trigger \X Position
  <2>1. LogKept /\ Len(log') = Len(log) BY <1>3, SettleAt
  <2>2. LogNew BY <2>1 DEF LogNew, Logged
  <2> QED BY <1>3, <2>1, <2>2 DEF Settle, Dispatching, TypeOK
<1> QED BY <1>1, <1>2, <1>3

\* Writers of the log keep the invariants.
LEMMA LogBase ==
    ASSUME TypeOK, TickInv, DepthInv, LogKept, LogNew, UNCHANGED Dispatching,
           emitted' \subseteq Trigger \X Position
    PROVE  (TypeOK /\ TickInv /\ DepthInv)' /\ Visible \subseteq Visible'
<1>1. /\ UNCHANGED <<cursor, ticking, batch, queue, last, runs, workflow, start, touched, faults, changes>>
  BY DEF Dispatching
<1>2. TypeOK' BY <1>1 DEF TypeOK, LogKept
<1>3. Logged \subseteq Logged' BY <1>2, LoggedAt DEF Logged, LogKept, TypeOK
<1>4. Visible \subseteq Visible' BY <1>3 DEF Visible, LogKept
<1>5. TickInv'
  <2>1. Len(log) \in Nat /\ Len(log') \in Nat /\ Len(log) <= Len(log') BY <1>2 DEF TypeOK, LogKept
  <2>2. cursor # None => cursor \in Nat /\ start \in Nat BY DEF TypeOK
  <2>3. start \in Nat BY DEF TypeOK
  <2> QED BY <1>1, <1>4, <2>1, <2>2, <2>3 DEF TickInv
<1>6. DepthInv'
  <2>1. ASSUME NEW n \in Logged', log'[n].cause # 0
        PROVE  log'[n].cause \in Logged' /\ log'[n].depth = log'[log'[n].cause].depth + 1
    <3>1. CASE n \in Logged BY <1>3, <2>1, <3>1 DEF DepthInv, LogKept
    <3>2. CASE n \notin Logged
      <4>1. n \in 1..Len(log') \ Logged BY <2>1, <3>2 DEF Logged
      <4> QED BY <1>3, <2>1, <4>1 DEF LogNew, LogKept
    <3> QED BY <3>1, <3>2
  <2>2. \A n \in Logged : WithinDepth(n) => WithinDepth(n)' BY DEF WithinDepth, LogKept
  <2> QED BY <1>1, <1>3, <2>1, <2>2 DEF DepthInv
<1> QED BY <1>2, <1>4, <1>5, <1>6

-----------------------------------------------------------------------------
(* The dispatchers.                                                        *)

\* The end of a transaction.
LEMMA EndTickAt ==
    ASSUME TypeOK, TickInv, NEW d \in ticking, EndTick(d)
    PROVE  /\ ticking' = {}
           /\ batch' \in [Dispatcher -> SUBSET Position]
           /\ queue' \in [Dispatcher -> SUBSET (Trigger \X Position)]
           /\ last' \in [Dispatcher -> 0..MaxEvents]
           /\ \A e \in Dispatcher : batch'[e] = {} /\ queue'[e] = {} /\ last'[e] = 0
<1>1. d \in Dispatcher /\ \A e \in Dispatcher \ {d} : e \notin ticking BY DEF TypeOK, TickInv
<1>2. ticking' = {} BY DEF EndTick, TickInv
<1>3. 0 \in 0..MaxEvents BY DispatchAssumption
<1> QED BY <1>1, <1>2, <1>3 DEF EndTick, TypeOK, TickInv

\* The log and what runs wrote to it are left alone.
SameLog == log' = log /\ emitted' = emitted

\* What is said of the log and of its depths stays true when nothing is written.
LEMMA QuietDepth ==
    ASSUME DepthInv, log' = log,
           \A t \in Trigger, n \in Position :
             runs'[<<t, n>>] > 0 \/ (\E d \in Dispatcher : <<t, n>> \in queue'[d])
             => \/ runs[<<t, n>>] > 0 \/ (\E d \in Dispatcher : <<t, n>> \in queue[d])
                \/ n \in Logged /\ WithinDepth(n)
    PROVE  DepthInv'
BY DEF DepthInv, Logged, WithinDepth

\* A rolled back transaction leaves nothing.
LEMMA AbandonBase ==
    ASSUME TypeOK, TickInv, DepthInv, NEW d \in Dispatcher, Unauthorised(d) \/ Crash(d)
    PROVE  (TypeOK /\ TickInv /\ DepthInv)'
<1>1. d \in ticking /\ EndTick(d) /\ SameLog /\ UNCHANGED <<cursor, runs, workflow, start, touched, changes>>
  BY DEF Unauthorised, Crash, SameLog
<1>2. faults' \in 0..MaxFaults
  BY DispatchAssumption DEF Unauthorised, Crash, TypeOK
<1>3. TypeOK' BY <1>1, <1>2, EndTickAt DEF TypeOK, SameLog
<1>4. TickInv' BY <1>1, EndTickAt DEF TickInv, SameLog, Visible, Logged
<1>5. DepthInv' BY <1>1, EndTickAt, QuietDepth DEF SameLog
<1> QED BY <1>3, <1>4, <1>5

\* A null cursor is put at the end of the log.
LEMMA StartBase ==
    ASSUME TypeOK, TickInv, DepthInv, NEW d \in Dispatcher, StartNow(d)
    PROVE  (TypeOK /\ TickInv /\ DepthInv)'
<1>1. SameLog /\ UNCHANGED <<ticking, batch, queue, last, runs, workflow, touched, faults, changes>>
  BY DEF StartNow, SameLog
<1>2. ticking = {} /\ cursor' = Len(log) /\ start' = Len(log) BY DEF StartNow, CanLock
<1>3. Len(log) \in 0..MaxEvents BY DispatchAssumption DEF TypeOK
<1>4. TypeOK' BY <1>1, <1>2, <1>3 DEF TypeOK, SameLog
<1>5. TickInv' BY <1>1, <1>2, <1>3 DEF TickInv, SameLog, Visible, Logged
<1>6. DepthInv' BY <1>1, QuietDepth DEF SameLog
<1> QED BY <1>4, <1>5, <1>6

\* The lock and the batch.
LEMMA SelectBase ==
    ASSUME TypeOK, TickInv, DepthInv, NEW d \in Dispatcher, Select(d)
    PROVE  (TypeOK /\ TickInv /\ DepthInv)'
<1>1. SameLog /\ UNCHANGED <<cursor, queue, last, runs, workflow, start, touched, faults, changes>>
  BY DEF Select, SameLog
<1>2. /\ ticking = {} /\ cursor # None /\ ticking' = {d}
      /\ batch' = [batch EXCEPT ![d] = Selection]
  BY DEF Select, CanLock
<1>3. Selection \subseteq Visible /\ Visible \subseteq Position BY LoggedAt DEF Selection, Unseen
<1>4. TypeOK' BY <1>1, <1>2, <1>3 DEF TypeOK, SameLog
<1>5. TickInv' BY <1>1, <1>2, <1>3 DEF TickInv, TypeOK, SameLog, Visible, Logged
<1>6. DepthInv' BY <1>1, QuietDepth DEF SameLog
<1> QED BY <1>4, <1>5, <1>6

\* One round of the loop.
LEMMA ConvertAt ==
    ASSUME TypeOK, TickInv, NEW d \in Dispatcher, Convert(d)
    PROVE  \E n \in batch[d] :
             /\ n \in Visible /\ \A m \in batch[d] : n <= m
             /\ queue'[d] = queue[d] \cup {<<t, n>> : t \in Missing(d, n)}
             /\ last'[d] = n /\ batch'[d] = batch[d] \ {n}
             /\ \A e \in Dispatcher \ {d} : /\ queue'[e] = queue[e] /\ last'[e] = last[e]
                                            /\ batch'[e] = batch[e]
             /\ queue' \in [Dispatcher -> SUBSET (Trigger \X Position)]
             /\ last' \in [Dispatcher -> 0..MaxEvents]
             /\ batch' \in [Dispatcher -> SUBSET Position]
<1>1. PICK n \in batch[d] :
         /\ \A m \in batch[d] : n <= m
         /\ queue' = [queue EXCEPT ![d] = @ \cup {<<t, n>> : t \in Missing(d, n)}]
         /\ last' = [last EXCEPT ![d] = n]
         /\ batch' = [batch EXCEPT ![d] = @ \ {n}]
  BY DEF Convert
<1>2. n \in Visible /\ n \in Position /\ n \in 0..MaxEvents BY LoggedAt DEF TickInv, Position
<1>3. Missing(d, n) \subseteq Trigger BY DEF Missing
<1>4. {<<t, n>> : t \in Missing(d, n)} \subseteq Trigger \X Position BY <1>2, <1>3
<1> QED BY <1>1, <1>2, <1>4 DEF TypeOK

LEMMA ConvertBase ==
    ASSUME TypeOK, TickInv, DepthInv, NEW d \in Dispatcher, Convert(d)
    PROVE  (TypeOK /\ TickInv /\ DepthInv)'
<1>1. SameLog /\ d \in ticking /\ UNCHANGED <<cursor, ticking, runs, workflow, start, touched, faults, changes>>
  BY DEF Convert, SameLog
<1>2. PICK n \in batch[d] :
             /\ n \in Visible
             /\ queue'[d] = queue[d] \cup {<<t, n>> : t \in Missing(d, n)}
             /\ last'[d] = n /\ batch'[d] = batch[d] \ {n}
             /\ \A e \in Dispatcher \ {d} : /\ queue'[e] = queue[e] /\ last'[e] = last[e]
                                            /\ batch'[e] = batch[e]
             /\ queue' \in [Dispatcher -> SUBSET (Trigger \X Position)]
             /\ last' \in [Dispatcher -> 0..MaxEvents]
             /\ batch' \in [Dispatcher -> SUBSET Position]
  BY ConvertAt
<1>3. TypeOK' BY <1>1, <1>2 DEF TypeOK, SameLog
<1>4. \A t \in Missing(d, n) : runs[<<t, n>>] = 0 /\ n \in Logged /\ WithinDepth(n)
  BY <1>2 DEF Missing, Eligible, Visible
<1>5. TickInv'
  <2>1. Visible' = Visible BY <1>1 DEF Visible, Logged, SameLog
  <2>2. \A e \in Dispatcher : batch'[e] \subseteq Visible /\ last'[e] \in Visible \cup {0}
    BY <1>2 DEF TickInv
  <2>3. \A e \in Dispatcher : \A key \in queue'[e] : runs[key] = 0
    BY <1>2, <1>4 DEF TickInv
  <2> QED BY <1>1, <1>2, <2>1, <2>2, <2>3 DEF TickInv, SameLog
<1>6. DepthInv'
  <2>1. ASSUME NEW t \in Trigger, NEW m \in Position, NEW e \in Dispatcher, <<t, m>> \in queue'[e]
        PROVE  <<t, m>> \in queue[e] \/ (m \in Logged /\ WithinDepth(m))
    BY <1>2, <1>4, <2>1
  <2> QED BY <1>1, <2>1, QuietDepth DEF SameLog
<1> QED BY <1>3, <1>5, <1>6

\* Runs and cursor.
LEMMA CommitAt ==
    ASSUME TypeOK, TickInv, NEW d \in Dispatcher, CommitTick(d)
    PROVE  /\ d \in ticking /\ batch[d] = {} /\ cursor' = last[d] /\ cursor' # None
           /\ runs' \in [Trigger \X Position -> 0..1]
           /\ \A key \in Trigger \X Position :
                runs'[key] = IF key \in queue[d] THEN 1 ELSE runs[key]
<1>1. /\ d \in ticking /\ batch[d] = {} /\ cursor' = last[d]
      /\ runs' = [key \in Trigger \X Position |-> IF key \in queue[d] THEN runs[key] + 1 ELSE runs[key]]
  BY DEF CommitTick
<1>2. \A key \in queue[d] : runs[key] = 0 BY DEF TickInv
<1>3. last[d] \in Nat BY DEF TypeOK
<1> QED BY <1>1, <1>2, <1>3, DispatchAssumption DEF TypeOK

LEMMA CommitBase ==
    ASSUME TypeOK, TickInv, DepthInv, NEW d \in Dispatcher, CommitTick(d)
    PROVE  (TypeOK /\ TickInv /\ DepthInv)'
<1>1. SameLog /\ EndTick(d) /\ UNCHANGED <<workflow, start, touched, faults, changes>>
  BY DEF CommitTick, SameLog
<1>2. last[d] \in Visible \cup {0} BY DEF TickInv
<1>3. last[d] \in 0..MaxEvents /\ last[d] <= Len(log)
  BY <1>2, LoggedAt DEF TypeOK, Logged
<1>4. TypeOK' BY <1>1, <1>3, CommitAt, EndTickAt DEF TypeOK, SameLog
<1>5. TickInv' BY <1>1, <1>3, CommitAt, EndTickAt DEF TickInv, SameLog, Visible, Logged
<1>6. \A t \in Trigger, n \in Position :
         runs'[<<t, n>>] > 0 => runs[<<t, n>>] > 0 \/ <<t, n>> \in queue[d]
  BY CommitAt
<1>7. DepthInv' BY <1>1, <1>6, CommitAt, EndTickAt, QuietDepth DEF SameLog
<1> QED BY <1>4, <1>5, <1>7

\* Workflow definitions.
LEMMA DefinitionBase ==
    ASSUME TypeOK, TickInv, DepthInv, NEW t \in Trigger, SetStatus(t) \/ OwnerDeleted(t)
    PROVE  (TypeOK /\ TickInv /\ DepthInv)'
<1>1. SameLog /\ UNCHANGED <<cursor, ticking, batch, queue, last, runs, start, faults>>
  BY DEF SetStatus, OwnerDeleted, SameLog
<1>2. changes' \in 0..MaxChanges /\ touched' \subseteq Trigger
  BY DispatchAssumption DEF SetStatus, OwnerDeleted, TypeOK
<1>3. workflow' \in [Trigger -> [status : {"enabled", "disabled", "archived"}, owned : BOOLEAN]]
  <2>1. workflow[t] \in [status : {"enabled", "disabled", "archived"}, owned : BOOLEAN] BY DEF TypeOK
  <2>2. CASE SetStatus(t)
    <3>1. PICK status \in {"enabled", "disabled", "archived"} :
              workflow' = [workflow EXCEPT ![t].status = status]
      BY <2>2 DEF SetStatus
    <3> QED BY <2>1, <3>1 DEF TypeOK
  <2>3. CASE OwnerDeleted(t) BY <2>1, <2>3 DEF OwnerDeleted, TypeOK
  <2> QED BY <2>2, <2>3
<1>4. TypeOK' BY <1>1, <1>2, <1>3 DEF TypeOK, SameLog
<1>5. TickInv' BY <1>1 DEF TickInv, SameLog, Visible, Logged
<1>6. DepthInv' BY <1>1, QuietDepth DEF SameLog
<1> QED BY <1>4, <1>5, <1>6

\* The three invariants are inductive together.
LEMMA BaseInit == Init => TypeOK /\ TickInv /\ DepthInv
<1> SUFFICES ASSUME Init PROVE TypeOK /\ TickInv /\ DepthInv
  OBVIOUS
<1>1. log = <<>> /\ Len(log) = 0 /\ log \in Seq(EventRow) BY DEF Init
<1>2. Logged = {} BY <1>1 DEF Logged
<1>3. TypeOK BY <1>1, DispatchAssumption DEF Init, TypeOK
<1>4. TickInv BY <1>1, DispatchAssumption DEF Init, TickInv
<1>5. DepthInv BY <1>2 DEF Init, DepthInv
<1> QED BY <1>3, <1>4, <1>5

LEMMA BaseStep == TypeOK /\ TickInv /\ DepthInv /\ [Next]_vars => (TypeOK /\ TickInv /\ DepthInv)'
<1> SUFFICES ASSUME TypeOK, TickInv, DepthInv, [Next]_vars PROVE (TypeOK /\ TickInv /\ DepthInv)'
  OBVIOUS
<1>1. CASE UNCHANGED vars
  BY <1>1 DEF vars, TypeOK, TickInv, DepthInv, Logged, Visible, WithinDepth
<1>2. CASE Publish \/ (\E t \in Trigger, n \in Logged : Emit(t, n)) \/ (\E n \in Logged : Settle(n))
  <2>1. LogKept /\ LogNew /\ UNCHANGED Dispatching /\ emitted' \subseteq Trigger \X Position
    BY <1>2, LogStep
  <2> QED BY <2>1, LogBase
<1> QED
  BY <1>1, <1>2, AbandonBase, StartBase, SelectBase, ConvertBase, CommitBase, DefinitionBase
     DEF Next, Tick

\* Every reachable state is well typed; in particular the dedupe key has one run at most.
THEOREM TypeCorrect == Spec => []TypeOK
<1>1. Spec => [](TypeOK /\ TickInv /\ DepthInv) BY BaseInit, BaseStep, PTL DEF Spec
<1> QED BY <1>1, PTL

-----------------------------------------------------------------------------
(* Cascades end.                                                           *)

\* A set of numbers has a least one: induction, in the form the provers take.
LEMMA LeastNumber ==
    ASSUME NEW S \in SUBSET Nat, S # {}
    PROVE  \E m \in S : \A k \in S : m <= k
<1> DEFINE R == {p \in Nat \X Nat : p[1] < p[2]}
<1>1. IsWellFoundedOn(R, Nat) BY NatLessThanWellFounded DEF OpToRel
<1>2. PICK m \in S : \A k \in S : ~(<<k, m>> \in R) BY <1>1, WFMin
<1>3. ASSUME NEW k \in S PROVE m <= k
  <2>1. <<k, m>> \in Nat \X Nat /\ <<k, m>>[1] = k /\ <<k, m>>[2] = m OBVIOUS
  <2>2. ~(k < m) BY <1>2, <2>1
  <2> QED BY <2>2
<1> QED BY <1>3

\* Along a cascade the depth goes down one by one.
LEMMA CascadeDepth ==
    ASSUME TypeOK, DepthInv, NEW chain \in [0..MaxDepth -> Logged], Cascade(chain)
    PROVE  ~WithinDepth(chain[0])
<1> DEFINE depth(i) == log[chain[i]].depth
           off == {i \in 0..MaxDepth : depth(0) # depth(i) + i}
<1>1. MaxDepth \in Nat /\ MaxDepth # 0 BY DispatchAssumption
<1>2. \A i \in 0..MaxDepth : depth(i) \in Nat
  <2>1. ASSUME NEW i \in 0..MaxDepth PROVE depth(i) \in Nat
    <3>1. chain[i] \in Logged BY <2>1
    <3>2. log[chain[i]] \in EventRow BY <3>1, LoggedAt
    <3> QED BY <3>2 DEF EventRow
  <2> QED BY <2>1
<1>3. \A i \in 1..MaxDepth : depth(i - 1) = depth(i) + 1
  <2>1. ASSUME NEW i \in 1..MaxDepth PROVE depth(i - 1) = depth(i) + 1
    <3>1. i - 1 \in 0..MaxDepth /\ i \in 0..MaxDepth BY <1>1
    <3>2. chain[i - 1] \in Logged /\ chain[i] \in Logged BY <3>1
    <3>3. log[chain[i - 1]].cause = chain[i] BY DEF Cascade
    <3>4. chain[i] # 0 BY <3>2 DEF Logged
    <3> QED BY <3>2, <3>3, <3>4 DEF DepthInv
  <2> QED BY <2>1
<1>4. off = {}
  <2>1. SUFFICES ASSUME off # {} PROVE FALSE OBVIOUS
  <2>2. off \in SUBSET Nat BY <1>1
  <2> HIDE DEF off
  <2>3. PICK m \in off : \A k \in off : m <= k BY <2>1, <2>2, LeastNumber
  <2> USE DEF off
  <2>4. m \in 0..MaxDepth /\ depth(0) # depth(m) + m BY <2>3
  <2>5. m # 0 BY <1>1, <1>2, <2>4
  <2>6. m \in 1..MaxDepth /\ m - 1 \in 0..MaxDepth /\ m - 1 < m BY <1>1, <2>4, <2>5
  <2>7. m - 1 \notin off BY <2>2, <2>3, <2>6
  <2>8. depth(0) = depth(m - 1) + (m - 1) BY <2>6, <2>7
  <2>9. depth(m - 1) = depth(m) + 1 BY <1>3, <2>6
  <2>10. depth(m) \in Nat /\ m \in Nat BY <1>2, <2>4
  <2> HIDE DEF depth, off
  <2> QED BY <2>4, <2>8, <2>9, <2>10
<1>5. depth(0) = depth(MaxDepth) + MaxDepth BY <1>1, <1>4
<1>6. depth(0) \in Nat /\ depth(MaxDepth) \in Nat BY <1>1, <1>2
<1> QED BY <1>1, <1>5, <1>6 DEF WithinDepth

\* No event with MaxDepth runs between it and the activity it stems from starts a
\* run, for every set of triggers and whatever events they match and emit.
THEOREM CascadesEnd == Spec => []CascadeBounded
<1>1. Spec => [](TypeOK /\ TickInv /\ DepthInv) BY BaseInit, BaseStep, PTL DEF Spec
<1>2. TypeOK /\ DepthInv => CascadeBounded
  <2> SUFFICES ASSUME TypeOK, DepthInv, NEW t \in Trigger, NEW chain \in [0..MaxDepth -> Logged],
                      Cascade(chain)
               PROVE  runs[<<t, chain[0]>>] = 0
    BY DEF CascadeBounded
  <2>1. 0 \in 0..MaxDepth BY DispatchAssumption
  <2>2. chain[0] \in Position BY <2>1, LoggedAt
  <2>3. ~(runs[<<t, chain[0]>>] > 0) BY <2>2, CascadeDepth DEF DepthInv
  <2>4. runs[<<t, chain[0]>>] \in 0..1 BY <2>2 DEF TypeOK
  <2> QED BY <2>3, <2>4
<1> QED BY <1>1, <1>2, PTL

-----------------------------------------------------------------------------
(* Every event is dispatched once, when the writers do not overlap.        *)

\* The batch holds the oldest of the events after the cursor.
LEMMA SelectionClosed ==
    ASSUME TypeOK, cursor # None, NEW n \in Selection, NEW m \in Visible, cursor < m, m < n
    PROVE  m \in Selection
<1> DEFINE before(k) == {i \in Unseen : i < k}
<1>1. Unseen \subseteq Nat /\ m \in Unseen /\ n \in Unseen
  BY LoggedAt DEF Unseen, Selection, Position
<1>2. Unseen \subseteq 1..Len(log) /\ Len(log) \in Int BY LoggedAt DEF Unseen, Logged
<1>3. IsFiniteSet(1..Len(log)) BY <1>2, FS_Interval
<1>4. before(n) \in SUBSET (1..Len(log)) BY <1>2
<1>5. IsFiniteSet(before(n)) BY <1>3, <1>4, FS_Subset
<1>6. before(m) \in SUBSET before(n)
  <2>1. m \in Nat /\ n \in Nat BY <1>1
  <2>2. \A i \in Unseen : i < m => i < n BY <1>1, <2>1
  <2> QED BY <2>2
<1>7. /\ Cardinality(before(m)) <= Cardinality(before(n))
      /\ Cardinality(before(m)) \in Nat /\ Cardinality(before(n)) \in Nat
  BY <1>5, <1>6, FS_Subset, FS_CardinalityType
<1>8. Cardinality(before(n)) < BatchSize BY DEF Selection
<1>9. Cardinality(before(m)) < BatchSize BY <1>7, <1>8, DispatchAssumption
<1> QED BY <1>1, <1>9 DEF Selection

\* Without overlap an event is stamped when no other one is open.
LEMMA NoneOpen ==
    ASSUME TypeOK, MaxOpen = 1, Cardinality(Open) < MaxOpen
    PROVE  Open = {}
<1>1. Open \in SUBSET (1..Len(log)) /\ Len(log) \in Int BY LoggedAt DEF Logged
<1>2. IsFiniteSet(Open)
  <2>1. IsFiniteSet(1..Len(log)) BY <1>1, FS_Interval
  <2> QED BY <1>1, <2>1, FS_Subset
<1>3. Cardinality(Open) = 0 BY <1>2, FS_CardinalityType
<1> QED BY <1>2, <1>3, FS_EmptySet

\* What Eligible says of a row depends on what the log keeps.
LEMMA EligibleKept ==
    ASSUME LogKept, NEW t \in Trigger, NEW n \in Logged, workflow'[t].status = workflow[t].status
    PROVE  Eligible(t, n)' <=> Eligible(t, n)
BY DEF LogKept, Eligible, WithinDepth, Matches, Lifecycle

\* Writers of the log keep OnceInv: what becomes visible lies after the cursor.
LEMMA LogOnce ==
    ASSUME TypeOK, TickInv, DepthInv, OnceInv, MaxOpen = 1, LogKept, LogNew, UNCHANGED Dispatching,
           emitted' \subseteq Trigger \X Position,
           Len(log') # Len(log) => \A n \in Logged : log'[n] = log[n]
    PROVE  OnceInv'
<1>1. UNCHANGED <<cursor, ticking, batch, queue, last, runs, workflow, start, touched>>
  BY DEF Dispatching
<1>2. TypeOK' BY LogBase
<1>3. /\ Len(log) \in Nat /\ Len(log') \in Nat /\ Len(log) <= Len(log')
      /\ Logged = 1..Len(log) /\ Logged' = 1..Len(log')
  BY <1>2 DEF TypeOK, LogKept, Logged
<1>4. \A n \in Visible' : n \in Logged /\ (n \in Visible \/ n \in Open)
  <2>1. ASSUME NEW n \in Visible' PROVE n \in Logged /\ (n \in Visible \/ n \in Open)
    <3>1. n \in Logged' /\ log'[n].status = "visible" BY <2>1 DEF Visible
    <3>2. n \in Logged BY <1>3, <3>1 DEF LogNew
    <3> QED BY <3>1, <3>2 DEF LogKept, Visible, Open
  <2> QED BY <2>1
<1>5. \A n \in Open : n = Len(log) /\ (cursor # None => cursor < n \/ n <= start)
  BY DEF OnceInv
<1>6. ASSUME NEW n \in Open' PROVE n = Len(log') /\ (cursor # None => cursor < n \/ n <= start)
  <2>1. n \in Logged' /\ log'[n].status = "open" BY <1>6 DEF Open
  <2>2. CASE n \in Logged
    <3>1. n \in Open BY <2>1, <2>2 DEF LogKept, Open
    <3>2. CASE Len(log') = Len(log) BY <1>5, <3>1, <3>2
    <3>3. CASE Len(log') # Len(log)
      <4>1. Len(log') \in 1..Len(log') \ Logged BY <1>3, <3>3
      <4>2. Cardinality(Open) < MaxOpen BY <4>1 DEF LogNew
      <4> QED BY <3>1, <4>2, NoneOpen
    <3> QED BY <3>2, <3>3
  <2>3. CASE n \notin Logged
    <3>1. n = Len(log') /\ Len(log) < n BY <1>3, <2>1, <2>3 DEF LogNew
    <3>2. cursor # None => cursor \in Nat /\ cursor <= Len(log) BY DEF TypeOK, TickInv
    <3> QED BY <1>3, <3>1, <3>2
  <2> QED BY <2>2, <2>3
<1>7. ExactlyOnce'
  <2> SUFFICES ASSUME cursor # None, NEW t \in Trigger \ touched, NEW n \in Visible',
                      start < n, n <= cursor, Eligible(t, n)'
               PROVE  runs[<<t, n>>] = 1
    BY <1>1 DEF ExactlyOnce
  <2>1. n \in Logged /\ n \in Nat /\ cursor \in Nat /\ start \in Nat BY <1>3, <1>4 DEF TypeOK
  <2>2. n \in Visible BY <1>4, <1>5, <2>1
  <2>3. Eligible(t, n) BY <1>1, <2>1, EligibleKept
  <2> QED BY <2>2, <2>3 DEF OnceInv, ExactlyOnce
<1>8. ASSUME NEW d \in ticking
      PROVE  /\ \A n \in batch[d] : /\ last[d] < n
                  /\ \A m \in Visible' : cursor < m /\ last[d] < m /\ m < n => m \in batch[d]
             /\ \A t \in Trigger \ touched, n \in Visible' :
                  cursor < n /\ n <= last[d] /\ Eligible(t, n)'
                  => <<t, n>> \in queue[d] \/ runs[<<t, n>>] = 1
  <2>1. d \in Dispatcher BY DEF TypeOK
  <2>2. batch[d] \subseteq Visible /\ last[d] \in Visible \cup {0} BY <2>1 DEF TickInv
  <2>3. \A n \in Visible : n \in Logged /\ n \notin Open BY DEF Visible, Open
  <2>4. ASSUME NEW n \in batch[d], NEW m \in Visible', cursor < m, last[d] < m, m < n
        PROVE  m \in batch[d]
    <3>1. m \in Visible BY <1>3, <1>4, <1>5, <2>2, <2>3, <2>4
    <3> QED BY <2>4, <3>1 DEF OnceInv
  <2>5. ASSUME NEW t \in Trigger \ touched, NEW n \in Visible', cursor < n, n <= last[d], Eligible(t, n)'
        PROVE  <<t, n>> \in queue[d] \/ runs[<<t, n>>] = 1
    <3>1. n \in Logged /\ Eligible(t, n) BY <1>1, <1>4, <2>5, EligibleKept
    <3>2. n \in Visible BY <1>3, <1>4, <1>5, <2>2, <2>3, <2>5
    <3> QED BY <2>5, <3>1, <3>2 DEF OnceInv
  <2> QED BY <2>4, <2>5 DEF OnceInv
<1> QED BY <1>1, <1>6, <1>7, <1>8 DEF OnceInv

\* Dispatchers keep OnceInv.
LEMMA TickOnce ==
    ASSUME TypeOK, TickInv, DepthInv, OnceInv, NEW d \in Dispatcher, Tick(d) \/ Crash(d)
    PROVE  OnceInv'
<1>1. UNCHANGED <<log, workflow, touched>>
  BY DEF Tick, StartNow, Select, Convert, Unauthorised, CommitTick, Crash
<1>2. /\ Open' = Open /\ Visible' = Visible
      /\ \A t \in Trigger, n \in Logged : Eligible(t, n)' <=> Eligible(t, n)
  BY <1>1 DEF Open, Visible, Logged, Eligible, WithinDepth
<1>3. \A n \in Visible : n \in Logged /\ n \in Nat /\ n \notin Open
  BY LoggedAt DEF Visible, Open, Position
<1>4. CASE Unauthorised(d) \/ Crash(d)
  <2>1. d \in ticking /\ EndTick(d) /\ UNCHANGED <<cursor, runs, start>>
    BY <1>4 DEF Unauthorised, Crash
  <2>2. ticking' = {} BY <2>1, EndTickAt
  <2>3. ExactlyOnce' BY <1>1, <1>2, <1>3, <2>1 DEF OnceInv, ExactlyOnce
  <2> QED BY <1>1, <1>2, <2>1, <2>2, <2>3 DEF OnceInv
<1>5. CASE StartNow(d)
  <2>1. ticking = {} /\ ticking' = ticking /\ cursor' = Len(log) /\ start' = Len(log)
    BY <1>5 DEF StartNow, CanLock
  <2>2. Len(log) \in Nat BY LoggedAt
  <2>3. ExactlyOnce' BY <1>2, <1>3, <2>1, <2>2 DEF ExactlyOnce
  <2> QED BY <1>1, <1>2, <2>1, <2>2, <2>3 DEF OnceInv
<1>6. CASE Select(d)
  <2>1. /\ cursor # None /\ ticking' = {d} /\ batch' = [batch EXCEPT ![d] = Selection]
        /\ UNCHANGED <<cursor, queue, last, runs, start>> /\ ticking = {}
    BY <1>6 DEF Select, CanLock
  <2>2. batch'[d] = Selection /\ last[d] = 0 BY <2>1 DEF TypeOK, TickInv
  <2>3. \A n \in Selection : n \in Visible /\ 0 < n BY LoggedAt DEF Selection, Unseen, Position
  <2>4. cursor \in Nat BY <2>1 DEF TypeOK
  <2>5. \A n \in Visible : ~(cursor < n /\ n <= last[d]) BY <1>3, <2>2, <2>4
  <2>6. \A n \in Selection, m \in Visible : cursor < m /\ m < n => m \in Selection
    BY <2>1, SelectionClosed
  <2>7. ExactlyOnce' BY <1>1, <1>2, <1>3, <2>1 DEF OnceInv, ExactlyOnce
  <2> QED BY <1>1, <1>2, <2>1, <2>2, <2>3, <2>5, <2>6, <2>7 DEF OnceInv
<1>7. CASE Convert(d)
  <2>1. d \in ticking /\ ticking' = ticking /\ UNCHANGED <<cursor, runs, start>> /\ cursor # None
    BY <1>7 DEF Convert, TickInv
  <2>2. PICK n \in batch[d] :
             /\ n \in Visible /\ \A m \in batch[d] : n <= m
             /\ queue'[d] = queue[d] \cup {<<t, n>> : t \in Missing(d, n)}
             /\ last'[d] = n /\ batch'[d] = batch[d] \ {n}
    BY <1>7, ConvertAt
  <2>3. \A e \in ticking : e = d BY <2>1 DEF TickInv
  <2>4. ExactlyOnce' BY <1>1, <1>2, <1>3, <2>1 DEF OnceInv, ExactlyOnce
  <2>5. batch[d] \subseteq Visible /\ cursor \in Nat /\ last[d] \in Nat /\ last[d] < n
    BY <2>1 DEF TickInv, TypeOK, OnceInv
  <2>6. ASSUME NEW k \in batch[d] \ {n}, NEW m \in Visible, cursor < m, n < m, m < k
        PROVE  n < k /\ m \in batch[d] \ {n}
    <3>1. last[d] < m BY <1>3, <2>2, <2>5, <2>6
    <3>2. m \in batch[d] BY <2>1, <2>6, <3>1 DEF OnceInv
    <3> QED BY <1>3, <2>2, <2>5, <2>6, <3>2
  <2>7. \A k \in batch[d] \ {n} : n < k BY <1>3, <2>2, <2>5
  <2>8. ASSUME NEW t \in Trigger \ touched, NEW m \in Visible, cursor < m, m <= n, Eligible(t, m)
        PROVE  <<t, m>> \in queue'[d] \/ runs[<<t, m>>] = 1
    <3>1. CASE m <= last[d] BY <2>1, <2>2, <2>8, <3>1 DEF OnceInv
    <3>2. CASE last[d] < m /\ m < n
      <4>1. m \in batch[d] BY <2>1, <2>8, <3>2 DEF OnceInv
      <4> QED BY <1>3, <2>2, <3>2, <4>1
    <3>3. CASE m = n
      <4>1. runs[<<t, n>>] \in 0..1 BY <2>2, LoggedAt DEF TypeOK
      <4>2. runs[<<t, n>>] = 1 \/ <<t, n>> \in queue[d] \/ t \in Missing(d, n)
        BY <2>8, <3>3, <4>1 DEF Missing
      <4> QED BY <2>2, <3>3, <4>2
    <3> QED BY <1>3, <2>2, <2>5, <2>8, <3>1, <3>2, <3>3
  <2> QED BY <1>1, <1>2, <1>3, <2>1, <2>2, <2>3, <2>4, <2>6, <2>7, <2>8 DEF OnceInv
<1>8. CASE CommitTick(d)
  <2>1. /\ d \in ticking /\ cursor' = last[d] /\ cursor' # None /\ cursor # None
        /\ \A key \in Trigger \X Position : runs'[key] = IF key \in queue[d] THEN 1 ELSE runs[key]
    BY <1>8, CommitAt DEF TickInv
  <2>2. EndTick(d) /\ start' = start BY <1>8 DEF CommitTick
  <2>3. ticking' = {} BY <2>1, <2>2, EndTickAt
  <2>4. last[d] \in Visible \cup {0} /\ last[d] \in Nat /\ cursor \in Nat /\ start \in Nat
    BY <2>1 DEF TickInv, TypeOK
  <2>5. \A n \in Open : n = Len(log) /\ n \in Nat /\ last[d] < n
    BY <1>3, <2>4, LoggedAt DEF OnceInv, Logged
  <2>6. ASSUME NEW t \in Trigger \ touched, NEW n \in Visible, start < n, n <= last[d], Eligible(t, n)
        PROVE  runs'[<<t, n>>] = 1
    <3>1. n \in Position /\ n \in Nat BY <1>3, LoggedAt
    <3>2. <<t, n>> \in queue[d] \/ runs[<<t, n>>] = 1
      <4>1. CASE n <= cursor BY <2>1, <2>6, <4>1 DEF OnceInv, ExactlyOnce
      <4>2. CASE cursor < n BY <2>1, <2>6, <4>2 DEF OnceInv
      <4> QED BY <2>4, <3>1, <4>1, <4>2
    <3> QED BY <2>1, <3>1, <3>2
  <2>7. ExactlyOnce' BY <1>1, <1>2, <1>3, <2>1, <2>2, <2>6 DEF ExactlyOnce
  <2> QED BY <1>1, <1>2, <2>1, <2>3, <2>5, <2>7 DEF OnceInv
<1> QED BY <1>4, <1>5, <1>6, <1>7, <1>8 DEF Tick

\* Changes of definitions keep OnceInv: it is about workflows nobody touched.
LEMMA DefinitionOnce ==
    ASSUME TypeOK, OnceInv, NEW t \in Trigger, SetStatus(t) \/ OwnerDeleted(t)
    PROVE  OnceInv'
<1>1. UNCHANGED <<log, cursor, ticking, batch, queue, last, runs, start>> /\ touched \subseteq touched'
  BY DEF SetStatus, OwnerDeleted
<1>2. Open' = Open /\ Visible' = Visible BY <1>1 DEF Open, Visible, Logged
<1>3. ASSUME NEW u \in Trigger \ touched' PROVE workflow'[u].status = workflow[u].status
  <2>1. workflow[u] \in [status : {"enabled", "disabled", "archived"}, owned : BOOLEAN] BY DEF TypeOK
  <2>2. CASE SetStatus(t)
    <3>1. u # t BY <1>3, <2>2 DEF SetStatus
    <3> QED BY <2>2, <3>1 DEF SetStatus, TypeOK
  <2>3. CASE OwnerDeleted(t) BY <2>1, <2>3 DEF OwnerDeleted, TypeOK
  <2> QED BY <2>2, <2>3
<1>4. \A u \in Trigger \ touched', n \in Visible : Eligible(u, n)' <=> Eligible(u, n)
  BY <1>1, <1>3 DEF Eligible, WithinDepth
<1> QED BY <1>1, <1>2, <1>4 DEF OnceInv, ExactlyOnce

\* Each event behind the cursor has exactly one run for every trigger that matched
\* it, through crashes, rollbacks and concurrent replicas, if the transactions that
\* write events do not overlap.  (When they do, the cursor passes events that are
\* not visible yet: run triggers_overlap.)
THEOREM DispatchedOnce == MaxOpen = 1 => (Spec => []ExactlyOnce)
<1> SUFFICES ASSUME MaxOpen = 1 PROVE Spec => []ExactlyOnce
  OBVIOUS
<1> DEFINE Inv == TypeOK /\ TickInv /\ DepthInv /\ OnceInv
<1>1. Init => OnceInv
  <2> SUFFICES ASSUME Init PROVE OnceInv
    OBVIOUS
  <2>1. Logged = {} BY DEF Init, Logged
  <2> QED BY <2>1 DEF Init, OnceInv, ExactlyOnce, Open, Visible
<1>2. ASSUME Inv, [Next]_vars PROVE OnceInv'
  <2>1. CASE UNCHANGED vars
    BY <1>2, <2>1 DEF vars, OnceInv, ExactlyOnce, Open, Visible, Logged, Eligible, WithinDepth
  <2>2. CASE Publish \/ (\E t \in Trigger, n \in Logged : Emit(t, n)) \/ (\E n \in Logged : Settle(n))
    <3>1. LogKept /\ LogNew /\ UNCHANGED Dispatching /\ emitted' \subseteq Trigger \X Position
      BY <1>2, <2>2, LogStep
    <3>2. Len(log') # Len(log) => \A n \in Logged : log'[n] = log[n]
      <4>1. CASE \E n \in Logged : Settle(n) BY <1>2, <4>1, SettleAt
      <4>2. CASE \E type, depth, cause : Stamp(type, depth, cause)
        BY <1>2, <4>2, LoggedAt DEF Stamp, TypeOK, Logged
      <4> QED BY <2>2, <4>1, <4>2 DEF Publish, Emit
    <3> QED BY <1>2, <3>1, <3>2, LogOnce
  <2> QED BY <1>2, <2>1, <2>2, TickOnce, DefinitionOnce DEF Next
<1>3. Inv /\ [Next]_vars => Inv' BY <1>2, BaseStep
<1>4. Inv => ExactlyOnce BY DEF OnceInv
<1> QED BY BaseInit, <1>1, <1>3, <1>4, PTL DEF Spec

==============================================================================
