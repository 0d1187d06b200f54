------------------------ MODULE PluginMeteringProofs ------------------------
(***************************************************************************)
(* Proofs about PluginMetering, for any number of calls, any windows and   *)
(* any budgets.                                                            *)
(***************************************************************************)
EXTENDS PluginMetering, FiniteSetTheorems, TLAPS

\* The metric of the first charge of a call.
FirstMetric(c) == IF call[c].kind = "egress" THEN "requests" ELSE "invocations"

\* What a call has charged at each place, and when.
CallOf(c) ==
    /\ IsFiniteSet(Entries(c))
    /\ call[c].stamp <= time
    /\ \A g \in call[c].charges : g.stamp <= time
    /\ \A g, h \in call[c].charges : g.metric = h.metric => g = h
    /\ call[c].at \in {"unsent", "charging", "reserved", "done"} => call[c].charges = {}
    /\ call[c].at \in {"charged", "sent"} =>
         \A g \in call[c].charges : g.metric = FirstMetric(c) /\ g.stamp = call[c].stamp
    /\ call[c].at \in {"charged", "sent"} => call[c].charges # {}
    /\ call[c].at \in {"metering", "metered"} => call[c].kind = "egress"
    /\ call[c].at = "metering" => \A g \in call[c].charges : g.metric # "response"
    /\ call[c].at = "reserved" => /\ call[c].kind = "mutation"
                                  /\ [metric |-> "invocations", stamp |-> call[c].stamp, call |-> c] \in ledger

CallInv == \A c \in Call : CallOf(c)

\* Nothing is recorded for a time that has not come.
TimeInv ==
    /\ \A e \in ledger : e.stamp <= time
    /\ \A b \in Metric \X Window \X Time : b[3] > time => bucket[b] = 0
    /\ \A b \in Metric \X Window : since[b] # Unset => since[b] <= time

\* A budget that was configured stays.
BudgetInv ==
    \A b \in Metric \X Window :
        /\ since[b] # Unset <=> limit[b] # Unset
        /\ limit[b] # Unset => limit[b] <= ceiling[b]

\* The rows of a call are there when its transaction has committed, and not before.
LedgerInv ==
    /\ IsFiniteSet(ledger)
    /\ \A e \in ledger : call[e.call].at \in {"reserved", "done"}

\* No two calls hold the same row.
LockInv == \A c, d \in Call : c # d => Held(c) \cap Held(d) = {}

\* What an open charge projects for a bucket is still one more than it holds.
ProjectedInv ==
    \A c \in Call : \A g \in call[c].charges : \A w \in Charged(g) :
        g.projected[w] = bucket[<<g.metric, w, WindowStart(g.stamp, w)>>] + 1

\* A window that began under a budget.
Under(m, w, start) == since[<<m, w>>] # Unset /\ start > since[<<m, w>>]

\* An open charge covers every window that began under a budget, within its limit.
CoverInv ==
    \A c \in Call : \A g \in call[c].charges : \A w \in Window :
        Under(g.metric, w, WindowStart(g.stamp, w)) =>
            w \in Charged(g) /\ g.projected[w] <= ceiling[<<g.metric, w>>]

ExactInv ==
    \A b \in Governed : /\ bucket[b] = InWindow(ledger, b[1], b[2], b[3])
                        /\ bucket[b] <= ceiling[<<b[1], b[2]>>]

\* What left has its row in the ledger, or is still under its open charge.
SentInv ==
    \A e \in sent : \/ e \in ledger
                    \/ /\ call[e.call].at \in {"sent", "metering", "metered"}
                       /\ e \in Entries(e.call)

Inv == MeteringTypeOK /\ CallInv /\ TimeInv /\ BudgetInv /\ LedgerInv /\ LockInv /\ ProjectedInv
       /\ CoverInv /\ ExactInv /\ SentInv

-----------------------------------------------------------------------------
(* Operators.                                                              *)

\* A window starts at or before the times in it.
LEMMA WindowStartType ==
    ASSUME NEW t \in Time, NEW w \in Window
    PROVE  WindowStart(t, w) \in Time /\ WindowStart(t, w) <= t
<1>1. t \in Nat /\ t <= MaxTime /\ w \in Nat \ {0}
  BY TimeAssumption, WindowAssumption DEF Time
<1>2. t % w \in Nat /\ t % w <= t
  <2>1. t \div w \in Nat /\ t % w \in Nat /\ t = (t \div w) * w + (t % w) /\ (t \div w) * w \in Nat
    BY <1>1
  <2> QED BY <1>1, <2>1
<1> QED BY <1>1, <1>2, TimeAssumption DEF WindowStart, Time

LEMMA WindowsType ==
    ASSUME MeteringTypeOK, NEW m \in Metric
    PROVE  /\ Windows(m) \subseteq Window
           /\ \A w \in Window : limit[<<m, w>>] # Unset => w \in Windows(m)
BY WindowAssumption DEF Windows, Budgets

LEMMA MetricOfType ==
    ASSUME NEW c \in Call
    PROVE  MetricOf(c) \in Metric
BY DEF MetricOf, Metric

LEMMA EntriesType ==
    ASSUME MeteringTypeOK, NEW c \in Call
    PROVE  Entries(c) \subseteq LedgerRow /\ \A e \in Entries(c) : e.call = c
BY DEF MeteringTypeOK, Entries, LedgerRow, CallRow, Charge

\* The rows a call with more than an open charge holds.
LEMMA HeldRows ==
    ASSUME NEW c \in Call, NEW g \in call[c].charges, NEW w \in Charged(g)
    PROVE  <<g.metric, w, WindowStart(g.stamp, w)>> \in Held(c)
<1>1. <<g.metric, w, WindowStart(g.stamp, w)>> \in Locks(g.metric, g.stamp, g.budgets, Charged(g))
  BY DEF Locks
<1> QED BY <1>1 DEF Held

-----------------------------------------------------------------------------
(* The steps of a call.                                                    *)

\* The rows that consume locks.
LocksOf(c) == Locks(MetricOf(c), call[c].stamp, Budgets(MetricOf(c)), Windows(MetricOf(c)))

\* The charge that consume adds.
NewCharge(c) ==
    [metric |-> MetricOf(c), stamp |-> call[c].stamp, budgets |-> Budgets(MetricOf(c)),
     projected |-> [w \in Window |-> IF w \in Windows(MetricOf(c))
                                     THEN Projected(MetricOf(c), call[c].stamp, w) ELSE Unset]]

Frozen == UNCHANGED <<bucket, ledger>> /\ Unmoved
Others(c) == call' \in [Call -> CallRow] /\ \A d \in Call \ {c} : call'[d] = call[d]

\* A call that ends keeps no charge.
Ended(c, at) ==
    /\ Others(c) /\ call'[c].at = at /\ call'[c].charges = {} /\ call'[c].stamp \in {0, call[c].stamp}
    /\ at = "reserved" => call'[c].stamp = call[c].stamp /\ call'[c].kind = call[c].kind

\* consume has charged.
Accepted(c) ==
    /\ Others(c) /\ Frozen /\ UNCHANGED sent
    /\ call[c].at \in {"charging", "metering"}
    /\ \A d \in Call \ {c} : Held(d) \cap LocksOf(c) = {}
    /\ \A w \in Windows(MetricOf(c)) : ~Exceeds(MetricOf(c), call[c].stamp, w)
    /\ call'[c].at = IF call[c].at = "charging" THEN "charged" ELSE "metered"
    /\ call'[c].kind = call[c].kind /\ call'[c].stamp = call[c].stamp
    /\ call'[c].charges = call[c].charges \cup {NewCharge(c)}

\* A step that changes no charge.
Moved(c) ==
    /\ Others(c) /\ Frozen
    /\ call'[c].charges = call[c].charges
    /\ \/ /\ call[c].at = "unsent" /\ call'[c].at = "charging" /\ call'[c].stamp = time
          /\ UNCHANGED sent
       \/ /\ call[c].kind = "egress" /\ call[c].at = "sent" /\ call'[c].at = "metering"
          /\ call'[c].kind = call[c].kind /\ call'[c].stamp = time /\ UNCHANGED sent
       \/ /\ call[c].at = "charged" /\ call'[c].at = "sent"
          /\ call'[c].kind = call[c].kind /\ call'[c].stamp = call[c].stamp
          /\ sent' = sent \cup {[metric |-> FirstMetric(c), stamp |-> call[c].stamp, call |-> c]}

\* The provider of a mutation runs after its charge was committed.
Left(c) ==
    /\ Ended(c, "done") /\ Frozen /\ call[c].at = "reserved"
    /\ sent' = sent \cup {[metric |-> "invocations", stamp |-> call[c].stamp, call |-> c]}

RolledBack(c) == Ended(c, "done") /\ Frozen /\ sent' = sent \ Entries(c)

Committed(c, at) ==
    /\ Ended(c, at) /\ Unmoved /\ UNCHANGED sent
    /\ ledger' = ledger \cup Entries(c)
    /\ bucket' \in [Metric \X Window \X Time -> Nat]
    /\ \A b \in Metric \X Window \X Time :
         /\ \A g \in call[c].charges : g.metric = b[1] /\ b[2] \in Charged(g)
                                       /\ WindowStart(g.stamp, b[2]) = b[3] =>
                bucket'[b] = g.projected[b[2]]
         /\ (\A g \in call[c].charges : ~(g.metric = b[1] /\ b[2] \in Charged(g)
                                          /\ WindowStart(g.stamp, b[2]) = b[3])) =>
                bucket'[b] = bucket[b]

LEMMA EndFacts ==
    ASSUME MeteringTypeOK, NEW c \in Call, NEW at \in {"done", "reserved"}, End(c, at)
    PROVE  Ended(c, at)
<1>1. call[c] \in CallRow
  BY DEF MeteringTypeOK
<1>2. CASE at = "done"
  <2>1. Over \in CallRow /\ Over.at = "done" /\ Over.charges = {} /\ Over.stamp = 0
    BY TimeAssumption DEF Over, Unsent, CallRow, Time
  <2>2. call' = [call EXCEPT ![c] = Over]
    BY <1>2 DEF End
  <2> QED BY <1>2, <2>1, <2>2 DEF MeteringTypeOK, Ended, Others
<1>3. CASE at = "reserved"
  <2> DEFINE q == [call[c] EXCEPT !.at = at, !.charges = {}]
  <2>1. q \in CallRow /\ q.at = at /\ q.charges = {} /\ q.stamp = call[c].stamp /\ q.kind = call[c].kind
    BY <1>1, <1>3 DEF CallRow
  <2>2. call' = [call EXCEPT ![c] = q]
    BY <1>3 DEF End
  <2> HIDE DEF q
  <2> QED BY <2>1, <2>2 DEF MeteringTypeOK, Ended, Others
<1> QED BY <1>2, <1>3

LEMMA CommitFacts ==
    ASSUME MeteringTypeOK, CallInv, NEW c \in Call, NEW at \in {"done", "reserved"}, CommitCharges(c, at)
    PROVE  Committed(c, at)
<1> DEFINE mine(b) == {g \in call[c].charges : /\ g.metric = b[1] /\ b[2] \in Charged(g)
                                               /\ WindowStart(g.stamp, b[2]) = b[3]}
           new(b) == IF mine(b) = {} THEN bucket[b] ELSE (CHOOSE g \in mine(b) : TRUE).projected[b[2]]
<1>1. Ended(c, at) /\ Unmoved /\ UNCHANGED sent /\ ledger' = ledger \cup Entries(c)
  BY EndFacts DEF CommitCharges
<1>2. bucket' = [b \in Metric \X Window \X Time |-> new(b)]
  BY DEF CommitCharges, MeteringTypeOK
<1>3. ASSUME NEW b \in Metric \X Window \X Time, NEW g \in mine(b) PROVE new(b) = g.projected[b[2]]
  <2>0. \A h, k \in call[c].charges : h.metric = k.metric => h = k
    BY DEF CallInv, CallOf
  <2>1. \A h \in mine(b) : h = g
    BY <2>0
  <2>2. (CHOOSE h \in mine(b) : TRUE) \in mine(b)
    BY <1>3
  <2> QED BY <1>3, <2>1, <2>2
<1>4. ASSUME NEW b \in Metric \X Window \X Time PROVE new(b) \in Nat
  <2>1. CASE mine(b) = {}
    BY <2>1 DEF MeteringTypeOK
  <2>2. ASSUME NEW g \in mine(b) PROVE new(b) \in Nat
    <3>1. g.projected \in [Window -> Nat \cup {Unset}] /\ b[2] \in Window /\ g.projected[b[2]] # Unset
      BY DEF MeteringTypeOK, CallRow, Charge, Charged
    <3> QED BY <1>3, <3>1
  <2> QED BY <2>1, <2>2
<1>5. \A b \in Metric \X Window \X Time : mine(b) = {} => new(b) = bucket[b]
  OBVIOUS
<1> HIDE DEF new
<1>6. bucket' \in [Metric \X Window \X Time -> Nat] /\ \A b \in Metric \X Window \X Time : bucket'[b] = new(b)
  BY <1>2, <1>4
<1> QED BY <1>1, <1>3, <1>5, <1>6 DEF Committed

LEMMA AcceptFacts ==
    ASSUME MeteringTypeOK, NEW c \in Call, Consume(c)
    PROVE  RolledBack(c) \/ Accepted(c)
<1>1. CASE RollBackCharges(c)
  BY <1>1, EndFacts DEF RollBackCharges, RolledBack, Frozen
<1>2. CASE ~RollBackCharges(c)
  <2>1. /\ call' = [call EXCEPT ![c].at = IF call[c].at = "charging" THEN "charged" ELSE "metered",
                                ![c].charges = call[c].charges \cup {NewCharge(c)}]
        /\ UNCHANGED <<bucket, ledger, sent>> /\ Unmoved
        /\ call[c].at \in {"charging", "metering"}
        /\ \A d \in Call \ {c} : Held(d) \cap LocksOf(c) = {}
        /\ \A w \in Windows(MetricOf(c)) : ~Exceeds(MetricOf(c), call[c].stamp, w)
    BY <1>2 DEF Consume, NewCharge, LocksOf
  <2>2. NewCharge(c) \in Charge
    <3>1. MetricOf(c) \in Metric /\ call[c].stamp \in Time
      BY MetricOfType DEF MeteringTypeOK, CallRow
    <3>2. \A w \in Window : Projected(MetricOf(c), call[c].stamp, w) \in Nat
      <4> SUFFICES ASSUME NEW w \in Window PROVE Projected(MetricOf(c), call[c].stamp, w) \in Nat
        OBVIOUS
      <4>1. bucket[<<MetricOf(c), w, WindowStart(call[c].stamp, w)>>] \in Nat
        BY <3>1, WindowStartType DEF MeteringTypeOK
      <4> QED BY <4>1 DEF Projected
    <3> QED BY <3>1, <3>2 DEF NewCharge, Charge, Budgets
  <2>3. PICK g \in Charge : g = NewCharge(c)
    BY <2>2
  <2>4. PICK at \in {"charged", "metered"} : at = IF call[c].at = "charging" THEN "charged" ELSE "metered"
    OBVIOUS
  <2> DEFINE q == [call[c] EXCEPT !.at = at, !.charges = call[c].charges \cup {g}]
  <2>5. call[c] \in CallRow
    BY DEF MeteringTypeOK
  <2>6. q \in CallRow /\ q.at = at /\ q.kind = call[c].kind /\ q.stamp = call[c].stamp
        /\ q.charges = call[c].charges \cup {g}
    BY <2>5 DEF CallRow
  <2>7. call' = [call EXCEPT ![c] = q]
    BY <2>1, <2>3, <2>4
  <2> HIDE DEF q
  <2>8. Others(c) /\ call'[c] = q
    BY <2>6, <2>7 DEF Others, MeteringTypeOK
  <2> QED BY <2>1, <2>3, <2>4, <2>6, <2>8 DEF Accepted, Frozen
<1> QED BY <1>1, <1>2

LEMMA MoveFacts ==
    ASSUME MeteringTypeOK, NEW c \in Call,
           (\E kind \in Kind : Begin(c, kind)) \/ ResponseBody(c) \/ Send(c)
             \/ (call[c].kind = "read" /\ call[c].at = "charged" /\ Leave(c, "sent"))
    PROVE  Moved(c)
<1>0. call[c] \in CallRow
  BY DEF MeteringTypeOK
<1>1. ASSUME NEW kind \in Kind, Begin(c, kind) PROVE Moved(c)
  <2> DEFINE q == [call[c] EXCEPT !.kind = kind, !.at = "charging", !.stamp = time]
  <2>1. q \in CallRow /\ q.at = "charging" /\ q.stamp = time /\ q.charges = call[c].charges
    BY <1>0 DEF CallRow, MeteringTypeOK
  <2>2. call' = [call EXCEPT ![c] = q]
    BY <1>1 DEF Begin
  <2> HIDE DEF q
  <2> QED BY <1>1, <2>1, <2>2 DEF Begin, Moved, Others, Frozen, MeteringTypeOK
<1>2. CASE ResponseBody(c)
  <2> DEFINE q == [call[c] EXCEPT !.at = "metering", !.stamp = time]
  <2>1. q \in CallRow /\ q.at = "metering" /\ q.stamp = time /\ q.charges = call[c].charges
        /\ q.kind = call[c].kind
    BY <1>0 DEF CallRow, MeteringTypeOK
  <2>2. call' = [call EXCEPT ![c] = q]
    BY <1>2 DEF ResponseBody
  <2> HIDE DEF q
  <2> QED BY <1>2, <2>1, <2>2 DEF ResponseBody, Moved, Others, Frozen, MeteringTypeOK
<1>3. CASE call[c].at = "charged" /\ Leave(c, "sent")
  <2> DEFINE q == [call[c] EXCEPT !.at = "sent"]
  <2>1. q \in CallRow /\ q.at = "sent" /\ q.stamp = call[c].stamp /\ q.charges = call[c].charges
        /\ q.kind = call[c].kind
    BY <1>0 DEF CallRow
  <2>2. call' = [call EXCEPT ![c] = q]
    BY <1>3 DEF Leave
  <2> HIDE DEF q
  <2> QED BY <1>3, <2>1, <2>2 DEF Leave, Moved, Others, Frozen, FirstMetric, MeteringTypeOK
<1> QED BY <1>1, <1>2, <1>3 DEF Send

\* Every step of a call is one of these.
LEMMA CallSteps ==
    ASSUME MeteringTypeOK, CallInv, MeteringNext
    PROVE  \/ Tick
           \/ \E o \in Offer : Configure(o)
           \/ \E c \in Call :
                \/ Moved(c) \/ Accepted(c) \/ Left(c) \/ RolledBack(c)
                \/ Committed(c, "done")
                \/ call[c].kind = "mutation" /\ call[c].at = "charged" /\ Committed(c, "reserved")
<1>1. ASSUME NEW c \in Call, RollBackCharges(c) PROVE RolledBack(c)
  BY <1>1, EndFacts DEF RollBackCharges, RolledBack, Frozen
<1>2. ASSUME NEW c \in Call, CommitCharges(c, "done") PROVE Committed(c, "done")
  BY <1>2, CommitFacts
<1>3. ASSUME NEW c \in Call, KernelReserves(c)
      PROVE  call[c].kind = "mutation" /\ call[c].at = "charged" /\ Committed(c, "reserved")
  BY <1>3, CommitFacts DEF KernelReserves
<1>4. ASSUME NEW c \in Call, call[c].kind = "mutation", call[c].at = "reserved", Leave(c, "done")
      PROVE  Left(c)
  <2>1. End(c, "done")
    BY <1>4 DEF Leave, End
  <2>2. Ended(c, "done")
    BY <2>1, EndFacts
  <2> QED BY <1>4, <2>2 DEF Leave, Left, Frozen
<1>5. ASSUME NEW c \in Call, Consume(c) PROVE RolledBack(c) \/ Accepted(c)
  BY <1>5, AcceptFacts
<1>6. ASSUME NEW c \in Call, (\E kind \in Kind : Begin(c, kind)) \/ ResponseBody(c) \/ Send(c)
               \/ (call[c].kind = "read" /\ call[c].at = "charged" /\ Leave(c, "sent"))
      PROVE  Moved(c)
  BY <1>6, MoveFacts
<1> QED BY <1>1, <1>2, <1>3, <1>4, <1>5, <1>6
        DEF MeteringNext, CallDies, EmptyResponse, ResponseMetered, EgressFails, KernelRefuses,
            KernelReplays, ProviderRuns, ReadSucceeds, ReadFails

-----------------------------------------------------------------------------
(* Types, times and budgets.                                               *)

LEMMA InitInv == MeteringInit => Inv
<1> SUFFICES ASSUME MeteringInit PROVE Inv
  OBVIOUS
<1>1. Unsent \in CallRow /\ Unsent.at = "unsent" /\ Unsent.charges = {} /\ Unsent.stamp = 0
  BY TimeAssumption DEF Unsent, CallRow, Time
<1> USE DEF MeteringInit
<1>2. MeteringTypeOK
  BY <1>1, TimeAssumption DEF MeteringTypeOK
<1>3. CallInv
  <2> SUFFICES ASSUME NEW c \in Call PROVE CallOf(c)
    BY DEF CallInv
  <2>1. call[c] = Unsent /\ Entries(c) = {} /\ StartTime \in Nat
    BY <1>1, TimeAssumption DEF Entries, Time
  <2> QED BY <1>1, <2>1, FS_EmptySet DEF CallOf
<1>4. TimeInv /\ BudgetInv
  BY DEF TimeInv, BudgetInv
<1>5. LedgerInv
  BY FS_EmptySet DEF LedgerInv
<1>6. LockInv /\ ProjectedInv /\ CoverInv
  BY <1>1 DEF LockInv, ProjectedInv, CoverInv, Held
<1>7. ExactInv /\ SentInv
  BY DEF ExactInv, SentInv, Governed
<1> QED BY <1>2, <1>3, <1>4, <1>5, <1>6, <1>7 DEF Inv

\* What configure does to a budget.
LEMMA ConfigureFacts ==
    ASSUME MeteringTypeOK, NEW o \in Offer, Configure(o)
    PROVE  \E b \in Metric \X Window :
             /\ UNCHANGED <<time, bucket, ledger, call, sent>>
             /\ limit' = [limit EXCEPT ![b] = o.limit] /\ o.limit \in Nat
             /\ since' = [since EXCEPT ![b] = IF since[b] = Unset THEN time ELSE since[b]]
             /\ ceiling' = [ceiling EXCEPT ![b] = IF o.limit > ceiling[b] THEN o.limit ELSE ceiling[b]]
             /\ changes' \in 0..MaxChanges
<1> DEFINE b == <<o.metric, o.window>>
<1>1. b \in Metric \X Window /\ o.limit \in Nat
  BY OfferAssumption
<1>2. changes' \in 0..MaxChanges
  BY TimeAssumption DEF Configure, MeteringTypeOK
<1> QED BY <1>1, <1>2 DEF Configure

LEMMA TypeStep ==
    ASSUME Inv, [MeteringNext]_meteringVars
    PROVE  MeteringTypeOK'
<1> USE DEF Inv
<1>1. CASE UNCHANGED meteringVars
  BY <1>1 DEF meteringVars, MeteringTypeOK
<1>2. CASE Tick
  BY <1>2, TimeAssumption DEF Tick, MeteringTypeOK, Time
<1>3. ASSUME NEW o \in Offer, Configure(o) PROVE MeteringTypeOK'
  <2>1. PICK b \in Metric \X Window :
          /\ UNCHANGED <<time, bucket, ledger, call, sent>>
          /\ limit' = [limit EXCEPT ![b] = o.limit] /\ o.limit \in Nat
          /\ since' = [since EXCEPT ![b] = IF since[b] = Unset THEN time ELSE since[b]]
          /\ ceiling' = [ceiling EXCEPT ![b] = IF o.limit > ceiling[b] THEN o.limit ELSE ceiling[b]]
          /\ changes' \in 0..MaxChanges
    BY <1>3, ConfigureFacts
  <2>2. limit' \in [Metric \X Window -> Nat \cup {Unset}]
    BY <2>1 DEF MeteringTypeOK
  <2>3. since' \in [Metric \X Window -> Time \cup {Unset}]
    BY <2>1 DEF MeteringTypeOK
  <2>4. ceiling' \in [Metric \X Window -> Nat]
    <3>1. PICK n \in Nat : n = IF o.limit > ceiling[b] THEN o.limit ELSE ceiling[b]
      BY <2>1 DEF MeteringTypeOK
    <3> QED BY <2>1, <3>1 DEF MeteringTypeOK
  <2> QED BY <2>1, <2>2, <2>3, <2>4 DEF MeteringTypeOK
<1>4. ASSUME NEW c \in Call, Moved(c) PROVE MeteringTypeOK'
  <2>1. [metric |-> FirstMetric(c), stamp |-> call[c].stamp, call |-> c] \in LedgerRow
    BY DEF FirstMetric, LedgerRow, Metric, MeteringTypeOK, CallRow
  <2>2. sent' \subseteq LedgerRow
    BY <1>4, <2>1 DEF Moved, MeteringTypeOK
  <2> QED BY <1>4, <2>2 DEF Moved, Others, Frozen, Unmoved, MeteringTypeOK
<1>5. ASSUME NEW c \in Call, Accepted(c) PROVE MeteringTypeOK'
  BY <1>5 DEF Accepted, Others, Frozen, Unmoved, MeteringTypeOK
<1>6. ASSUME NEW c \in Call, Left(c) PROVE MeteringTypeOK'
  <2>1. [metric |-> "invocations", stamp |-> call[c].stamp, call |-> c] \in LedgerRow
    BY DEF LedgerRow, Metric, MeteringTypeOK, CallRow
  <2>2. sent' \subseteq LedgerRow
    BY <1>6, <2>1 DEF Left, MeteringTypeOK
  <2> QED BY <1>6, <2>2 DEF Left, Ended, Others, Frozen, Unmoved, MeteringTypeOK
<1>7. ASSUME NEW c \in Call, RolledBack(c) PROVE MeteringTypeOK'
  BY <1>7 DEF RolledBack, Ended, Others, Frozen, Unmoved, MeteringTypeOK
<1>8. ASSUME NEW c \in Call, NEW at \in {"done", "reserved"}, Committed(c, at) PROVE MeteringTypeOK'
  <2>1. ledger' \subseteq LedgerRow
    BY <1>8, EntriesType DEF Committed, MeteringTypeOK
  <2> QED BY <1>8, <2>1 DEF Committed, Ended, Others, Unmoved, MeteringTypeOK
<1> QED BY <1>1, <1>2, <1>3, <1>4, <1>5, <1>6, <1>7, <1>8, CallSteps

\* Calls that are left alone stay as they are.
LEMMA CallKept ==
    ASSUME MeteringTypeOK, MeteringTypeOK', CallInv, time <= time', ledger \subseteq ledger',
           NEW c \in Call, call'[c] = call[c]
    PROVE  CallOf(c)'
<1>1. CallOf(c) /\ Entries(c)' = Entries(c)
  BY DEF CallInv, Entries
<1>2. time \in Nat /\ time' \in Nat /\ call[c].stamp \in Nat /\ \A g \in call[c].charges : g.stamp \in Nat
  BY DEF MeteringTypeOK, CallRow, Charge, Time
<1>3. call'[c].stamp <= time' /\ \A g \in call'[c].charges : g.stamp <= time'
  BY <1>1, <1>2 DEF CallOf
<1> QED BY <1>1, <1>3 DEF CallOf, FirstMetric

LEMMA CallStep ==
    ASSUME Inv, [MeteringNext]_meteringVars
    PROVE  CallInv'
<1> SUFFICES ASSUME NEW d \in Call PROVE CallOf(d)'
  BY DEF CallInv
<1> USE DEF Inv
<1>0. MeteringTypeOK' /\ time \in Nat
  BY TypeStep DEF MeteringTypeOK, Time
<1>d. CallOf(d)
  BY DEF CallInv
<1>1. CASE UNCHANGED meteringVars
  BY <1>0, <1>1, CallKept DEF meteringVars
<1>2. CASE Tick
  BY <1>0, <1>2, CallKept DEF Tick
<1>3. ASSUME NEW o \in Offer, Configure(o) PROVE CallOf(d)'
  BY <1>0, <1>3, ConfigureFacts, CallKept
<1>4. ASSUME NEW c \in Call, Others(c), time' = time, ledger \subseteq ledger', d # c PROVE CallOf(d)'
  BY <1>0, <1>4, CallKept DEF Others
<1>5. ASSUME Ended(d, "done"), time' = time PROVE CallOf(d)'
  <2>1. call'[d].at = "done" /\ call'[d].charges = {} /\ call'[d].stamp <= time'
    BY <1>0, <1>5, <1>d DEF Ended, CallOf
  <2>2. Entries(d)' = {}
    BY <2>1 DEF Entries
  <2> QED BY <2>1, <2>2, FS_EmptySet DEF CallOf
<1>6. CASE Moved(d)
  <2>1. call'[d].charges = call[d].charges /\ time' = time /\ ledger' = ledger
        /\ Entries(d)' = Entries(d) /\ call'[d].stamp <= time'
    BY <1>0, <1>6, <1>d DEF Moved, Frozen, Unmoved, Entries, CallOf
  <2>2. CASE call[d].at = "unsent" /\ call'[d].at = "charging"
    BY <1>d, <2>1, <2>2 DEF CallOf
  <2>3. CASE call[d].kind = "egress" /\ call[d].at = "sent" /\ call'[d].at = "metering"
             /\ call'[d].kind = call[d].kind
    <3>1. \A g \in call[d].charges : g.metric = "requests"
      BY <1>d, <2>3 DEF CallOf, FirstMetric
    <3> QED BY <1>d, <2>1, <2>3, <3>1 DEF CallOf
  <2>4. CASE call[d].at = "charged" /\ call'[d].at = "sent" /\ call'[d].kind = call[d].kind
             /\ call'[d].stamp = call[d].stamp
    BY <1>d, <2>1, <2>4 DEF CallOf, FirstMetric
  <2> QED BY <1>6, <2>2, <2>3, <2>4 DEF Moved
<1>7. CASE Accepted(d)
  <2>1. /\ time' = time /\ ledger' = ledger
        /\ call[d].at \in {"charging", "metering"}
        /\ call'[d].at = IF call[d].at = "charging" THEN "charged" ELSE "metered"
        /\ call'[d].kind = call[d].kind /\ call'[d].stamp = call[d].stamp
        /\ call'[d].charges = call[d].charges \cup {NewCharge(d)}
    BY <1>7 DEF Accepted, Frozen, Unmoved
  <2>2. NewCharge(d).metric = MetricOf(d) /\ NewCharge(d).stamp = call[d].stamp
    BY DEF NewCharge
  <2>3. PICK g : g = NewCharge(d)
    OBVIOUS
  <2>4. Entries(d)' = Entries(d) \cup {[metric |-> g.metric, stamp |-> g.stamp, call |-> d]}
    BY <2>1, <2>3 DEF Entries
  <2>5. IsFiniteSet(Entries(d)')
    BY <1>d, <2>4, FS_AddElement DEF CallOf
  <2>6. CASE call[d].at = "charging"
    <3>1. call[d].charges = {} /\ call'[d].charges = {g}
      BY <1>d, <2>1, <2>3, <2>6 DEF CallOf
    <3>2. g.metric = FirstMetric(d) /\ g.stamp = call[d].stamp /\ FirstMetric(d)' = FirstMetric(d)
      BY <2>1, <2>2, <2>3, <2>6 DEF FirstMetric, MetricOf
    <3> QED BY <1>d, <2>1, <2>5, <2>6, <3>1, <3>2 DEF CallOf
  <2>7. CASE call[d].at = "metering"
    <3>1. g.metric = "response" /\ g.stamp = call[d].stamp /\ call[d].kind = "egress"
      BY <1>d, <2>2, <2>3, <2>7 DEF CallOf, MetricOf
    <3>2. \A h \in call[d].charges : h.metric # "response"
      BY <1>d, <2>7 DEF CallOf
    <3> QED BY <1>d, <2>1, <2>3, <2>5, <2>7, <3>1, <3>2 DEF CallOf
  <2> QED BY <2>1, <2>6, <2>7
<1>8. CASE call[d].kind = "mutation" /\ call[d].at = "charged" /\ Committed(d, "reserved")
  <2>1. /\ time' = time /\ ledger' = ledger \cup Entries(d)
        /\ call'[d].at = "reserved" /\ call'[d].charges = {} /\ call'[d].kind = "mutation"
        /\ call'[d].stamp = call[d].stamp
    BY <1>8 DEF Committed, Ended, Unmoved
  <2>2. PICK g \in call[d].charges : g.metric = "invocations" /\ g.stamp = call[d].stamp
    BY <1>8, <1>d DEF CallOf, FirstMetric
  <2>3. [metric |-> "invocations", stamp |-> call[d].stamp, call |-> d] \in ledger'
    BY <2>1, <2>2 DEF Entries
  <2>4. Entries(d)' = {}
    BY <2>1 DEF Entries
  <2> QED BY <1>d, <2>1, <2>3, <2>4, FS_EmptySet DEF CallOf
<1>9. ASSUME NEW c \in Call,
             \/ Moved(c) \/ Accepted(c) \/ Left(c) \/ RolledBack(c) \/ Committed(c, "done")
             \/ call[c].kind = "mutation" /\ call[c].at = "charged" /\ Committed(c, "reserved")
      PROVE  CallOf(d)'
  <2>1. Others(c) /\ time' = time /\ ledger \subseteq ledger'
    BY <1>9 DEF Moved, Accepted, Left, RolledBack, Committed, Ended, Frozen, Unmoved
  <2>2. CASE d # c
    BY <1>4, <2>1, <2>2
  <2>3. CASE d = c
    <3>1. CASE Left(c) \/ RolledBack(c) \/ Committed(c, "done")
      <4>1. Ended(c, "done")
        BY <3>1 DEF Left, RolledBack, Committed
      <4> QED BY <1>5, <2>1, <2>3, <4>1
    <3> QED BY <1>6, <1>7, <1>8, <1>9, <2>3, <3>1
  <2> QED BY <2>2, <2>3
<1> QED BY <1>1, <1>2, <1>3, <1>9, CallSteps

LEMMA TimeStep ==
    ASSUME Inv, [MeteringNext]_meteringVars
    PROVE  TimeInv'
<1> USE DEF Inv
<1>0. time \in Nat /\ (\A e \in ledger : e.stamp \in Nat)
      /\ (\A b \in Metric \X Window : since[b] \in Nat \cup {Unset})
      /\ (\A b \in Metric \X Window \X Time : b[3] \in Nat)
  BY DEF MeteringTypeOK, LedgerRow, Time
<1>1. CASE UNCHANGED <<time, bucket, ledger, since>>
  BY <1>1 DEF TimeInv
<1>2. CASE Tick
  <2>1. time' = time + 1 /\ UNCHANGED <<bucket, ledger, since>>
    BY <1>2 DEF Tick
  <2> QED BY <1>0, <2>1 DEF TimeInv
<1>3. ASSUME NEW o \in Offer, Configure(o) PROVE TimeInv'
  <2>1. PICK b \in Metric \X Window :
          /\ UNCHANGED <<time, bucket, ledger>>
          /\ since' = [since EXCEPT ![b] = IF since[b] = Unset THEN time ELSE since[b]]
    BY <1>3, ConfigureFacts
  <2>2. \A a \in Metric \X Window : since'[a] # Unset => since'[a] <= time
    BY <1>0, <2>1 DEF TimeInv, MeteringTypeOK
  <2> QED BY <2>1, <2>2 DEF TimeInv
<1>4. ASSUME NEW c \in Call, NEW at \in {"done", "reserved"}, Committed(c, at) PROVE TimeInv'
  <2>1. time' = time /\ since' = since /\ ledger' = ledger \cup Entries(c)
    BY <1>4 DEF Committed, Unmoved
  <2>2. \A g \in call[c].charges : g.stamp \in Time /\ g.stamp <= time
    BY DEF CallInv, CallOf, MeteringTypeOK, CallRow, Charge
  <2>3. \A e \in ledger' : e.stamp <= time'
    BY <2>1, <2>2 DEF TimeInv, Entries
  <2>4. ASSUME NEW b \in Metric \X Window \X Time, b[3] > time PROVE bucket'[b] = 0
    <3>1. ASSUME NEW g \in call[c].charges PROVE WindowStart(g.stamp, b[2]) # b[3]
      <4>1. b[2] \in Window /\ g.stamp \in Time /\ g.stamp <= time
        BY <2>2
      <4>2. WindowStart(g.stamp, b[2]) \in Time /\ WindowStart(g.stamp, b[2]) <= g.stamp
        BY <4>1, WindowStartType
      <4> QED BY <1>0, <2>4, <4>1, <4>2 DEF Time
    <3>2. bucket'[b] = bucket[b]
      BY <1>4, <3>1 DEF Committed
    <3> QED BY <2>4, <3>2 DEF TimeInv
  <2> QED BY <2>1, <2>3, <2>4 DEF TimeInv
<1> QED BY <1>1, <1>2, <1>3, <1>4, CallSteps
        DEF Moved, Accepted, Left, RolledBack, Frozen, Unmoved, meteringVars

LEMMA BudgetStep ==
    ASSUME Inv, [MeteringNext]_meteringVars
    PROVE  BudgetInv'
<1> USE DEF Inv
<1>1. CASE UNCHANGED <<limit, since, ceiling>>
  BY <1>1 DEF BudgetInv
<1>2. ASSUME NEW o \in Offer, Configure(o) PROVE BudgetInv'
  <2>1. PICK b \in Metric \X Window :
          /\ limit' = [limit EXCEPT ![b] = o.limit] /\ o.limit \in Nat
          /\ since' = [since EXCEPT ![b] = IF since[b] = Unset THEN time ELSE since[b]]
          /\ ceiling' = [ceiling EXCEPT ![b] = IF o.limit > ceiling[b] THEN o.limit ELSE ceiling[b]]
    BY <1>2, ConfigureFacts
  <2>2. time # Unset /\ o.limit # Unset /\ ceiling[b] \in Nat
    BY <2>1, UnsetAssumption DEF MeteringTypeOK, Time
  <2>3. ASSUME NEW a \in Metric \X Window, a # b
        PROVE  limit'[a] = limit[a] /\ since'[a] = since[a] /\ ceiling'[a] = ceiling[a]
    BY <2>1, <2>3 DEF MeteringTypeOK
  <2>4. limit'[b] = o.limit /\ since'[b] # Unset /\ limit'[b] <= ceiling'[b]
    BY <2>1, <2>2 DEF MeteringTypeOK
  <2> QED BY <2>2, <2>3, <2>4 DEF BudgetInv
<1> QED BY <1>1, <1>2, CallSteps
        DEF Moved, Accepted, Left, RolledBack, Committed, Frozen, Unmoved, meteringVars, Tick

-----------------------------------------------------------------------------
(* The ledger, the locks and what a charge projects.                       *)

LEMMA LedgerStep ==
    ASSUME Inv, [MeteringNext]_meteringVars
    PROVE  LedgerInv'
<1> USE DEF Inv
<1>0. \A e \in ledger : e.call \in Call
  BY DEF MeteringTypeOK, LedgerRow
<1>1. CASE UNCHANGED <<ledger, call>>
  BY <1>1 DEF LedgerInv
<1>2. ASSUME NEW c \in Call, Others(c), ledger' = ledger, call[c].at \notin {"reserved", "done"}
      PROVE  LedgerInv'
  <2>1. \A e \in ledger : e.call \in Call \ {c}
    BY <1>0, <1>2 DEF LedgerInv
  <2> QED BY <1>2, <2>1 DEF LedgerInv, Others
<1>3. ASSUME NEW c \in Call, NEW at \in {"done", "reserved"}, Ended(c, at),
             ledger' = ledger \/ ledger' = ledger \cup Entries(c)
      PROVE  LedgerInv'
  <2>1. IsFiniteSet(Entries(c)) /\ IsFiniteSet(ledger)
    BY DEF CallInv, CallOf, LedgerInv
  <2>2. IsFiniteSet(ledger')
    BY <1>3, <2>1, FS_Union
  <2>3. ASSUME NEW e \in ledger' PROVE call'[e.call].at \in {"reserved", "done"}
    <3>1. CASE e.call = c
      BY <1>3, <3>1 DEF Ended
    <3>2. CASE e.call # c
      <4>1. e \in ledger
        BY <1>3, <3>2, EntriesType
      <4> QED BY <1>0, <1>3, <3>2, <4>1 DEF Ended, Others, LedgerInv
    <3> QED BY <3>1, <3>2
  <2> QED BY <2>2, <2>3 DEF LedgerInv
<1>4. ASSUME NEW c \in Call, Moved(c) \/ Accepted(c) PROVE LedgerInv'
  <2>1. Others(c) /\ ledger' = ledger /\ call[c].at \notin {"reserved", "done"}
    BY <1>4 DEF Moved, Accepted, Frozen
  <2> QED BY <1>2, <2>1
<1>5. ASSUME NEW c \in Call, Left(c) \/ RolledBack(c) PROVE LedgerInv'
  <2>1. Ended(c, "done") /\ ledger' = ledger
    BY <1>5 DEF Left, RolledBack, Frozen
  <2> QED BY <1>3, <2>1
<1>6. ASSUME NEW c \in Call, NEW at \in {"done", "reserved"}, Committed(c, at) PROVE LedgerInv'
  BY <1>3, <1>6 DEF Committed
<1>7. ASSUME NEW o \in Offer, Configure(o) PROVE LedgerInv'
  BY <1>1, <1>7 DEF Configure
<1>8. CASE Tick \/ UNCHANGED meteringVars
  BY <1>1, <1>8 DEF Tick, meteringVars
<1> QED BY <1>4, <1>5, <1>6, <1>7, <1>8, CallSteps

\* The charges of the calls change only when consume accepts one, or when a call ends.
ChargesKept == \A d \in Call : call'[d].charges \subseteq call[d].charges

LEMMA ChargeSteps ==
    ASSUME Inv, [MeteringNext]_meteringVars
    PROVE  \/ UNCHANGED bucket /\ ChargesKept /\ (UNCHANGED <<since, ceiling>> \/ \E o \in Offer : Configure(o))
           \/ \E c \in Call : Accepted(c)
           \/ \E c \in Call : \E at \in {"done", "reserved"} : Committed(c, at)
<1> USE DEF Inv
<1>1. CASE Tick \/ (\E o \in Offer : Configure(o)) \/ UNCHANGED meteringVars
  BY <1>1 DEF Tick, Configure, meteringVars, ChargesKept
<1>2. ASSUME NEW c \in Call, Moved(c) \/ Left(c) \/ RolledBack(c)
      PROVE  UNCHANGED <<bucket, since, ceiling>> /\ ChargesKept
  <2>1. UNCHANGED <<bucket, since, ceiling>> /\ Others(c) /\ call'[c].charges \subseteq call[c].charges
    BY <1>2 DEF Moved, Left, RolledBack, Ended, Frozen, Unmoved
  <2> QED BY <2>1 DEF Others, ChargesKept
<1> QED BY <1>1, <1>2, CallSteps

\* A call holds no row that it did not hold before.
LEMMA HeldKept ==
    ASSUME NEW c \in Call, call'[c].charges \subseteq call[c].charges
    PROVE  Held(c)' \subseteq Held(c)
BY DEF Held, Locks

\* The windows of the charge that consume adds are those it has locked.
LEMMA NewChargeFacts ==
    ASSUME MeteringTypeOK, NEW c \in Call
    PROVE  /\ NewCharge(c).metric = MetricOf(c) /\ NewCharge(c).stamp = call[c].stamp
           /\ NewCharge(c).budgets = Budgets(MetricOf(c))
           /\ Charged(NewCharge(c)) = Windows(MetricOf(c))
           /\ \A w \in Windows(MetricOf(c)) :
                NewCharge(c).projected[w]
                  = bucket[<<MetricOf(c), w, WindowStart(call[c].stamp, w)>>] + 1
<1>1. MetricOf(c) \in Metric /\ call[c].stamp \in Time /\ Windows(MetricOf(c)) \subseteq Window
  BY MetricOfType, WindowsType DEF MeteringTypeOK, CallRow
<1>2. \A w \in Window : Projected(MetricOf(c), call[c].stamp, w) # Unset
  <2> SUFFICES ASSUME NEW w \in Window PROVE Projected(MetricOf(c), call[c].stamp, w) # Unset
    OBVIOUS
  <2>1. bucket[<<MetricOf(c), w, WindowStart(call[c].stamp, w)>>] \in Nat
    BY <1>1, WindowStartType DEF MeteringTypeOK
  <2> QED BY <2>1, UnsetAssumption DEF Projected
<1>3. NewCharge(c).metric = MetricOf(c) /\ NewCharge(c).stamp = call[c].stamp
      /\ NewCharge(c).budgets = Budgets(MetricOf(c))
      /\ NewCharge(c).projected = [w \in Window |-> IF w \in Windows(MetricOf(c))
                                     THEN Projected(MetricOf(c), call[c].stamp, w) ELSE Unset]
  BY DEF NewCharge
<1>4. Charged(NewCharge(c)) = Windows(MetricOf(c))
  BY <1>1, <1>2, <1>3 DEF Charged
<1> QED BY <1>1, <1>3, <1>4 DEF Projected

LEMMA LockStep ==
    ASSUME Inv, [MeteringNext]_meteringVars
    PROVE  LockInv'
<1> USE DEF Inv
<1>1. CASE ChargesKept
  <2>1. \A c \in Call : Held(c)' \subseteq Held(c)
    BY <1>1, HeldKept DEF ChargesKept
  <2> QED BY <2>1 DEF LockInv
<1>2. ASSUME NEW c \in Call, Accepted(c) PROVE LockInv'
  <2> DEFINE L == LocksOf(c)
  <2>1. \A d \in Call \ {c} : Held(d)' \subseteq Held(d) /\ Held(d) \cap L = {}
    BY <1>2, HeldKept DEF Accepted, Others
  <2>2. Held(c)' \subseteq Held(c) \cup L
    <3>1. PICK g : g = NewCharge(c)
      OBVIOUS
    <3>2. call'[c].charges = call[c].charges \cup {g}
      BY <1>2, <3>1 DEF Accepted
    <3>3. Locks(g.metric, g.stamp, g.budgets, Charged(g)) = L
      BY <3>1, NewChargeFacts DEF LocksOf
    <3>4. Held(c)' = UNION {Locks(h.metric, h.stamp, h.budgets, Charged(h)) : h \in call'[c].charges}
      BY DEF Held, Locks
    <3> HIDE DEF L
    <3> QED BY <3>2, <3>3, <3>4 DEF Held
  <2> HIDE DEF L
  <2>3. ASSUME NEW d \in Call \ {c} PROVE Held(c)' \cap Held(d)' = {}
    <3>1. Held(c) \cap Held(d) = {}
      BY DEF LockInv
    <3> QED BY <2>1, <2>2, <3>1
  <2>4. ASSUME NEW d \in Call \ {c}, NEW e \in Call \ {c}, d # e PROVE Held(d)' \cap Held(e)' = {}
    BY <2>1, <2>4 DEF LockInv
  <2> QED BY <2>3, <2>4 DEF LockInv
<1>3. ASSUME NEW c \in Call, NEW at \in {"done", "reserved"}, Committed(c, at) PROVE ChargesKept
  BY <1>3 DEF Committed, Ended, Others, ChargesKept
<1> QED BY <1>1, <1>2, <1>3, ChargeSteps

\* A commit leaves the buckets of the other calls' open charges alone: they are locked.
LEMMA CommitKeeps ==
    ASSUME Inv, NEW c \in Call, NEW at \in {"done", "reserved"}, Committed(c, at),
           NEW d \in Call, d # c, NEW g \in call[d].charges, NEW w \in Charged(g)
    PROVE  bucket'[<<g.metric, w, WindowStart(g.stamp, w)>>]
             = bucket[<<g.metric, w, WindowStart(g.stamp, w)>>]
<1> DEFINE b == <<g.metric, w, WindowStart(g.stamp, w)>>
<1>1. g.metric \in Metric /\ w \in Window /\ g.stamp \in Time
  BY DEF Inv, MeteringTypeOK, CallRow, Charge, Charged
<1>2. b \in Metric \X Window \X Time /\ b[1] = g.metric /\ b[2] = w /\ b[3] = WindowStart(g.stamp, w)
  BY <1>1, WindowStartType
<1>3. b \in Held(d) /\ Held(c) \cap Held(d) = {}
  BY HeldRows DEF Inv, LockInv
<1>4. ASSUME NEW h \in call[c].charges, h.metric = b[1], b[2] \in Charged(h), WindowStart(h.stamp, b[2]) = b[3]
      PROVE  FALSE
  <2>1. <<h.metric, b[2], WindowStart(h.stamp, b[2])>> \in Held(c)
    BY <1>4, HeldRows
  <2> QED BY <1>2, <1>3, <1>4, <2>1
<1> QED BY <1>2, <1>4 DEF Committed

LEMMA ProjectedStep ==
    ASSUME Inv, [MeteringNext]_meteringVars
    PROVE  ProjectedInv'
<1> USE DEF Inv
<1>1. CASE UNCHANGED bucket /\ ChargesKept
  BY <1>1 DEF ProjectedInv, ChargesKept
<1>2. ASSUME NEW c \in Call, Accepted(c) PROVE ProjectedInv'
  <2>1. PICK n : n = NewCharge(c)
    OBVIOUS
  <2>2. bucket' = bucket /\ call'[c].charges = call[c].charges \cup {n}
        /\ \A d \in Call \ {c} : call'[d] = call[d]
    BY <1>2, <2>1 DEF Accepted, Frozen, Others
  <2>3. \A w \in Charged(n) : n.projected[w] = bucket[<<n.metric, w, WindowStart(n.stamp, w)>>] + 1
    BY <2>1, NewChargeFacts
  <2>4. \A d \in Call : \A g \in call'[d].charges : g \in call[d].charges \/ g = n
    BY <2>2
  <2> QED BY <2>2, <2>3, <2>4 DEF ProjectedInv
<1>3. ASSUME NEW c \in Call, NEW at \in {"done", "reserved"}, Committed(c, at) PROVE ProjectedInv'
  <2>1. call'[c].charges = {} /\ \A d \in Call \ {c} : call'[d] = call[d]
    BY <1>3 DEF Committed, Ended, Others
  <2> SUFFICES ASSUME NEW d \in Call, NEW g \in call'[d].charges, NEW w \in Charged(g)
               PROVE  g.projected[w] = bucket'[<<g.metric, w, WindowStart(g.stamp, w)>>] + 1
    BY DEF ProjectedInv, Charged, WindowStart
  <2>2. d # c /\ g \in call[d].charges
    BY <2>1
  <2>3. bucket'[<<g.metric, w, WindowStart(g.stamp, w)>>] = bucket[<<g.metric, w, WindowStart(g.stamp, w)>>]
    BY <1>3, <2>2, CommitKeeps
  <2> QED BY <2>2, <2>3 DEF ProjectedInv
<1> QED BY <1>1, <1>2, <1>3, ChargeSteps

-----------------------------------------------------------------------------
(* Charges, buckets and ledger agree.                                      *)

LEMMA CoverStep ==
    ASSUME Inv, [MeteringNext]_meteringVars
    PROVE  CoverInv'
<1> USE DEF Inv
<1>0. /\ time \in Nat /\ \A b \in Metric \X Window : ceiling[b] \in Nat /\ since[b] \in Nat \cup {Unset}
      /\ \A c \in Call : \A g \in call[c].charges :
           g.metric \in Metric /\ g.stamp \in Time /\ g.projected \in [Window -> Nat \cup {Unset}]
  BY DEF MeteringTypeOK, CallRow, Charge, Time
<1>1. CASE UNCHANGED <<since, ceiling>> /\ ChargesKept
  BY <1>1 DEF CoverInv, ChargesKept, Under
<1>2. ASSUME NEW o \in Offer, Configure(o) PROVE CoverInv'
  <2>1. PICK b \in Metric \X Window :
          /\ UNCHANGED call /\ o.limit \in Nat
          /\ since' = [since EXCEPT ![b] = IF since[b] = Unset THEN time ELSE since[b]]
          /\ ceiling' = [ceiling EXCEPT ![b] = IF o.limit > ceiling[b] THEN o.limit ELSE ceiling[b]]
    BY <1>2, ConfigureFacts
  <2>2. \A a \in Metric \X Window : ceiling[a] <= ceiling'[a] /\ ceiling'[a] \in Nat
    BY <1>0, <2>1 DEF MeteringTypeOK
  <2>3. \A a \in Metric \X Window : since[a] # Unset => since'[a] = since[a]
    BY <2>1 DEF MeteringTypeOK
  <2>4. \A a \in Metric \X Window : since[a] = Unset => since'[a] \in {Unset, time}
    BY <2>1 DEF MeteringTypeOK
  <2> SUFFICES ASSUME NEW c \in Call, NEW g \in call[c].charges, NEW w \in Window,
                      Under(g.metric, w, WindowStart(g.stamp, w))'
               PROVE  w \in Charged(g) /\ g.projected[w] <= ceiling'[<<g.metric, w>>]
    BY <2>1 DEF CoverInv, Charged
  <2>5. g.stamp \in Time /\ g.metric \in Metric /\ <<g.metric, w>> \in Metric \X Window
    BY <1>0
  <2>6. WindowStart(g.stamp, w) \in Nat /\ WindowStart(g.stamp, w) <= time
    <3>1. g.stamp <= time
      BY DEF CallInv, CallOf
    <3>2. WindowStart(g.stamp, w) \in Time /\ WindowStart(g.stamp, w) <= g.stamp
      BY <2>5, WindowStartType
    <3> QED BY <1>0, <2>5, <3>1, <3>2 DEF Time
  <2>7. since'[<<g.metric, w>>] # Unset /\ WindowStart(g.stamp, w) > since'[<<g.metric, w>>]
    BY DEF Under, WindowStart
  <2>8. since[<<g.metric, w>>] # Unset
    BY <1>0, <2>4, <2>5, <2>6, <2>7
  <2>9. Under(g.metric, w, WindowStart(g.stamp, w))
    BY <2>3, <2>5, <2>7, <2>8 DEF Under
  <2>10. w \in Charged(g) /\ g.projected[w] <= ceiling[<<g.metric, w>>]
    BY <2>9 DEF CoverInv
  <2>11. g.projected[w] \in Nat
    BY <1>0, <2>10 DEF Charged
  <2> QED BY <1>0, <2>2, <2>5, <2>10, <2>11
<1>3. ASSUME NEW c \in Call, Accepted(c) PROVE CoverInv'
  <2>1. PICK n : n = NewCharge(c)
    OBVIOUS
  <2>2. since' = since /\ ceiling' = ceiling /\ call'[c].charges = call[c].charges \cup {n}
        /\ (\A d \in Call \ {c} : call'[d] = call[d])
        /\ \A w \in Windows(MetricOf(c)) : ~Exceeds(MetricOf(c), call[c].stamp, w)
    BY <1>3, <2>1 DEF Accepted, Frozen, Unmoved, Others
  <2>3. MetricOf(c) \in Metric /\ call[c].stamp \in Time
    BY MetricOfType DEF MeteringTypeOK, CallRow
  <2>4. ASSUME NEW w \in Window, Under(n.metric, w, WindowStart(n.stamp, w))
        PROVE  w \in Charged(n) /\ n.projected[w] <= ceiling[<<n.metric, w>>]
    <3>1. n.metric = MetricOf(c) /\ n.stamp = call[c].stamp /\ Charged(n) = Windows(MetricOf(c))
      BY <2>1, NewChargeFacts
    <3>2. limit[<<MetricOf(c), w>>] # Unset /\ limit[<<MetricOf(c), w>>] <= ceiling[<<MetricOf(c), w>>]
      BY <2>3, <2>4, <3>1 DEF Under, BudgetInv
    <3>3. w \in Windows(MetricOf(c))
      BY <2>3, <3>2, WindowsType
    <3>4. n.projected[w] = bucket[<<MetricOf(c), w, WindowStart(call[c].stamp, w)>>] + 1
      BY <2>1, <3>3, NewChargeFacts
    <3>5. ~(n.projected[w] > limit[<<MetricOf(c), w>>])
      BY <2>2, <3>2, <3>3, <3>4 DEF Exceeds, Projected
    <3>6. bucket[<<MetricOf(c), w, WindowStart(call[c].stamp, w)>>] \in Nat
      BY <2>3, WindowStartType DEF MeteringTypeOK
    <3>7. limit[<<MetricOf(c), w>>] \in Nat /\ ceiling[<<MetricOf(c), w>>] \in Nat
      BY <2>3, <3>2 DEF MeteringTypeOK
    <3> QED BY <3>1, <3>2, <3>3, <3>4, <3>5, <3>6, <3>7
  <2>5. \A d \in Call : \A g \in call'[d].charges : g \in call[d].charges \/ g = n
    BY <2>2
  <2> QED BY <2>2, <2>4, <2>5 DEF CoverInv, Under
<1>4. ASSUME NEW c \in Call, NEW at \in {"done", "reserved"}, Committed(c, at) PROVE CoverInv'
  <2>1. UNCHANGED <<since, ceiling>> /\ ChargesKept
    BY <1>4 DEF Committed, Ended, Others, Unmoved, ChargesKept
  <2> QED BY <1>1, <2>1
<1> QED BY <1>1, <1>2, <1>3, <1>4, ChargeSteps

\* The ledger rows of a window.
Rows(entries, m, w, start) == {e \in entries : e.metric = m /\ WindowStart(e.stamp, w) = start}

\* A commit adds what it charged, to the bucket as to the ledger.
LEMMA CommitExact ==
    ASSUME Inv, NEW c \in Call, NEW at \in {"done", "reserved"}, Committed(c, at), NEW b \in Governed
    PROVE  /\ bucket'[b] = InWindow(ledger', b[1], b[2], b[3])
           /\ bucket'[b] <= ceiling[<<b[1], b[2]>>]
<1> DEFINE R == Rows(ledger, b[1], b[2], b[3])
           N == Rows(ledger', b[1], b[2], b[3])
           Mine(g) == g.metric = b[1] /\ b[2] \in Charged(g) /\ WindowStart(g.stamp, b[2]) = b[3]
<1>1. b \in Metric \X Window \X Time /\ Under(b[1], b[2], b[3]) /\ b[2] \in Window
  BY DEF Governed, Under
<1>2. bucket[b] = Cardinality(R) /\ bucket[b] <= ceiling[<<b[1], b[2]>>] /\ bucket[b] \in Nat
  BY <1>1 DEF Inv, ExactInv, InWindow, Rows, MeteringTypeOK
<1>3. IsFiniteSet(R)
  <2>1. R \subseteq ledger
    BY DEF Rows
  <2> QED BY <2>1, FS_Subset DEF Inv, LedgerInv
<1>4. InWindow(ledger', b[1], b[2], b[3]) = Cardinality(N)
  BY DEF InWindow, Rows
<1>5. ledger' = ledger \cup Entries(c)
  BY DEF Committed
<1>6. \A g \in call[c].charges : g.metric = b[1] /\ WindowStart(g.stamp, b[2]) = b[3] =>
         Mine(g) /\ g.projected[b[2]] <= ceiling[<<b[1], b[2]>>]
  BY <1>1 DEF Inv, CoverInv
<1>7. CASE \A g \in call[c].charges : ~Mine(g)
  <2>1. bucket'[b] = bucket[b]
    BY <1>1, <1>7 DEF Committed
  <2>2. N = R
    BY <1>5, <1>6, <1>7 DEF Entries, Rows
  <2> QED BY <1>2, <1>4, <2>1, <2>2
<1>8. ASSUME NEW g \in call[c].charges, Mine(g)
      PROVE  bucket'[b] = Cardinality(N) /\ bucket'[b] <= ceiling[<<b[1], b[2]>>]
  <2> DEFINE e == [metric |-> g.metric, stamp |-> g.stamp, call |-> c]
  <2>1. bucket'[b] = g.projected[b[2]]
    BY <1>1, <1>8 DEF Committed
  <2>2. b = <<g.metric, b[2], WindowStart(g.stamp, b[2])>>
    BY <1>1, <1>8
  <2>3. g.projected[b[2]] = bucket[<<g.metric, b[2], WindowStart(g.stamp, b[2])>>] + 1
    BY <1>8 DEF Inv, ProjectedInv
  <2>4. g.projected[b[2]] = bucket[b] + 1
    BY <2>2, <2>3
  <2>5. e \notin R
    <3>1. call[c].at \notin {"reserved", "done"}
      BY DEF Inv, CallInv, CallOf
    <3>2. e.call = c
      OBVIOUS
    <3>3. e \notin ledger
      BY <3>1, <3>2 DEF Inv, LedgerInv
    <3> QED BY <3>3 DEF Rows
  <2>6. N = R \cup {e}
    <3>1. \A h, k \in call[c].charges : h.metric = k.metric => h = k
      BY DEF Inv, CallInv, CallOf
    <3>2. \A h \in call[c].charges : h.metric = b[1] => h = g
      BY <1>8, <3>1
    <3>3. e \in N
      BY <1>5, <1>8 DEF Entries, Rows
    <3>4. \A x \in Entries(c) : x.metric = b[1] => x = e
      BY <3>2 DEF Entries
    <3>5. R \subseteq N /\ \A x \in N : x \in R \/ (x \in Entries(c) /\ x.metric = b[1])
      BY <1>5 DEF Rows
    <3> HIDE DEF R, N, e
    <3> QED BY <3>3, <3>4, <3>5
  <2>7. Cardinality(N) = Cardinality(R) + 1
    BY <1>3, <2>5, <2>6, FS_AddElement
  <2> QED BY <1>2, <1>6, <1>8, <2>1, <2>4, <2>7
<1> QED BY <1>4, <1>7, <1>8

LEMMA ExactStep ==
    ASSUME Inv, [MeteringNext]_meteringVars
    PROVE  ExactInv'
<1> USE DEF Inv
<1>1. CASE UNCHANGED <<bucket, ledger, since, ceiling>>
  BY <1>1 DEF ExactInv, Governed, InWindow, WindowStart
<1>2. ASSUME NEW o \in Offer, Configure(o) PROVE ExactInv'
  <2>1. PICK a \in Metric \X Window :
          /\ UNCHANGED <<time, bucket, ledger>> /\ o.limit \in Nat
          /\ since' = [since EXCEPT ![a] = IF since[a] = Unset THEN time ELSE since[a]]
          /\ ceiling' = [ceiling EXCEPT ![a] = IF o.limit > ceiling[a] THEN o.limit ELSE ceiling[a]]
    BY <1>2, ConfigureFacts
  <2>2. \A p \in Metric \X Window : ceiling[p] \in Nat /\ ceiling[p] <= ceiling'[p] /\ ceiling'[p] \in Nat
    BY <2>1 DEF MeteringTypeOK
  <2>3. ASSUME NEW b \in Governed'
        PROVE  bucket[b] = InWindow(ledger, b[1], b[2], b[3]) /\ bucket[b] <= ceiling'[<<b[1], b[2]>>]
    <3>1. /\ b \in Metric \X Window \X Time /\ WindowStart(b[3], b[2]) = b[3]
          /\ since'[<<b[1], b[2]>>] # Unset /\ b[3] > since'[<<b[1], b[2]>>]
          /\ <<b[1], b[2]>> \in Metric \X Window /\ bucket[b] \in Nat
      BY DEF Governed, WindowStart, MeteringTypeOK
    <3>2. CASE b \in Governed
      <4>1. bucket[b] = InWindow(ledger, b[1], b[2], b[3]) /\ bucket[b] <= ceiling[<<b[1], b[2]>>]
        BY <3>2 DEF ExactInv
      <4> QED BY <2>2, <3>1, <4>1
    <3>3. CASE b \notin Governed
      <4>1. since[<<b[1], b[2]>>] = Unset /\ since'[<<b[1], b[2]>>] = time
        BY <2>1, <3>1, <3>3 DEF Governed, MeteringTypeOK
      <4>2. bucket[b] = 0
        BY <3>1, <4>1 DEF TimeInv
      <4>3. ASSUME NEW e \in ledger PROVE WindowStart(e.stamp, b[2]) # b[3]
        <5>1. e.stamp \in Time /\ b[2] \in Window /\ e.stamp <= time /\ time \in Time /\ b[3] \in Time
          BY <3>1 DEF MeteringTypeOK, LedgerRow, TimeInv
        <5>2. WindowStart(e.stamp, b[2]) \in Time /\ WindowStart(e.stamp, b[2]) <= e.stamp
          BY <5>1, WindowStartType
        <5> QED BY <3>1, <4>1, <5>1, <5>2 DEF Time
      <4>4. {e \in ledger : e.metric = b[1] /\ WindowStart(e.stamp, b[2]) = b[3]} = {}
        BY <4>3
      <4>5. InWindow(ledger, b[1], b[2], b[3]) = 0
        BY <4>4, FS_EmptySet DEF InWindow
      <4> QED BY <2>2, <3>1, <4>2, <4>5
    <3> QED BY <3>2, <3>3
  <2> QED BY <2>1, <2>3 DEF ExactInv, InWindow, WindowStart
<1>3. ASSUME NEW c \in Call, NEW at \in {"done", "reserved"}, Committed(c, at) PROVE ExactInv'
  <2>1. since' = since /\ ceiling' = ceiling
    BY <1>3 DEF Committed, Unmoved
  <2>2. Governed' = Governed
    BY <2>1 DEF Governed, WindowStart
  <2>3. \A b \in Governed : /\ bucket'[b] = InWindow(ledger', b[1], b[2], b[3])
                            /\ bucket'[b] <= ceiling[<<b[1], b[2]>>]
    BY <1>3, CommitExact
  <2> QED BY <2>1, <2>2, <2>3 DEF ExactInv, InWindow, WindowStart
<1>4. CASE Tick \/ UNCHANGED meteringVars
  BY <1>1, <1>4 DEF Tick, meteringVars
<1>5. ASSUME NEW c \in Call, Moved(c) \/ Accepted(c) \/ Left(c) \/ RolledBack(c) PROVE ExactInv'
  BY <1>1, <1>5 DEF Moved, Accepted, Left, RolledBack, Frozen, Unmoved
<1> QED BY <1>2, <1>3, <1>4, <1>5, CallSteps

-----------------------------------------------------------------------------
(* What left the platform.                                                 *)

LEMMA SentStep ==
    ASSUME Inv, [MeteringNext]_meteringVars
    PROVE  SentInv'
<1> USE DEF Inv
<1>0. \A e \in sent : e.call \in Call
  BY DEF MeteringTypeOK, LedgerRow
<1>1. CASE UNCHANGED <<sent, ledger, call>>
  BY <1>1 DEF SentInv, Entries
\* A row of another call stays covered.
<1>2. ASSUME NEW c \in Call, Others(c), ledger \subseteq ledger', NEW e \in sent, e.call # c
      PROVE  \/ e \in ledger'
             \/ call'[e.call].at \in {"sent", "metering", "metered"} /\ e \in Entries(e.call)'
  <2>1. call'[e.call] = call[e.call]
    BY <1>0, <1>2 DEF Others
  <2>2. Entries(e.call)' = Entries(e.call)
    BY <2>1 DEF Entries
  <2> QED BY <1>2, <2>1, <2>2 DEF SentInv
<1>3. ASSUME NEW c \in Call, Moved(c) PROVE SentInv'
  <2>1. Others(c) /\ ledger' = ledger /\ Entries(c)' = Entries(c)
    BY <1>3 DEF Moved, Frozen, Entries
  <2>2. ASSUME NEW e \in sent, e.call = c, e \notin ledger
        PROVE  call'[c].at \in {"sent", "metering", "metered"} /\ e \in Entries(c)'
    <3>1. call[c].at \in {"sent", "metering", "metered"} /\ e \in Entries(c)
      BY <2>2 DEF SentInv
    <3> QED BY <1>3, <2>1, <3>1 DEF Moved
  <2>3. ASSUME NEW e \in sent', e \notin sent
        PROVE  e.call = c /\ call'[c].at = "sent" /\ e \in Entries(c)'
    <3>1. call[c].at = "charged" /\ call'[c].at = "sent"
          /\ e = [metric |-> FirstMetric(c), stamp |-> call[c].stamp, call |-> c]
      BY <1>3, <2>3 DEF Moved
    <3>2. PICK g \in call[c].charges : g.metric = FirstMetric(c) /\ g.stamp = call[c].stamp
      BY <3>1 DEF CallInv, CallOf
    <3> QED BY <2>1, <3>1, <3>2 DEF Entries
  <2> QED BY <1>2, <2>1, <2>2, <2>3 DEF SentInv
<1>4. ASSUME NEW c \in Call, Accepted(c) PROVE SentInv'
  <2>1. Others(c) /\ ledger' = ledger /\ sent' = sent /\ call[c].charges \subseteq call'[c].charges
    BY <1>4 DEF Accepted, Frozen
  <2>2. Entries(c) \subseteq Entries(c)'
    BY <2>1 DEF Entries
  <2>3. ASSUME NEW e \in sent, e.call = c, e \notin ledger
        PROVE  call'[c].at \in {"sent", "metering", "metered"} /\ e \in Entries(c)'
    <3>1. call[c].at \in {"sent", "metering", "metered"} /\ e \in Entries(c)
      BY <2>3 DEF SentInv
    <3> QED BY <1>4, <2>2, <3>1 DEF Accepted
  <2> QED BY <1>2, <2>1, <2>3 DEF SentInv
<1>5. ASSUME NEW c \in Call, Left(c) PROVE SentInv'
  <2>1. /\ Others(c) /\ ledger' = ledger /\ call[c].at = "reserved"
        /\ sent' = sent \cup {[metric |-> "invocations", stamp |-> call[c].stamp, call |-> c]}
    BY <1>5 DEF Left, Ended, Frozen
  <2>2. [metric |-> "invocations", stamp |-> call[c].stamp, call |-> c] \in ledger
    BY <2>1 DEF CallInv, CallOf
  <2>3. \A e \in sent : e.call = c => e \in ledger
    BY <2>1 DEF SentInv
  <2> QED BY <1>2, <2>1, <2>2, <2>3 DEF SentInv
<1>6. ASSUME NEW c \in Call, RolledBack(c) PROVE SentInv'
  <2>1. Others(c) /\ ledger' = ledger /\ sent' = sent \ Entries(c)
    BY <1>6 DEF RolledBack, Ended, Frozen
  <2>2. \A e \in sent' : e.call = c => e \in ledger
    BY <2>1 DEF SentInv
  <2> QED BY <1>2, <2>1, <2>2 DEF SentInv
<1>7. ASSUME NEW c \in Call, NEW at \in {"done", "reserved"}, Committed(c, at) PROVE SentInv'
  <2>1. Others(c) /\ ledger' = ledger \cup Entries(c) /\ sent' = sent
    BY <1>7 DEF Committed, Ended
  <2>2. \A e \in sent : e.call = c => e \in ledger'
    BY <2>1 DEF SentInv
  <2> QED BY <1>2, <2>1, <2>2 DEF SentInv
<1>8. ASSUME NEW o \in Offer, Configure(o) PROVE SentInv'
  BY <1>1, <1>8 DEF Configure
<1>9. CASE Tick \/ UNCHANGED meteringVars
  BY <1>1, <1>9 DEF Tick, meteringVars
<1> QED BY <1>3, <1>4, <1>5, <1>6, <1>7, <1>8, <1>9, CallSteps

LEMMA InvStep ==
    ASSUME Inv, [MeteringNext]_meteringVars
    PROVE  Inv'
BY TypeStep, CallStep, TimeStep, BudgetStep, LedgerStep, LockStep, ProjectedStep, CoverStep,
   ExactStep, SentStep DEF Inv

\* At most one call that left is still under an open charge in a window that
\* began under a budget: the charge covers that window and holds its bucket.
LEMMA OneOpen ==
    ASSUME Inv, NEW b \in Governed,
           NEW e \in Rows(sent, b[1], b[2], b[3]), e \notin ledger,
           NEW f \in Rows(sent, b[1], b[2], b[3]), f \notin ledger
    PROVE  /\ e = f
           /\ bucket[b] + 1 <= ceiling[<<b[1], b[2]>>]
<1> USE DEF Inv
<1>1. b \in Metric \X Window \X Time /\ Under(b[1], b[2], b[3]) /\ b[2] \in Window
  BY DEF Governed, Under
<1>2. ASSUME NEW x \in Rows(sent, b[1], b[2], b[3]), x \notin ledger
      PROVE  /\ x.call \in Call
             /\ \E g \in call[x.call].charges :
                  /\ x = [metric |-> g.metric, stamp |-> g.stamp, call |-> x.call]
                  /\ g.metric = b[1] /\ b[2] \in Charged(g)
                  /\ b = <<g.metric, b[2], WindowStart(g.stamp, b[2])>>
                  /\ g.projected[b[2]] <= ceiling[<<b[1], b[2]>>]
  <2>1. x \in sent /\ x.metric = b[1] /\ WindowStart(x.stamp, b[2]) = b[3]
    BY DEF Rows
  <2>2. x.call \in Call /\ x \in Entries(x.call)
    BY <1>2, <2>1 DEF SentInv, MeteringTypeOK, LedgerRow
  <2>3. PICK g \in call[x.call].charges : x = [metric |-> g.metric, stamp |-> g.stamp, call |-> x.call]
    BY <2>2 DEF Entries
  <2>4. g.metric = b[1] /\ WindowStart(g.stamp, b[2]) = b[3]
    BY <2>1, <2>3
  <2>5. b[2] \in Charged(g) /\ g.projected[b[2]] <= ceiling[<<b[1], b[2]>>]
    BY <1>1, <2>2, <2>4 DEF CoverInv
  <2>6. b = <<g.metric, b[2], WindowStart(g.stamp, b[2])>>
    BY <1>1, <2>4
  <2> QED BY <2>2, <2>3, <2>4, <2>5, <2>6
<1>3. PICK g \in call[e.call].charges :
        /\ e = [metric |-> g.metric, stamp |-> g.stamp, call |-> e.call]
        /\ g.metric = b[1] /\ b[2] \in Charged(g)
        /\ b = <<g.metric, b[2], WindowStart(g.stamp, b[2])>>
        /\ g.projected[b[2]] <= ceiling[<<b[1], b[2]>>]
  BY <1>2
<1>4. PICK h \in call[f.call].charges :
        /\ f = [metric |-> h.metric, stamp |-> h.stamp, call |-> f.call]
        /\ h.metric = b[1] /\ b[2] \in Charged(h)
        /\ b = <<h.metric, b[2], WindowStart(h.stamp, b[2])>>
  BY <1>2
<1>5. e.call \in Call /\ f.call \in Call
  BY <1>2
<1>6. b \in Held(e.call) /\ b \in Held(f.call)
  <2>1. <<g.metric, b[2], WindowStart(g.stamp, b[2])>> \in Held(e.call)
    BY <1>3, <1>5, HeldRows
  <2>2. <<h.metric, b[2], WindowStart(h.stamp, b[2])>> \in Held(f.call)
    BY <1>4, <1>5, HeldRows
  <2> QED BY <1>3, <1>4, <2>1, <2>2
<1>7. e.call = f.call
  BY <1>5, <1>6 DEF LockInv
<1>8. g = h
  <2>1. \A x, y \in call[e.call].charges : x.metric = y.metric => x = y
    BY <1>5 DEF CallInv, CallOf
  <2> QED BY <1>3, <1>4, <1>7, <2>1
<1>9. g.projected[b[2]] = bucket[<<g.metric, b[2], WindowStart(g.stamp, b[2])>>] + 1
  BY <1>3, <1>5 DEF ProjectedInv
<1> QED BY <1>3, <1>4, <1>7, <1>8, <1>9

LEMMA InvSends == Inv => SendsWithinLimit
<1> SUFFICES ASSUME Inv, NEW b \in Governed
             PROVE  InWindow(sent, b[1], b[2], b[3]) <= ceiling[<<b[1], b[2]>>]
  BY DEF SendsWithinLimit
<1> DEFINE S == Rows(sent, b[1], b[2], b[3])
           R == Rows(ledger, b[1], b[2], b[3])
<1>1. InWindow(sent, b[1], b[2], b[3]) = Cardinality(S)
  BY DEF InWindow, Rows
<1>2. bucket[b] = Cardinality(R) /\ bucket[b] <= ceiling[<<b[1], b[2]>>]
  BY DEF Inv, ExactInv, InWindow, Rows
<1>3. bucket[b] \in Nat /\ ceiling[<<b[1], b[2]>>] \in Nat
  BY DEF Inv, MeteringTypeOK, Governed
<1>4. IsFiniteSet(R)
  <2>1. R \subseteq ledger
    BY DEF Rows
  <2> QED BY <2>1, FS_Subset DEF Inv, LedgerInv
<1>5. \A e \in S : e \in ledger => e \in R
  BY DEF Rows
<1>6. CASE S \subseteq R
  <2>1. Cardinality(S) <= Cardinality(R) /\ IsFiniteSet(S)
    BY <1>4, <1>6, FS_Subset
  <2>2. Cardinality(S) \in Nat
    BY <2>1, FS_CardinalityType
  <2> QED BY <1>1, <1>2, <1>3, <2>1, <2>2
<1>7. ASSUME NEW e \in S, e \notin R PROVE Cardinality(S) <= ceiling[<<b[1], b[2]>>]
  <2>1. e \notin ledger
    BY <1>5, <1>7
  <2>2. \A f \in S : f \in ledger \/ f = e
    BY <2>1, OneOpen
  <2>3. bucket[b] + 1 <= ceiling[<<b[1], b[2]>>]
    BY <2>1, OneOpen
  <2>4. IsFiniteSet(R \cup {e}) /\ Cardinality(R \cup {e}) = Cardinality(R) + 1
    BY <1>4, <1>7, FS_AddElement
  <2>5. S \subseteq R \cup {e}
    BY <1>5, <2>2
  <2>6. Cardinality(S) <= Cardinality(R \cup {e}) /\ IsFiniteSet(S)
    BY <2>4, <2>5, FS_Subset
  <2>7. Cardinality(S) \in Nat
    BY <2>6, FS_CardinalityType
  <2> QED BY <1>2, <1>3, <2>3, <2>4, <2>6, <2>7
<1> QED BY <1>1, <1>6, <1>7

-----------------------------------------------------------------------------
(* The theorems.                                                           *)

\* The inductive invariant holds in every reachable state, for any number of
\* calls, windows and budgets: what consume, configure, the egress broker and
\* the capability gateway do to budgets, buckets and ledger keeps it.
THEOREM Invariance == MeteringSpec => []Inv
BY InitInv, InvStep, PTL DEF MeteringSpec

\* Every variable keeps its type: no bucket, limit or ledger row is ever
\* written by consume or configure with a value it cannot have.
THEOREM TypeCorrect == MeteringSpec => []MeteringTypeOK
<1>1. Inv => MeteringTypeOK
  BY DEF Inv
<1> QED BY <1>1, Invariance, PTL

\* "Race-safe multi-window quota": although consume writes the absolute
\* quantity that it projected, in every window that began under a budget the
\* bucket holds exactly as many units as the ledger has rows.
THEOREM BucketsMatchTheLedger == MeteringSpec => []MeteringIsExact
<1>1. Inv => MeteringIsExact
  BY DEF Inv, ExactInv, MeteringIsExact
<1> QED BY <1>1, Invariance, PTL

\* "Consumed before the side effect": in such a window the calls that the
\* egress broker and the gateway let out, but for those whose charge was
\* rolled back, never outnumber the highest limit the budget had.
THEOREM SendsStayWithinTheBudget == MeteringSpec => []SendsWithinLimit
BY InvSends, Invariance, PTL

=============================================================================
