----------------------- MODULE ScheduleDispatchProofs -----------------------
(***************************************************************************)
(* Proofs about ScheduleDispatch, for any schedules, passes, editors,      *)
(* executors and run-now requests, and any number of second deliveries,    *)
(* failing submissions and deaths.                                         *)
(***************************************************************************)
EXTENDS ScheduleDispatch, FiniteSetTheorems, TLAPS

LEMMA SlotFacts == Slots \subseteq Nat /\ None \notin Slots
  BY Bounds, Names DEF Slots

LEMMA HistoryFacts ==
  /\ \A h \in Histories : h[1] \in Schedules
  /\ \A s \in Schedules, t \in Slots : <<s, t>> \in Histories
  BY DEF Histories

-----------------------------------------------------------------------------
(* Types.                                                                  *)

\* Every step preserves the type invariant.
LEMMA TypeStep == TypeOK /\ [Next]_vars => TypeOK'
  <1> SUFFICES ASSUME TypeOK, [Next]_vars PROVE TypeOK'
    OBVIOUS
  <1> USE SlotFacts DEF TypeOK, rowVars, msgVars, passVars, editVars, execVars,
              SetNext, SetHist
  <1>1. CASE Tick
    BY <1>1 DEF Tick
  <1>2. ASSUME NEW u \in Editors, NEW s \in Schedules, NEW a \in BOOLEAN,
               CreateSchedule(u, s, a) \/ ReadSchedule(u, s, a)
        PROVE  TypeOK'
    <2>1. [sr |-> s, active |-> a, next |-> None] \in Forms
      BY DEF Forms
    <2>2. [sr |-> s, active |-> a, next |-> next[s]] \in Forms
      BY DEF Forms
    <2>3. CASE CreateSchedule(u, s, a)
      BY <2>1, <2>3 DEF CreateSchedule
    <2>4. CASE ReadSchedule(u, s, a)
      BY <2>2, <2>4 DEF ReadSchedule
    <2> QED
      BY <1>2, <2>3, <2>4
  <1>3. ASSUME NEW u \in Editors, EditStep(u) \/ EditorDies(u) PROVE TypeOK'
    <2>1. NoForm \in Forms
      BY DEF NoForm, Forms
    <2>2. /\ [form[u] EXCEPT !.next = None] \in Forms
          /\ [form[u] EXCEPT !.next = None].sr = form[u].sr
          /\ form[u].active \in BOOLEAN
      BY DEF Forms
    <2>3. CASE SaveSchedule(u)
      BY <2>2, <2>3 DEF SaveSchedule
    <2>4. CASE Reschedule(u)
      BY <2>1, <2>4 DEF Reschedule, EndEdit
    <2>5. CASE EditorDies(u)
      BY <2>1, <2>5 DEF EditorDies, EndEdit, Die
    <2> QED
      BY <1>3, <2>3, <2>4, <2>5 DEF EditStep
  <1>4. ASSUME NEW h \in Histories, RunNow(h) \/ SendNow(h) \/ RunNowDies(h) \/ Redeliver(h)
        PROVE  TypeOK'
    <2>1. CASE RunNow(h)      BY <2>1 DEF RunNow
    <2>2. CASE SendNow(h)     BY <2>2 DEF SendNow
    <2>3. CASE RunNowDies(h)  BY <2>3 DEF RunNowDies, Die
    <2>4. CASE Redeliver(h)   BY <2>4 DEF Redeliver
    <2> QED
      BY <1>4, <2>1, <2>2, <2>3, <2>4
  <1>5. ASSUME NEW p \in Passes, StartPass(p) \/ PassWork(p) \/ PassDies(p) PROVE TypeOK'
    <2>1. CASE StartPass(p)
      BY <2>1 DEF StartPass
    <2>2. ASSUME NEW s \in Schedules, Load(p, s) PROVE TypeOK'
      BY <2>2 DEF Load
    <2>3. CASE Advance(p)
      BY <2>3 DEF Advance
    <2>4. CASE AbortPass(p)
      BY <2>4 DEF AbortPass, EndPass
    <2>5. CASE RecordSkip(p)
      BY <2>5, HistoryFacts DEF RecordSkip
    <2>6. CASE RecordFire(p)
      BY <2>6, HistoryFacts DEF RecordFire
    <2>7. CASE Send(p)
      <3>1. /\ sr[p] \in Schedules /\ fire[p] \in Slots
            /\ <<sr[p], fire[p]>> \in Histories
        BY <2>7, HistoryFacts DEF Send
      <3> DEFINE h == <<sr[p], fire[p]>>
      <3> HIDE DEF h
      <3>2. queue' = [queue EXCEPT ![h] = @ + 1] /\ h \in Histories
        BY <2>7, <3>1 DEF Send, h
      <3> QED
        BY <2>7, <3>1, <3>2 DEF Send
    <2>8. CASE FinishPass(p)
      BY <2>8 DEF FinishPass, EndPass
    <2>9. CASE PassDies(p)
      BY <2>9 DEF PassDies, EndPass, Die
    <2> QED
      BY <1>5, <2>1, <2>2, <2>3, <2>4, <2>5, <2>6, <2>7, <2>8, <2>9 DEF PassWork
  <1>6. ASSUME NEW e \in Executors, NEW h \in Histories, Deliver(e, h) PROVE TypeOK'
    BY <1>6 DEF Deliver
  <1>7. ASSUME NEW e \in Executors, ExecStep(e) \/ ExecutorDies(e) PROVE TypeOK'
    <2>1. CASE Begin(e)         BY <2>1 DEF Begin
    <2>2. CASE StopEarly(e)     BY <2>2 DEF StopEarly, EndTask
    <2>3. CASE CountOrders(e)   BY <2>3, HistoryFacts DEF CountOrders, PriorDay
    <2>4. CASE Submit(e)        BY <2>4, HistoryFacts DEF Submit
    <2>5. CASE SubmitRaises(e)  BY <2>5, HistoryFacts DEF SubmitRaises
    <2>6. CASE LinkOrders(e)    BY <2>6, HistoryFacts DEF LinkOrders
    <2>7. CASE Finish(e)        BY <2>7 DEF Finish, EndTask
    <2>8. CASE ExecutorDies(e)  BY <2>8 DEF ExecutorDies, EndTask, Die
    <2> QED
      BY <1>7, <2>1, <2>2, <2>3, <2>4, <2>5, <2>6, <2>7, <2>8 DEF ExecStep
  <1>8. CASE UNCHANGED vars
    BY <1>8 DEF vars
  <1> QED
    BY <1>1, <1>2, <1>3, <1>4, <1>5, <1>6, <1>7, <1>8 DEF Next

\* Type correctness of every reachable state.
THEOREM TypeCorrect == Spec => []TypeOK
  <1>1. Init => TypeOK
    BY DEF Init, TypeOK, NoForm, Forms
  <1> QED
    BY <1>1, TypeStep, PTL DEF Spec
-----------------------------------------------------------------------------
(* Fires are sent once.                                                    *)

Fresh(h) == starts[h] = 0 /\ queue[h] = 0

\* The pass that has created the history row and not yet sent its message.
Sends(p, h) == pass[p] = "send" /\ <<sr[p], fire[p]>> = h

\* Nothing has been sent for a row that does not exist, nor for one whose creator
\* has yet to send its message; and a row has one creator.
SentOnce(h) ==
  /\ starts[h] + queue[h] <= 1 + redelivered
  /\ hist[h] = "absent" => /\ Fresh(h)
                           /\ h \notin sending
                           /\ \A p \in Passes : ~Sends(p, h)
  /\ h \in sending => Fresh(h) /\ \A p \in Passes : ~Sends(p, h)
  /\ \A p \in Passes : Sends(p, h) => Fresh(h)
  /\ \A p, q \in Passes : Sends(p, h) /\ Sends(q, h) => p = q

FireInv == \A h \in Histories : SentOnce(h)

\* A step that sends nothing, delivers nothing and creates no row is harmless.
LEMMA QuietStep ==
  ASSUME NEW h \in Histories, SentOnce(h),
         UNCHANGED <<queue, starts, sending, redelivered>>,
         hist'[h] = "absent" => hist[h] = "absent",
         \A q \in Passes : Sends(q, h)' => Sends(q, h)
  PROVE  SentOnce(h)'
  BY DEF SentOnce, Fresh

LEMMA FireStep == TypeOK /\ FireInv /\ [Next]_vars => FireInv'
  <1> SUFFICES ASSUME TypeOK, FireInv, [Next]_vars, NEW h \in Histories
               PROVE  SentOnce(h)'
    BY DEF FireInv
  <1>t. /\ starts \in [Histories -> Nat] /\ queue \in [Histories -> Nat]
        /\ hist \in [Histories -> {"absent", "pending", "running", "done", "skipped"}]
        /\ pass \in [Passes -> {"idle", "each", "save", "gate", "send"}]
        /\ redelivered \in Nat /\ sending \in SUBSET Histories
        /\ sr \in [Passes -> Schedules \cup {None}]
        /\ fire \in [Passes -> Slots \cup {None}]
        /\ \A e \in Executors : exec[e] # "idle" => task[e] \in Histories
    BY DEF TypeOK
  <1>i. SentOnce(h)
    BY DEF FireInv
  <1> USE DEF msgVars, passVars, execVars
  <1>1. CASE UNCHANGED <<hist, msgVars, passVars>>
    BY <1>1, <1>i, QuietStep DEF Sends
  <1>2. ASSUME NEW g \in Histories, RunNow(g) \/ SendNow(g) \/ RunNowDies(g) \/ Redeliver(g)
        PROVE  SentOnce(h)'
    BY <1>2, <1>t, <1>i
    DEF RunNow, SendNow, RunNowDies, Redeliver, SetHist, SentOnce, Sends, Fresh
  <1>3. ASSUME NEW p \in Passes, StartPass(p) \/ PassWork(p) \/ PassDies(p)
        PROVE  SentOnce(h)'
    <2>1. CASE \/ StartPass(p) \/ (\E s \in Schedules : Load(p, s)) \/ Advance(p)
               \/ AbortPass(p) \/ FinishPass(p) \/ PassDies(p)
      <3>1. /\ UNCHANGED <<hist, queue, starts, sending, redelivered>>
            /\ \A q \in Passes : Sends(q, h)' => Sends(q, h)
        BY <2>1, <1>t
        DEF StartPass, Load, Advance, AbortPass, FinishPass, PassDies, EndPass, Sends
      <3> QED
        BY <3>1, <1>i, QuietStep
    <2>2. CASE RecordSkip(p)
      <3>1. /\ UNCHANGED <<queue, starts, sending, redelivered>>
            /\ hist'[h] = "absent" => hist[h] = "absent"
            /\ \A q \in Passes : Sends(q, h)' => Sends(q, h)
        BY <2>2, <1>t DEF RecordSkip, SetHist, Sends
      <3> QED
        BY <3>1, <1>i, QuietStep
    <2>3. CASE RecordFire(p)
      BY <2>3, <1>t, <1>i DEF RecordFire, SetHist, SentOnce, Sends, Fresh
    <2>4. CASE Send(p)
      BY <2>4, <1>t, <1>i DEF Send, SentOnce, Sends, Fresh
    <2> QED
      BY <1>3, <2>1, <2>2, <2>3, <2>4 DEF PassWork
  <1>4. ASSUME NEW e \in Executors, NEW g \in Histories, Deliver(e, g)
        PROVE  SentOnce(h)'
    BY <1>4, <1>t, <1>i DEF Deliver, SentOnce, Sends, Fresh
  <1>5. ASSUME NEW e \in Executors, Begin(e) \/ StopEarly(e) \/ Finish(e)
        PROVE  SentOnce(h)'
    <2>1. /\ UNCHANGED <<msgVars, passVars>>
          /\ hist'[h] = "absent" => hist[h] = "absent"
      BY <1>5, <1>t DEF Begin, StopEarly, Finish, EndTask, SetHist
    <2> QED
      BY <2>1, <1>i, QuietStep DEF Sends
  <1>6. CASE \/ Tick
             \/ \E u \in Editors : EditStep(u) \/ EditorDies(u)
             \/ \E u \in Editors, s \in Schedules, a \in BOOLEAN :
                  CreateSchedule(u, s, a) \/ ReadSchedule(u, s, a)
             \/ \E e \in Executors : \/ CountOrders(e) \/ Submit(e) \/ SubmitRaises(e)
                                     \/ LinkOrders(e) \/ ExecutorDies(e)
             \/ UNCHANGED vars
    BY <1>1, <1>6
    DEF Tick, EditStep, SaveSchedule, Reschedule, EditorDies, CreateSchedule,
        ReadSchedule, CountOrders, Submit, SubmitRaises, LinkOrders, ExecutorDies, vars
  <1> QED
    BY <1>2, <1>3, <1>4, <1>5, <1>6 DEF Next, ExecStep

\* However passes, edits, second deliveries and deaths interleave, a fire is sent
\* once, and executed more often only when Redis delivers a message again.
THEOREM FiresOnce == Spec => []FiredOnce
  <1>1. Init => FireInv
    BY HistoryFacts DEF Init, FireInv, SentOnce, Fresh, Sends
  <1>2. TypeOK /\ FireInv => FiredOnce
    BY DEF FireInv, SentOnce, FiredOnce
  <1> QED
    BY <1>1, <1>2, FireStep, TypeCorrect, PTL DEF Spec

-----------------------------------------------------------------------------
(* Fires leave a row.                                                      *)

\* The pass that has moved next_run_at past a fire and is about to record it.
Holds(p, o) == pass[p] = "gate" /\ <<sr[p], fire[p]>> = o

Accounted(o) == hist[o] # "absent" \/ \E p \in Passes : Holds(p, o)

LEMMA RecordStep ==
  TypeOK /\ OpenDayFireRecorded /\ [Next]_vars => OpenDayFireRecorded'
  <1> SUFFICES ASSUME TypeOK, OpenDayFireRecorded, [Next]_vars, NEW o \in owed',
                      GateOk(o[1], o[2])
               PROVE  Accounted(o)'
    BY DEF OpenDayFireRecorded, Accounted, Holds, GateOk
  <1>t. /\ hist \in [Histories -> {"absent", "pending", "running", "done", "skipped"}]
        /\ pass \in [Passes -> {"idle", "each", "save", "gate", "send"}]
        /\ sr \in [Passes -> Schedules \cup {None}]
        /\ fire \in [Passes -> Slots \cup {None}]
        /\ owed \subseteq Schedules \X Slots
        /\ \A e \in Executors : exec[e] # "idle" => task[e] \in Histories
    BY DEF TypeOK
  <1>a. o \in owed => Accounted(o) /\ o \in Histories /\ o[2] # None
    <2>1. Schedules \X Slots \subseteq Histories
      BY DEF Histories
    <2>2. \A k \in Schedules \X Slots : k[2] # None
      BY SlotFacts
    <2>3. o \in owed => Accounted(o)
      BY DEF OpenDayFireRecorded, Accounted, Holds
    <2> QED
      BY <1>t, <2>1, <2>2, <2>3
  <1> USE DEF passVars
  <1>1. ASSUME UNCHANGED passVars,
               \A g \in Histories : hist[g] # "absent" => hist'[g] # "absent"
        PROVE  Accounted(o)'
    BY <1>1, <1>a DEF Accounted, Holds
  <1>2. ASSUME NEW g \in Histories, RunNow(g) \/ SendNow(g) \/ RunNowDies(g) \/ Redeliver(g)
        PROVE  Accounted(o)'
    <2>1. \A k \in Histories : hist[k] # "absent" => hist'[k] # "absent"
      BY <1>2, <1>t DEF RunNow, SendNow, RunNowDies, Redeliver, SetHist
    <2> QED
      BY <1>1, <1>2, <2>1 DEF RunNow, SendNow, RunNowDies, Redeliver
  <1>3. ASSUME NEW p \in Passes, StartPass(p) \/ PassWork(p) \/ PassDies(p)
        PROVE  Accounted(o)'
    <2>1. CASE StartPass(p) \/ (\E s \in Schedules : Load(p, s)) \/ Send(p) \/ FinishPass(p)
      <3>1. /\ UNCHANGED <<hist, owed>>
            /\ \A q \in Passes : Holds(q, o) => Holds(q, o)'
        BY <2>1, <1>t DEF StartPass, Load, Send, FinishPass, EndPass, Holds
      <3> QED
        BY <3>1, <1>a DEF Accounted
    <2>2. CASE Advance(p)
      BY <2>2, <1>t, <1>a DEF Advance, Accounted, Holds
    <2>3. CASE AbortPass(p)
      <3>1. /\ UNCHANGED <<hist, owed>>
            /\ \A q \in Passes : Holds(q, o) => Holds(q, o)'
        BY <2>3, <1>t, <1>a DEF AbortPass, EndPass, Holds
      <3> QED
        BY <3>1, <1>a DEF Accounted
    <2>4. CASE RecordSkip(p)
      <3>1. ~Holds(p, o)
        BY <2>4 DEF RecordSkip, Holds
      <3>2. /\ UNCHANGED owed
            /\ hist[o] # "absent" /\ o \in Histories => hist'[o] # "absent"
            /\ \A q \in Passes : q # p /\ Holds(q, o) => Holds(q, o)'
        BY <2>4, <1>t DEF RecordSkip, SetHist, Holds
      <3> QED
        BY <3>1, <3>2, <1>a DEF Accounted
    <2>5. CASE RecordFire(p)
      BY <2>5, <1>t, <1>a DEF RecordFire, SetHist, Accounted, Holds
    <2>6. CASE PassDies(p)
      <3>1. /\ o \in owed /\ ~Holds(p, o) /\ UNCHANGED hist
            /\ \A q \in Passes : q # p /\ Holds(q, o) => Holds(q, o)'
        BY <2>6, <1>t DEF PassDies, EndPass, Holds
      <3> QED
        BY <3>1, <1>a DEF Accounted
    <2> QED
      BY <1>3, <2>1, <2>2, <2>3, <2>4, <2>5, <2>6 DEF PassWork
  <1>4. ASSUME NEW e \in Executors, Begin(e) \/ StopEarly(e) \/ Finish(e)
        PROVE  Accounted(o)'
    <2>1. \A g \in Histories : hist[g] # "absent" => hist'[g] # "absent"
      BY <1>4, <1>t DEF Begin, StopEarly, Finish, SetHist
    <2> QED
      BY <1>1, <1>4, <2>1 DEF Begin, StopEarly, Finish
  <1>5. CASE \/ Tick
             \/ \E u \in Editors : EditStep(u) \/ EditorDies(u)
             \/ \E u \in Editors, s \in Schedules, a \in BOOLEAN :
                  CreateSchedule(u, s, a) \/ ReadSchedule(u, s, a)
             \/ \E e \in Executors, g \in Histories : Deliver(e, g)
             \/ \E e \in Executors : \/ CountOrders(e) \/ Submit(e) \/ SubmitRaises(e)
                                     \/ LinkOrders(e) \/ ExecutorDies(e)
             \/ UNCHANGED vars
    <2>1. UNCHANGED <<hist, passVars>>
      BY <1>5
      DEF Tick, EditStep, SaveSchedule, Reschedule, EditorDies, CreateSchedule,
          ReadSchedule, Deliver, CountOrders, Submit, SubmitRaises, LinkOrders,
          ExecutorDies, vars
    <2> QED
      BY <1>1, <2>1
  <1> QED
    BY <1>2, <1>3, <1>4, <1>5 DEF Next, ExecStep

\* Whatever passes overlap, die or find a fire taken, a fire of an open day that
\* next_run_at has moved past has its history row, or is in the hands of a living pass.
THEOREM FiresRecorded == Spec => []OpenDayFireRecorded
  <1>1. Init => OpenDayFireRecorded
    BY DEF Init, OpenDayFireRecorded
  <1> QED
    BY <1>1, RecordStep, TypeCorrect, PTL DEF Spec

-----------------------------------------------------------------------------
(* The daily cap.                                                          *)

\* The schedule an executor that has counted is submitting for.
SubmitsFor(e, s) == exec[e] = "submit" /\ task[e][1] = s

\* What the executors at work may still link: executor e, who counted
\* today[e] - placed[e] orders, one order for each number above that.
Room(s) ==
  {p \in Executors \X (1..MaxOrders) :
     SubmitsFor(p[1], s) /\ today[p[1]] < p[2] + placed[p[1]]}

\* An executor's own counters: it has counted what it has placed, within the cap.
Counted(e) ==
  /\ placed[e] <= today[e]
  /\ placed[e] > 0 => today[e] <= MaxOrders
  /\ exec[e] \notin {"submit", "finish"} => placed[e] = 0

\* Linked orders and room together stay below the bound: who counts finds the
\* linked orders, and the other executors have room for MaxOrders each at most.
CapInv ==
  /\ \A e \in Executors : Counted(e)
  /\ \A s \in Schedules :
       linked[s] + Cardinality(Room(s)) <= MaxOrders * Cardinality(Executors)

LEMMA OrdersInterval ==
  /\ MaxOrders \in Nat
  /\ IsFiniteSet(1..MaxOrders) /\ Cardinality(1..MaxOrders) = MaxOrders
  /\ \A n \in Nat :
       /\ IsFiniteSet((n+1)..MaxOrders)
       /\ Cardinality((n+1)..MaxOrders) = IF n < MaxOrders THEN MaxOrders - n ELSE 0
  <1>1. MaxOrders \in Nat
    BY Bounds
  <1>2. ASSUME NEW n \in Nat
        PROVE  /\ IsFiniteSet((n+1)..MaxOrders)
               /\ Cardinality((n+1)..MaxOrders) = IF n < MaxOrders THEN MaxOrders - n ELSE 0
    <2>1. n+1 \in Int /\ MaxOrders \in Int
      BY <1>1
    <2>2. /\ IsFiniteSet((n+1)..MaxOrders)
          /\ Cardinality((n+1)..MaxOrders)
               = IF n+1 > MaxOrders THEN 0 ELSE MaxOrders - (n+1) + 1
      BY <2>1, FS_Interval
    <2> QED
      BY <1>1, <2>2
  <1>3. IsFiniteSet(1..MaxOrders) /\ Cardinality(1..MaxOrders) = MaxOrders
    <2>1. 1 \in Int /\ MaxOrders \in Int
      BY <1>1
    <2>2. /\ IsFiniteSet(1..MaxOrders)
          /\ Cardinality(1..MaxOrders) = IF 1 > MaxOrders THEN 0 ELSE MaxOrders - 1 + 1
      BY <2>1, FS_Interval
    <2> QED
      BY <1>1, <2>2
  <1> QED
    BY <1>1, <1>2, <1>3

LEMMA RoomFinite ==
  ASSUME NEW s
  PROVE  /\ IsFiniteSet(Room(s)) /\ Cardinality(Room(s)) \in Nat
         /\ IsFiniteSet(Room(s)') /\ Cardinality(Room(s)') \in Nat
  <1>1. IsFiniteSet(Executors \X (1..MaxOrders))
    BY Bounds, OrdersInterval, FS_Product
  <1> QED
    BY <1>1, FS_Subset, FS_CardinalityType DEF Room

\* What one executor that has counted n orders may place.
Column(e, n) == {e} \X ((n+1)..MaxOrders)

LEMMA ColumnSize ==
  ASSUME NEW e, NEW n \in Nat
  PROVE  /\ IsFiniteSet(Column(e, n))
         /\ Cardinality(Column(e, n)) = IF n < MaxOrders THEN MaxOrders - n ELSE 0
  <1>1. /\ IsFiniteSet((n+1)..MaxOrders)
        /\ Cardinality((n+1)..MaxOrders) = IF n < MaxOrders THEN MaxOrders - n ELSE 0
    BY OrdersInterval
  <1>2. IsFiniteSet({e}) /\ Cardinality({e}) = 1
    BY FS_Singleton
  <1>3. IsFiniteSet(Column(e, n)) /\ Cardinality(Column(e, n)) = 1 * Cardinality((n+1)..MaxOrders)
    BY <1>1, <1>2, FS_Product DEF Column
  <1> QED
    BY <1>1, <1>3, Bounds

\* A step that links nothing and leaves no more room.
LEMMA RoomLess ==
  ASSUME NEW s \in Schedules, TypeOK, linked'[s] = linked[s], Room(s)' \subseteq Room(s),
         linked[s] + Cardinality(Room(s)) <= MaxOrders * Cardinality(Executors)
  PROVE  linked'[s] + Cardinality(Room(s)') <= MaxOrders * Cardinality(Executors)
  <1>1. Cardinality(Room(s)') <= Cardinality(Room(s))
    BY RoomFinite, FS_Subset
  <1>2. Cardinality(Executors) \in Nat /\ MaxOrders \in Nat /\ linked[s] \in Nat
    BY Bounds, FS_CardinalityType DEF TypeOK
  <1>3. MaxOrders * Cardinality(Executors) \in Nat
    BY <1>2
  <1> QED
    BY <1>1, <1>2, <1>3, RoomFinite

\* Who counts has room for what its schedule's linked orders leave of the cap.
LEMMA CountRoom ==
  ASSUME NEW e \in Executors, NEW s \in Schedules, TypeOK, CountOrders(e), Counted(e),
         linked[s] + Cardinality(Room(s)) <= MaxOrders * Cardinality(Executors)
  PROVE  linked'[s] + Cardinality(Room(s)') <= MaxOrders * Cardinality(Executors)
  <1> DEFINE n == linked[s]
             Others == (Executors \ {e}) \X (1..MaxOrders)
  <1>1. /\ linked' = linked /\ n \in Nat /\ MaxOrders \in Nat
        /\ exec[e] = "work" /\ placed' = placed /\ placed[e] = 0 /\ task' = task
        /\ exec' = [exec EXCEPT ![e] = "submit"]
        /\ today' = [today EXCEPT ![e] = linked[task[e][1]]]
    BY Bounds DEF CountOrders, PriorDay, TypeOK, Counted
  <1>2. \A p \in Room(s)' : p[1] # e => p \in Room(s)
    BY <1>1 DEF Room, SubmitsFor, TypeOK
  <1>3. CASE n >= MaxOrders \/ task[e][1] # s
    <2>1. \A p \in Room(s)' : p[1] # e
      BY <1>1, <1>3 DEF Room, SubmitsFor, TypeOK
    <2>2. Room(s)' \subseteq Room(s)
      BY <1>2, <2>1
    <2> QED
      BY <1>1, <2>2, RoomLess
  <1>4. CASE n < MaxOrders /\ task[e][1] = s
    <2>1. Room(s)' \subseteq Others \cup Column(e, n)
      <3> SUFFICES ASSUME NEW p \in Room(s)' PROVE p \in Others \cup Column(e, n)
        OBVIOUS
      <3>1. p \in Executors \X (1..MaxOrders) /\ p = <<p[1], p[2]>>
        BY DEF Room
      <3>2. CASE p[1] # e
        BY <3>1, <3>2
      <3>3. CASE p[1] = e
        <4>1. today'[e] = n /\ placed'[e] = 0
          BY <1>1, <1>4 DEF TypeOK
        <4>2. n < p[2]
          BY <1>1, <3>1, <3>3, <4>1 DEF Room
        <4>3. p[2] \in (n+1)..MaxOrders
          BY <1>1, <3>1, <4>2
        <4> QED
          BY <3>1, <3>3, <4>3 DEF Column
      <3> QED
        BY <3>2, <3>3
    <2>2. /\ IsFiniteSet(Executors \ {e})
          /\ Cardinality(Executors \ {e}) = Cardinality(Executors) - 1
          /\ Cardinality(Executors) \in Nat
      BY Bounds, FS_RemoveElement, FS_CardinalityType
    <2>3. IsFiniteSet(1..MaxOrders) /\ Cardinality(1..MaxOrders) = MaxOrders
      BY OrdersInterval
    <2>4. /\ IsFiniteSet(Others)
          /\ Cardinality(Others) = (Cardinality(Executors) - 1) * MaxOrders
      <3>1. IsFiniteSet(Others) /\ Cardinality(Others) = Cardinality(Executors \ {e}) * Cardinality(1..MaxOrders)
        BY <2>2, <2>3, FS_Product
      <3> QED
        BY <2>2, <2>3, <3>1
    <2>5. IsFiniteSet(Column(e, n)) /\ Cardinality(Column(e, n)) = MaxOrders - n
      BY <1>1, <1>4, ColumnSize
    <2> HIDE DEF n, Others
    <2>6. /\ IsFiniteSet(Others \cup Column(e, n))
          /\ Cardinality(Others \cup Column(e, n)) <= Cardinality(Others) + (MaxOrders - n)
      <3>1. /\ IsFiniteSet(Others \cup Column(e, n))
            /\ Cardinality(Others \cup Column(e, n))
                 = Cardinality(Others) + Cardinality(Column(e, n))
                     - Cardinality(Others \cap Column(e, n))
        BY <2>4, <2>5, FS_Union
      <3>2. Cardinality(Others \cap Column(e, n)) \in Nat /\ Cardinality(Others) \in Nat
        BY <2>4, FS_Intersection, FS_CardinalityType
      <3> QED
        BY <1>1, <2>5, <3>1, <3>2
    <2>7. Cardinality(Room(s)') <= Cardinality(Others \cup Column(e, n))
      BY <2>1, <2>6, FS_Subset
    <2>8. Cardinality(Others \cup Column(e, n)) \in Nat /\ Cardinality(Others) \in Nat
      BY <2>4, <2>6, FS_CardinalityType
    <2>9. n + Cardinality(Room(s)') <= (Cardinality(Executors) - 1) * MaxOrders + MaxOrders
      BY <1>1, <2>4, <2>6, <2>7, <2>8, RoomFinite
    <2>10. (Cardinality(Executors) - 1) * MaxOrders + MaxOrders = MaxOrders * Cardinality(Executors)
      BY <1>1, <2>2
    <2> QED
      BY <1>1, <2>9, <2>10 DEF n
  <1> QED
    BY <1>1, <1>3, <1>4

\* Who links gives up its room, which was as large as what it links.
LEMMA LinkRoom ==
  ASSUME NEW e \in Executors, NEW s \in Schedules, TypeOK, LinkOrders(e), Counted(e),
         linked[s] + Cardinality(Room(s)) <= MaxOrders * Cardinality(Executors)
  PROVE  linked'[s] + Cardinality(Room(s)') <= MaxOrders * Cardinality(Executors)
  <1> DEFINE base == today[e] - placed[e]
  <1>1. /\ exec[e] = "submit" /\ exec' = [exec EXCEPT ![e] = "finish"]
        /\ UNCHANGED <<task, today, placed>>
        /\ today[e] \in Nat /\ placed[e] \in Nat /\ placed[e] <= today[e] /\ base \in Nat
        /\ placed[e] > 0 => placed[e] <= MaxOrders - base /\ base < MaxOrders
        /\ linked[s] \in Nat /\ MaxOrders \in Nat
    BY Bounds DEF LinkOrders, TypeOK, Counted
  <1>2. Room(s)' \subseteq Room(s)
    BY <1>1 DEF Room, SubmitsFor, TypeOK
  <1>3. CASE task[e][1] # s \/ placed[e] = 0
    <2>1. linked'[s] = linked[s]
      BY <1>1, <1>3 DEF LinkOrders, TypeOK
    <2> QED
      BY <1>2, <2>1, RoomLess
  <1>4. CASE task[e][1] = s /\ placed[e] > 0
    <2>1. linked'[s] = linked[s] + placed[e]
      BY <1>4 DEF LinkOrders, TypeOK
    <2>2. Column(e, base) \subseteq Room(s)
      <3> SUFFICES ASSUME NEW k \in (base+1)..MaxOrders PROVE <<e, k>> \in Room(s)
        BY DEF Column
      <3>1. k \in 1..MaxOrders /\ today[e] < k + placed[e]
        BY <1>1
      <3> QED
        BY <1>1, <1>4, <3>1 DEF Room, SubmitsFor
    <2>3. Room(s)' \subseteq Room(s) \ Column(e, base)
      <3>1. \A p \in Room(s)' : p[1] # e
        BY <1>1 DEF Room, SubmitsFor, TypeOK
      <3>2. \A p \in Column(e, base) : p[1] = e
        BY DEF Column
      <3> QED
        BY <1>2, <3>1, <3>2
    <2>4. IsFiniteSet(Column(e, base)) /\ Cardinality(Column(e, base)) = MaxOrders - base
      BY <1>1, <1>4, ColumnSize
    <2> HIDE DEF base
    <2>5. /\ IsFiniteSet(Room(s) \ Column(e, base))
          /\ Cardinality(Room(s) \ Column(e, base)) = Cardinality(Room(s)) - (MaxOrders - base)
      <3>1. Room(s) \cap Column(e, base) = Column(e, base)
        BY <2>2
      <3>2. /\ IsFiniteSet(Room(s) \ Column(e, base))
            /\ Cardinality(Room(s) \ Column(e, base))
                 = Cardinality(Room(s)) - Cardinality(Room(s) \cap Column(e, base))
        BY RoomFinite, FS_Difference
      <3> QED
        BY <2>4, <3>1, <3>2, RoomFinite
    <2>6. Cardinality(Room(s)') <= Cardinality(Room(s) \ Column(e, base))
      BY <2>3, <2>5, FS_Subset
    <2>7. Cardinality(Executors) \in Nat /\ MaxOrders * Cardinality(Executors) \in Nat
      BY <1>1, Bounds, FS_CardinalityType
    <2>8. Cardinality(Room(s) \ Column(e, base)) \in Nat
      BY <2>5, FS_CardinalityType
    <2> QED
      BY <1>1, <1>4, <2>1, <2>5, <2>6, <2>7, <2>8, RoomFinite
  <1> QED
    BY <1>1, <1>3, <1>4

\* Every step of an executor keeps its own counters.
LEMMA CountedStep ==
  ASSUME TypeOK, [Next]_vars, NEW e \in Executors, Counted(e) PROVE Counted(e)'
  <1> USE DEF TypeOK, Counted
  <1>1. CASE UNCHANGED <<exec, today, placed>>
    BY <1>1
  <1>2. ASSUME NEW f \in Executors, NEW h \in Histories, Deliver(f, h) PROVE Counted(e)'
    BY <1>2 DEF Deliver
  <1>3. ASSUME NEW f \in Executors, ExecStep(f) \/ ExecutorDies(f) PROVE Counted(e)'
    <2>1. CASE Begin(f)        BY <2>1 DEF Begin
    <2>2. CASE StopEarly(f)    BY <2>2 DEF StopEarly, EndTask
    <2>3. CASE CountOrders(f)  BY <2>3, HistoryFacts DEF CountOrders, PriorDay
    <2>4. CASE Submit(f)       BY <2>4, Bounds DEF Submit
    <2>5. CASE SubmitRaises(f) BY <2>5 DEF SubmitRaises
    <2>6. CASE LinkOrders(f)   BY <2>6 DEF LinkOrders
    <2>7. CASE Finish(f)       BY <2>7 DEF Finish, EndTask
    <2>8. CASE ExecutorDies(f) BY <2>8 DEF ExecutorDies, EndTask
    <2> QED
      BY <1>3, <2>1, <2>2, <2>3, <2>4, <2>5, <2>6, <2>7, <2>8 DEF ExecStep
  <1>4. CASE \/ Tick
             \/ \E u \in Editors : EditStep(u) \/ EditorDies(u)
             \/ \E u \in Editors, s \in Schedules, a \in BOOLEAN :
                  CreateSchedule(u, s, a) \/ ReadSchedule(u, s, a)
             \/ \E h \in Histories : RunNow(h) \/ SendNow(h) \/ RunNowDies(h) \/ Redeliver(h)
             \/ \E p \in Passes : StartPass(p) \/ PassWork(p) \/ PassDies(p)
             \/ UNCHANGED vars
    <2>1. UNCHANGED <<exec, today, placed>>
      BY <1>4
      DEF Tick, EditStep, SaveSchedule, Reschedule, EditorDies, CreateSchedule,
          ReadSchedule, RunNow, SendNow, RunNowDies, Redeliver, StartPass, PassWork,
          Load, Advance, AbortPass, RecordSkip, RecordFire, Send, FinishPass,
          PassDies, execVars, vars
    <2> QED
      BY <1>1, <2>1
  <1> QED
    BY <1>2, <1>3, <1>4 DEF Next

LEMMA CapStep == TypeOK /\ CapInv /\ [Next]_vars => CapInv'
  <1> SUFFICES ASSUME TypeOK, CapInv, [Next]_vars, NEW s \in Schedules
               PROVE  linked'[s] + Cardinality(Room(s)') <= MaxOrders * Cardinality(Executors)
    BY CountedStep DEF CapInv
  <1> DEFINE Goal == linked'[s] + Cardinality(Room(s)') <= MaxOrders * Cardinality(Executors)
  <1>0. /\ linked[s] + Cardinality(Room(s)) <= MaxOrders * Cardinality(Executors)
        /\ \A e \in Executors : Counted(e)
    BY DEF CapInv
  <1>1. ASSUME linked' = linked, Room(s)' \subseteq Room(s) PROVE Goal
    BY <1>0, <1>1, RoomLess
  <1>2. ASSUME NEW e \in Executors,
               \/ \E h \in Histories : Deliver(e, h)
               \/ Begin(e) \/ StopEarly(e) \/ Finish(e) \/ ExecutorDies(e)
        PROVE  Goal
    <2>1. /\ linked' = linked /\ exec'[e] # "submit"
          /\ \A f \in Executors : f # e => UNCHANGED <<exec[f], task[f], today[f], placed[f]>>
      BY <1>2 DEF Deliver, Begin, StopEarly, Finish, ExecutorDies, EndTask, execVars, TypeOK
    <2>2. Room(s)' \subseteq Room(s)
      BY <2>1 DEF Room, SubmitsFor
    <2> QED
      BY <1>1, <2>1, <2>2
  <1>3. ASSUME NEW e \in Executors, Submit(e) \/ SubmitRaises(e) PROVE Goal
    <2>1. /\ UNCHANGED <<linked, exec, task>>
          /\ \A f \in Executors : f # e => UNCHANGED <<today[f], placed[f]>>
          /\ \/ today'[e] = today[e] + 1 /\ placed'[e] = placed[e] + 1
             \/ today'[e] = today[e] /\ placed'[e] = placed[e]
          /\ \A f \in Executors : today[f] \in Nat /\ placed[f] \in Nat
      BY <1>3 DEF Submit, SubmitRaises, TypeOK
    <2>2. Room(s)' \subseteq Room(s)
      BY <2>1 DEF Room, SubmitsFor
    <2> QED
      BY <1>1, <2>1, <2>2
  <1>4. ASSUME NEW e \in Executors, CountOrders(e) PROVE Goal
    BY <1>0, <1>4, CountRoom
  <1>5. ASSUME NEW e \in Executors, LinkOrders(e) PROVE Goal
    BY <1>0, <1>5, LinkRoom
  <1>6. CASE \/ Tick
             \/ \E u \in Editors : EditStep(u) \/ EditorDies(u)
             \/ \E u \in Editors, t \in Schedules, a \in BOOLEAN :
                  CreateSchedule(u, t, a) \/ ReadSchedule(u, t, a)
             \/ \E h \in Histories : RunNow(h) \/ SendNow(h) \/ RunNowDies(h) \/ Redeliver(h)
             \/ \E p \in Passes : StartPass(p) \/ PassWork(p) \/ PassDies(p)
             \/ UNCHANGED vars
    <2>1. UNCHANGED <<linked, exec, task, today, placed>>
      BY <1>6
      DEF Tick, EditStep, SaveSchedule, Reschedule, EditorDies, CreateSchedule,
          ReadSchedule, RunNow, SendNow, RunNowDies, Redeliver, StartPass, PassWork,
          Load, Advance, AbortPass, RecordSkip, RecordFire, Send, FinishPass,
          PassDies, execVars, vars
    <2>2. Room(s)' = Room(s)
      BY <2>1 DEF Room, SubmitsFor
    <2> QED
      BY <1>1, <2>1, <2>2
  <1> QED
    BY <1>2, <1>3, <1>4, <1>5, <1>6 DEF Next, ExecStep

\* However executors overlap, what they link to a schedule's history is bounded
\* by the daily cap once for each of them.
THEOREM CapHolds == Spec => []CapPerExecutor
  <1>1. Init => CapInv
    <2> SUFFICES ASSUME Init, NEW s \in Schedules
                 PROVE  linked[s] + Cardinality(Room(s)) <= MaxOrders * Cardinality(Executors)
      BY DEF Init, CapInv, Counted
    <2>1. Room(s) = {} /\ linked[s] = 0
      BY DEF Init, Room, SubmitsFor
    <2>2. MaxOrders * Cardinality(Executors) \in Nat
      BY Bounds, FS_CardinalityType
    <2> QED
      BY <2>1, <2>2, FS_EmptySet
  <1>2. TypeOK /\ CapInv => CapPerExecutor
    <2> SUFFICES ASSUME TypeOK, CapInv, NEW s \in Schedules
                 PROVE  linked[s] <= MaxOrders * Cardinality(Executors)
      BY DEF CapPerExecutor
    <2>1. MaxOrders * Cardinality(Executors) \in Nat
      BY Bounds, FS_CardinalityType
    <2> QED
      BY <2>1, RoomFinite DEF TypeOK, CapInv
  <1> QED
    BY <1>1, <1>2, CapStep, TypeCorrect, PTL DEF Spec

-----------------------------------------------------------------------------
(* Armed schedules.                                                        *)

Edits(u, s) == edit[u] # "idle" /\ form[u].sr = s

Edited(s) == \E u \in Editors : Edits(u, s)

\* No two edits of one schedule overlap.
OneEditAtATime ==
  \A s \in Schedules : \A u, v \in Editors : Edits(u, s) /\ Edits(v, s) => u = v

\* A schedule without a next fire is inactive or being edited, and who has yet
\* to compute next_run_at goes by the flag that was saved.
ArmedInv ==
  crashes = 0 =>
    /\ \A s \in Schedules : active[s] => next[s] # None \/ Edited(s)
    /\ \A u \in Editors : edit[u] = "schedule" => active[form[u].sr] = form[u].active

LEMMA DeathsCounted ==
  ASSUME [Next]_vars PROVE crashes' \in {crashes, crashes + 1}
  <1>1. CASE \/ Tick
             \/ \E h \in Histories : RunNow(h) \/ SendNow(h) \/ RunNowDies(h) \/ Redeliver(h)
             \/ \E u \in Editors : EditStep(u) \/ EditorDies(u)
             \/ \E u \in Editors, s \in Schedules, a \in BOOLEAN :
                  CreateSchedule(u, s, a) \/ ReadSchedule(u, s, a)
             \/ UNCHANGED vars
    BY <1>1 DEF Tick, RunNow, SendNow, RunNowDies, Redeliver, EditStep, SaveSchedule,
                Reschedule, EditorDies, CreateSchedule, ReadSchedule, Die, vars
  <1>2. CASE \E p \in Passes : StartPass(p) \/ PassWork(p) \/ PassDies(p)
    BY <1>2 DEF StartPass, PassWork, Load, Advance, AbortPass, RecordSkip, RecordFire,
                Send, FinishPass, PassDies, Die
  <1>3. CASE \/ \E e \in Executors, h \in Histories : Deliver(e, h)
             \/ \E e \in Executors : ExecStep(e) \/ ExecutorDies(e)
    BY <1>3 DEF Deliver, ExecStep, Begin, StopEarly, CountOrders, Submit, SubmitRaises,
                LinkOrders, Finish, ExecutorDies, Die
  <1> QED
    BY <1>1, <1>2, <1>3 DEF Next

LEMMA ArmedStep ==
  TypeOK /\ ArmedInv /\ OneEditAtATime /\ OneEditAtATime' /\ [Next]_vars => ArmedInv'
  <1> SUFFICES ASSUME TypeOK, ArmedInv, OneEditAtATime, OneEditAtATime', [Next]_vars,
                      crashes' = 0
               PROVE  /\ \A s \in Schedules : active'[s] => next'[s] # None \/ Edited(s)'
                      /\ \A u \in Editors :
                           edit'[u] = "schedule" => active'[form'[u].sr] = form'[u].active
    BY DEF ArmedInv
  <1> DEFINE Goal == /\ \A s \in Schedules : active'[s] => next'[s] # None \/ Edited(s)'
                     /\ \A u \in Editors :
                          edit'[u] = "schedule" => active'[form'[u].sr] = form'[u].active
  <1>t. /\ active \in [Schedules -> BOOLEAN]
        /\ next \in [Schedules -> Slots \cup {None}]
        /\ edit \in [Editors -> {"idle", "save", "schedule"}]
        /\ form \in [Editors -> Forms]
        /\ clock \in Nat /\ clock + 1 # None
        /\ \A u \in Editors : edit[u] # "idle" => form[u].sr \in Schedules
    BY Names DEF TypeOK
  <1>i. /\ \A s \in Schedules : active[s] => next[s] # None \/ Edited(s)
        /\ \A u \in Editors : edit[u] = "schedule" => active[form[u].sr] = form[u].active
    <2>1. crashes' \in {crashes, crashes + 1}
      BY DeathsCounted
    <2>2. crashes = 0
      BY <2>1 DEF TypeOK
    <2> QED
      BY <2>2 DEF ArmedInv
  <1>1. ASSUME UNCHANGED <<active, edit, form>>,
               \A s \in Schedules : next'[s] = None => next[s] = None
        PROVE  Goal
    BY <1>1, <1>i DEF Edited, Edits
  <1>2. ASSUME NEW u \in Editors, NEW s \in Schedules, NEW a \in BOOLEAN, CreateSchedule(u, s, a)
        PROVE  Goal
    <2>1. /\ Edits(u, s)' /\ edit[u] = "idle"
          /\ edit'[u] = "schedule" /\ form'[u].sr = s /\ form'[u].active = a
          /\ active'[s] = a
          /\ \A t \in Schedules : t # s => UNCHANGED <<active[t], next[t]>>
          /\ \A v \in Editors : v # u => UNCHANGED <<edit[v], form[v]>>
      BY <1>2, <1>t DEF CreateSchedule, Edits
    <2>2. \A t \in Schedules : t # s /\ Edited(t) => Edited(t)'
      BY <2>1 DEF Edited, Edits
    <2>3. \A v \in Editors : v # u => ~Edits(v, s)'
      BY <2>1 DEF OneEditAtATime
    <2>4. Edited(s)'
      BY <2>1 DEF Edited
    <2>5. \A v \in Editors : v # u /\ edit'[v] = "schedule" => active'[form'[v].sr] = form'[v].active
      BY <1>t, <1>i, <2>1, <2>3 DEF Edits
    <2>6. \A t \in Schedules : active'[t] => next'[t] # None \/ Edited(t)'
      BY <1>i, <2>1, <2>2, <2>4
    <2> QED
      BY <2>1, <2>5, <2>6
  <1>3. ASSUME NEW u \in Editors, NEW s \in Schedules, NEW a \in BOOLEAN, ReadSchedule(u, s, a)
        PROVE  Goal
    <2>1. /\ UNCHANGED <<active, next>>
          /\ edit[u] = "idle" /\ edit'[u] = "save"
          /\ \A v \in Editors : v # u => UNCHANGED <<edit[v], form[v]>>
      BY <1>3, <1>t DEF ReadSchedule, rowVars
    <2>2. \A t \in Schedules : Edited(t) => Edited(t)'
      BY <2>1 DEF Edited, Edits
    <2> QED
      BY <1>t, <1>i, <2>1, <2>2
  <1>4. ASSUME NEW u \in Editors, SaveSchedule(u) PROVE Goal
    <2>1. form[u] \in Forms /\ form'[u].sr = form[u].sr /\ form'[u].active = form[u].active
      BY <1>4, <1>t DEF SaveSchedule, Forms
    <2>2. /\ Edits(u, form[u].sr) /\ form[u].sr \in Schedules
          /\ edit'[u] = "schedule"
          /\ \A v \in Editors : v # u => UNCHANGED <<edit[v], form[v]>>
          /\ active'[form[u].sr] = form[u].active
          /\ \A s \in Schedules : s # form[u].sr => UNCHANGED <<active[s], next[s]>>
      BY <1>4, <1>t DEF SaveSchedule, SetNext, Edits
    <2>3. \A t \in Schedules : Edited(t) => Edited(t)'
      BY <2>1, <2>2 DEF Edited, Edits
    <2>4. \A v \in Editors : v # u => ~Edits(v, form[u].sr)
      BY <2>2 DEF OneEditAtATime
    <2>5. \A v \in Editors : v # u /\ edit'[v] = "schedule" => active'[form'[v].sr] = form'[v].active
      BY <1>t, <1>i, <2>2, <2>4 DEF Edits
    <2>6. \A t \in Schedules : t = form[u].sr => Edited(t)'
      BY <2>2, <2>3 DEF Edited
    <2> QED
      BY <1>i, <2>1, <2>2, <2>3, <2>5, <2>6
  <1>5. ASSUME NEW u \in Editors, Reschedule(u) PROVE Goal
    <2>1. /\ edit[u] = "schedule" /\ edit'[u] = "idle" /\ active' = active
          /\ form[u].sr \in Schedules
          /\ active[form[u].sr] => next'[form[u].sr] # None
          /\ \A s \in Schedules : s # form[u].sr => next'[s] = next[s]
          /\ \A v \in Editors : v # u => UNCHANGED <<edit[v], form[v]>>
      BY <1>5, <1>t, <1>i DEF Reschedule, SetNext, EndEdit
    <2>2. \A s \in Schedules : s # form[u].sr /\ Edited(s) => Edited(s)'
      BY <2>1 DEF Edited, Edits
    <2> QED
      BY <1>t, <1>i, <2>1, <2>2
  <1>6. ASSUME NEW p \in Passes, Advance(p) PROVE Goal
    <2>1. AfterDowntime(fire[p], now[p]) # None
      <3>1. /\ fire[p] = None \/ fire[p] \in Nat
            /\ now[p] \in Nat
            /\ None \notin Nat
        BY SlotFacts, Names DEF TypeOK
      <3>2. fire[p] \in Nat => fire[p] + 1 \in Nat
        OBVIOUS
      <3>3. clock + 1 \in Nat /\ now[p] + 1 \in Nat
        BY <1>t, <3>1
      <3> QED
        BY <3>1, <3>2, <3>3 DEF AfterDowntime
    <2>2. \A s \in Schedules : next'[s] = None => next[s] = None
      BY <1>6, <1>t, <2>1 DEF Advance, SetNext, TypeOK
    <2> QED
      BY <1>1, <1>6, <2>2 DEF Advance, editVars
  <1>7. CASE \/ Tick
             \/ \E h \in Histories : RunNow(h) \/ SendNow(h) \/ RunNowDies(h) \/ Redeliver(h)
             \/ \E p \in Passes : \/ StartPass(p) \/ \E s \in Schedules : Load(p, s)
                                  \/ AbortPass(p) \/ RecordSkip(p) \/ RecordFire(p)
                                  \/ Send(p) \/ FinishPass(p) \/ PassDies(p)
             \/ \E e \in Executors, h \in Histories : Deliver(e, h)
             \/ \E e \in Executors : ExecStep(e) \/ ExecutorDies(e)
             \/ UNCHANGED vars
    <2>1. UNCHANGED <<active, next, edit, form>>
      BY <1>7
      DEF Tick, RunNow, SendNow, RunNowDies, Redeliver, StartPass, Load, AbortPass,
          RecordSkip, RecordFire, Send, FinishPass, PassDies, Deliver, ExecStep, Begin,
          StopEarly, CountOrders, Submit, SubmitRaises, LinkOrders, Finish,
          ExecutorDies, rowVars, editVars, vars
    <2> QED
      BY <1>1, <2>1
  <1>8. ASSUME NEW u \in Editors, EditorDies(u) PROVE FALSE
    BY <1>8 DEF EditorDies, Die, TypeOK
  <1> QED
    BY <1>2, <1>3, <1>4, <1>5, <1>6, <1>7, <1>8 DEF Next, EditStep, PassWork

\* As long as no two edits of a schedule overlap and nobody dies, an active schedule
\* has a next fire once its edit has ended, whatever the overlapping passes save.
THEOREM ArmedUnlessEdited == Spec /\ []OneEditAtATime => []ActiveIsArmed
  <1>1. Init => ArmedInv
    BY DEF Init, ArmedInv
  <1>2. TypeOK /\ ArmedInv => ActiveIsArmed
    BY DEF TypeOK, ArmedInv, ActiveIsArmed, Edited, Edits
  <1> QED
    BY <1>1, <1>2, ArmedStep, TypeCorrect, PTL DEF Spec
=============================================================================
