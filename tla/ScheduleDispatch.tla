--------------------------- MODULE ScheduleDispatch ---------------------------
(***************************************************************************)
(* Scheduled runs (apps/schedules): owners create and edit schedules, the  *)
(* dispatcher (every minute, and able to overlap with itself) takes the    *)
(* due ones, writes one history row per fire time and sends it to a        *)
(* worker, which executes the councils and submits paper orders under a    *)
(* daily cap.                                                              *)
(*                                                                         *)
(* Time is counted in slots of the schedules' cron: the clock is the last  *)
(* slot that has passed.  The modelled span is shorter than a day, so that *)
(* every order counts against the daily cap.                               *)
(***************************************************************************)
EXTENDS Naturals, FiniteSets

CONSTANTS
  Schedules,       \* the rows of ScheduledRun
  Passes,          \* executions of the dispatcher
  Editors,         \* requests that create or update a schedule
  Executors,       \* children of the worker that execute fires
  Manual,          \* fire times of run-now requests: no slot is ever one
  MarketAware,     \* the schedules that skip non-trading days
  Closed,          \* the slots on such days
  MaxOrders,       \* ScheduledRun.max_orders_per_day
  None,            \* no slot, no schedule
  LastSlot,        \* bound: the last slot that can be armed
  MaxClock,        \* bound: the last slot that passes
  MaxRedeliveries, \* bound: how many messages are delivered twice
  MaxRaises,       \* bound: how many submissions raise
  MaxCrashes       \* bound: how many processes die

ASSUME Bounds ==
  /\ {LastSlot, MaxClock, MaxOrders, MaxRedeliveries, MaxRaises, MaxCrashes}
       \subseteq Nat
  /\ IsFiniteSet(Executors)
ASSUME Names ==
  /\ None \notin Nat /\ None \notin Schedules /\ None \notin Manual
  /\ Manual \cap Nat = {}
  /\ MarketAware \subseteq Schedules /\ Closed \subseteq Nat

Slots == 0..LastSlot

\* A history row is known by its schedule and its fire time, which is unique.
Histories == Schedules \X (Slots \cup Manual)

VARIABLES
  clock,     \* the last slot that has passed
  stored,    \* the schedules that exist
  active,    \* ScheduledRun.is_active
  next,      \* ScheduledRun.next_run_at
  hist,      \* ScheduledRunHistory.status ("absent": no such row)
  queue,     \* copies of the message of a history row that wait in Redis
  starts,    \* how often a worker was given a history row
  sending,   \* run-now requests that have yet to send their message
  pass,      \* dispatcher: what it does next
  now,       \* dispatcher: the time it read when it began
  due,       \* dispatcher: the listed schedules not yet dealt with
  sr,        \* dispatcher: the schedule it deals with
  fire,      \* dispatcher: the fire time it read
  owed,      \* fires that next_run_at has moved past, to be recorded
  edit,      \* editor: what it does next
  form,      \* editor: the schedule and the row it has in memory
  exec,      \* executor: what it does next
  task,      \* executor: the history row it was given
  today,     \* executor: n_today, orders counted plus orders placed
  placed,    \* executor: the orders it will link to its history row
  linked,    \* orders of a schedule that are linked to its history rows
  orders,    \* orders of a schedule that were created
  redelivered, raises, crashes

rowVars  == <<stored, active, next>>
msgVars  == <<queue, starts, sending, redelivered>>
passVars == <<pass, now, due, sr, fire, owed>>
editVars == <<edit, form>>
execVars == <<exec, task, today, placed, linked, orders, raises>>
vars == <<clock, rowVars, hist, msgVars, passVars, editVars, execVars, crashes>>

Forms == [sr : Schedules \cup {None}, active : BOOLEAN, next : Slots \cup {None}]
NoForm == [sr |-> None, active |-> FALSE, next |-> None]

\* The type invariant; whoever is busy has a row.
TypeOK ==
  /\ clock \in Nat
  /\ stored \in SUBSET Schedules
  /\ active \in [Schedules -> BOOLEAN]
  /\ next \in [Schedules -> Slots \cup {None}]
  /\ hist \in [Histories -> {"absent", "pending", "running", "done", "skipped"}]
  /\ queue \in [Histories -> Nat]
  /\ starts \in [Histories -> Nat]
  /\ sending \in SUBSET Histories
  /\ pass \in [Passes -> {"idle", "each", "save", "gate", "send"}]
  /\ now \in [Passes -> Nat]
  /\ due \in [Passes -> SUBSET Schedules]
  /\ sr \in [Passes -> Schedules \cup {None}]
  /\ fire \in [Passes -> Slots \cup {None}]
  /\ owed \in SUBSET (Schedules \X Slots)
  /\ edit \in [Editors -> {"idle", "save", "schedule"}]
  /\ form \in [Editors -> Forms]
  /\ exec \in [Executors -> {"idle", "begin", "work", "submit", "finish"}]
  /\ task \in [Executors -> Histories \cup {None}]
  /\ today \in [Executors -> Nat]
  /\ placed \in [Executors -> Nat]
  /\ linked \in [Schedules -> Nat]
  /\ orders \in [Schedules -> Nat]
  /\ redelivered \in Nat /\ raises \in Nat /\ crashes \in Nat
  /\ \A p \in Passes : pass[p] \in {"save", "gate", "send"} => sr[p] \in Schedules
  /\ \A p \in Passes : pass[p] = "send" => fire[p] \in Slots
  /\ \A u \in Editors : edit[u] # "idle" => form[u].sr \in Schedules
  /\ \A e \in Executors : exec[e] # "idle" => task[e] \in Histories

Init ==
  /\ clock = 0
  /\ stored = {}
  /\ active = [s \in Schedules |-> FALSE]
  /\ next = [s \in Schedules |-> None]
  /\ hist = [h \in Histories |-> "absent"]
  /\ queue = [h \in Histories |-> 0]
  /\ starts = [h \in Histories |-> 0]
  /\ sending = {}
  /\ pass = [p \in Passes |-> "idle"]
  /\ now = [p \in Passes |-> 0]
  /\ due = [p \in Passes |-> {}]
  /\ sr = [p \in Passes |-> None]
  /\ fire = [p \in Passes |-> None]
  /\ owed = {}
  /\ edit = [u \in Editors |-> "idle"]
  /\ form = [u \in Editors |-> NoForm]
  /\ exec = [e \in Executors |-> "idle"]
  /\ task = [e \in Executors |-> None]
  /\ today = [e \in Executors |-> 0]
  /\ placed = [e \in Executors |-> 0]
  /\ linked = [s \in Schedules |-> 0]
  /\ orders = [s \in Schedules |-> 0]
  /\ redelivered = 0 /\ raises = 0 /\ crashes = 0

Tick ==
  /\ clock < MaxClock
  /\ clock' = clock + 1
  /\ UNCHANGED <<rowVars, hist, msgVars, passVars, editVars, execVars, crashes>>

SetNext(s, t) == t \in Slots \cup {None} /\ next' = [next EXCEPT ![s] = t]
SetHist(h, v) == hist' = [hist EXCEPT ![h] = v]

Die == crashes < MaxCrashes /\ crashes' = crashes + 1

-----------------------------------------------------------------------------
(* Owners.  An update reads the row, saves all of it, and saves next_run_at *)
(* once more after it has been computed from the clock.                     *)

EndEdit(u) ==
  /\ edit' = [edit EXCEPT ![u] = "idle"]
  /\ form' = [form EXCEPT ![u] = NoForm]

CreateSchedule(u, s, a) ==
  /\ edit[u] = "idle"
  /\ s \notin stored
  /\ stored' = stored \cup {s}
  /\ active' = [active EXCEPT ![s] = a]
  /\ edit' = [edit EXCEPT ![u] = "schedule"]
  /\ form' = [form EXCEPT ![u] = [sr |-> s, active |-> a, next |-> None]]
  /\ UNCHANGED <<clock, next, hist, msgVars, passVars, execVars, crashes>>

ReadSchedule(u, s, a) ==
  /\ edit[u] = "idle"
  /\ s \in stored
  /\ edit' = [edit EXCEPT ![u] = "save"]
  /\ form' = [form EXCEPT ![u] = [sr |-> s, active |-> a, next |-> next[s]]]
  /\ UNCHANGED <<clock, rowVars, hist, msgVars, passVars, execVars, crashes>>

SaveSchedule(u) ==
  /\ edit[u] = "save"
  /\ active' = [active EXCEPT ![form[u].sr] = form[u].active]
  /\ SetNext(form[u].sr, form[u].next)
  /\ edit' = [edit EXCEPT ![u] = "schedule"]
  /\ form' = [form EXCEPT ![u].next = None]
  /\ UNCHANGED <<clock, stored, hist, msgVars, passVars, execVars, crashes>>

\* Slip: an active schedule keeps the next fire it has.
RescheduleInactive(u) ==
  /\ edit[u] = "schedule"
  /\ SetNext(form[u].sr, IF form[u].active THEN next[form[u].sr] ELSE None)
  /\ EndEdit(u)
  /\ UNCHANGED <<clock, stored, active, hist, msgVars, passVars, execVars, crashes>>

Reschedule(u) ==
  /\ edit[u] = "schedule"
  /\ SetNext(form[u].sr, IF form[u].active THEN clock + 1 ELSE None)
  /\ EndEdit(u)
  /\ UNCHANGED <<clock, stored, active, hist, msgVars, passVars, execVars, crashes>>

EditorDies(u) ==
  /\ edit[u] # "idle"
  /\ Die
  /\ EndEdit(u)
  /\ UNCHANGED <<clock, rowVars, hist, msgVars, passVars, execVars>>

RunNow(h) ==
  /\ h[1] \in stored /\ h[2] \in Manual
  /\ hist[h] = "absent"
  /\ SetHist(h, "pending")
  /\ sending' = sending \cup {h}
  /\ UNCHANGED <<clock, rowVars, queue, starts, redelivered, passVars, editVars,
                 execVars, crashes>>

SendNow(h) ==
  /\ h \in sending
  /\ sending' = sending \ {h}
  /\ queue' = [queue EXCEPT ![h] = @ + 1]
  /\ UNCHANGED <<clock, rowVars, hist, starts, redelivered, passVars, editVars,
                 execVars, crashes>>

RunNowDies(h) ==
  /\ h \in sending
  /\ Die
  /\ sending' = sending \ {h}
  /\ UNCHANGED <<clock, rowVars, hist, queue, starts, redelivered, passVars,
                 editVars, execVars>>

-----------------------------------------------------------------------------
(* dispatch_due_scheduled_runs.                                             *)

Due(s, t) == s \in stored /\ active[s] /\ next[s] # None /\ next[s] <= t

StartPass(p) ==
  /\ pass[p] = "idle"
  /\ \E s \in Schedules : Due(s, clock)
  /\ now' = [now EXCEPT ![p] = clock]
  /\ due' = [due EXCEPT ![p] = {s \in Schedules : Due(s, clock)}]
  /\ pass' = [pass EXCEPT ![p] = "each"]
  /\ UNCHANGED <<clock, rowVars, hist, msgVars, sr, fire, owed, editVars,
                 execVars, crashes>>

\* The row is read again, but whether it is still due is not asked again.
Load(p, s) ==
  /\ pass[p] = "each"
  /\ s \in due[p]
  /\ due' = [due EXCEPT ![p] = @ \ {s}]
  /\ sr' = [sr EXCEPT ![p] = s]
  /\ fire' = [fire EXCEPT ![p] = next[s]]
  /\ pass' = [pass EXCEPT ![p] = "save"]
  /\ UNCHANGED <<clock, rowVars, hist, msgVars, now, owed, editVars, execVars,
                 crashes>>

\* advance_after_downtime: the first slot after both the fire and the pass's
\* own time; without a fire time, after the clock.
AfterDowntime(t, n) ==
  IF t = None THEN clock + 1 ELSE IF t > n THEN t + 1 ELSE n + 1

\* Slip: the history row is looked up first, and a fire that has one is left.
AdvanceUnrecorded(p) ==
  LET known == fire[p] # None /\ hist[<<sr[p], fire[p]>>] # "absent" IN
  /\ pass[p] = "save"
  /\ SetNext(sr[p], IF known THEN next[sr[p]] ELSE AfterDowntime(fire[p], now[p]))
  /\ owed' = IF fire[p] = None THEN owed ELSE owed \cup {<<sr[p], fire[p]>>}
  /\ pass' = [pass EXCEPT ![p] = IF known THEN "each" ELSE "gate"]
  /\ UNCHANGED <<clock, stored, active, hist, msgVars, now, due, sr, fire,
                 editVars, execVars, crashes>>

Advance(p) ==
  /\ pass[p] = "save"
  /\ SetNext(sr[p], AfterDowntime(fire[p], now[p]))
  /\ owed' = IF fire[p] = None THEN owed ELSE owed \cup {<<sr[p], fire[p]>>}
  /\ pass' = [pass EXCEPT ![p] = "gate"]
  /\ UNCHANGED <<clock, stored, active, hist, msgVars, now, due, sr, fire,
                 editVars, execVars, crashes>>

GateOk(s, t) == s \in MarketAware => t \notin Closed

EndPass(p) ==
  /\ pass' = [pass EXCEPT ![p] = "idle"]
  /\ now' = [now EXCEPT ![p] = 0]
  /\ due' = [due EXCEPT ![p] = {}]
  /\ sr' = [sr EXCEPT ![p] = None]
  /\ fire' = [fire EXCEPT ![p] = None]

\* The schedule was deactivated after it was listed: there is no fire time, and
\* neither the calendar nor the history takes None.  The exception ends the pass.
AbortPass(p) ==
  /\ pass[p] = "gate"
  /\ fire[p] = None
  /\ EndPass(p)
  /\ UNCHANGED <<clock, rowVars, hist, msgVars, owed, editVars, execVars, crashes>>

\* get_or_create of the row that says the market was closed, as best it can: a
\* write that fails is logged, and the pass goes on.
RecordSkip(p) ==
  LET h == <<sr[p], fire[p]>> IN
  /\ pass[p] = "gate"
  /\ fire[p] # None
  /\ ~GateOk(sr[p], fire[p])
  /\ \/ hist[h] = "absent" /\ SetHist(h, "skipped")
     \/ UNCHANGED hist
  /\ pass' = [pass EXCEPT ![p] = "each"]
  /\ UNCHANGED <<clock, rowVars, msgVars, now, due, sr, fire, owed, editVars,
                 execVars, crashes>>

\* Slip: a fire whose row exists is sent once more.
RecordFireAgain(p) ==
  LET h == <<sr[p], fire[p]>> IN
  /\ pass[p] = "gate"
  /\ fire[p] # None
  /\ GateOk(sr[p], fire[p])
  /\ SetHist(h, "pending")
  /\ pass' = [pass EXCEPT ![p] = "send"]
  /\ UNCHANGED <<clock, rowVars, msgVars, now, due, sr, fire, owed, editVars,
                 execVars, crashes>>

\* Slip: the pending row is written as best it can, too.
RecordFireBestEffort(p) ==
  LET h == <<sr[p], fire[p]>> IN
  /\ pass[p] = "gate"
  /\ fire[p] # None
  /\ GateOk(sr[p], fire[p])
  /\ \/ /\ hist[h] = "absent"
        /\ SetHist(h, "pending")
        /\ pass' = [pass EXCEPT ![p] = "send"]
     \/ /\ UNCHANGED hist
        /\ pass' = [pass EXCEPT ![p] = "each"]
  /\ UNCHANGED <<clock, rowVars, msgVars, now, due, sr, fire, owed, editVars,
                 execVars, crashes>>

\* get_or_create of the pending row: who finds the row there does not send it.
RecordFire(p) ==
  LET h == <<sr[p], fire[p]>> IN
  /\ pass[p] = "gate"
  /\ fire[p] # None
  /\ GateOk(sr[p], fire[p])
  /\ SetHist(h, IF hist[h] = "absent" THEN "pending" ELSE hist[h])
  /\ pass' = [pass EXCEPT ![p] = IF hist[h] = "absent" THEN "send" ELSE "each"]
  /\ UNCHANGED <<clock, rowVars, msgVars, now, due, sr, fire, owed, editVars,
                 execVars, crashes>>

Send(p) ==
  /\ pass[p] = "send"
  /\ queue' = [queue EXCEPT ![<<sr[p], fire[p]>>] = @ + 1]
  /\ pass' = [pass EXCEPT ![p] = "each"]
  /\ UNCHANGED <<clock, rowVars, hist, starts, sending, redelivered, now, due,
                 sr, fire, owed, editVars, execVars, crashes>>

FinishPass(p) ==
  /\ pass[p] = "each"
  /\ due[p] = {}
  /\ EndPass(p)
  /\ UNCHANGED <<clock, rowVars, hist, msgVars, owed, editVars, execVars, crashes>>

\* A fire that dies with its dispatcher is owed no more: nobody knows of it.
PassDies(p) ==
  /\ pass[p] # "idle"
  /\ Die
  /\ owed' = IF pass[p] = "gate" THEN owed \ {<<sr[p], fire[p]>>} ELSE owed
  /\ EndPass(p)
  /\ UNCHANGED <<clock, rowVars, hist, msgVars, editVars, execVars>>

-----------------------------------------------------------------------------
(* execute_scheduled_run, and the messages that start it.                   *)

Deliver(e, h) ==
  /\ exec[e] = "idle"
  /\ queue[h] > 0
  /\ queue' = [queue EXCEPT ![h] = @ - 1]
  /\ starts' = [starts EXCEPT ![h] = @ + 1]
  /\ exec' = [exec EXCEPT ![e] = "begin"]
  /\ task' = [task EXCEPT ![e] = h]
  /\ UNCHANGED <<clock, rowVars, hist, sending, redelivered, passVars, editVars,
                 today, placed, linked, orders, raises, crashes>>

\* A worker holds a message back for longer than Redis waits for its
\* acknowledgement: there is a second copy of it now.
Redeliver(h) ==
  /\ queue[h] > 0
  /\ redelivered < MaxRedeliveries
  /\ queue' = [queue EXCEPT ![h] = @ + 1]
  /\ redelivered' = redelivered + 1
  /\ UNCHANGED <<clock, rowVars, hist, starts, sending, passVars, editVars,
                 execVars, crashes>>

EndTask(e) ==
  /\ exec' = [exec EXCEPT ![e] = "idle"]
  /\ task' = [task EXCEPT ![e] = None]
  /\ today' = [today EXCEPT ![e] = 0]
  /\ placed' = [placed EXCEPT ![e] = 0]

\* Whatever the row's status is.
Begin(e) ==
  /\ exec[e] = "begin"
  /\ SetHist(task[e], "running")
  /\ exec' = [exec EXCEPT ![e] = "work"]
  /\ UNCHANGED <<clock, rowVars, msgVars, passVars, editVars, task, today,
                 placed, linked, orders, raises, crashes>>

\* Slip: a fire over its cost ceiling is dropped without a word.
StopEarlySilently(e) ==
  /\ exec[e] = "work"
  /\ EndTask(e)
  /\ UNCHANGED <<clock, rowVars, hist, msgVars, passVars, editVars, linked,
                 orders, raises, crashes>>

\* The watchlist is empty, or the estimate is above the cost ceiling.
StopEarly(e) ==
  /\ exec[e] = "work"
  /\ \E v \in {"done", "skipped"} : SetHist(task[e], v)
  /\ EndTask(e)
  /\ UNCHANGED <<clock, rowVars, msgVars, passVars, editVars, linked, orders,
                 raises, crashes>>

\* Slip: what the schedule has submitted before is not counted.
CountNothing(e) ==
  /\ exec[e] = "work"
  /\ today' = [today EXCEPT ![e] = 0]
  /\ exec' = [exec EXCEPT ![e] = "submit"]
  /\ UNCHANGED <<clock, rowVars, hist, msgVars, passVars, editVars, task, placed,
                 linked, orders, raises, crashes>>

\* _prior_24h: the orders linked to any history row of the schedule.
PriorDay(s) == linked[s]

\* The councils have run; the orders of the last day are counted, once.
CountOrders(e) ==
  /\ exec[e] = "work"
  /\ today' = [today EXCEPT ![e] = PriorDay(task[e][1])]
  /\ exec' = [exec EXCEPT ![e] = "submit"]
  /\ UNCHANGED <<clock, rowVars, hist, msgVars, passVars, editVars, task, placed,
                 linked, orders, raises, crashes>>

\* One ticker's decision becomes an order.
Submit(e) ==
  /\ exec[e] = "submit"
  /\ today[e] < MaxOrders
  /\ today' = [today EXCEPT ![e] = @ + 1]
  /\ placed' = [placed EXCEPT ![e] = @ + 1]
  /\ orders' = [orders EXCEPT ![task[e][1]] = @ + 1]
  /\ UNCHANGED <<clock, rowVars, hist, msgVars, passVars, editVars, exec, task,
                 linked, raises, crashes>>

\* The order was created, and may have reached the venue, when an exception
\* ended its submission: it is neither counted nor linked.
SubmitRaises(e) ==
  /\ exec[e] = "submit"
  /\ today[e] < MaxOrders
  /\ raises < MaxRaises
  /\ raises' = raises + 1
  /\ orders' = [orders EXCEPT ![task[e][1]] = @ + 1]
  /\ UNCHANGED <<clock, rowVars, hist, msgVars, passVars, editVars, exec, task,
                 today, placed, linked, crashes>>

LinkOrders(e) ==
  /\ exec[e] = "submit"
  /\ linked' = [linked EXCEPT ![task[e][1]] = @ + placed[e]]
  /\ exec' = [exec EXCEPT ![e] = "finish"]
  /\ UNCHANGED <<clock, rowVars, hist, msgVars, passVars, editVars, task, today,
                 placed, orders, raises, crashes>>

Finish(e) ==
  /\ exec[e] = "finish"
  /\ SetHist(task[e], "done")
  /\ EndTask(e)
  /\ UNCHANGED <<clock, rowVars, msgVars, passVars, editVars, linked, orders,
                 raises, crashes>>

\* Also an exception: nothing in the task catches one.
ExecutorDies(e) ==
  /\ exec[e] # "idle"
  /\ Die
  /\ EndTask(e)
  /\ UNCHANGED <<clock, rowVars, hist, msgVars, passVars, editVars, linked,
                 orders, raises>>

-----------------------------------------------------------------------------
EditStep(u) == SaveSchedule(u) \/ Reschedule(u)

PassWork(p) ==
  \/ \E s \in Schedules : Load(p, s)
  \/ Advance(p) \/ AbortPass(p) \/ RecordSkip(p) \/ RecordFire(p)
  \/ Send(p) \/ FinishPass(p)

ExecStep(e) ==
  \/ Begin(e) \/ StopEarly(e) \/ CountOrders(e) \/ Submit(e) \/ SubmitRaises(e)
  \/ LinkOrders(e) \/ Finish(e)

Next ==
  \/ Tick
  \/ \E u \in Editors, s \in Schedules, a \in BOOLEAN :
       CreateSchedule(u, s, a) \/ ReadSchedule(u, s, a)
  \/ \E u \in Editors : EditStep(u) \/ EditorDies(u)
  \/ \E h \in Histories : RunNow(h) \/ SendNow(h) \/ RunNowDies(h) \/ Redeliver(h)
  \/ \E p \in Passes : StartPass(p) \/ PassWork(p) \/ PassDies(p)
  \/ \E e \in Executors, h \in Histories : Deliver(e, h)
  \/ \E e \in Executors : ExecStep(e) \/ ExecutorDies(e)

Spec == Init /\ [][Next]_vars

-----------------------------------------------------------------------------
\* "The dispatcher's get_or_create ... is the idempotency guard against
\* double-dispatch": a fire is sent and executed once, whatever passes overlap, however
\* often an edit's save moves next_run_at back; twice only if Redis delivers its
\* message twice.
FiredOnce == \A h \in Histories : starts[h] + queue[h] <= 1 + redelivered

\* A fire of an open day that next_run_at has moved past leaves a history row,
\* also when another pass took it first: as long as the pass that moved it has not
\* recorded it, that pass is alive and about to.  (A closed day's row may be
\* missing though nobody died: its write is best effort.)
OpenDayFireRecorded ==
  \A o \in owed :
    GateOk(o[1], o[2])
      => \/ hist[o] # "absent"
         \/ \E p \in Passes : pass[p] = "gate" /\ <<sr[p], fire[p]>> = o

\* An active schedule has a next fire once its edit has ended: a dispatcher that
\* works on an older row never disarms it.  (For one editor at a time.)
ActiveIsArmed ==
  crashes = 0 =>
    \A s \in stored :
      active[s] /\ (\A u \in Editors : edit[u] = "idle" \/ form[u].sr # s)
        => next[s] # None

\* The daily cap bounds the orders linked to a schedule's history once for every
\* executor that may be at work: each counts before the others have linked theirs,
\* but none that counts after them starts from nothing again.
CapPerExecutor ==
  \A s \in Schedules : linked[s] <= MaxOrders * Cardinality(Executors)

-----------------------------------------------------------------------------
(* Liveness: beat starts passes, tasks are worked on, Redis keeps messages.  *)

Fairness ==
  /\ \A p \in Passes : WF_vars(StartPass(p)) /\ WF_vars(PassWork(p))
  /\ \A e \in Executors : WF_vars(ExecStep(e))
  /\ SF_vars(\E e \in Executors, h \in Histories : Deliver(e, h))

FairSpec == Spec /\ Fairness

\* A due schedule is dealt with: it does not stay due for ever, also when a pass
\* has died after it wrote the history row or an edit has moved next_run_at back.
DueIsTaken == \A s \in Schedules : Due(s, clock) ~> ~Due(s, clock)

\* A fire that was sent ends, if nobody dies.
FireEnds ==
  \A h \in Histories :
    (hist[h] \in {"pending", "running"} /\ (queue[h] > 0 \/ starts[h] > 0))
      ~> (hist[h] \in {"done", "skipped"} \/ crashes > 0)
=============================================================================
