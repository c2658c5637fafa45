------------------------- MODULE BacktestLifecycle -------------------------
(***************************************************************************)
(* The life of a Backtest row (apps/backtests): created by a request,      *)
(* claimed by one worker that walks it forward and reports progress,       *)
(* cancelled or deleted by its owner, swept when it seems abandoned.       *)
(* Celery and Redis are modelled as in RunLifecycle.                       *)
(***************************************************************************)
EXTENDS Naturals, FiniteSets

CONSTANTS
  Backtests,       \* the rows of Backtest
  Workers,         \* the children of the Celery worker
  NoBacktest,      \* what an idle worker executes
  MaxRedeliveries, \* bound: how many messages are delivered twice
  MaxCrashes       \* bound: how many requests and workers die

ASSUME Bounds == MaxRedeliveries \in Nat /\ MaxCrashes \in Nat
ASSUME NoBacktestIsNone == NoBacktest \notin Backtests

VARIABLES
  status,      \* Backtest.status; "absent" before, "deleted" after its life
  taskid,      \* is celery_task_id set?
  fresh,       \* is heartbeat_at within the orphan threshold?
  walks,       \* how many executions have written folds and metrics
  queue,       \* copies of the message that starts the backtest
  revoked,     \* has its task been revoked?
  creating,    \* the creating request: "none", "row" saved, message "sent"
  cancelling,  \* a cancel request has read the row as active
  deleting,    \* a delete request has read the row as deletable
  old,         \* backtests created longer ago than the threshold
  pc,          \* worker: what it does next
  on,          \* worker: the backtest it executes
  sweep,       \* the sweep: "idle", "inspected" or "listed"
  live,        \* the sweep: the backtests whose task a worker reported
  todo,        \* the sweep: the listed rows it is going to fail
  redelivered, \* how many messages were delivered twice
  crashes      \* how many requests and workers have died

rowVars  == <<status, taskid, fresh, walks>>
msgVars  == <<queue, revoked, redelivered>>
webVars  == <<creating, cancelling, deleting>>
workVars == <<pc, on>>
sweepVars == <<sweep, live, todo>>
vars == <<rowVars, msgVars, webVars, old, workVars, sweepVars, crashes>>

\* "aborted" stands for aborted_budget and aborted_partial.
Active    == {"queued", "running"}
Final     == {"done", "failed", "cancelled", "aborted"}
Deletable == {"cancelled", "aborted"}
Steps     == {"idle", "claim", "walk", "finish", "failing"}

\* The type invariant; a busy worker has a backtest.
TypeOK ==
  /\ status \in [Backtests -> {"absent", "deleted"} \cup Active \cup Final]
  /\ taskid \in [Backtests -> BOOLEAN]
  /\ fresh \in [Backtests -> BOOLEAN]
  /\ walks \in [Backtests -> Nat]
  /\ queue \in [Backtests -> Nat]
  /\ revoked \in [Backtests -> BOOLEAN]
  /\ creating \in [Backtests -> {"none", "row", "sent"}]
  /\ cancelling \in [Backtests -> BOOLEAN]
  /\ deleting \in [Backtests -> BOOLEAN]
  /\ old \in SUBSET Backtests
  /\ pc \in [Workers -> Steps]
  /\ on \in [Workers -> Backtests \cup {NoBacktest}]
  /\ sweep \in {"idle", "inspected", "listed"}
  /\ live \in SUBSET Backtests
  /\ todo \in SUBSET Backtests
  /\ redelivered \in Nat
  /\ crashes \in Nat
  /\ \A w \in Workers : pc[w] # "idle" => on[w] \in Backtests

Init ==
  /\ status = [b \in Backtests |-> "absent"]
  /\ taskid = [b \in Backtests |-> FALSE]
  /\ fresh = [b \in Backtests |-> FALSE]
  /\ walks = [b \in Backtests |-> 0]
  /\ queue = [b \in Backtests |-> 0]
  /\ revoked = [b \in Backtests |-> FALSE]
  /\ creating = [b \in Backtests |-> "none"]
  /\ cancelling = [b \in Backtests |-> FALSE]
  /\ deleting = [b \in Backtests |-> FALSE]
  /\ old = {}
  /\ pc = [w \in Workers |-> "idle"]
  /\ on = [w \in Workers |-> NoBacktest]
  /\ sweep = "idle"
  /\ live = {}
  /\ todo = {}
  /\ redelivered = 0
  /\ crashes = 0

\* .save(update_fields=["status", ...]): writes whatever the row holds by now;
\* of a deleted row it raises and writes nothing.
Save(b, s) ==
  status' = [status EXCEPT ![b] = IF @ = "deleted" THEN @ ELSE s]

Executing(b) == \E w \in Workers : pc[w] # "idle" /\ on[w] = b

StartTask(w, b) ==
  /\ pc[w] = "idle"
  /\ pc' = [pc EXCEPT ![w] = "claim"]
  /\ on' = [on EXCEPT ![w] = b]

EndTask(w) ==
  /\ pc' = [pc EXCEPT ![w] = "idle"]
  /\ on' = [on EXCEPT ![w] = NoBacktest]

-----------------------------------------------------------------------------
(* Creating backtests; messages.                                           *)

CreateBacktest(b) ==
  /\ status[b] = "absent"
  /\ status' = [status EXCEPT ![b] = "queued"]
  /\ creating' = [creating EXCEPT ![b] = "row"]
  /\ UNCHANGED <<taskid, fresh, walks, msgVars, cancelling, deleting, old,
                 workVars, sweepVars, crashes>>

Enqueue(b) ==
  /\ creating[b] = "row"
  /\ creating' = [creating EXCEPT ![b] = "sent"]
  /\ queue' = [queue EXCEPT ![b] = @ + 1]
  /\ UNCHANGED <<rowVars, revoked, redelivered, cancelling, deleting, old,
                 workVars, sweepVars, crashes>>

StoreTaskId(b) ==
  /\ creating[b] = "sent"
  /\ creating' = [creating EXCEPT ![b] = "none"]
  /\ taskid' = [taskid EXCEPT ![b] = TRUE]
  /\ UNCHANGED <<status, fresh, walks, msgVars, cancelling, deleting, old,
                 workVars, sweepVars, crashes>>

Deliver(w, b) ==
  /\ queue[b] > 0
  /\ ~revoked[b]
  /\ queue' = [queue EXCEPT ![b] = @ - 1]
  /\ StartTask(w, b)
  /\ UNCHANGED <<rowVars, revoked, redelivered, webVars, old, sweepVars, crashes>>

Redeliver(b) ==
  /\ queue[b] > 0
  /\ redelivered < MaxRedeliveries
  /\ queue' = [queue EXCEPT ![b] = @ + 1]
  /\ redelivered' = redelivered + 1
  /\ UNCHANGED <<rowVars, revoked, webVars, old, workVars, sweepVars, crashes>>

DropRevoked(b) ==
  /\ queue[b] > 0
  /\ revoked[b]
  /\ queue' = [queue EXCEPT ![b] = @ - 1]
  /\ UNCHANGED <<rowVars, revoked, redelivered, webVars, old, workVars,
                 sweepVars, crashes>>

\* SIGTERM reaches the child that executes a revoked task.
KillRevoked(w) ==
  /\ pc[w] # "idle"
  /\ revoked[on[w]]
  /\ EndTask(w)
  /\ UNCHANGED <<rowVars, msgVars, webVars, old, sweepVars, crashes>>

-----------------------------------------------------------------------------
(* run_backtest and run_walkforward.                                       *)

\* Slip: a running row may be claimed again.
ClaimActive(w) ==
  /\ pc[w] = "claim"
  /\ status[on[w]] \in Active
  /\ status' = [status EXCEPT ![on[w]] = "running"]
  /\ fresh' = [fresh EXCEPT ![on[w]] = TRUE]
  /\ pc' = [pc EXCEPT ![w] = "walk"]
  /\ UNCHANGED <<taskid, walks, msgVars, webVars, old, on, sweepVars, crashes>>

\* The claim: a conditional UPDATE queued -> running.
Claim(w) ==
  /\ pc[w] = "claim"
  /\ status[on[w]] = "queued"
  /\ status' = [status EXCEPT ![on[w]] = "running"]
  /\ fresh' = [fresh EXCEPT ![on[w]] = TRUE]
  /\ pc' = [pc EXCEPT ![w] = "walk"]
  /\ UNCHANGED <<taskid, walks, msgVars, webVars, old, on, sweepVars, crashes>>

ClaimRefused(w) ==
  /\ pc[w] = "claim"
  /\ status[on[w]] # "queued"
  /\ EndTask(w)
  /\ UNCHANGED <<rowVars, msgVars, webVars, old, sweepVars, crashes>>

\* No fold fits the window: `failed`.
NoFolds(w) ==
  /\ pc[w] = "walk"
  /\ Save(on[w], "failed")
  /\ EndTask(w)
  /\ UNCHANGED <<taskid, fresh, walks, msgVars, webVars, old, sweepVars, crashes>>

\* _save_progress: a step of the walk is reported.
Progress(w) ==
  /\ pc[w] = "walk"
  /\ fresh' = [fresh EXCEPT ![on[w]] = TRUE]
  /\ UNCHANGED <<status, taskid, walks, msgVars, webVars, old, workVars,
                 sweepVars, crashes>>

\* The folds, days and metrics are written.
WriteResults(w) ==
  /\ pc[w] = "walk"
  /\ status[on[w]] # "deleted"
  /\ walks' = [walks EXCEPT ![on[w]] = @ + 1]
  /\ pc' = [pc EXCEPT ![w] = "finish"]
  /\ UNCHANGED <<status, taskid, fresh, msgVars, webVars, old, on, sweepVars,
                 crashes>>

Finish(w) ==
  /\ pc[w] = "finish"
  /\ Save(on[w], "done")
  /\ fresh' = [fresh EXCEPT ![on[w]] = TRUE]
  /\ EndTask(w)
  /\ UNCHANGED <<taskid, walks, msgVars, webVars, old, sweepVars, crashes>>

\* An exception, the budget, missing data or the soft time limit: the task
\* reads the status and, unless the row is cancelled, goes on to save another.
Fail(w) ==
  /\ pc[w] \in {"walk", "finish"}
  /\ IF status[on[w]] = "cancelled"
     THEN EndTask(w)
     ELSE pc' = [pc EXCEPT ![w] = "failing"] /\ UNCHANGED on
  /\ UNCHANGED <<rowVars, msgVars, webVars, old, sweepVars, crashes>>

SaveFailure(w) ==
  /\ pc[w] = "failing"
  /\ \E s \in {"failed", "aborted"} : Save(on[w], s)
  /\ EndTask(w)
  /\ UNCHANGED <<taskid, fresh, walks, msgVars, webVars, old, sweepVars, crashes>>

-----------------------------------------------------------------------------
(* Cancelling and deleting.                                                *)

StartCancel(b) ==
  /\ status[b] \in Active
  /\ ~cancelling[b]
  /\ cancelling' = [cancelling EXCEPT ![b] = TRUE]
  /\ revoked' = [revoked EXCEPT ![b] = @ \/ taskid[b]]
  /\ UNCHANGED <<rowVars, queue, redelivered, creating, deleting, old, workVars,
                 sweepVars, crashes>>

\* Slip: the cancel is saved whatever the row has become.
SaveCancelAny(b) ==
  /\ cancelling[b]
  /\ Save(b, "cancelled")
  /\ cancelling' = [cancelling EXCEPT ![b] = FALSE]
  /\ UNCHANGED <<taskid, fresh, walks, msgVars, creating, deleting, old, workVars,
                 sweepVars, crashes>>

\* A conditional UPDATE: only a row that is still active is cancelled.
SaveCancel(b) ==
  /\ cancelling[b]
  /\ status' = [status EXCEPT ![b] = IF @ \in Active THEN "cancelled" ELSE @]
  /\ cancelling' = [cancelling EXCEPT ![b] = FALSE]
  /\ UNCHANGED <<taskid, fresh, walks, msgVars, creating, deleting, old, workVars,
                 sweepVars, crashes>>

StartDelete(b) ==
  /\ status[b] \in Deletable
  /\ ~deleting[b]
  /\ deleting' = [deleting EXCEPT ![b] = TRUE]
  /\ UNCHANGED <<rowVars, msgVars, creating, cancelling, old, workVars, sweepVars,
                 crashes>>

Delete(b) ==
  /\ deleting[b]
  /\ status' = [status EXCEPT ![b] = "deleted"]
  /\ deleting' = [deleting EXCEPT ![b] = FALSE]
  /\ UNCHANGED <<taskid, fresh, walks, msgVars, creating, cancelling, old,
                 workVars, sweepVars, crashes>>

-----------------------------------------------------------------------------
(* sweep_orphan_backtests.                                                 *)

\* Fifteen minutes pass since the row was created, or since its heartbeat.
PassCutoff(b) ==
  /\ status[b] \in Active
  /\ b \notin old
  /\ old' = old \cup {b}
  /\ UNCHANGED <<rowVars, msgVars, webVars, workVars, sweepVars, crashes>>

HeartbeatAges(b) ==
  /\ fresh[b]
  /\ fresh' = [fresh EXCEPT ![b] = FALSE]
  /\ UNCHANGED <<status, taskid, walks, msgVars, webVars, old, workVars,
                 sweepVars, crashes>>

\* Slip: only running rows are looked at.
CandidatesRunning == {b \in old : status[b] = "running"}

Candidates == {b \in old : status[b] \in Active}

\* The workers are asked in turn for their active, reserved and scheduled tasks.
\* A probe nobody answers counts as empty, a task may change from one list to
\* another between the probes, and a message still in Redis is in none.
Inspect ==
  /\ sweep = "idle"
  /\ Candidates # {}
  /\ live' \in SUBSET {b \in Backtests : Executing(b) \/ queue[b] > 0}
  /\ sweep' = "inspected"
  /\ UNCHANGED <<rowVars, msgVars, webVars, old, workVars, todo, crashes>>

\* The rows are listed by a query of their own; task id and heartbeat are
\* judged on the listed copies.
ListCandidates ==
  /\ sweep = "inspected"
  /\ todo' = {b \in Candidates : ~(taskid[b] /\ b \in live) /\ ~fresh[b]}
  /\ sweep' = "listed"
  /\ UNCHANGED <<rowVars, msgVars, webVars, old, workVars, live, crashes>>

\* The save of a row that was deleted meanwhile raises and ends the sweep.
SweepBacktest(b) ==
  /\ sweep = "listed"
  /\ b \in todo
  /\ todo' = IF status[b] = "deleted" THEN {} ELSE todo \ {b}
  /\ Save(b, "failed")
  /\ UNCHANGED <<taskid, fresh, walks, msgVars, webVars, old, workVars, sweep,
                 live, crashes>>

EndSweep ==
  /\ sweep = "listed"
  /\ todo = {}
  /\ sweep' = "idle"
  /\ live' = {}
  /\ UNCHANGED <<rowVars, msgVars, webVars, old, workVars, todo, crashes>>

-----------------------------------------------------------------------------
(* Deaths: what was committed or sent stays.                               *)

Die == crashes < MaxCrashes /\ crashes' = crashes + 1

\* Also the hard time limit, and a save that raises in the failure path.
WorkerDies(w) ==
  /\ pc[w] # "idle"
  /\ Die
  /\ EndTask(w)
  /\ UNCHANGED <<rowVars, msgVars, webVars, old, sweepVars>>

RequestDies(b) ==
  /\ Die
  /\ \/ /\ creating[b] # "none"
        /\ creating' = [creating EXCEPT ![b] = "none"]
        /\ UNCHANGED <<cancelling, deleting>>
     \/ /\ cancelling[b]
        /\ cancelling' = [cancelling EXCEPT ![b] = FALSE]
        /\ UNCHANGED <<creating, deleting>>
     \/ /\ deleting[b]
        /\ deleting' = [deleting EXCEPT ![b] = FALSE]
        /\ UNCHANGED <<creating, cancelling>>
  /\ UNCHANGED <<rowVars, msgVars, old, workVars, sweepVars>>

-----------------------------------------------------------------------------
BacktestStep(b) ==
  \/ CreateBacktest(b) \/ Enqueue(b) \/ StoreTaskId(b)
  \/ Redeliver(b) \/ DropRevoked(b)
  \/ StartCancel(b) \/ SaveCancel(b) \/ StartDelete(b) \/ Delete(b)
  \/ PassCutoff(b) \/ HeartbeatAges(b) \/ SweepBacktest(b)
  \/ RequestDies(b)

TaskStep(w) ==
  \/ Claim(w) \/ ClaimRefused(w) \/ NoFolds(w) \/ WriteResults(w)
  \/ Finish(w) \/ Fail(w) \/ SaveFailure(w) \/ KillRevoked(w) \/ WorkerDies(w)

Next ==
  \/ \E b \in Backtests : BacktestStep(b)
  \/ \E w \in Workers, b \in Backtests : Deliver(w, b)
  \/ \E w \in Workers : TaskStep(w) \/ Progress(w)
  \/ Inspect \/ ListCandidates \/ EndSweep

Spec == Init /\ [][Next]_vars

-----------------------------------------------------------------------------
Walking(w, b) == pc[w] \in {"walk", "finish", "failing"} /\ on[w] = b

\* A backtest is executed by one worker and once, however often its message is
\* delivered and whatever the sweep and its owner do to the row: its folds are
\* written at most once, and never by two workers.
OneExecution ==
  \A b \in Backtests :
    /\ walks[b] <= 1
    /\ \A v, w \in Workers : Walking(v, b) /\ Walking(w, b) => v = w

\* Once no worker walks a backtest that has ended, its outcome stands: a message
\* delivered late, or a cancel that raced the worker's own end, changes nothing.
\* Only the sweep's save may still turn it to failed, and its owner delete it.
EndedStaysEnded ==
  [][\A b \in Backtests :
       status[b] \in Final /\ (\A w \in Workers : ~Walking(w, b))
         => status'[b] \in {status[b], "failed", "deleted"}]_vars

-----------------------------------------------------------------------------
(* Liveness: the walk ends (time limits), workers become free, messages    *)
(* are kept, time passes, and the sweep runs every five minutes.           *)

Fairness ==
  /\ \A w \in Workers : WF_vars(TaskStep(w) /\ crashes' = crashes)
  /\ \A b \in Backtests : /\ SF_vars(\E w \in Workers : Deliver(w, b))
                          /\ WF_vars(DropRevoked(b))
                          /\ WF_vars(PassCutoff(b))
                          /\ SF_vars(HeartbeatAges(b) /\ ~Executing(b))
                          /\ WF_vars(SweepBacktest(b))
  /\ SF_vars(Inspect)
  /\ WF_vars(ListCandidates)
  /\ WF_vars(EndSweep)

FairSpec == Spec /\ Fairness

\* A backtest does not stay queued or running for ever, also when the request
\* dies before it sends the message or the worker dies during the walk.
BacktestEnds ==
  \A b \in Backtests : status[b] \in Active ~> status[b] \notin Active
=============================================================================
