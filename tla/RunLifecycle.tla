---------------------------- MODULE RunLifecycle ----------------------------
(***************************************************************************)
(* The life of a Run row (apps/runs): created by a request or a scheduled  *)
(* task, claimed and executed by a worker, cancelled by its owner, swept   *)
(* when its worker has died.                                               *)
(*                                                                         *)
(* Requests, workers and the sweep share the database only.  The message   *)
(* that starts execute_run waits in Redis; Celery and Redis are outside    *)
(* the repository: a message is delivered, may be delivered again when it  *)
(* stays unacknowledged too long, and is dropped once its task is revoked. *)
(***************************************************************************)
EXTENDS Naturals, FiniteSets

CONSTANTS
  Runs,            \* the rows of Run
  Workers,         \* the children of the Celery worker
  NoRun,           \* what an idle worker executes
  MaxRedeliveries, \* bound: how many messages are delivered twice
  MaxCrashes       \* bound: how many requests and workers die

ASSUME Bounds == MaxRedeliveries \in Nat /\ MaxCrashes \in Nat
ASSUME NoRunIsNone == NoRun \notin Runs
ASSUME FiniteWorkers == IsFiniteSet(Workers)

VARIABLES
  status,      \* Run.status ("absent": not created yet)
  taskid,      \* is Run.celery_task_id set?
  outputs,     \* sets of Decision and AgentMessage rows of the run
  queue,       \* copies of the run's message that wait in Redis
  revoked,     \* has the run's task been revoked?
  creating,    \* the creating request: "none", "row" saved, message "sent"
  cancelling,  \* a cancel request that read the run as active has yet to save
  old,         \* runs created longer ago than the orphan cutoff
  pc,          \* worker: what it does next
  on,          \* worker: the run it executes
  sweep,       \* the sweep: "idle", "inspected" or "listed"
  active,      \* the sweep: the runs the workers reported as active
  todo,        \* the sweep: the listed runs not yet dealt with
  redelivered, \* how many messages were delivered twice
  crashes      \* how many requests and workers have died

rowVars  == <<status, taskid, outputs>>
msgVars  == <<queue, revoked, redelivered>>
webVars  == <<creating, cancelling>>
workVars == <<pc, on>>
sweepVars == <<sweep, active, todo>>
vars == <<rowVars, msgVars, webVars, old, workVars, sweepVars, crashes>>

Active == {"queued", "running"}
Final  == {"done", "failed", "cancelled"}

\* The type invariant; a busy worker has a run.
TypeOK ==
  /\ status \in [Runs -> {"absent"} \cup Active \cup Final]
  /\ taskid \in [Runs -> BOOLEAN]
  /\ outputs \in [Runs -> Nat]
  /\ queue \in [Runs -> Nat]
  /\ revoked \in [Runs -> BOOLEAN]
  /\ creating \in [Runs -> {"none", "row", "sent"}]
  /\ cancelling \in [Runs -> BOOLEAN]
  /\ old \in SUBSET Runs
  /\ pc \in [Workers -> {"idle", "claim", "work", "finish"}]
  /\ on \in [Workers -> Runs \cup {NoRun}]
  /\ sweep \in {"idle", "inspected", "listed"}
  /\ active \in SUBSET Runs
  /\ todo \in SUBSET Runs
  /\ redelivered \in Nat
  /\ crashes \in Nat
  /\ \A w \in Workers : pc[w] # "idle" => on[w] \in Runs

Init ==
  /\ status = [r \in Runs |-> "absent"]
  /\ taskid = [r \in Runs |-> FALSE]
  /\ outputs = [r \in Runs |-> 0]
  /\ queue = [r \in Runs |-> 0]
  /\ revoked = [r \in Runs |-> FALSE]
  /\ creating = [r \in Runs |-> "none"]
  /\ cancelling = [r \in Runs |-> FALSE]
  /\ old = {}
  /\ pc = [w \in Workers |-> "idle"]
  /\ on = [w \in Workers |-> NoRun]
  /\ sweep = "idle"
  /\ active = {}
  /\ todo = {}
  /\ redelivered = 0
  /\ crashes = 0

SetStatus(r, s) == status' = [status EXCEPT ![r] = s]

\* A conditional UPDATE: it changes the rows whose status is in S only.
UpdateIf(r, S, s) == SetStatus(r, IF status[r] \in S THEN s ELSE status[r])

Executing(r) == \E w \in Workers : pc[w] # "idle" /\ on[w] = r

EndTask(w) ==
  /\ pc' = [pc EXCEPT ![w] = "idle"]
  /\ on' = [on EXCEPT ![w] = NoRun]

-----------------------------------------------------------------------------
(* Creating runs: the row, the message, the task id.                       *)

\* Also a rerun: a new row with the payload of a run that has ended.
CreateRun(r) ==
  /\ status[r] = "absent"
  /\ SetStatus(r, "queued")
  /\ creating' = [creating EXCEPT ![r] = "row"]
  /\ UNCHANGED <<taskid, outputs, msgVars, cancelling, old, workVars, sweepVars,
                 crashes>>

Enqueue(r) ==
  /\ creating[r] = "row"
  /\ creating' = [creating EXCEPT ![r] = "sent"]
  /\ queue' = [queue EXCEPT ![r] = @ + 1]
  /\ UNCHANGED <<rowVars, revoked, redelivered, cancelling, old, workVars,
                 sweepVars, crashes>>

StoreTaskId(r) ==
  /\ creating[r] = "sent"
  /\ creating' = [creating EXCEPT ![r] = "none"]
  /\ taskid' = [taskid EXCEPT ![r] = TRUE]
  /\ UNCHANGED <<status, outputs, msgVars, cancelling, old, workVars, sweepVars,
                 crashes>>

\* Slip: the scheduled task also sends the message.
ExecuteAndEnqueue(w, r) ==
  /\ status[r] = "absent"
  /\ pc[w] = "idle"
  /\ SetStatus(r, "queued")
  /\ pc' = [pc EXCEPT ![w] = "claim"]
  /\ on' = [on EXCEPT ![w] = r]
  /\ queue' = [queue EXCEPT ![r] = @ + 1]
  /\ UNCHANGED <<taskid, outputs, revoked, redelivered, webVars, old, sweepVars,
                 crashes>>

\* A scheduled task creates a run and executes it in its own process: no
\* message, no task id.
ExecuteInProcess(w, r) ==
  /\ status[r] = "absent"
  /\ pc[w] = "idle"
  /\ SetStatus(r, "queued")
  /\ pc' = [pc EXCEPT ![w] = "claim"]
  /\ on' = [on EXCEPT ![w] = r]
  /\ UNCHANGED <<taskid, outputs, msgVars, webVars, old, sweepVars, crashes>>

-----------------------------------------------------------------------------
(* Messages.                                                               *)

Deliver(w, r) ==
  /\ queue[r] > 0
  /\ ~revoked[r]
  /\ pc[w] = "idle"
  /\ queue' = [queue EXCEPT ![r] = @ - 1]
  /\ pc' = [pc EXCEPT ![w] = "claim"]
  /\ on' = [on EXCEPT ![w] = r]
  /\ UNCHANGED <<rowVars, revoked, redelivered, webVars, old, sweepVars, crashes>>

\* A worker holds a message back for longer than Redis waits for its
\* acknowledgement: there is a second copy of it now.
Redeliver(r) ==
  /\ queue[r] > 0
  /\ redelivered < MaxRedeliveries
  /\ queue' = [queue EXCEPT ![r] = @ + 1]
  /\ redelivered' = redelivered + 1
  /\ UNCHANGED <<rowVars, revoked, webVars, old, workVars, sweepVars, crashes>>

DropRevoked(r) ==
  /\ queue[r] > 0
  /\ revoked[r]
  /\ queue' = [queue EXCEPT ![r] = @ - 1]
  /\ UNCHANGED <<rowVars, revoked, redelivered, webVars, old, workVars,
                 sweepVars, crashes>>

\* SIGTERM reaches the child that executes a revoked task.
KillRevoked(w) ==
  /\ pc[w] # "idle"
  /\ revoked[on[w]]
  /\ EndTask(w)
  /\ UNCHANGED <<rowVars, msgVars, webVars, old, sweepVars, crashes>>

-----------------------------------------------------------------------------
(* execute_run.                                                            *)

\* Slip: the worker takes the run whatever its status.
ClaimAny(w) ==
  /\ pc[w] = "claim"
  /\ SetStatus(on[w], "running")
  /\ pc' = [pc EXCEPT ![w] = "work"]
  /\ UNCHANGED <<taskid, outputs, msgVars, webVars, old, on, sweepVars, crashes>>

\* The claim takes queued and running rows.
Claim(w) ==
  /\ pc[w] = "claim"
  /\ status[on[w]] \in Active
  /\ SetStatus(on[w], "running")
  /\ pc' = [pc EXCEPT ![w] = "work"]
  /\ UNCHANGED <<taskid, outputs, msgVars, webVars, old, on, sweepVars, crashes>>

ClaimRefused(w) ==
  /\ pc[w] = "claim"
  /\ status[on[w]] \notin Active
  /\ EndTask(w)
  /\ UNCHANGED <<rowVars, msgVars, webVars, old, sweepVars, crashes>>

\* The council has decided: its messages and decisions are inserted.
PersistOutputs(w) ==
  /\ pc[w] = "work"
  /\ outputs' = [outputs EXCEPT ![on[w]] = @ + 1]
  /\ pc' = [pc EXCEPT ![w] = "finish"]
  /\ UNCHANGED <<status, taskid, msgVars, webVars, old, on, sweepVars, crashes>>

Finish(w) ==
  /\ pc[w] = "finish"
  /\ UpdateIf(on[w], {"running"}, "done")
  /\ EndTask(w)
  /\ UNCHANGED <<taskid, outputs, msgVars, webVars, old, sweepVars, crashes>>

\* An exception, the budget or the soft time limit ends the execution.
Fail(w) ==
  /\ pc[w] \in {"work", "finish"}
  /\ UpdateIf(on[w], {"running"}, "failed")
  /\ EndTask(w)
  /\ UNCHANGED <<taskid, outputs, msgVars, webVars, old, sweepVars, crashes>>

-----------------------------------------------------------------------------
(* RunCancelView: read the row, revoke the task, save.                     *)

StartCancel(r) ==
  /\ status[r] \in Active
  /\ ~cancelling[r]
  /\ cancelling' = [cancelling EXCEPT ![r] = TRUE]
  /\ revoked' = [revoked EXCEPT ![r] = @ \/ taskid[r]]
  /\ UNCHANGED <<rowVars, queue, redelivered, creating, old, workVars, sweepVars,
                 crashes>>

\* Slip: only a run that has been started is cancelled.
SaveCancelRunning(r) ==
  /\ cancelling[r]
  /\ UpdateIf(r, {"running"}, "cancelled")
  /\ cancelling' = [cancelling EXCEPT ![r] = FALSE]
  /\ UNCHANGED <<taskid, outputs, msgVars, creating, old, workVars, sweepVars,
                 crashes>>

SaveCancel(r) ==
  /\ cancelling[r]
  /\ SetStatus(r, "cancelled")
  /\ cancelling' = [cancelling EXCEPT ![r] = FALSE]
  /\ UNCHANGED <<taskid, outputs, msgVars, creating, old, workVars, sweepVars,
                 crashes>>

-----------------------------------------------------------------------------
(* sweep_orphan_runs.                                                      *)

PassCutoff(r) ==
  /\ status[r] \in Active
  /\ r \notin old
  /\ old' = old \cup {r}
  /\ UNCHANGED <<rowVars, msgVars, webVars, workVars, sweepVars, crashes>>

\* Slip: only runs that were never started count as orphans.
CandidatesQueued == {r \in old : status[r] = "queued" /\ taskid[r]}

Candidates == {r \in old : status[r] = "running" /\ taskid[r]}

\* If there is a candidate at all, the workers are asked what they execute ...
Inspect ==
  /\ sweep = "idle"
  /\ Candidates # {}
  /\ active' = {r \in Runs : Executing(r)}
  /\ sweep' = "inspected"
  /\ UNCHANGED <<rowVars, msgVars, webVars, old, workVars, todo, crashes>>

\* ... and then the candidates are listed by a query of their own.
ListCandidates ==
  /\ sweep = "inspected"
  /\ todo' = Candidates
  /\ sweep' = "listed"
  /\ UNCHANGED <<rowVars, msgVars, webVars, old, workVars, active, crashes>>

SweepRun(r) ==
  /\ sweep = "listed"
  /\ r \in todo
  /\ todo' = todo \ {r}
  /\ IF r \in active THEN UNCHANGED status
                     ELSE UpdateIf(r, {"running"}, "failed")
  /\ UNCHANGED <<taskid, outputs, msgVars, webVars, old, workVars, sweep, active,
                 crashes>>

EndSweep ==
  /\ sweep = "listed"
  /\ todo = {}
  /\ sweep' = "idle"
  /\ active' = {}
  /\ UNCHANGED <<rowVars, msgVars, webVars, old, workVars, todo, crashes>>

-----------------------------------------------------------------------------
(* Deaths: what was committed or sent stays.                               *)

Die == crashes < MaxCrashes /\ crashes' = crashes + 1

\* Also an exception before execute_run enters its try block.
WorkerDies(w) ==
  /\ pc[w] # "idle"
  /\ Die
  /\ EndTask(w)
  /\ UNCHANGED <<rowVars, msgVars, webVars, old, sweepVars>>

CreatorDies(r) ==
  /\ creating[r] # "none"
  /\ Die
  /\ creating' = [creating EXCEPT ![r] = "none"]
  /\ UNCHANGED <<rowVars, msgVars, cancelling, old, workVars, sweepVars>>

CancelDies(r) ==
  /\ cancelling[r]
  /\ Die
  /\ cancelling' = [cancelling EXCEPT ![r] = FALSE]
  /\ UNCHANGED <<rowVars, msgVars, creating, old, workVars, sweepVars>>

-----------------------------------------------------------------------------
RunStep(r) ==
  \/ CreateRun(r) \/ Enqueue(r) \/ StoreTaskId(r)
  \/ Redeliver(r) \/ DropRevoked(r)
  \/ StartCancel(r) \/ SaveCancel(r)
  \/ PassCutoff(r) \/ SweepRun(r)
  \/ CreatorDies(r) \/ CancelDies(r)

WorkerStep(w) ==
  \/ Claim(w) \/ ClaimRefused(w) \/ PersistOutputs(w)
  \/ Finish(w) \/ Fail(w) \/ KillRevoked(w) \/ WorkerDies(w)

Next ==
  \/ \E r \in Runs : RunStep(r)
  \/ \E w \in Workers, r \in Runs : Deliver(w, r) \/ ExecuteInProcess(w, r)
  \/ \E w \in Workers : WorkerStep(w)
  \/ Inspect \/ ListCandidates \/ EndSweep

Spec == Init /\ [][Next]_vars

-----------------------------------------------------------------------------
\* A run that has ended is never put back to work, and a cancelled or failed
\* run never turns out done: late workers, second deliveries and sweeps leave a
\* final status alone.  Only a cancel may still replace another final status.
NeverRevived ==
  [][\A r \in Runs :
       status[r] \in Final /\ status'[r] # status[r]
         => status'[r] = "cancelled"]_vars

\* Every message, and every execution inside a scheduled task, writes the
\* outputs of a run at most once: more than one set needs a second delivery.
OutputsPerDelivery == \A r \in Runs : outputs[r] <= 1 + redelivered

\* "a QUEUED run has not started - it is waiting in the broker": as long as
\* nobody dies, a queued run has a message, or somebody is at work on it.  Were
\* it otherwise, nothing would ever end it: the sweep passes queued runs over.
QueuedIsWaiting ==
  crashes = 0 =>
    \A r \in Runs :
      status[r] = "queued" =>
        queue[r] > 0 \/ creating[r] # "none" \/ cancelling[r] \/ Executing(r)

-----------------------------------------------------------------------------
(* Liveness: tasks have time limits, workers become free, requests end or  *)
(* die, Redis keeps messages, and the sweep runs every five minutes.       *)

Fairness ==
  /\ \A w \in Workers : WF_vars(WorkerStep(w) /\ crashes' = crashes)
  /\ \A r \in Runs : /\ SF_vars(\E w \in Workers : Deliver(w, r))
                     /\ WF_vars(SaveCancel(r))
                     /\ WF_vars(PassCutoff(r))
                     /\ WF_vars(SweepRun(r))
  /\ SF_vars(Inspect)
  /\ WF_vars(ListCandidates)
  /\ WF_vars(EndSweep)

FairSpec == Spec /\ Fairness

\* A run that was started, and whose task id is stored, ends, also when its
\* worker dies: the sweep finds it.
StartedRunEnds ==
  \A r \in Runs : status[r] = "running" /\ taskid[r] ~> status[r] \in Final
=============================================================================
