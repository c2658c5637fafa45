----------------------------- MODULE StrategyCycle -----------------------------
(***************************************************************************)
(* A strategy's cycles of one day (apps/portfolios/tasks.py, runs_bridge.py, *)
(* the cycle endpoints of views.py, the terminal hook of autopilot.py): a    *)
(* cycle screens, resolves the row it writes into, sends one council per     *)
(* candidate to the workers and a callback that waits for all of them; the   *)
(* callback constructs the target and emits orders.  Cycles started again,   *)
(* approvals and rejections act on the same row meanwhile.                   *)
(***************************************************************************)
EXTENDS Naturals, FiniteSets

CONSTANTS
  Starters,    \* executions of daily_long_short_cycle
  Fires,       \* those that an autopilot's run_autopilot_cycle makes
  Requests,    \* approvals and rejections of the user
  Candidates,  \* tickers the screener proposes
  LastTarget,  \* bound: rows of the day
  Flavors,     \* what the strategy may be: with a council, or computed alone
  MaxFaults    \* bound: exceptions and deaths

ASSUME Kinds ==
  /\ IsFiniteSet(Starters) /\ IsFiniteSet(Requests)
  /\ Fires \subseteq Starters
  /\ Starters \cap Requests = {}
  /\ Flavors \subseteq {"council", "computed"}
ASSUME Bounds == LastTarget \in Nat /\ MaxFaults \in Nat

Procs == Starters \cup Requests
Targets == 1..LastTarget
None == 0            \* no row; rows are numbered as they are created
Nobody == "nobody"   \* no task id stored
ASSUME NobodyIsNoProc == Nobody \notin Procs

VARIABLES
  row,      \* PortfolioTarget rows: status, superseded_by, celery_task_id
  run,      \* a row's candidate runs: status and the task that claimed it
  job,      \* what each task or request does next, on which row
  task,     \* run_candidate_council of each candidate of a process's chord
  final,    \* its callback, or the rest of a computed cycle
  held,     \* processes whose orders are held for the open
  rejected, \* auxiliary: rows the user has ever rejected
  crossed,  \* auxiliary: emissions that another one has overtaken
  faults

auxVars == <<rejected, crossed>>
vars == <<row, run, job, task, final, held, auxVars, faults>>

Active == {"screening", "awaiting_review", "running_council", "constructing", "running"}
Statuses == Active \cup {"none", "done", "failed", "cancelled", "autopilot_submitted"}
Reused == {"done", "awaiting_review", "running_council", "constructing", "running"}
\* What uniq_active_strategy_target_per_day admits once.
Live == Statuses \ {"none", "failed", "cancelled"}

Steps == {"idle", "asked", "screening", "resolved", "created", "council", "sent",
          "rejecting", "done"}
Finals == {"none", "due", "constructing", "saved", "emitting", "placed", "over"}

TypeOK ==
  /\ row \in [Targets -> [status : Statuses, by : Targets \cup {None},
                          chord : Procs \cup {Nobody}]]
  /\ run \in [Targets -> [Candidates ->
               [status : {"none", "queued", "running", "done", "failed", "cancelled"},
                task : Procs \cup {Nobody}]]]
  /\ job \in [Procs -> [at : Steps, t : Targets \cup {None}, old : Targets \cup {None},
                        flavor : {"council", "computed"}]]
  /\ task \in [Procs -> [Candidates ->
               {"none", "queued", "loaded", "judging", "judged", "unjudged", "lost"}]]
  /\ final \in [Procs -> [at : Finals, by : Targets \cup {None},
                          chord : Procs \cup {Nobody}, late : BOOLEAN]]
  /\ rejected \subseteq Targets /\ held \subseteq Procs /\ crossed \subseteq Procs
  /\ faults \in Nat

NoRow == [status |-> "none", by |-> None, chord |-> Nobody]
\* late (auxiliary): the row was cancelled while the process had it.
Waiting == [at |-> "none", by |-> None, chord |-> Nobody, late |-> FALSE]

Init ==
  /\ row = [t \in Targets |-> NoRow]
  /\ run = [t \in Targets |-> [c \in Candidates |-> [status |-> "none", task |-> Nobody]]]
  /\ job = [p \in Procs |-> [at |-> "idle", t |-> None, old |-> None, flavor |-> "council"]]
  /\ task = [p \in Procs |-> [c \in Candidates |-> "none"]]
  /\ final = [p \in Procs |-> Waiting]
  /\ held = {} /\ rejected = {} /\ crossed = {}
  /\ faults = 0

-----------------------------------------------------------------------------
(* Rows.                                                                    *)

Goes(p, step) == job' = [job EXCEPT ![p].at = step]
Ends(p, step) == final' = [final EXCEPT ![p].at = step]
Over(p) == final' = [final EXCEPT ![p] = [Waiting EXCEPT !.at = "over"]]

\* A save that would make t the second live row of the day raises.
Admits(t, status) == status \in Live => \A u \in Targets \ {t} : row[u].status \notin Live

SetStatus(t, status) == row' = [row EXCEPT ![t].status = status]

\* p has taken the row t up and not finished with it.
HasRow(p, t) ==
  /\ job[p].t = t
  /\ job[p].at \in {"resolved", "created", "council", "sent"}
     \/ final[p].at \notin {"none", "over"}

Overtaken(ts, f) ==
  [p \in Procs |-> IF \E t \in ts : HasRow(p, t) /\ f[p].at # "over"
                   THEN [f[p] EXCEPT !.late = TRUE] ELSE f[p]]

\* _fail_cycle: an autopilot's cycle that raises fails every active row.
Raises(p) ==
  row' = IF p \in Fires
         THEN [t \in Targets |-> IF row[t].status \in Active
                                 THEN [row[t] EXCEPT !.status = "failed"] ELSE row[t]]
         ELSE row

Fault == faults < MaxFaults /\ faults' = faults + 1

-----------------------------------------------------------------------------
(* daily_long_short_cycle, up to the row.                                   *)

\* CycleRerunView.
AskRerun(s, t) ==
  /\ s \notin Fires /\ job[s].at = "idle"
  /\ row[t].status \in {"failed", "cancelled", "autopilot_submitted"}
  /\ job' = [job EXCEPT ![s].at = "asked", ![s].old = t]
  /\ UNCHANGED <<row, run, task, final, held, auxVars, faults>>

\* Without force a cycle of the day that is under way or done is the answer.
BeginPlain(s, flavor) ==
  /\ s \notin Fires /\ job[s].at = "idle"
  /\ IF \E t \in Targets : row[t].status \in Reused
     THEN Goes(s, "done")
     ELSE job' = [job EXCEPT ![s].at = "screening", ![s].flavor = flavor]
  /\ UNCHANGED <<row, run, task, final, held, auxVars, faults>>

\* With force every active row of the day is cancelled.
BeginForced(s, flavor) ==
  LET mine == {t \in Targets : row[t].status \in Active} IN
  /\ job[s].at \in {"idle", "asked"}
  /\ row' = [t \in Targets |-> IF t \in mine THEN [row[t] EXCEPT !.status = "cancelled"]
                                             ELSE row[t]]
  /\ job' = [job EXCEPT ![s].at = "screening", ![s].flavor = flavor]
  /\ final' = Overtaken(mine, final)
  /\ UNCHANGED <<run, task, held, auxVars, faults>>

ScreenRaises(s) ==
  /\ job[s].at = "screening"
  /\ Fault
  /\ Raises(s)
  /\ Goes(s, "done")
  /\ UNCHANGED <<run, task, final, held, auxVars>>

Made == {t \in Targets : row[t].status # "none"}
Fresh == Cardinality(Made) + 1
Newest(ts) == CHOOSE t \in ts : \A u \in ts : u <= t
OnTop == {t \in Made : row[t].by = None}

Resolvable(s) ==
  LET old == job[s].old IN
  IF old # None
  THEN IF row[old].by # None THEN row[old].by ELSE Fresh
  ELSE IF OnTop # {} THEN Newest(OnTop) ELSE Fresh

\* _resolve_cycle_target: the newest row that is not superseded, whatever its
\* status; for a rerun the row that supersedes the old one, or a new one.
Resolve(s) ==
  LET t   == Resolvable(s)
      old == job[s].old
      status == IF job[s].flavor = "council" THEN "screening" ELSE "running"
  IN
  /\ job[s].at = "screening"
  /\ t \in Targets
  /\ IF Admits(t, status)
     THEN /\ row' = [u \in Targets |->
                       IF u = t THEN [row[t] EXCEPT !.status = status]
                       ELSE IF u = old THEN [row[u] EXCEPT !.by = t] ELSE row[u]]
          /\ job' = [job EXCEPT ![s].at = IF status = "running" THEN "done" ELSE "resolved",
                                ![s].t = t]
          /\ final' = IF status = "running"
                      THEN [final EXCEPT ![s] = [final[s] EXCEPT !.at = "constructing",
                                                 !.by = row[t].by, !.chord = row[t].chord]]
                      ELSE final
     ELSE /\ Raises(s)
          /\ Goes(s, "done")
          /\ UNCHANGED final
  /\ UNCHANGED <<run, task, held, auxVars, faults>>

\* The strategy's councils are to be approved first.
AwaitReview(s) ==
  LET t == job[s].t IN
  /\ s \in Starters \ Fires /\ job[s].at = "resolved"
  /\ IF Admits(t, "awaiting_review") THEN SetStatus(t, "awaiting_review") ELSE UNCHANGED row
  /\ Goes(s, "done")
  /\ UNCHANGED <<run, task, final, held, auxVars, faults>>

-----------------------------------------------------------------------------
(* _dispatch_council_chord, of a cycle or of an approval.                    *)

\* The screener has found nobody: the callback runs at once, in the task.
NothingToJudge(s) ==
  /\ s \in Starters /\ job[s].at = "resolved"
  /\ Goes(s, "done")
  /\ Ends(s, "due")
  /\ UNCHANGED <<row, run, task, held, auxVars, faults>>

\* create_candidate_runs: a run that the row has for the candidate is used again.
CreateRuns(p, cs) ==
  LET t == job[p].t IN
  /\ job[p].at = "resolved"
  /\ run' = [run EXCEPT ![t] = [c \in Candidates |->
               IF c \in cs /\ run[t][c].status = "none"
               THEN [status |-> "queued", task |-> Nobody] ELSE run[t][c]]]
  /\ task' = [task EXCEPT ![p] = [c \in Candidates |-> IF c \in cs THEN "queued" ELSE "none"]]
  /\ Goes(p, "created")
  /\ UNCHANGED <<row, final, held, auxVars, faults>>

SetCouncil(p) ==
  LET t == job[p].t IN
  /\ job[p].at = "created"
  /\ IF Admits(t, "running_council")
     THEN SetStatus(t, "running_council") /\ Goes(p, "council")
     ELSE Raises(p) /\ Goes(p, "done")
  /\ UNCHANGED <<run, task, final, held, auxVars, faults>>

\* Slip: a chord that has been sent for the row already is not sent again.
SendOnce(p) ==
  /\ job[p].at = "council"
  /\ Goes(p, "sent")
  /\ IF row[job[p].t].chord = Nobody THEN Ends(p, "due") ELSE UNCHANGED final
  /\ UNCHANGED <<row, run, task, held, auxVars, faults>>

SendChord(p) ==
  /\ job[p].at = "council"
  /\ Goes(p, "sent")
  /\ Ends(p, "due")
  /\ UNCHANGED <<row, run, task, held, auxVars, faults>>

StoreTaskId(p) ==
  /\ job[p].at = "sent"
  /\ row' = [row EXCEPT ![job[p].t].chord = p]
  /\ Goes(p, "done")
  /\ UNCHANGED <<run, task, final, held, auxVars, faults>>

-----------------------------------------------------------------------------
(* run_candidate_council, of candidate c of the chord of p.                  *)

Sent(p) == job[p].at \in {"sent", "done"} /\ final[p].at # "none"

\* Slip: only a run that waits is taken.
Taken(status) == status = "queued"

Takes(status) == status # "cancelled"

\* A run that was cancelled is passed off as a hold nobody has judged.
LoadRun(p, c) ==
  /\ Sent(p) /\ task[p][c] = "queued"
  /\ task' = [task EXCEPT ![p][c] =
                IF Takes(run[job[p].t][c].status) THEN "loaded" ELSE "unjudged"]
  /\ UNCHANGED <<row, run, job, final, held, auxVars, faults>>

ClaimRun(p, c) ==
  /\ task[p][c] = "loaded"
  /\ task' = [task EXCEPT ![p][c] = "judging"]
  /\ run' = [run EXCEPT ![job[p].t][c] = [status |-> "running", task |-> p]]
  /\ UNCHANGED <<row, job, final, held, auxVars, faults>>

Ended == {"done", "failed"}

\* The council ends, well or not; a run cancelled meanwhile stays cancelled.
EndCouncil(p, c) ==
  LET t == job[p].t IN
  /\ task[p][c] = "judging"
  /\ task' = [task EXCEPT ![p][c] = "judged"]
  /\ IF run[t][c].status = "cancelled" THEN UNCHANGED run
     ELSE \E s \in Ended : run' = [run EXCEPT ![t][c].status = s]
  /\ UNCHANGED <<row, job, final, held, auxVars, faults>>

-----------------------------------------------------------------------------
(* finalize_cycle and _finalize_target.                                      *)

\* The callback is the rest of the cycle's own task.
Inline(p) == job[p].flavor = "computed" \/ \A c \in Candidates : task[p][c] = "none"

Reported(p) == \A c \in Candidates : task[p][c] \in {"none", "judged", "unjudged"}

\* Slip: the callback does not look at the row's status.
StaysCancelled(t) == FALSE

IsCancelled(t) == row[t].status = "cancelled"

\* The callback starts when every candidate has reported; a cancelled row is left
\* alone, any other one loaded and set to constructing.
BeginFinal(p) ==
  LET t == job[p].t IN
  /\ final[p].at = "due" /\ Reported(p)
  /\ IF IsCancelled(t) \/ ~Admits(t, "constructing")
     THEN /\ Over(p)
          /\ IF ~IsCancelled(t) /\ Inline(p) THEN Raises(p) ELSE UNCHANGED row
     ELSE /\ SetStatus(t, "constructing")
          /\ final' = [final EXCEPT ![p] = [final[p] EXCEPT !.at = "constructing",
                                            !.by = row[t].by, !.chord = row[t].chord]]
  /\ UNCHANGED <<run, job, task, held, auxVars, faults>>

\* The whole row is saved as it was loaded, with the status done.
SaveDone(p) ==
  LET t == job[p].t IN
  /\ final[p].at = "constructing"
  /\ IF Admits(t, "done")
     THEN /\ row' = [row EXCEPT ![t] = [status |-> "done", by |-> final[p].by,
                                        chord |-> final[p].chord]]
          /\ Ends(p, "saved")
     ELSE /\ IF Inline(p) THEN Raises(p) ELSE UNCHANGED row
          /\ Over(p)
  /\ UNCHANGED <<run, job, task, held, auxVars, faults>>

\* An exception while the target is constructed.
ConstructRaises(p) ==
  /\ final[p].at = "constructing"
  /\ Fault
  /\ IF Inline(p) THEN Raises(p) ELSE UNCHANGED row
  /\ Over(p)
  /\ UNCHANGED <<run, job, task, held, auxVars>>

\* Slip: the check for a batch that is still held is left out.
NoCheck == TRUE

NoneHeld == held = {}

\* No autopilot, or one that is disabled or halted, or a batch of this book that
\* is still held for the open: nothing is emitted.
CheckEmission(p) ==
  /\ final[p].at = "saved"
  /\ \/ Over(p)
     \/ NoneHeld /\ Ends(p, "emitting")
  /\ UNCHANGED <<row, run, job, task, held, auxVars, faults>>

\* The orders are held for the open or sent, as the market is.
Emit(p) ==
  /\ final[p].at = "emitting"
  /\ \/ /\ held' = held \cup {p}
        /\ crossed' = crossed \cup {q \in Procs \ {p} : final[q].at = "emitting"}
     \/ crossed' = crossed \ {p} /\ UNCHANGED held
  /\ Ends(p, "placed")
  /\ UNCHANGED <<row, run, job, task, rejected, faults>>

Submitted(p) ==
  LET t == job[p].t IN
  /\ final[p].at = "placed"
  /\ IF Admits(t, "autopilot_submitted") THEN SetStatus(t, "autopilot_submitted")
                                         ELSE UNCHANGED row
  /\ Over(p)
  /\ UNCHANGED <<run, job, task, held, auxVars, faults>>

Release(p) ==
  /\ p \in held
  /\ held' = held \ {p}
  /\ crossed' = crossed \ {p}
  /\ UNCHANGED <<row, run, job, task, final, rejected, faults>>

-----------------------------------------------------------------------------
(* CycleApproveCouncilView and CycleRejectView.                              *)

Approve(h, t) ==
  /\ job[h].at = "idle"
  /\ row[t].status = "awaiting_review"
  /\ job' = [job EXCEPT ![h].at = "resolved", ![h].t = t]
  /\ UNCHANGED <<row, run, task, final, held, auxVars, faults>>

\* The request loads the row, with the chord that it knows.
StartReject(h, t) ==
  /\ job[h].at = "idle"
  /\ row[t].status \in Active
  /\ job' = [job EXCEPT ![h].at = "rejecting", ![h].t = t]
  /\ final' = [final EXCEPT ![h].chord = row[t].chord]
  /\ UNCHANGED <<row, run, task, held, auxVars, faults>>

\* Revocations reach any of the tasks they are for, or come too late.  The active
\* runs and the row are cancelled in one transaction.
Reject(h) ==
  LET t == job[h].t
      running == {c \in Candidates : run[t][c].status \in {"queued", "running"}}
      known == {pc \in Procs \X running :
                  /\ run[t][pc[2]].task = pc[1]
                  /\ task[pc[1]][pc[2]] \in {"queued", "loaded", "judging"}}
      callback == {p \in Procs : p = final[h].chord /\ final[p].at \notin {"none", "over"}}
  IN
  /\ job[h].at = "rejecting"
  /\ \E lost \in SUBSET known : \E dropped \in SUBSET callback :
       /\ task' = [p \in Procs |-> [c \in Candidates |->
                     IF <<p, c>> \in lost THEN "lost" ELSE task[p][c]]]
       /\ final' = Overtaken({t}, [p \in Procs |->
                      IF p = h THEN Waiting
                      ELSE IF p \in dropped THEN [Waiting EXCEPT !.at = "over"] ELSE final[p]])
  /\ run' = [run EXCEPT ![t] = [c \in Candidates |->
               IF c \in running THEN [run[t][c] EXCEPT !.status = "cancelled"]
                                ELSE run[t][c]]]
  /\ SetStatus(t, "cancelled")
  /\ rejected' = rejected \cup {t}
  /\ Goes(h, "done")
  /\ UNCHANGED <<held, crossed, faults>>

-----------------------------------------------------------------------------
(* A worker or a request dies; what it has written stays.                    *)

Dies(p) ==
  /\ Fault
  /\ \/ job[p].at \notin {"idle", "done"} /\ Goes(p, "done") /\ UNCHANGED <<task, final>>
     \/ \E c \in Candidates : /\ task[p][c] \in {"loaded", "judging"}
                              /\ task' = [task EXCEPT ![p][c] = "lost"]
                              /\ UNCHANGED <<job, final>>
     \/ /\ final[p].at \in {"constructing", "saved", "emitting", "placed"}
        /\ Over(p) /\ UNCHANGED <<job, task>>
  /\ UNCHANGED <<row, run, held, auxVars>>

-----------------------------------------------------------------------------
Start(s) ==
  \/ \E f \in Flavors : BeginPlain(s, f) \/ BeginForced(s, f)
  \/ \E t \in Targets : AskRerun(s, t)

Dispatch(p) ==
  \/ Resolve(p) \/ AwaitReview(p) \/ NothingToJudge(p)
  \/ \E cs \in SUBSET Candidates \ {{}} : CreateRuns(p, cs)
  \/ SetCouncil(p) \/ SendChord(p) \/ StoreTaskId(p)

Council(p, c) == LoadRun(p, c) \/ ClaimRun(p, c) \/ EndCouncil(p, c)

Finalize(p) ==
  BeginFinal(p) \/ SaveDone(p) \/ CheckEmission(p) \/ Emit(p) \/ Submitted(p)

Next ==
  \/ \E s \in Starters : Start(s) \/ ScreenRaises(s)
  \/ \E h \in Requests, t \in Targets : Approve(h, t) \/ StartReject(h, t)
  \/ \E h \in Requests : Reject(h)
  \/ \E p \in Procs : \/ Dispatch(p) \/ Finalize(p) \/ ConstructRaises(p)
                      \/ Release(p) \/ Dies(p)
                      \/ \E c \in Candidates : Council(p, c)

Spec == Init /\ [][Next]_vars

Work(p) == Dispatch(p) \/ Finalize(p) \/ \E c \in Candidates : Council(p, c)

\* Workers take what is in the queue and go on with what they have begun.
Fairness == \A p \in Procs : WF_vars(Work(p))
FairSpec == Spec /\ Fairness

-----------------------------------------------------------------------------
(* Properties.                                                              *)

\* A cancelled cycle comes back only when a later start takes its row for
\* itself, or by the hand of a process that had the row when it was cancelled
\* and is past its own check; never by a callback that starts afterwards.
OnlyOverlapRevives ==
  [][\A t \in Targets :
       row[t].status = "cancelled" /\ row'[t].status # "cancelled"
       => \/ \E s \in Starters : Resolve(s)
          \/ \E p \in Procs : job[p].t = t /\ final[p].late /\ ~BeginFinal(p)]_vars

\* A candidate is passed off as a hold nobody has judged only where a user has
\* rejected the row, not because a cycle uses an ended run again.
UnjudgedWasRejected ==
  \A p \in Procs, c \in Candidates : task[p][c] = "unjudged" => job[p].t \in rejected

\* Two batches are held for one open only by emissions that overlapped, each
\* past its check before the other's orders were there.
OnlyOverlapDoubles ==
  \A p, q \in held : p # q => p \in crossed \/ q \in crossed

\* A cycle at work ends, unless something raised or died; it may wait for its
\* review as long as the user likes.
CycleEnds ==
  \A t \in Targets :
    []<>(row[t].status \notin Active \ {"awaiting_review"} \/ faults > 0)

\* A candidate that nobody has judged belongs to a cycle that was cancelled while
\* it was at work: a cycle started after a rejection gets its councils.
RestartIsJudged ==
  \A p \in Procs, c \in Candidates :
    task[p][c] = "unjudged" => final[p].late \/ final[p].at = "over"
=============================================================================
