---------------------- MODULE BacktestLifecycleProofs ----------------------
(***************************************************************************)
(* Proofs about BacktestLifecycle, for any backtests and workers and any   *)
(* number of second deliveries and deaths.                                 *)
(***************************************************************************)
EXTENDS BacktestLifecycle, TLAPS

-----------------------------------------------------------------------------
(* Types.                                                                  *)

\* Every step preserves the type invariant.
LEMMA TypeStep == TypeOK /\ [Next]_vars => TypeOK'
  <1> SUFFICES ASSUME TypeOK, [Next]_vars PROVE TypeOK'
    OBVIOUS
  <1> USE DEF TypeOK, Active, Final, Deletable, Steps, rowVars, msgVars, webVars,
              workVars, sweepVars
  <1>1. ASSUME NEW b \in Backtests, BacktestStep(b) PROVE TypeOK'
    <2>1. CASE CreateBacktest(b)  BY <2>1 DEF CreateBacktest
    <2>2. CASE Enqueue(b)         BY <2>2 DEF Enqueue
    <2>3. CASE StoreTaskId(b)     BY <2>3 DEF StoreTaskId
    <2>4. CASE Redeliver(b)       BY <2>4 DEF Redeliver
    <2>5. CASE DropRevoked(b)     BY <2>5 DEF DropRevoked
    <2>6. CASE StartCancel(b)     BY <2>6 DEF StartCancel
    <2>7. CASE SaveCancel(b)      BY <2>7 DEF SaveCancel
    <2>8. CASE StartDelete(b)     BY <2>8 DEF StartDelete
    <2>9. CASE Delete(b)          BY <2>9 DEF Delete
    <2>10. CASE PassCutoff(b)     BY <2>10 DEF PassCutoff
    <2>11. CASE HeartbeatAges(b)  BY <2>11 DEF HeartbeatAges
    <2>12. CASE SweepBacktest(b)  BY <2>12 DEF SweepBacktest, Save
    <2>13. CASE RequestDies(b)
      <3>1. /\ creating' \in [Backtests -> {"none", "row", "sent"}]
            /\ cancelling' \in [Backtests -> BOOLEAN]
            /\ deleting' \in [Backtests -> BOOLEAN]
        BY <2>13 DEF RequestDies
      <3>2. crashes' \in Nat
        BY <2>13 DEF RequestDies, Die
      <3> QED
        BY <2>13, <3>1, <3>2 DEF RequestDies
    <2> QED BY <1>1, <2>1, <2>2, <2>3, <2>4, <2>5, <2>6, <2>7, <2>8, <2>9, <2>10,
               <2>11, <2>12, <2>13 DEF BacktestStep
  <1>2. ASSUME NEW w \in Workers, NEW b \in Backtests, Deliver(w, b) PROVE TypeOK'
    BY <1>2 DEF Deliver, StartTask
  <1>3. ASSUME NEW w \in Workers, TaskStep(w) PROVE TypeOK'
    <2>1. CASE Claim(w)         BY <2>1 DEF Claim
    <2>2. CASE ClaimRefused(w)  BY <2>2 DEF ClaimRefused, EndTask
    <2>3. CASE NoFolds(w)       BY <2>3 DEF NoFolds, EndTask, Save
    <2>4. CASE WriteResults(w)  BY <2>4 DEF WriteResults
    <2>5. CASE Finish(w)        BY <2>5 DEF Finish, EndTask, Save
    <2>6. CASE Fail(w)          BY <2>6 DEF Fail, EndTask
    <2>7. CASE SaveFailure(w)   BY <2>7 DEF SaveFailure, EndTask, Save
    <2>8. CASE KillRevoked(w)   BY <2>8 DEF KillRevoked, EndTask
    <2>9. CASE WorkerDies(w)    BY <2>9 DEF WorkerDies, EndTask, Die
    <2> QED BY <1>3, <2>1, <2>2, <2>3, <2>4, <2>5, <2>6, <2>7, <2>8, <2>9 DEF TaskStep
  <1>4. ASSUME NEW w \in Workers, Progress(w) PROVE TypeOK'
    BY <1>4 DEF Progress
  <1>5. CASE Inspect
    BY <1>5 DEF Inspect
  <1>6. CASE ListCandidates
    BY <1>6 DEF ListCandidates, Candidates
  <1>7. CASE EndSweep
    BY <1>7 DEF EndSweep
  <1>8. CASE UNCHANGED vars
    BY <1>8 DEF vars
  <1> QED
    BY <1>1, <1>2, <1>3, <1>4, <1>5, <1>6, <1>7, <1>8 DEF Next

\* Type correctness of every reachable state.
THEOREM TypeCorrect == Spec => []TypeOK
  <1>1. Init => TypeOK
    BY DEF Init, TypeOK, Steps
  <1> QED
    BY <1>1, TypeStep, PTL DEF Spec

-----------------------------------------------------------------------------
(* One execution.                                                          *)

\* Before the claim nothing has been written and nobody walks; a worker that is
\* still walking has written nothing.
Unclaimed == {"absent", "queued"}

NothingBeforeClaim ==
  \A b \in Backtests :
    status[b] \in Unclaimed =>
      walks[b] = 0 /\ \A w \in Workers : ~Walking(w, b)

WalkerHasNotWritten ==
  \A w \in Workers : pc[w] = "walk" => walks[on[w]] = 0

ClaimInv == OneExecution /\ NothingBeforeClaim /\ WalkerHasNotWritten

\* The claim, the walk and its ends preserve the invariant; what else happens
\* to the row never makes it unclaimed again, and starts no walk.
LEMMA ClaimStep == TypeOK /\ ClaimInv /\ [Next]_vars => ClaimInv'
  <1> SUFFICES ASSUME TypeOK, ClaimInv, [Next]_vars PROVE ClaimInv'
    OBVIOUS
  <1> USE DEF TypeOK, ClaimInv, OneExecution, NothingBeforeClaim,
              WalkerHasNotWritten, Unclaimed, Walking
  \* Steps that leave workers and results alone and unclaim no row.
  <1>1. ASSUME UNCHANGED <<pc, on, walks>>,
               \A b \in Backtests : status'[b] \in Unclaimed => status[b] \in Unclaimed
        PROVE  ClaimInv'
    BY <1>1
  \* Steps by which a worker ends.
  <1>2. ASSUME NEW w \in Workers, EndTask(w), UNCHANGED walks,
               \A b \in Backtests : status'[b] \in Unclaimed => status[b] \in Unclaimed
        PROVE  ClaimInv'
    BY <1>2 DEF EndTask
  <1>3. ASSUME NEW b \in Backtests, BacktestStep(b) PROVE ClaimInv'
    <2>1. UNCHANGED <<pc, on, walks>>
      BY <1>3 DEF BacktestStep, CreateBacktest, Enqueue, StoreTaskId, Redeliver,
                  DropRevoked, StartCancel, SaveCancel, StartDelete, Delete,
                  PassCutoff, HeartbeatAges, SweepBacktest, RequestDies, rowVars,
                  workVars
    <2>2. ASSUME NEW c \in Backtests, status'[c] \in Unclaimed
          PROVE  status[c] \in Unclaimed
      BY <1>3, <2>2 DEF BacktestStep, CreateBacktest, Enqueue, StoreTaskId,
                  Redeliver, DropRevoked, StartCancel, SaveCancel, StartDelete,
                  Delete, PassCutoff, HeartbeatAges, SweepBacktest, RequestDies,
                  rowVars, Save
    <2> QED
      BY <1>1, <2>1, <2>2
  <1>4. ASSUME NEW w \in Workers, NEW b \in Backtests, Deliver(w, b) PROVE ClaimInv'
    BY <1>4 DEF Deliver, StartTask, rowVars
  <1>5. ASSUME NEW w \in Workers, Claim(w) PROVE ClaimInv'
    BY <1>5 DEF Claim
  <1>6. ASSUME NEW w \in Workers, ClaimRefused(w) PROVE ClaimInv'
    BY <1>2, <1>6 DEF ClaimRefused, rowVars
  <1>7. ASSUME NEW w \in Workers, NoFolds(w) PROVE ClaimInv'
    BY <1>2, <1>7 DEF NoFolds, Save
  <1>8. ASSUME NEW w \in Workers, WriteResults(w) PROVE ClaimInv'
    BY <1>8 DEF WriteResults
  <1>9. ASSUME NEW w \in Workers, Finish(w) PROVE ClaimInv'
    BY <1>2, <1>9 DEF Finish, Save
  <1>10. ASSUME NEW w \in Workers, Fail(w) PROVE ClaimInv'
    <2>1. CASE EndTask(w)
      BY <1>2, <1>10, <2>1 DEF Fail, rowVars
    <2>2. CASE pc' = [pc EXCEPT ![w] = "failing"] /\ UNCHANGED on
      BY <1>10, <2>2 DEF Fail, rowVars
    <2> QED
      BY <1>10, <2>1, <2>2 DEF Fail
  <1>11. ASSUME NEW w \in Workers, SaveFailure(w) PROVE ClaimInv'
    BY <1>2, <1>11 DEF SaveFailure, Save
  <1>12. ASSUME NEW w \in Workers, KillRevoked(w) \/ WorkerDies(w) PROVE ClaimInv'
    BY <1>2, <1>12 DEF KillRevoked, WorkerDies, rowVars
  <1>13. ASSUME NEW w \in Workers, Progress(w) PROVE ClaimInv'
    BY <1>1, <1>13 DEF Progress, workVars
  <1>14. CASE Inspect \/ ListCandidates \/ EndSweep \/ UNCHANGED vars
    BY <1>1, <1>14 DEF Inspect, ListCandidates, EndSweep, vars, rowVars, workVars
  <1> QED
    BY <1>3, <1>4, <1>5, <1>6, <1>7, <1>8, <1>9, <1>10, <1>11, <1>12, <1>13, <1>14
    DEF Next, TaskStep

\* However often the message of a backtest is delivered, whoever dies, cancels,
\* deletes or sweeps: one worker executes it, and its folds are written once.
THEOREM ExecutedOnce == Spec => []OneExecution
  <1>1. Init => TypeOK /\ ClaimInv
    BY DEF Init, TypeOK, Steps, ClaimInv, OneExecution, NothingBeforeClaim,
           WalkerHasNotWritten, Unclaimed, Walking
  <1>2. ClaimInv => OneExecution
    BY DEF ClaimInv
  <1> QED
    BY <1>1, <1>2, TypeStep, ClaimStep, PTL DEF Spec

-----------------------------------------------------------------------------
(* Ends.                                                                   *)

\* The outcome of a backtest nobody walks stands, but for the sweep and delete.
THEOREM EndStands == Spec => EndedStaysEnded
  <1>1. ASSUME TypeOK, [Next]_vars, NEW b \in Backtests, status[b] \in Final,
               \A w \in Workers : ~Walking(w, b)
        PROVE  status'[b] \in {status[b], "failed", "deleted"}
    <2> USE DEF TypeOK, Final, Active, Walking, Save
    <2>1. ASSUME NEW c \in Backtests, BacktestStep(c)
          PROVE  status'[b] \in {status[b], "failed", "deleted"}
      BY <1>1, <2>1 DEF BacktestStep, CreateBacktest, Enqueue, StoreTaskId,
                  Redeliver, DropRevoked, StartCancel, SaveCancel, StartDelete,
                  Delete, PassCutoff, HeartbeatAges, SweepBacktest, RequestDies,
                  rowVars
    <2>2. ASSUME NEW w \in Workers, TaskStep(w)
          PROVE  status'[b] \in {status[b], "failed", "deleted"}
      BY <1>1, <2>2 DEF TaskStep, Claim, ClaimRefused, NoFolds, WriteResults,
                  Finish, Fail, SaveFailure, KillRevoked, WorkerDies, rowVars
    <2>3. CASE \/ \E w \in Workers, c \in Backtests : Deliver(w, c)
               \/ \E w \in Workers : Progress(w)
               \/ Inspect \/ ListCandidates \/ EndSweep \/ UNCHANGED vars
      BY <2>3 DEF Deliver, Progress, Inspect, ListCandidates, EndSweep, vars, rowVars
    <2> QED
      BY <1>1, <2>1, <2>2, <2>3 DEF Next
  <1>2. TypeOK /\ [Next]_vars
          => [\A b \in Backtests :
                status[b] \in Final /\ (\A w \in Workers : ~Walking(w, b))
                  => status'[b] \in {status[b], "failed", "deleted"}]_vars
    BY <1>1
  <1> QED
    BY <1>2, TypeCorrect, PTL DEF Spec, EndedStaysEnded
=============================================================================
