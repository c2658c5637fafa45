------------------------- MODULE RunLifecycleProofs -------------------------
(***************************************************************************)
(* Proofs about RunLifecycle, for any runs, any finite set of workers and  *)
(* any number of second deliveries and deaths.                             *)
(***************************************************************************)
EXTENDS RunLifecycle, FiniteSetTheorems, TLAPS

-----------------------------------------------------------------------------
(* Types.                                                                  *)

\* Every step preserves the type invariant.
LEMMA TypeStep == TypeOK /\ [Next]_vars => TypeOK'
  <1> SUFFICES ASSUME TypeOK, [Next]_vars PROVE TypeOK'
    OBVIOUS
  <1> USE DEF TypeOK, Active, Final, rowVars, msgVars, webVars, workVars, sweepVars,
              SetStatus, UpdateIf
  <1>1. ASSUME NEW r \in Runs, RunStep(r) PROVE TypeOK'
    <2>1. CASE CreateRun(r)    BY <2>1 DEF CreateRun
    <2>2. CASE Enqueue(r)      BY <2>2 DEF Enqueue
    <2>3. CASE StoreTaskId(r)  BY <2>3 DEF StoreTaskId
    <2>4. CASE Redeliver(r)    BY <2>4 DEF Redeliver
    <2>5. CASE DropRevoked(r)  BY <2>5 DEF DropRevoked
    <2>6. CASE StartCancel(r)  BY <2>6 DEF StartCancel
    <2>7. CASE SaveCancel(r)   BY <2>7 DEF SaveCancel
    <2>8. CASE PassCutoff(r)   BY <2>8 DEF PassCutoff
    <2>9. CASE SweepRun(r)     BY <2>9 DEF SweepRun
    <2>10. CASE CreatorDies(r) BY <2>10 DEF CreatorDies, Die
    <2>11. CASE CancelDies(r)  BY <2>11 DEF CancelDies, Die
    <2> QED BY <1>1, <2>1, <2>2, <2>3, <2>4, <2>5, <2>6, <2>7, <2>8, <2>9, <2>10,
               <2>11 DEF RunStep
  <1>2. ASSUME NEW w \in Workers, NEW r \in Runs, Deliver(w, r) PROVE TypeOK'
    BY <1>2 DEF Deliver
  <1>3. ASSUME NEW w \in Workers, NEW r \in Runs, ExecuteInProcess(w, r) PROVE TypeOK'
    BY <1>3 DEF ExecuteInProcess
  <1>4. ASSUME NEW w \in Workers, WorkerStep(w) PROVE TypeOK'
    <2>1. CASE Claim(w)           BY <2>1 DEF Claim
    <2>2. CASE ClaimRefused(w)    BY <2>2 DEF ClaimRefused, EndTask
    <2>3. CASE PersistOutputs(w)  BY <2>3 DEF PersistOutputs
    <2>4. CASE Finish(w)          BY <2>4 DEF Finish, EndTask
    <2>5. CASE Fail(w)            BY <2>5 DEF Fail, EndTask
    <2>6. CASE KillRevoked(w)     BY <2>6 DEF KillRevoked, EndTask
    <2>7. CASE WorkerDies(w)      BY <2>7 DEF WorkerDies, EndTask, Die
    <2> QED BY <1>4, <2>1, <2>2, <2>3, <2>4, <2>5, <2>6, <2>7 DEF WorkerStep
  <1>5. CASE Inspect
    BY <1>5 DEF Inspect
  <1>6. CASE ListCandidates
    BY <1>6 DEF ListCandidates, Candidates
  <1>7. CASE EndSweep
    BY <1>7 DEF EndSweep
  <1>8. CASE UNCHANGED vars
    BY <1>8 DEF vars
  <1> QED
    BY <1>1, <1>2, <1>3, <1>4, <1>5, <1>6, <1>7, <1>8 DEF Next

\* Type correctness of every reachable state.
THEOREM TypeCorrect == Spec => []TypeOK
  <1>1. Init => TypeOK
    BY DEF Init, TypeOK
  <1> QED
    BY <1>1, TypeStep, PTL DEF Spec

-----------------------------------------------------------------------------
(* Ended runs.                                                             *)

\* Late workers, second deliveries and sweeps leave an ended run alone; only a
\* cancel replaces its status.
THEOREM EndedNeverRevived == Spec => NeverRevived
  <1>1. ASSUME TypeOK, [Next]_vars, NEW r \in Runs, status[r] \in Final,
               status'[r] # status[r]
        PROVE  status'[r] = "cancelled"
    <2> USE DEF TypeOK, Final, Active, SetStatus, UpdateIf
    <2>1. ASSUME NEW c \in Runs, RunStep(c) PROVE status'[r] = "cancelled"
      BY <1>1, <2>1 DEF RunStep, CreateRun, Enqueue, StoreTaskId, Redeliver,
                  DropRevoked, StartCancel, SaveCancel, PassCutoff, SweepRun,
                  CreatorDies, CancelDies, rowVars
    <2>2. ASSUME NEW w \in Workers, WorkerStep(w) PROVE status'[r] = "cancelled"
      BY <1>1, <2>2 DEF WorkerStep, Claim, ClaimRefused, PersistOutputs, Finish,
                  Fail, KillRevoked, WorkerDies, rowVars
    <2>3. CASE \/ \E w \in Workers, c \in Runs : Deliver(w, c) \/ ExecuteInProcess(w, c)
               \/ Inspect \/ ListCandidates \/ EndSweep \/ UNCHANGED vars
      BY <1>1, <2>3 DEF Deliver, ExecuteInProcess, Inspect, ListCandidates, EndSweep,
                  vars, rowVars
    <2> QED
      BY <1>1, <2>1, <2>2, <2>3 DEF Next
  <1>2. TypeOK /\ [Next]_vars
          => [\A r \in Runs : status[r] \in Final /\ status'[r] # status[r]
                                => status'[r] = "cancelled"]_vars
    BY <1>1
  <1> QED
    BY <1>2, TypeCorrect, PTL DEF Spec, NeverRevived

-----------------------------------------------------------------------------
(* Outputs.                                                                *)

\* The workers that may still write outputs of a run.
Pending(r) == {w \in Workers : pc[w] \in {"claim", "work"} /\ on[w] = r}

Unsent(r) == IF creating[r] = "row" THEN 1 ELSE 0

\* What has been written and what may still be: one set for the message (or
\* the in-process execution), one for each copy of it, nothing before creation.
Written(r) == outputs[r] + Cardinality(Pending(r)) + queue[r] + Unsent(r)

OutputInv ==
  \A r \in Runs : /\ Written(r) <= 1 + redelivered
                  /\ status[r] = "absent" => Written(r) = 0

LEMMA PendingFinite ==
  ASSUME NEW r PROVE IsFiniteSet(Pending(r)) /\ Cardinality(Pending(r)) \in Nat
  BY FiniteWorkers, FS_Subset, FS_CardinalityType DEF Pending

LEMMA PendingFiniteNext ==
  ASSUME NEW r PROVE IsFiniteSet(Pending(r)') /\ Cardinality(Pending(r)') \in Nat
  BY FiniteWorkers, FS_Subset, FS_CardinalityType DEF Pending

\* A worker that starts on a run adds itself to the run's writers only.
LEMMA StartsPending ==
  ASSUME TypeOK, NEW w \in Workers, NEW r \in Runs, NEW s \in Runs,
         pc[w] = "idle", pc' = [pc EXCEPT ![w] = "claim"], on' = [on EXCEPT ![w] = r]
  PROVE  Cardinality(Pending(s)') = Cardinality(Pending(s)) + (IF s = r THEN 1 ELSE 0)
  <1>1. CASE s = r
    <2>1. Pending(s)' = Pending(s) \cup {w} /\ w \notin Pending(s)
      BY <1>1 DEF Pending, TypeOK
    <2> QED
      BY <1>1, <2>1, PendingFinite, FS_AddElement
  <1>2. CASE s # r
    <2>1. Pending(s)' = Pending(s)
      BY <1>2 DEF Pending, TypeOK
    <2> QED
      BY <1>2, <2>1, PendingFinite
  <1> QED
    BY <1>1, <1>2

\* A worker has written, or ends.
Stops(w) ==
  /\ pc[w] # "idle"
  /\ pc'[w] \notin {"claim", "work"}
  /\ \A v \in Workers : v # w => pc'[v] = pc[v] /\ on'[v] = on[v]

\* Such a worker takes itself away.
LEMMA StopsPending ==
  ASSUME NEW w \in Workers, NEW s \in Runs, Stops(w)
  PROVE  /\ Cardinality(Pending(s)') <= Cardinality(Pending(s))
         /\ s = on[w] /\ pc[w] \in {"claim", "work"} =>
              Cardinality(Pending(s)') = Cardinality(Pending(s)) - 1
  <1>1. Pending(s)' = Pending(s) \ {w}
    BY DEF Pending, Stops
  <1>2. IsFiniteSet(Pending(s)) /\ Cardinality(Pending(s)) \in Nat
    BY PendingFinite
  <1>3. CASE w \in Pending(s)
    <2>1. Cardinality(Pending(s) \ {w}) = Cardinality(Pending(s)) - 1
      BY <1>2, <1>3, FS_RemoveElement
    <2> QED
      BY <1>1, <1>2, <2>1
  <1>4. CASE w \notin Pending(s)
    <2>1. Cardinality(Pending(s) \ {w}) = Cardinality(Pending(s))
      BY <1>2, <1>4, FS_RemoveElement
    <2>2. ~(s = on[w] /\ pc[w] \in {"claim", "work"})
      BY <1>4 DEF Pending
    <2> QED
      BY <1>1, <1>2, <2>1, <2>2
  <1> QED
    BY <1>3, <1>4

\* Steps that add nothing to a sum of natural numbers keep its bound.
LEMMA OutputStep == TypeOK /\ OutputInv /\ [Next]_vars => OutputInv'
  <1> SUFFICES ASSUME TypeOK, OutputInv, [Next]_vars, NEW s \in Runs
               PROVE  /\ Written(s)' <= 1 + redelivered'
                      /\ status'[s] = "absent" => Written(s)' = 0
    BY DEF OutputInv
  <1> DEFINE Goal == /\ Written(s)' <= 1 + redelivered'
                     /\ status'[s] = "absent" => Written(s)' = 0
  <1>0. /\ outputs[s] \in Nat /\ queue[s] \in Nat /\ redelivered \in Nat
        /\ Cardinality(Pending(s)) \in Nat /\ Cardinality(Pending(s)') \in Nat
        /\ Unsent(s) \in {0, 1}
        /\ Written(s) <= 1 + redelivered
        /\ status[s] = "absent" => Written(s) = 0
    BY PendingFinite, PendingFiniteNext DEF TypeOK, OutputInv, Unsent
  <1>1. ASSUME NEW r \in Runs, RunStep(r) PROVE Goal
    <2>1. UNCHANGED <<outputs, pc, on>>
      BY <1>1 DEF RunStep, CreateRun, Enqueue, StoreTaskId, Redeliver, DropRevoked,
                  StartCancel, SaveCancel, PassCutoff, SweepRun, CreatorDies,
                  CancelDies, rowVars, workVars
    <2>2. Pending(s)' = Pending(s)
      BY <2>1 DEF Pending
    <2>3. CASE CreateRun(r)
      BY <1>0, <2>1, <2>2, <2>3 DEF CreateRun, Written, Unsent, TypeOK, msgVars, SetStatus
    <2>4. CASE Enqueue(r)
      BY <1>0, <2>1, <2>2, <2>4 DEF Enqueue, Written, Unsent, TypeOK, rowVars
    <2>5. CASE StoreTaskId(r)
      BY <1>0, <2>1, <2>2, <2>5 DEF StoreTaskId, Written, Unsent, TypeOK, msgVars
    <2>6. CASE Redeliver(r)
      BY <1>0, <2>1, <2>2, <2>6 DEF Redeliver, Written, Unsent, TypeOK, rowVars, webVars
    <2>7. CASE DropRevoked(r)
      BY <1>0, <2>1, <2>2, <2>7 DEF DropRevoked, Written, Unsent, TypeOK, rowVars, webVars
    <2>8. CASE StartCancel(r) \/ PassCutoff(r) \/ CancelDies(r)
      BY <1>0, <2>1, <2>2, <2>8 DEF StartCancel, PassCutoff, CancelDies, Written,
                  Unsent, rowVars, msgVars, webVars
    <2>9. CASE SaveCancel(r) \/ SweepRun(r)
      <3>1. UNCHANGED <<queue, redelivered, creating>>
        BY <2>9 DEF SaveCancel, SweepRun, msgVars, webVars
      <3>2. status'[s] = "absent" => status[s] = "absent"
        BY <2>9 DEF SaveCancel, SweepRun, SetStatus, UpdateIf, TypeOK
      <3> QED
        BY <1>0, <2>1, <2>2, <3>1, <3>2 DEF Written, Unsent
    <2>10. CASE CreatorDies(r)
      BY <1>0, <2>1, <2>2, <2>10 DEF CreatorDies, Written, Unsent, TypeOK, rowVars, msgVars
    <2> QED
      BY <1>1, <2>3, <2>4, <2>5, <2>6, <2>7, <2>8, <2>9, <2>10 DEF RunStep
  <1>2. ASSUME NEW w \in Workers, NEW r \in Runs, Deliver(w, r) PROVE Goal
    <2>1. Cardinality(Pending(s)') = Cardinality(Pending(s)) + (IF s = r THEN 1 ELSE 0)
      BY <1>2, StartsPending DEF Deliver
    <2>2. /\ queue'[s] = queue[s] - (IF s = r THEN 1 ELSE 0)
          /\ UNCHANGED <<status, outputs, redelivered, creating>>
      BY <1>2 DEF Deliver, TypeOK, rowVars, webVars
    <2> QED
      BY <1>0, <2>1, <2>2 DEF Written, Unsent
  <1>3. ASSUME NEW w \in Workers, NEW r \in Runs, ExecuteInProcess(w, r) PROVE Goal
    <2>1. Cardinality(Pending(s)') = Cardinality(Pending(s)) + (IF s = r THEN 1 ELSE 0)
      BY <1>3, StartsPending DEF ExecuteInProcess
    <2>2. /\ UNCHANGED <<outputs, queue, redelivered, creating>>
          /\ s # r => status'[s] = status[s]
          /\ s = r => status[s] = "absent" /\ status'[s] = "queued"
      BY <1>3 DEF ExecuteInProcess, TypeOK, msgVars, webVars, SetStatus
    <2> QED
      BY <1>0, <2>1, <2>2 DEF Written, Unsent
  <1>4. ASSUME NEW w \in Workers, Claim(w) PROVE Goal
    <2>1. Pending(s)' = Pending(s)
      BY <1>4 DEF Claim, Pending, TypeOK
    <2>2. status'[s] = "absent" => status[s] = "absent"
      BY <1>4 DEF Claim, SetStatus, TypeOK
    <2>3. UNCHANGED <<outputs, queue, redelivered, creating>>
      BY <1>4 DEF Claim, msgVars, webVars
    <2> QED
      BY <1>0, <2>1, <2>2, <2>3 DEF Written, Unsent
  <1>5. ASSUME NEW w \in Workers, PersistOutputs(w) PROVE Goal
    <2>1. /\ Cardinality(Pending(s)') <= Cardinality(Pending(s))
          /\ s = on[w] => Cardinality(Pending(s)') = Cardinality(Pending(s)) - 1
      <3>1. Stops(w) /\ pc[w] = "work"
        BY <1>5 DEF PersistOutputs, TypeOK, Stops
      <3> QED
        BY <3>1, StopsPending
    <2>2. /\ outputs'[s] = outputs[s] + (IF s = on[w] THEN 1 ELSE 0)
          /\ UNCHANGED <<status, queue, redelivered, creating>>
      BY <1>5 DEF PersistOutputs, TypeOK, msgVars, webVars
    <2>3. Written(s)' = outputs'[s] + Cardinality(Pending(s)') + queue[s] + Unsent(s)
      BY <2>2 DEF Written, Unsent
    <2>4. s = on[w] => status[s] # "absent"
      <3>1. s = on[w] => Cardinality(Pending(s)) > 0
        BY <1>0, <2>1
      <3> QED
        BY <1>0, <3>1 DEF Written
    <2>5. CASE s = on[w]
      <3>1. Written(s)' = Written(s)
        BY <1>0, <2>1, <2>2, <2>3, <2>5 DEF Written
      <3> QED
        BY <1>0, <2>2, <2>4, <2>5, <3>1
    <2>6. CASE s # on[w]
      <3>1. Written(s)' <= Written(s) /\ Written(s)' \in Nat /\ Written(s) \in Nat
        BY <1>0, <2>1, <2>2, <2>3, <2>6 DEF Written
      <3> QED
        BY <1>0, <2>2, <2>6, <3>1
    <2> QED
      BY <2>5, <2>6
  <1>6. ASSUME NEW w \in Workers,
               ClaimRefused(w) \/ Finish(w) \/ Fail(w) \/ KillRevoked(w) \/ WorkerDies(w)
        PROVE  Goal
    <2>1. Cardinality(Pending(s)') <= Cardinality(Pending(s))
      <3>1. pc[w] # "idle" /\ EndTask(w)
        BY <1>6 DEF ClaimRefused, Finish, Fail, KillRevoked, WorkerDies
      <3>2. Stops(w)
        BY <3>1 DEF EndTask, TypeOK, Stops
      <3> QED
        BY <3>2, StopsPending
    <2>2. status'[s] = "absent" => status[s] = "absent"
      BY <1>6 DEF ClaimRefused, Finish, Fail, KillRevoked, WorkerDies, SetStatus,
                  UpdateIf, TypeOK, rowVars
    <2>3. UNCHANGED <<outputs, queue, redelivered, creating>>
      BY <1>6 DEF ClaimRefused, Finish, Fail, KillRevoked, WorkerDies, rowVars,
                  msgVars, webVars
    <2>4. Written(s)' = outputs[s] + Cardinality(Pending(s)') + queue[s] + Unsent(s)
      BY <2>3 DEF Written, Unsent
    <2>5. Written(s)' <= Written(s) /\ Written(s)' \in Nat
      BY <1>0, <2>1, <2>4 DEF Written
    <2>6. redelivered' = redelivered /\ Written(s) \in Nat
      BY <1>0, <2>3 DEF Written
    <2> QED
      BY <1>0, <2>2, <2>5, <2>6
  <1>7. CASE Inspect \/ ListCandidates \/ EndSweep \/ UNCHANGED vars
    <2>1. UNCHANGED <<rowVars, msgVars, webVars, workVars>>
      BY <1>7 DEF Inspect, ListCandidates, EndSweep, vars
    <2>2. Pending(s)' = Pending(s)
      BY <2>1 DEF Pending, workVars
    <2> QED
      BY <1>0, <2>1, <2>2 DEF Written, Unsent, rowVars, msgVars, webVars
  <1> QED
    BY <1>1, <1>2, <1>3, <1>4, <1>5, <1>6, <1>7 DEF Next, WorkerStep

\* Each delivery of the message, and each in-process execution, writes the
\* outputs of the run at most once.
THEOREM OutputsBounded == Spec => []OutputsPerDelivery
  <1>1. Init => OutputInv
    <2> SUFFICES ASSUME Init, NEW r \in Runs
                 PROVE  Written(r) <= 1 + redelivered /\ Written(r) = 0
      BY DEF OutputInv
    <2>1. Pending(r) = {}
      BY DEF Init, Pending
    <2> QED
      BY <2>1, FS_EmptySet DEF Init, Written, Unsent
  <1>2. TypeOK /\ OutputInv => OutputsPerDelivery
    <2> SUFFICES ASSUME TypeOK, OutputInv, NEW r \in Runs
                 PROVE  outputs[r] <= 1 + redelivered
      BY DEF OutputsPerDelivery
    <2> QED
      BY PendingFinite DEF TypeOK, OutputInv, Written, Unsent
  <1>3. Init => TypeOK
    BY DEF Init, TypeOK
  <1> QED
    BY <1>1, <1>2, <1>3, TypeStep, OutputStep, PTL DEF Spec

-----------------------------------------------------------------------------
(* Queued runs.                                                            *)

\* A queued run has a message, or is about to get one, or somebody is at work
\* on it.
Waits(r) == queue[r] > 0 \/ creating[r] = "row" \/ cancelling[r] \/ Executing(r)

\* Why no queued run is forgotten while nobody dies: a worker past its claim
\* has a run that was started, and who revoked the task of a run that was not
\* has yet to save the cancel, so that message and worker may go.
WaitInv ==
  /\ \A w \in Workers :
       pc[w] \in {"work", "finish"} => status[on[w]] \notin {"absent", "queued"}
  /\ crashes = 0 =>
       \A r \in Runs :
         /\ revoked[r] => cancelling[r] \/ status[r] \notin {"absent", "queued"}
         /\ status[r] = "queued" => Waits(r)

\* A step that leaves a run's message, request and workers alone.
LEMMA WaitsOn ==
  ASSUME NEW s, Waits(s), UNCHANGED <<queue, creating, cancelling, pc, on>>
  PROVE  Waits(s)'
  BY DEF Waits, Executing

\* A worker that leaves its run stays away from every other run.
LEMMA WaitsWithout ==
  ASSUME NEW w \in Workers, NEW s, Waits(s), on[w] # s, EndTask(w), TypeOK,
         UNCHANGED <<queue, creating, cancelling>>
  PROVE  Waits(s)'
  <1>1. CASE Executing(s)
    <2>1. PICK v \in Workers : pc[v] # "idle" /\ on[v] = s
      BY <1>1 DEF Executing
    <2>2. pc'[v] # "idle" /\ on'[v] = s
      BY <2>1 DEF EndTask, TypeOK
    <2> QED
      BY <2>2 DEF Waits, Executing
  <1>2. CASE ~Executing(s)
    BY <1>2 DEF Waits
  <1> QED
    BY <1>1, <1>2

\* A worker that starts on a run is at work on it, and takes nobody away.
LEMMA WaitsStarted ==
  ASSUME NEW w \in Workers, NEW r \in Runs, NEW s \in Runs, TypeOK, pc[w] = "idle",
         pc' = [pc EXCEPT ![w] = "claim"], on' = [on EXCEPT ![w] = r],
         s = r \/ Waits(s), s # r => UNCHANGED <<queue[s], creating[s], cancelling[s]>>
  PROVE  Waits(s)'
  <1>1. CASE s = r
    <2>1. pc'[w] # "idle" /\ on'[w] = s
      BY <1>1 DEF TypeOK
    <2> QED
      BY <2>1 DEF Waits, Executing
  <1>2. CASE s # r /\ Executing(s)
    <2>1. PICK v \in Workers : pc[v] # "idle" /\ on[v] = s
      BY <1>2 DEF Executing
    <2>2. pc'[v] # "idle" /\ on'[v] = s
      BY <2>1 DEF TypeOK
    <2> QED
      BY <2>2 DEF Waits, Executing
  <1>3. CASE s # r /\ ~Executing(s)
    BY <1>3 DEF Waits
  <1> QED
    BY <1>1, <1>2, <1>3

\* Every step preserves it.  Deliveries put a worker in the place of the
\* message; a worker that gives up, or a message that is dropped, belongs to a
\* run that has started or is being cancelled.
LEMMA WaitStep == TypeOK /\ WaitInv /\ [Next]_vars => WaitInv'
  <1> SUFFICES ASSUME TypeOK, WaitInv, [Next]_vars PROVE WaitInv'
    OBVIOUS
  <1> USE DEF rowVars, msgVars, webVars, workVars, sweepVars
  <1> DEFINE Past == \A w \in Workers :
                       pc[w] \in {"work", "finish"}
                         => status[on[w]] \notin {"absent", "queued"}
             Kept(r) == /\ revoked[r] => cancelling[r] \/ status[r] \notin {"absent", "queued"}
                        /\ status[r] = "queued" => Waits(r)
  <1>0. Past /\ (crashes = 0 => \A r \in Runs : Kept(r))
    BY DEF WaitInv
  <1>1. Past' /\ crashes' \in {crashes, crashes + 1}
    <2> USE DEF TypeOK, Active, Final, SetStatus, UpdateIf
    <2>1. ASSUME NEW r \in Runs, RunStep(r) PROVE Past' /\ crashes' \in {crashes, crashes + 1}
      BY <1>0, <2>1 DEF RunStep, CreateRun, Enqueue, StoreTaskId, Redeliver,
                  DropRevoked, StartCancel, SaveCancel, PassCutoff, SweepRun,
                  CreatorDies, CancelDies, Die
    <2>2. ASSUME NEW w \in Workers, WorkerStep(w)
          PROVE  Past' /\ crashes' \in {crashes, crashes + 1}
      BY <1>0, <2>2 DEF WorkerStep, Claim, ClaimRefused, PersistOutputs, Finish,
                  Fail, KillRevoked, WorkerDies, EndTask, Die
    <2>3. ASSUME NEW w \in Workers, NEW r \in Runs, Deliver(w, r) \/ ExecuteInProcess(w, r)
          PROVE  Past' /\ crashes' \in {crashes, crashes + 1}
      BY <1>0, <2>3 DEF Deliver, ExecuteInProcess
    <2>4. CASE Inspect \/ ListCandidates \/ EndSweep \/ UNCHANGED vars
      BY <1>0, <2>4 DEF Inspect, ListCandidates, EndSweep, vars
    <2> QED
      BY <2>1, <2>2, <2>3, <2>4 DEF Next
  <1>2. SUFFICES ASSUME crashes' = 0, NEW s \in Runs PROVE Kept(s)'
    BY <1>1 DEF WaitInv
  <1>3. crashes = 0 /\ Kept(s)
    BY <1>0, <1>1, <1>2 DEF TypeOK
  <1>4. ASSUME NEW r \in Runs, RunStep(r) PROVE Kept(s)'
    <2>0. UNCHANGED <<pc, on>>
      BY <1>4 DEF RunStep, CreateRun, Enqueue, StoreTaskId, Redeliver, DropRevoked,
                  StartCancel, SaveCancel, PassCutoff, SweepRun, CreatorDies, CancelDies
    <2>1. Executing(s)' = Executing(s)
      BY <2>0 DEF Executing
    <2> USE <1>3, <2>0, <2>1 DEF TypeOK, Waits, SetStatus, UpdateIf, Active, Final
    <2>2. CASE CreateRun(r)    BY <2>2 DEF CreateRun
    <2>3. CASE Enqueue(r)      BY <2>3 DEF Enqueue
    <2>4. CASE StoreTaskId(r)  BY <2>4 DEF StoreTaskId
    <2>5. CASE Redeliver(r)    BY <2>5 DEF Redeliver
    <2>6. CASE DropRevoked(r)  BY <2>6 DEF DropRevoked
    <2>7. CASE StartCancel(r)  BY <2>7 DEF StartCancel
    <2>8. CASE SaveCancel(r)   BY <2>8 DEF SaveCancel
    <2>9. CASE PassCutoff(r)   BY <2>9 DEF PassCutoff
    <2>10. CASE SweepRun(r)    BY <2>10 DEF SweepRun
    <2>11. CASE CreatorDies(r) BY <1>2, <2>11 DEF CreatorDies, Die
    <2>12. CASE CancelDies(r)  BY <1>2, <2>12 DEF CancelDies, Die
    <2> QED BY <1>4, <2>2, <2>3, <2>4, <2>5, <2>6, <2>7, <2>8, <2>9, <2>10, <2>11,
               <2>12 DEF RunStep
  <1>5. ASSUME NEW w \in Workers, NEW r \in Runs, Deliver(w, r) \/ ExecuteInProcess(w, r)
        PROVE  Kept(s)'
    <2>1. /\ UNCHANGED <<revoked, creating, cancelling>>
          /\ pc[w] = "idle"
          /\ pc' = [pc EXCEPT ![w] = "claim"]
          /\ on' = [on EXCEPT ![w] = r]
          /\ s # r => UNCHANGED <<status[s], queue[s]>>
      BY <1>5 DEF Deliver, ExecuteInProcess, TypeOK, SetStatus
    <2>2. revoked'[s] => cancelling'[s] \/ status'[s] \notin {"absent", "queued"}
      BY <1>3, <1>5, <2>1 DEF Deliver, ExecuteInProcess, TypeOK, SetStatus
    <2>3. status'[s] = "queued" => s = r \/ Waits(s)
      BY <1>3, <2>1
    <2>4. status'[s] = "queued" => Waits(s)'
      BY <2>1, <2>3, WaitsStarted
    <2> QED
      BY <2>2, <2>4
  <1>6. ASSUME NEW w \in Workers, Claim(w) \/ PersistOutputs(w) PROVE Kept(s)'
    <2>1. /\ UNCHANGED <<queue, revoked, creating, cancelling, on>>
          /\ \A v \in Workers : pc[v] # "idle" => pc'[v] # "idle"
          /\ status'[s] # status[s] => status'[s] = "running"
      BY <1>6 DEF Claim, PersistOutputs, TypeOK, SetStatus
    <2>2. Executing(s) => Executing(s)'
      BY <2>1 DEF Executing
    <2> QED
      BY <1>3, <2>1, <2>2 DEF Waits
  <1>7. ASSUME NEW w \in Workers,
               ClaimRefused(w) \/ Finish(w) \/ Fail(w) \/ KillRevoked(w)
        PROVE  Kept(s)'
    <2>1. /\ UNCHANGED <<queue, revoked, creating, cancelling>>
          /\ EndTask(w) /\ pc[w] # "idle" /\ on[w] \in Runs
          /\ \/ status'[s] = status[s]
             \/ status'[s] \notin {"absent", "queued"} /\ status[s] = "running"
      BY <1>7 DEF ClaimRefused, Finish, Fail, KillRevoked, TypeOK, SetStatus, UpdateIf
    <2>2. status[on[w]] = "queued" => cancelling[on[w]]
      <3>1. CASE ClaimRefused(w)
        BY <3>1 DEF ClaimRefused, Active
      <3>2. CASE Finish(w) \/ Fail(w)
        BY <1>0, <3>2 DEF Finish, Fail
      <3>3. CASE KillRevoked(w)
        BY <1>0, <1>3, <2>1, <3>3 DEF KillRevoked
      <3> QED
        BY <1>7, <3>1, <3>2, <3>3
    <2>3. status'[s] = "queued" => Waits(s)'
      <3>1. CASE s = on[w]
        BY <2>1, <2>2, <3>1 DEF Waits
      <3>2. CASE s # on[w]
        BY <1>3, <2>1, <3>2, WaitsWithout
      <3> QED
        BY <3>1, <3>2
    <2> QED
      BY <1>3, <2>1, <2>3
  <1>8. ASSUME NEW w \in Workers, WorkerDies(w) PROVE Kept(s)'
    BY <1>2, <1>3, <1>8 DEF WorkerDies, Die
  <1>9. CASE Inspect \/ ListCandidates \/ EndSweep \/ UNCHANGED vars
    <2>1. UNCHANGED <<status, queue, revoked, creating, cancelling, pc, on>>
      BY <1>9 DEF Inspect, ListCandidates, EndSweep, vars
    <2> QED
      BY <1>3, <2>1, WaitsOn
  <1> QED
    BY <1>4, <1>5, <1>6, <1>7, <1>8, <1>9 DEF Next, WorkerStep

\* As long as nobody dies, a queued run has a message, or somebody is at work
\* on it: nothing else would ever end it, for the sweep passes it over.
THEOREM QueuedWaits == Spec => []QueuedIsWaiting
  <1>1. Init => TypeOK
    BY DEF Init, TypeOK
  <1>2. Init => WaitInv
    BY DEF Init, WaitInv
  <1>3. WaitInv => QueuedIsWaiting
    BY DEF WaitInv, QueuedIsWaiting, Waits
  <1> QED
    BY <1>1, <1>2, <1>3, TypeStep, WaitStep, PTL DEF Spec
=============================================================================
