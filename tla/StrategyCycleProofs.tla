-------------------------- MODULE StrategyCycleProofs --------------------------
(***************************************************************************)
(* Proofs about StrategyCycle, for any starts, autopilot fires, requests,   *)
(* candidates and rows of the day, and any number of exceptions and deaths. *)
(***************************************************************************)
EXTENDS StrategyCycle, TLAPS

Jobs == [at : Steps, t : Targets \cup {None}, old : Targets \cup {None},
         flavor : {"council", "computed"}]
Callbacks == [at : Finals, by : Targets \cup {None}, chord : Procs \cup {Nobody},
              late : BOOLEAN]
Rows == [status : Statuses, by : Targets \cup {None}, chord : Procs \cup {Nobody}]
Runs == [status : {"none", "queued", "running", "done", "failed", "cancelled"},
         task : Procs \cup {Nobody}]
TaskSteps == {"none", "queued", "loaded", "judging", "judged", "unjudged", "lost"}

LEMMA TypeParts ==
  TypeOK <=> /\ row \in [Targets -> Rows]
             /\ run \in [Targets -> [Candidates -> Runs]]
             /\ job \in [Procs -> Jobs]
             /\ task \in [Procs -> [Candidates -> TaskSteps]]
             /\ final \in [Procs -> Callbacks]
             /\ rejected \subseteq Targets /\ held \subseteq Procs /\ crossed \subseteq Procs
             /\ faults \in Nat
  BY DEF TypeOK, Jobs, Callbacks, Rows, Runs, TaskSteps

-----------------------------------------------------------------------------
(* The inductive invariant.                                                *)

\* Before its chord is sent a process has no callback; it has a row from the
\* moment it resolves one, and tasks only from then on.
Phases ==
  \A p \in Procs :
    /\ job[p].at \notin {"sent", "done"} => final[p].at = "none"
    /\ job[p].at \in {"asked", "screening"} => p \in Starters
    /\ job[p].at \notin {"idle", "asked", "screening", "done"} \/ final[p].at # "none"
       => job[p].t \in Targets
    /\ job[p].at \in {"idle", "asked", "screening", "rejecting"}
       => \A c \in Candidates : task[p][c] = "none"

\* Who still has a row that is cancelled had it when it was cancelled.
Warned ==
  \A p \in Procs, t \in Targets :
    row[t].status = "cancelled" /\ HasRow(p, t) /\ final[p].at # "over" => final[p].late

\* Runs are cancelled by a rejection alone.
Unjudged ==
  /\ \A t \in Targets, c \in Candidates : run[t][c].status = "cancelled" => t \in rejected
  /\ UnjudgedWasRejected

\* Who emits beside a batch that is held has been overtaken by it.
Doubles ==
  /\ \A p \in held : final[p].at \in {"placed", "over"}
  /\ held # {} => \A p \in Procs : final[p].at = "emitting" => p \in crossed
  /\ OnlyOverlapDoubles

Inv == TypeOK /\ Phases /\ Warned /\ Unjudged /\ Doubles

LEMMA InvInit == Init => Inv
  <1> SUFFICES ASSUME Init
               PROVE  Inv
    OBVIOUS
  <1>1. TypeOK
    BY Bounds, NobodyIsNoProc
    DEF Init, TypeOK, NoRow, Waiting, Statuses, Active, Steps, Finals, Targets, None
  <1>2. Phases /\ Warned /\ Unjudged /\ Doubles
    BY DEF Init, Phases, Warned, Unjudged, UnjudgedWasRejected, Doubles, OnlyOverlapDoubles,
           HasRow, NoRow, Waiting
  <1> QED
    BY <1>1, <1>2 DEF Inv

-----------------------------------------------------------------------------
(* What the helpers do to a job, a callback or a row.                        *)

LEMMA StepNames ==
  /\ {"idle", "asked", "screening", "resolved", "created", "council", "sent",
      "rejecting", "done"} = Steps
  /\ {"none", "due", "constructing", "saved", "emitting", "placed", "over"} = Finals
  /\ {"screening", "awaiting_review", "running_council", "constructing", "running",
      "none", "done", "failed", "cancelled", "autopilot_submitted"} = Statuses
  BY DEF Steps, Finals, Statuses, Active

LEMMA GoesFacts ==
  ASSUME TypeOK, NEW p \in Procs, NEW step \in Steps, Goes(p, step)
  PROVE  /\ job' \in [Procs -> Jobs]
         /\ job'[p].at = step /\ job'[p].t = job[p].t /\ job'[p].flavor = job[p].flavor
         /\ \A q \in Procs \ {p} : job'[q] = job[q]
  <1>1. job \in [Procs -> Jobs]
    BY TypeParts
  <1> QED
    BY <1>1 DEF Goes, Jobs

LEMMA EndsFacts ==
  ASSUME TypeOK, NEW p \in Procs, NEW step \in Finals, Ends(p, step)
  PROVE  /\ final' \in [Procs -> Callbacks]
         /\ final'[p].at = step /\ final'[p].late = final[p].late
         /\ \A q \in Procs \ {p} : final'[q] = final[q]
  <1>1. final \in [Procs -> Callbacks]
    BY TypeParts
  <1> QED
    BY <1>1 DEF Ends, Callbacks

LEMMA WaitingFacts ==
  /\ Waiting \in Callbacks /\ Waiting.at = "none" /\ ~Waiting.late
  /\ [Waiting EXCEPT !.at = "over"] \in Callbacks
  /\ [Waiting EXCEPT !.at = "over"].at = "over"
  BY DEF Waiting, Callbacks, Finals, None

LEMMA OverFacts ==
  ASSUME TypeOK, NEW p \in Procs, Over(p)
  PROVE  /\ final' \in [Procs -> Callbacks]
         /\ final'[p].at = "over"
         /\ \A q \in Procs \ {p} : final'[q] = final[q]
  <1>1. final \in [Procs -> Callbacks]
    BY TypeParts
  <1> QED
    BY <1>1, WaitingFacts DEF Over

LEMMA StatusFacts ==
  ASSUME TypeOK, NEW t \in Targets, NEW status \in Statuses, SetStatus(t, status)
  PROVE  /\ row' \in [Targets -> Rows]
         /\ row'[t].status = status
         /\ \A u \in Targets \ {t} : row'[u] = row[u]
  <1>1. row \in [Targets -> Rows]
    BY TypeParts
  <1> QED
    BY <1>1 DEF SetStatus, Rows

\* A cycle that raises cancels no row and brings no cancelled row back.
LEMMA RaisesFacts ==
  ASSUME TypeOK, NEW p, Raises(p) \/ UNCHANGED row
  PROVE  /\ row' \in [Targets -> Rows]
         /\ \A t \in Targets : row'[t].status = "cancelled" <=> row[t].status = "cancelled"
  <1>1. row \in [Targets -> Rows]
    BY TypeParts
  <1>2. CASE row' = [t \in Targets |-> IF row[t].status \in Active
                                       THEN [row[t] EXCEPT !.status = "failed"] ELSE row[t]]
    <2>1. ASSUME NEW t \in Targets
          PROVE  /\ row'[t] \in Rows
                 /\ row'[t].status = "cancelled" <=> row[t].status = "cancelled"
      <3>1. row[t] \in Rows
        BY <1>1
      <3>2. CASE row[t].status \in Active
        <4>1. row'[t] = [row[t] EXCEPT !.status = "failed"] /\ row[t].status # "cancelled"
          BY <1>2, <3>2 DEF Active
        <4> QED
          BY <3>1, <4>1 DEF Rows, Statuses
      <3>3. CASE row[t].status \notin Active
        BY <1>2, <3>1, <3>3
      <3> QED
        BY <3>2, <3>3
    <2> QED
      BY <1>2, <2>1
  <1>3. CASE UNCHANGED row
    BY <1>1, <1>3
  <1> QED
    BY <1>2, <1>3 DEF Raises

LEMMA OvertakenFacts ==
  ASSUME NEW ts \in SUBSET Targets, NEW f \in [Procs -> Callbacks]
  PROVE  /\ Overtaken(ts, f) \in [Procs -> Callbacks]
         /\ \A p \in Procs :
              /\ Overtaken(ts, f)[p].at = f[p].at
              /\ f[p].late => Overtaken(ts, f)[p].late
              /\ (\E t \in ts : HasRow(p, t)) /\ f[p].at # "over" => Overtaken(ts, f)[p].late
  <1>1. ASSUME NEW p \in Procs
        PROVE  /\ Overtaken(ts, f)[p] \in Callbacks
               /\ Overtaken(ts, f)[p].at = f[p].at
               /\ f[p].late => Overtaken(ts, f)[p].late
               /\ (\E t \in ts : HasRow(p, t)) /\ f[p].at # "over" => Overtaken(ts, f)[p].late
    <2>1. f[p] \in Callbacks
      OBVIOUS
    <2>2. CASE \E t \in ts : HasRow(p, t) /\ f[p].at # "over"
      <3>1. Overtaken(ts, f)[p] = [f[p] EXCEPT !.late = TRUE]
        BY <2>2 DEF Overtaken
      <3> QED
        BY <2>1, <3>1 DEF Callbacks
    <2>3. CASE ~ \E t \in ts : HasRow(p, t) /\ f[p].at # "over"
      BY <2>1, <2>3 DEF Overtaken
    <2> QED
      BY <2>2, <2>3
  <1> QED
    BY <1>1 DEF Overtaken

\* A row that comes back is taken by a start or was overtaken in its process's hands.
Revives ==
  \A t \in Targets :
    row[t].status = "cancelled" /\ row'[t].status # "cancelled"
    => \/ \E s \in Starters : Resolve(s)
       \/ \E p \in Procs : job[p].t = t /\ final[p].late /\ ~BeginFinal(p)

-----------------------------------------------------------------------------
(* A cycle up to its row.                                                   *)

LEMMA AskRerunStep ==
  ASSUME Inv, NEW s \in Starters, NEW t \in Targets, AskRerun(s, t)
  PROVE  Inv' /\ Revives
  <1>0. TypeOK /\ s \in Procs
    BY DEF Inv, Procs
  <1>1. job \in [Procs -> Jobs] /\ UNCHANGED <<row, run, task, final, held, rejected, crossed, faults>>
    BY <1>0, TypeParts DEF AskRerun, auxVars
  <1>2. job[s].at = "idle" /\ job' = [job EXCEPT ![s].at = "asked", ![s].old = t]
    BY DEF AskRerun
  <1>3. /\ job' \in [Procs -> Jobs] /\ job'[s].at = "asked" /\ job'[s].t = job[s].t
        /\ \A q \in Procs \ {s} : job'[q] = job[q]
    BY <1>0, <1>1, <1>2 DEF Jobs, Steps
  <1>4. TypeOK'
    BY <1>0, <1>1, <1>3, TypeParts DEF TypeOK, Jobs
  <1>5. Phases'
    BY <1>0, <1>1, <1>2, <1>3 DEF Inv, Phases
  <1>6. Warned'
    BY <1>0, <1>1, <1>2, <1>3 DEF Inv, Warned, HasRow
  <1>7. Unjudged'
    BY <1>0, <1>1, <1>2, <1>3 DEF Inv, Phases, Unjudged, UnjudgedWasRejected
  <1>8. Doubles'
    BY <1>0, <1>1 DEF Inv, Doubles, OnlyOverlapDoubles
  <1> QED
    BY <1>1, <1>4, <1>5, <1>6, <1>7, <1>8 DEF Inv, Revives

LEMMA BeginPlainStep ==
  ASSUME Inv, NEW s \in Starters, NEW f \in Flavors, BeginPlain(s, f)
  PROVE  Inv' /\ Revives
  <1>0. TypeOK /\ s \in Procs /\ f \in {"council", "computed"}
    BY Kinds DEF Inv, Procs
  <1>1. job \in [Procs -> Jobs] /\ UNCHANGED <<row, run, task, final, held, rejected, crossed, faults>>
    BY <1>0, TypeParts DEF BeginPlain, auxVars
  <1>2. job[s].at = "idle"
    BY DEF BeginPlain
  <1>3. /\ job' \in [Procs -> Jobs] /\ job'[s].at \in {"screening", "done"}
        /\ job'[s].t = job[s].t
        /\ \A q \in Procs \ {s} : job'[q] = job[q]
    <2>1. CASE Goes(s, "done")
      BY <1>0, <2>1, GoesFacts, StepNames
    <2>2. CASE job' = [job EXCEPT ![s].at = "screening", ![s].flavor = f]
      BY <1>0, <1>1, <2>2 DEF Jobs, Steps
    <2> QED
      BY <2>1, <2>2 DEF BeginPlain
  <1>4. TypeOK'
    BY <1>0, <1>1, <1>3, TypeParts DEF TypeOK, Jobs
  <1>5. Phases'
    BY <1>0, <1>1, <1>2, <1>3 DEF Inv, Phases
  <1>6. Warned'
    BY <1>0, <1>1, <1>2, <1>3 DEF Inv, Warned, HasRow
  <1>7. Unjudged'
    BY <1>0, <1>1, <1>2, <1>3 DEF Inv, Phases, Unjudged, UnjudgedWasRejected
  <1>8. Doubles'
    BY <1>0, <1>1 DEF Inv, Doubles, OnlyOverlapDoubles
  <1> QED
    BY <1>1, <1>4, <1>5, <1>6, <1>7, <1>8 DEF Inv, Revives

LEMMA BeginForcedStep ==
  ASSUME Inv, NEW s \in Starters, NEW f \in Flavors, BeginForced(s, f)
  PROVE  Inv' /\ Revives
  <1> DEFINE mine == {t \in Targets : row[t].status \in Active}
  <1>0. TypeOK /\ s \in Procs /\ f \in {"council", "computed"}
    BY Kinds DEF Inv, Procs
  <1>1. /\ job \in [Procs -> Jobs] /\ final \in [Procs -> Callbacks]
        /\ row \in [Targets -> Rows]
        /\ UNCHANGED <<run, task, held, rejected, crossed, faults>>
    BY <1>0, TypeParts DEF BeginForced, auxVars
  <1>2. job[s].at \in {"idle", "asked"} /\ final[s].at = "none"
    BY <1>0 DEF BeginForced, Inv, Phases
  <1>3. /\ job' \in [Procs -> Jobs] /\ job'[s].at = "screening" /\ job'[s].t = job[s].t
        /\ \A q \in Procs \ {s} : job'[q] = job[q]
    BY <1>0, <1>1 DEF BeginForced, Jobs, Steps
  <1>4. /\ final' \in [Procs -> Callbacks]
        /\ \A p \in Procs : /\ final'[p].at = final[p].at
                            /\ final[p].late => final'[p].late
                            /\ (\E t \in mine : HasRow(p, t)) /\ final[p].at # "over"
                               => final'[p].late
    <2>1. final' = Overtaken(mine, final)
      BY DEF BeginForced
    <2>2. mine \subseteq Targets
      OBVIOUS
    <2> HIDE DEF mine
    <2> QED
      BY <1>1, <2>1, <2>2, OvertakenFacts
  <1>5. /\ row' \in [Targets -> Rows]
        /\ \A t \in Targets :
             row'[t].status = "cancelled" <=> row[t].status = "cancelled" \/ t \in mine
    <2>1. row' = [t \in Targets |-> IF t \in mine THEN [row[t] EXCEPT !.status = "cancelled"]
                                                 ELSE row[t]]
      BY DEF BeginForced
    <2> HIDE DEF mine
    <2>2. ASSUME NEW t \in Targets
          PROVE  row'[t] \in Rows /\ (row'[t].status = "cancelled"
                                      <=> row[t].status = "cancelled" \/ t \in mine)
      <3>1. row[t] \in Rows
        BY <1>1
      <3>2. CASE t \in mine
        BY <2>1, <3>1, <3>2 DEF Rows, Statuses
      <3>3. CASE t \notin mine
        BY <2>1, <3>1, <3>3
      <3> QED
        BY <3>2, <3>3
    <2> QED
      BY <2>1, <2>2
  <1> HIDE DEF mine
  <1>6. TypeOK'
    BY <1>0, <1>1, <1>3, <1>4, <1>5, TypeParts DEF TypeOK, Jobs, Callbacks, Rows
  <1>7. Phases'
    BY <1>0, <1>1, <1>2, <1>3, <1>4 DEF Inv, Phases
  <1>8. Warned'
    <2> SUFFICES ASSUME NEW p \in Procs, NEW t \in Targets, row'[t].status = "cancelled",
                        HasRow(p, t)', final'[p].at # "over"
                 PROVE  final'[p].late
      BY DEF Warned
    <2>1. HasRow(p, t) /\ final[p].at # "over"
      BY <1>2, <1>3, <1>4 DEF HasRow
    <2> QED
      BY <1>4, <1>5, <2>1 DEF Inv, Warned
  <1>9. Unjudged'
    BY <1>0, <1>1, <1>2, <1>3 DEF Inv, Phases, Unjudged, UnjudgedWasRejected
  <1>10. Doubles'
    BY <1>0, <1>1, <1>4 DEF Inv, TypeOK, Doubles, OnlyOverlapDoubles
  <1> QED
    BY <1>5, <1>6, <1>7, <1>8, <1>9, <1>10 DEF Inv, Revives

LEMMA ScreenRaisesStep ==
  ASSUME Inv, NEW s \in Starters, ScreenRaises(s)
  PROVE  Inv' /\ Revives
  <1>0. TypeOK /\ s \in Procs
    BY DEF Inv, Procs
  <1>1. UNCHANGED <<run, task, final, held, rejected, crossed>> /\ faults' \in Nat
    BY <1>0 DEF ScreenRaises, Fault, auxVars, TypeOK
  <1>2. job[s].at = "screening"
    BY DEF ScreenRaises
  <1>3. /\ job' \in [Procs -> Jobs] /\ job'[s].at = "done" /\ job'[s].t = job[s].t
        /\ \A q \in Procs \ {s} : job'[q] = job[q]
    BY <1>0, GoesFacts, StepNames DEF ScreenRaises
  <1>4. /\ row' \in [Targets -> Rows]
        /\ \A t \in Targets : row'[t].status = "cancelled" <=> row[t].status = "cancelled"
    BY <1>0, RaisesFacts DEF ScreenRaises
  <1>5. TypeOK'
    BY <1>0, <1>1, <1>3, <1>4, TypeParts DEF TypeOK, Jobs, Rows
  <1>6. Phases'
    BY <1>0, <1>1, <1>2, <1>3 DEF Inv, Phases
  <1>7. Warned'
    BY <1>0, <1>1, <1>2, <1>3, <1>4 DEF Inv, Warned, HasRow
  <1>8. Unjudged'
    BY <1>0, <1>1, <1>2, <1>3 DEF Inv, Phases, Unjudged, UnjudgedWasRejected
  <1>9. Doubles'
    BY <1>0, <1>1 DEF Inv, Doubles, OnlyOverlapDoubles
  <1> QED
    BY <1>4, <1>5, <1>6, <1>7, <1>8, <1>9 DEF Inv, Revives

LEMMA ResolveStep ==
  ASSUME Inv, NEW s \in Procs, Resolve(s)
  PROVE  Inv' /\ Revives
  <1> DEFINE t == Resolvable(s)
             status == IF job[s].flavor = "council" THEN "screening" ELSE "running"
  <1>0. TypeOK /\ job[s].at = "screening" /\ t \in Targets /\ s \in Starters
    BY DEF Inv, Resolve, Phases
  <1>1. /\ job \in [Procs -> Jobs] /\ final \in [Procs -> Callbacks]
        /\ row \in [Targets -> Rows]
        /\ UNCHANGED <<run, task, held, rejected, crossed, faults>>
    BY <1>0, TypeParts DEF Resolve, auxVars
  <1>2. final[s].at = "none"
    BY <1>0 DEF Inv, Phases
  <1>3. Revives
    BY <1>0 DEF Revives
  <1>s. status \in {"screening", "running"} /\ status # "cancelled" /\ status \in Statuses
    BY StepNames
  <1>4. CASE Admits(t, status)
    <2>1. /\ row' = [u \in Targets |->
                       IF u = t THEN [row[t] EXCEPT !.status = status]
                       ELSE IF u = job[s].old THEN [row[u] EXCEPT !.by = t] ELSE row[u]]
          /\ job' = [job EXCEPT ![s].at = IF status = "running" THEN "done" ELSE "resolved",
                                ![s].t = t]
          /\ final' = IF status = "running"
                      THEN [final EXCEPT ![s] = [final[s] EXCEPT !.at = "constructing",
                                                 !.by = row[t].by, !.chord = row[t].chord]]
                      ELSE final
      BY <1>4 DEF Resolve
    <2> HIDE DEF status, t
    <2>2. /\ job' \in [Procs -> Jobs] /\ job'[s].t = t
          /\ job'[s].at = IF status = "running" THEN "done" ELSE "resolved"
          /\ \A q \in Procs \ {s} : job'[q] = job[q]
      <3> DEFINE at == IF status = "running" THEN "done" ELSE "resolved"
      <3>1. at \in Steps
        BY StepNames
      <3>2. job' = [job EXCEPT ![s].at = at, ![s].t = t]
        BY <2>1
      <3> HIDE DEF at
      <3>3. job' \in [Procs -> Jobs] /\ job'[s].t = t /\ job'[s].at = at
            /\ \A q \in Procs \ {s} : job'[q] = job[q]
        BY <1>0, <1>1, <3>1, <3>2 DEF Jobs
      <3> QED
        BY <3>3 DEF at
    <2>3. /\ final' \in [Procs -> Callbacks]
          /\ final'[s].at = IF status = "running" THEN "constructing" ELSE "none"
          /\ \A q \in Procs \ {s} : final'[q] = final[q]
      <3>1. row[t].by \in Targets \cup {None} /\ row[t].chord \in Procs \cup {Nobody}
        BY <1>0, <1>1 DEF Rows
      <3>2. [final[s] EXCEPT !.at = "constructing", !.by = row[t].by, !.chord = row[t].chord]
              \in Callbacks
            /\ [final[s] EXCEPT !.at = "constructing", !.by = row[t].by,
                                !.chord = row[t].chord].at = "constructing"
        <4>1. final[s] \in Callbacks
          BY <1>1
        <4> QED
          BY <3>1, <4>1, StepNames DEF Callbacks
      <3> QED
        BY <1>1, <1>2, <2>1, <3>2
    <2>4. /\ row' \in [Targets -> Rows] /\ row'[t].status = status
          /\ \A u \in Targets \ {t} : row'[u].status = row[u].status
      <3>1. ASSUME NEW u \in Targets
            PROVE  /\ row'[u] \in Rows
                   /\ row'[u].status = IF u = t THEN status ELSE row[u].status
        <4>1. row[u] \in Rows /\ t \in Targets \cup {None}
          BY <1>0, <1>1
        <4>2. row'[u] \in {[row[u] EXCEPT !.status = status], [row[u] EXCEPT !.by = t], row[u]}
              /\ (u = t => row'[u] = [row[u] EXCEPT !.status = status])
              /\ (u # t => row'[u] \in {[row[u] EXCEPT !.by = t], row[u]})
          BY <2>1
        <4> QED
          BY <1>s, <4>1, <4>2 DEF Rows
      <3> QED
        BY <1>0, <2>1, <3>1
    <2>5. TypeOK'
      BY <1>0, <1>1, <2>2, <2>3, <2>4, TypeParts DEF TypeOK, Jobs, Callbacks, Rows
    <2>6. Phases'
      BY <1>0, <1>s, <1>1, <1>2, <2>2, <2>3 DEF Inv, Phases
    <2>7. Warned'
      BY <1>0, <1>s, <1>1, <1>2, <2>2, <2>3, <2>4 DEF Inv, Warned, HasRow
    <2>8. Unjudged'
      BY <1>0, <1>1, <2>2 DEF Inv, Phases, Unjudged, UnjudgedWasRejected
    <2>9. Doubles'
      BY <1>0, <1>1, <1>2, <2>3 DEF Inv, TypeOK, Doubles, OnlyOverlapDoubles
    <2> QED
      BY <1>3, <2>5, <2>6, <2>7, <2>8, <2>9 DEF Inv
  <1>5. CASE ~Admits(t, status)
    <2>1. Raises(s) /\ Goes(s, "done") /\ UNCHANGED final
      BY <1>5 DEF Resolve
    <2>2. /\ job' \in [Procs -> Jobs] /\ job'[s].at = "done" /\ job'[s].t = job[s].t
          /\ \A q \in Procs \ {s} : job'[q] = job[q]
      BY <1>0, <2>1, GoesFacts, StepNames
    <2>3. /\ row' \in [Targets -> Rows]
          /\ \A u \in Targets : row'[u].status = "cancelled" <=> row[u].status = "cancelled"
      BY <1>0, <2>1, RaisesFacts
    <2>5. TypeOK'
      BY <1>0, <1>1, <2>1, <2>2, <2>3, TypeParts DEF TypeOK, Jobs, Rows
    <2>6. Phases'
      BY <1>0, <1>1, <1>2, <2>1, <2>2 DEF Inv, Phases
    <2>7. Warned'
      BY <1>0, <1>1, <1>2, <2>1, <2>2, <2>3 DEF Inv, Warned, HasRow
    <2>8. Unjudged'
      BY <1>0, <1>1, <2>2 DEF Inv, Phases, Unjudged, UnjudgedWasRejected
    <2>9. Doubles'
      BY <1>0, <1>1, <2>1 DEF Inv, Doubles, OnlyOverlapDoubles
    <2> QED
      BY <1>3, <2>5, <2>6, <2>7, <2>8, <2>9 DEF Inv
  <1> QED
    BY <1>4, <1>5

\* Steps of a process that has its row and no callback yet: who brings the row
\* back has been warned.
LEMMA HandRevives ==
  ASSUME Inv, NEW p \in Procs, job[p].t \in Targets, HasRow(p, job[p].t),
         final[p].at \notin {"due", "over"},
         \A u \in Targets \ {job[p].t} :
           row[u].status = "cancelled" => row'[u].status = "cancelled"
  PROVE  Revives
  <1> SUFFICES ASSUME NEW u \in Targets, row[u].status = "cancelled",
                      row'[u].status # "cancelled"
               PROVE  job[p].t = u /\ final[p].late /\ ~BeginFinal(p)
    BY DEF Revives
  <1>1. u = job[p].t
    OBVIOUS
  <1>2. final[p].late
    BY <1>1 DEF Inv, Warned
  <1>3. ~BeginFinal(p)
    BY DEF BeginFinal
  <1> QED
    BY <1>1, <1>2, <1>3

LEMMA AwaitReviewStep ==
  ASSUME Inv, NEW s \in Procs, AwaitReview(s)
  PROVE  Inv' /\ Revives
  <1> DEFINE t == job[s].t
  <1>0. TypeOK /\ job[s].at = "resolved" /\ t \in Targets /\ final[s].at = "none"
    BY DEF Inv, AwaitReview, Phases
  <1>1. UNCHANGED <<run, task, final, held, rejected, crossed, faults>>
    BY DEF AwaitReview, auxVars
  <1>2. /\ job' \in [Procs -> Jobs] /\ job'[s].at = "done" /\ job'[s].t = t
        /\ \A q \in Procs \ {s} : job'[q] = job[q]
    BY <1>0, GoesFacts, StepNames DEF AwaitReview
  <1>3. /\ row' \in [Targets -> Rows]
        /\ row'[t].status \in {row[t].status, "awaiting_review"}
        /\ \A u \in Targets \ {t} : row'[u] = row[u]
    <2>1. CASE SetStatus(t, "awaiting_review")
      BY <1>0, <2>1, StatusFacts, StepNames
    <2>2. CASE UNCHANGED row
      BY <1>0, <2>2, TypeParts
    <2> QED
      BY <2>1, <2>2 DEF AwaitReview
  <1>4. Revives
    BY <1>0, <1>3, HandRevives DEF HasRow
  <1>5. TypeOK'
    BY <1>0, <1>1, <1>2, <1>3, TypeParts DEF TypeOK, Jobs, Rows
  <1>6. Phases'
    BY <1>0, <1>1, <1>2 DEF Inv, Phases
  <1>7. Warned'
    BY <1>0, <1>1, <1>2, <1>3 DEF Inv, Warned, HasRow
  <1>8. Unjudged'
    BY <1>0, <1>1, <1>2 DEF Inv, Phases, Unjudged, UnjudgedWasRejected
  <1>9. Doubles'
    BY <1>0, <1>1 DEF Inv, Doubles, OnlyOverlapDoubles
  <1> QED
    BY <1>4, <1>5, <1>6, <1>7, <1>8, <1>9 DEF Inv

-----------------------------------------------------------------------------
(* Sending the councils.                                                    *)

LEMMA SendStep ==
  ASSUME Inv, NEW p \in Procs, NothingToJudge(p) \/ SendChord(p)
  PROVE  Inv' /\ Revives
  <1>0. TypeOK /\ job[p].at \in {"resolved", "council"} /\ job[p].t \in Targets
        /\ final[p].at = "none"
    BY DEF Inv, NothingToJudge, SendChord, Phases
  <1>1. UNCHANGED <<row, run, task, held, rejected, crossed, faults>>
    BY DEF NothingToJudge, SendChord, auxVars
  <1>2. /\ job' \in [Procs -> Jobs] /\ job'[p].at \in {"done", "sent"} /\ job'[p].t = job[p].t
        /\ \A q \in Procs \ {p} : job'[q] = job[q]
    BY <1>0, GoesFacts, StepNames DEF NothingToJudge, SendChord
  <1>3. /\ final' \in [Procs -> Callbacks]
        /\ final'[p].at = "due" /\ final'[p].late = final[p].late
        /\ \A q \in Procs \ {p} : final'[q] = final[q]
    BY <1>0, EndsFacts, StepNames DEF NothingToJudge, SendChord
  <1>5. TypeOK'
    BY <1>0, <1>1, <1>2, <1>3, TypeParts DEF TypeOK, Jobs, Callbacks
  <1>6. Phases'
    BY <1>0, <1>1, <1>2, <1>3 DEF Inv, Phases
  <1>7. Warned'
    BY <1>0, <1>1, <1>2, <1>3 DEF Inv, Warned, HasRow
  <1>8. Unjudged'
    BY <1>0, <1>1, <1>2 DEF Inv, Phases, Unjudged, UnjudgedWasRejected
  <1>9. Doubles'
    BY <1>0, <1>1, <1>3 DEF Inv, TypeOK, Doubles, OnlyOverlapDoubles
  <1> QED
    BY <1>1, <1>5, <1>6, <1>7, <1>8, <1>9 DEF Inv, Revives

LEMMA CreateRunsStep ==
  ASSUME Inv, NEW p \in Procs, NEW cs \in SUBSET Candidates, CreateRuns(p, cs)
  PROVE  Inv' /\ Revives
  <1> DEFINE t == job[p].t
  <1>0. TypeOK /\ job[p].at = "resolved" /\ t \in Targets /\ final[p].at = "none"
    BY DEF Inv, CreateRuns, Phases
  <1>1. UNCHANGED <<row, final, held, rejected, crossed, faults>>
    BY DEF CreateRuns, auxVars
  <1>2. /\ job' \in [Procs -> Jobs] /\ job'[p].at = "created" /\ job'[p].t = t
        /\ \A q \in Procs \ {p} : job'[q] = job[q]
    BY <1>0, GoesFacts, StepNames DEF CreateRuns
  <1>3. /\ run' \in [Targets -> [Candidates -> Runs]]
        /\ \A u \in Targets, c \in Candidates :
             run'[u][c].status = "cancelled" => run[u][c].status = "cancelled"
    <2>1. run \in [Targets -> [Candidates -> Runs]]
      BY <1>0, TypeParts
    <2> DEFINE new == [c \in Candidates |->
                         IF c \in cs /\ run[t][c].status = "none"
                         THEN [status |-> "queued", task |-> Nobody] ELSE run[t][c]]
    <2>2. run' = [run EXCEPT ![t] = new]
      BY DEF CreateRuns
    <2>3. /\ new \in [Candidates -> Runs]
          /\ \A c \in Candidates : new[c].status = "cancelled" => run[t][c].status = "cancelled"
      BY <1>0, <2>1 DEF Runs
    <2> HIDE DEF new
    <2> QED
      BY <1>0, <2>1, <2>2, <2>3
  <1>4. /\ task' \in [Procs -> [Candidates -> TaskSteps]]
        /\ \A c \in Candidates : task'[p][c] \in {"queued", "none"}
        /\ \A q \in Procs \ {p} : task'[q] = task[q]
    <2>1. task \in [Procs -> [Candidates -> TaskSteps]]
      BY <1>0, TypeParts
    <2> QED
      BY <2>1 DEF CreateRuns, TaskSteps
  <1>5. TypeOK'
    BY <1>0, <1>1, <1>2, <1>3, <1>4, TypeParts DEF TypeOK, Jobs, Runs, TaskSteps
  <1>6. Phases'
    BY <1>0, <1>1, <1>2, <1>4 DEF Inv, Phases
  <1>7. Warned'
    BY <1>0, <1>1, <1>2 DEF Inv, Warned, HasRow
  <1>8. Unjudged'
    BY <1>0, <1>1, <1>2, <1>3, <1>4 DEF Inv, Phases, Unjudged, UnjudgedWasRejected
  <1>9. Doubles'
    BY <1>0, <1>1 DEF Inv, Doubles, OnlyOverlapDoubles
  <1> QED
    BY <1>1, <1>5, <1>6, <1>7, <1>8, <1>9 DEF Inv, Revives

LEMMA SetCouncilStep ==
  ASSUME Inv, NEW p \in Procs, SetCouncil(p)
  PROVE  Inv' /\ Revives
  <1> DEFINE t == job[p].t
  <1>0. TypeOK /\ job[p].at = "created" /\ t \in Targets /\ final[p].at = "none"
    BY DEF Inv, SetCouncil, Phases
  <1>1. UNCHANGED <<run, task, final, held, rejected, crossed, faults>>
    BY DEF SetCouncil, auxVars
  <1>2. /\ job' \in [Procs -> Jobs] /\ job'[p].at \in {"council", "done"} /\ job'[p].t = t
        /\ \A q \in Procs \ {p} : job'[q] = job[q]
    BY <1>0, GoesFacts, StepNames DEF SetCouncil
  <1>3. /\ row' \in [Targets -> Rows]
        /\ row'[t].status = "cancelled" => row[t].status = "cancelled"
        /\ \A u \in Targets \ {t} : row'[u].status = "cancelled" <=> row[u].status = "cancelled"
    <2>1. CASE SetStatus(t, "running_council")
      BY <1>0, <2>1, StatusFacts, StepNames
    <2>2. CASE Raises(p)
      BY <1>0, <2>2, RaisesFacts
    <2> QED
      BY <2>1, <2>2 DEF SetCouncil
  <1>4. Revives
    BY <1>0, <1>3, HandRevives DEF HasRow
  <1>5. TypeOK'
    BY <1>0, <1>1, <1>2, <1>3, TypeParts DEF TypeOK, Jobs, Rows
  <1>6. Phases'
    BY <1>0, <1>1, <1>2 DEF Inv, Phases
  <1>7. Warned'
    BY <1>0, <1>1, <1>2, <1>3 DEF Inv, Warned, HasRow
  <1>8. Unjudged'
    BY <1>0, <1>1, <1>2 DEF Inv, Phases, Unjudged, UnjudgedWasRejected
  <1>9. Doubles'
    BY <1>0, <1>1 DEF Inv, Doubles, OnlyOverlapDoubles
  <1> QED
    BY <1>4, <1>5, <1>6, <1>7, <1>8, <1>9 DEF Inv

LEMMA StoreTaskIdStep ==
  ASSUME Inv, NEW p \in Procs, StoreTaskId(p)
  PROVE  Inv' /\ Revives
  <1> DEFINE t == job[p].t
  <1>0. TypeOK /\ job[p].at = "sent" /\ t \in Targets
    BY DEF Inv, StoreTaskId, Phases
  <1>1. UNCHANGED <<run, task, final, held, rejected, crossed, faults>>
    BY DEF StoreTaskId, auxVars
  <1>2. /\ job' \in [Procs -> Jobs] /\ job'[p].at = "done" /\ job'[p].t = t
        /\ \A q \in Procs \ {p} : job'[q] = job[q]
    BY <1>0, GoesFacts, StepNames DEF StoreTaskId
  <1>3. row' \in [Targets -> Rows] /\ \A u \in Targets : row'[u].status = row[u].status
    <2>1. row \in [Targets -> Rows]
      BY <1>0, TypeParts
    <2>2. row' = [row EXCEPT ![t].chord = p]
      BY DEF StoreTaskId
    <2> QED
      BY <1>0, <2>1, <2>2 DEF Rows
  <1>5. TypeOK'
    BY <1>0, <1>1, <1>2, <1>3, TypeParts DEF TypeOK, Jobs, Rows
  <1>6. Phases'
    BY <1>0, <1>1, <1>2 DEF Inv, Phases
  <1>7. Warned'
    BY <1>0, <1>1, <1>2, <1>3 DEF Inv, Warned, HasRow
  <1>8. Unjudged'
    BY <1>0, <1>1, <1>2 DEF Inv, Phases, Unjudged, UnjudgedWasRejected
  <1>9. Doubles'
    BY <1>0, <1>1 DEF Inv, Doubles, OnlyOverlapDoubles
  <1> QED
    BY <1>3, <1>5, <1>6, <1>7, <1>8, <1>9 DEF Inv, Revives

-----------------------------------------------------------------------------
(* The councils.                                                            *)

\* A process with a task under way has its row.
LEMMA TaskHasRow ==
  ASSUME Inv, NEW p \in Procs, NEW c \in Candidates, task[p][c] \in {"loaded", "judging"}
  PROVE  job[p].at \notin {"idle", "asked", "screening", "rejecting"}
  BY DEF Inv, Phases

LEMMA CouncilStep ==
  ASSUME Inv, NEW p \in Procs, NEW c \in Candidates, Council(p, c)
  PROVE  Inv' /\ Revives
  <1> DEFINE t == job[p].t
  <1>0. TypeOK /\ task \in [Procs -> [Candidates -> TaskSteps]]
        /\ run \in [Targets -> [Candidates -> Runs]]
    BY TypeParts DEF Inv
  <1>1. UNCHANGED <<row, job, final, held, rejected, crossed, faults>>
    BY DEF Council, LoadRun, ClaimRun, EndCouncil, auxVars
  <1>2. PICK step \in TaskSteps :
          /\ task' = [task EXCEPT ![p][c] = step]
          /\ step = "unjudged" => LoadRun(p, c) /\ run[t][c].status = "cancelled"
          /\ task[p][c] \in {"queued", "loaded", "judging"}
    BY DEF Council, LoadRun, ClaimRun, EndCouncil, Takes, TaskSteps
  <1>3. /\ task' \in [Procs -> [Candidates -> TaskSteps]]
        /\ task'[p][c] = step
        /\ \A q \in Procs, d \in Candidates : q # p \/ d # c => task'[q][d] = task[q][d]
    BY <1>0, <1>2
  <1>4. /\ run' \in [Targets -> [Candidates -> Runs]]
        /\ \A u \in Targets, d \in Candidates :
             run'[u][d].status = "cancelled" => run[u][d].status = "cancelled"
    <2>1. CASE UNCHANGED run
      BY <1>0, <2>1
    <2>2. CASE run' = [run EXCEPT ![t][c] = [status |-> "running", task |-> p]]
      <3>1. [status |-> "running", task |-> p] \in Runs
        BY DEF Runs
      <3> QED
        BY <1>0, <2>2, <3>1
    <2>3. ASSUME NEW s \in Ended, run' = [run EXCEPT ![t][c].status = s]
          PROVE  /\ run' \in [Targets -> [Candidates -> Runs]]
                 /\ \A u \in Targets, d \in Candidates :
                      run'[u][d].status = "cancelled" => run[u][d].status = "cancelled"
      <3>1. \A r \in Runs : [r EXCEPT !.status = s] \in Runs
                            /\ [r EXCEPT !.status = s].status # "cancelled"
        BY DEF Runs, Ended
      <3>2. run' = [run EXCEPT ![t] = [run[t] EXCEPT ![c] = [run[t][c] EXCEPT !.status = s]]]
        BY <2>3
      <3> HIDE DEF t
      <3>3. CASE t \in Targets
        <4>1. [run[t][c] EXCEPT !.status = s] \in Runs
              /\ [run[t][c] EXCEPT !.status = s].status # "cancelled"
          BY <1>0, <3>1, <3>3
        <4> DEFINE new == [run[t][c] EXCEPT !.status = s]
        <4> HIDE DEF new
        <4>2. run' = [run EXCEPT ![t] = [run[t] EXCEPT ![c] = new]]
          BY <3>2 DEF new
        <4>3. new \in Runs /\ new.status # "cancelled"
          BY <4>1 DEF new
        <4> QED
          BY <1>0, <3>3, <4>2, <4>3
      <3>4. CASE t \notin Targets
        <4>1. run' = run
          BY <1>0, <3>2, <3>4
        <4> QED
          BY <1>0, <4>1
      <3> QED
        BY <3>3, <3>4
    <2> QED
      BY <2>1, <2>2, <2>3 DEF Council, LoadRun, ClaimRun, EndCouncil
  <1>5. TypeOK'
    BY <1>0, <1>1, <1>3, <1>4, TypeParts DEF TypeOK, Runs, TaskSteps
  <1>6. Phases'
    <2>1. ASSUME NEW q \in Procs, job[q].at \in {"idle", "asked", "screening", "rejecting"},
                 NEW d \in Candidates
          PROVE  task'[q][d] = "none"
      <3>1. task[q][d] = "none"
        BY <2>1 DEF Inv, Phases
      <3> QED
        BY <1>2, <1>3, <3>1
    <2> QED
      BY <1>1, <2>1 DEF Inv, Phases
  <1>7. Warned'
    BY <1>1 DEF Inv, Warned, HasRow
  <1>8. Unjudged'
    <2>1. step = "unjudged" => t \in rejected
      <3>1. step = "unjudged" => Sent(p)
        BY <1>2 DEF LoadRun
      <3>2. step = "unjudged" => t \in Targets
        BY <3>1 DEF Inv, Phases, Sent
      <3> QED
        BY <1>2, <3>2 DEF Inv, Unjudged
    <2> QED
      BY <1>1, <1>3, <1>4, <2>1 DEF Inv, Unjudged, UnjudgedWasRejected
  <1>9. Doubles'
    BY <1>1 DEF Inv, Doubles, OnlyOverlapDoubles
  <1> QED
    BY <1>1, <1>5, <1>6, <1>7, <1>8, <1>9 DEF Inv, Revives

-----------------------------------------------------------------------------
(* The callback.                                                            *)

LEMMA CallbackFacts ==
  ASSUME Inv, NEW p \in Procs, final[p].at # "none"
  PROVE  /\ job[p].at \in {"sent", "done"} /\ job[p].t \in Targets
         /\ final[p].at # "over" => HasRow(p, job[p].t)
  BY DEF Inv, Phases, HasRow, TypeOK

\* A callback goes on: it has no task, run or job to change.
LEMMA FinalStep ==
  ASSUME Inv, NEW p \in Procs, final[p].at \notin {"none", "over"},
         UNCHANGED <<run, job, task, rejected>>,
         faults' \in Nat,
         final' \in [Procs -> Callbacks],
         final'[p].at \notin {"none", "due"},
         final'[p].at = "over" \/ (final[p].late => final'[p].late),
         \A q \in Procs \ {p} : final'[q] = final[q],
         row' \in [Targets -> Rows],
         \A u \in Targets : row'[u].status = "cancelled" => row[u].status = "cancelled",
         held' \subseteq Procs, crossed' \subseteq Procs,
         Doubles'
  PROVE  Inv'
  <1>1. TypeOK'
    BY TypeParts DEF Inv, TypeOK, Callbacks, Rows
  <1>2. Phases'
    BY DEF Inv, Phases
  <1>3. Warned'
    BY DEF Inv, Warned, HasRow
  <1>4. Unjudged'
    BY DEF Inv, Unjudged, UnjudgedWasRejected
  <1> QED
    BY <1>1, <1>2, <1>3, <1>4 DEF Inv

LEMMA DoublesQuiet ==
  ASSUME Inv, NEW p \in Procs, UNCHANGED <<held, crossed>>,
         final[p].at \in {"placed", "over"} => final'[p].at = "over",
         final'[p].at # "emitting",
         \A q \in Procs \ {p} : final'[q] = final[q]
  PROVE  Doubles'
  BY DEF Inv, TypeOK, Doubles, OnlyOverlapDoubles

LEMMA BeginFinalStep ==
  ASSUME Inv, NEW p \in Procs, BeginFinal(p)
  PROVE  Inv' /\ Revives
  <1> DEFINE t == job[p].t
  <1>0. TypeOK /\ final[p].at = "due" /\ t \in Targets
    BY CallbackFacts DEF Inv, BeginFinal
  <1>1. UNCHANGED <<run, job, task, held, rejected, crossed, faults>> /\ faults \in Nat
        /\ held \subseteq Procs /\ crossed \subseteq Procs
    BY <1>0, TypeParts DEF BeginFinal, auxVars
  <1>2. CASE IsCancelled(t) \/ ~Admits(t, "constructing")
    <2>1. Over(p) /\ (Raises(p) \/ UNCHANGED row)
      BY <1>2 DEF BeginFinal
    <2>2. /\ final' \in [Procs -> Callbacks] /\ final'[p].at = "over"
          /\ \A q \in Procs \ {p} : final'[q] = final[q]
      BY <1>0, <2>1, OverFacts
    <2>3. /\ row' \in [Targets -> Rows]
          /\ \A u \in Targets : row'[u].status = "cancelled" <=> row[u].status = "cancelled"
      BY <1>0, <2>1, RaisesFacts
    <2>4. Doubles'
      BY <1>0, <1>1, <2>2, DoublesQuiet
    <2>5. Revives
      BY <2>3 DEF Revives
    <2>6. Inv'
      BY <1>0, <1>1, <2>2, <2>3, <2>4, FinalStep
    <2> QED
      BY <2>5, <2>6
  <1>3. CASE ~(IsCancelled(t) \/ ~Admits(t, "constructing"))
    <2>1. /\ SetStatus(t, "constructing") /\ row[t].status # "cancelled"
          /\ final' = [final EXCEPT ![p] = [final[p] EXCEPT !.at = "constructing",
                                            !.by = row[t].by, !.chord = row[t].chord]]
      BY <1>3 DEF BeginFinal, IsCancelled
    <2>2. /\ row' \in [Targets -> Rows] /\ row'[t].status = "constructing"
          /\ \A u \in Targets \ {t} : row'[u] = row[u]
      BY <1>0, <2>1, StatusFacts, StepNames
    <2>3. /\ final' \in [Procs -> Callbacks] /\ final'[p].at = "constructing"
          /\ final'[p].late = final[p].late
          /\ \A q \in Procs \ {p} : final'[q] = final[q]
      <3>1. final \in [Procs -> Callbacks] /\ row \in [Targets -> Rows]
        BY <1>0, TypeParts
      <3>2. row[t].by \in Targets \cup {None} /\ row[t].chord \in Procs \cup {Nobody}
        BY <1>0, <3>1 DEF Rows
      <3> DEFINE new == [final[p] EXCEPT !.at = "constructing",
                                         !.by = row[t].by, !.chord = row[t].chord]
      <3>3. new \in Callbacks /\ new.at = "constructing" /\ new.late = final[p].late
        <4>1. final[p] \in Callbacks
          BY <3>1
        <4> QED
          BY <3>2, <4>1, StepNames DEF Callbacks
      <3>4. final' = [final EXCEPT ![p] = new]
        BY <2>1
      <3> HIDE DEF new
      <3> QED
        BY <3>1, <3>3, <3>4
    <2>4. Doubles'
      BY <1>0, <1>1, <2>3, DoublesQuiet
    <2>5. Revives
      BY <2>1, <2>2 DEF Revives
    <2>6. \A u \in Targets : row'[u].status = "cancelled" => row[u].status = "cancelled"
      BY <2>2
    <2>7. Inv'
      BY <1>0, <1>1, <2>2, <2>3, <2>4, <2>6, FinalStep
    <2> QED
      BY <2>5, <2>7
  <1> QED
    BY <1>2, <1>3

LEMMA SaveDoneStep ==
  ASSUME Inv, NEW p \in Procs, SaveDone(p)
  PROVE  Inv' /\ Revives
  <1> DEFINE t == job[p].t
  <1>0. TypeOK /\ final[p].at = "constructing" /\ t \in Targets /\ HasRow(p, t)
    BY CallbackFacts DEF Inv, SaveDone
  <1>1. UNCHANGED <<run, job, task, held, rejected, crossed, faults>> /\ faults \in Nat
        /\ held \subseteq Procs /\ crossed \subseteq Procs
        /\ final \in [Procs -> Callbacks] /\ row \in [Targets -> Rows]
    BY <1>0, TypeParts DEF SaveDone, auxVars
  <1>2. CASE ~Admits(t, "done")
    <2>1. Over(p) /\ (Raises(p) \/ UNCHANGED row)
      BY <1>2 DEF SaveDone
    <2>2. /\ final' \in [Procs -> Callbacks] /\ final'[p].at = "over"
          /\ \A q \in Procs \ {p} : final'[q] = final[q]
      BY <1>0, <2>1, OverFacts
    <2>3. /\ row' \in [Targets -> Rows]
          /\ \A u \in Targets : row'[u].status = "cancelled" <=> row[u].status = "cancelled"
      BY <1>0, <2>1, RaisesFacts
    <2>4. Doubles'
      BY <1>0, <1>1, <2>2, DoublesQuiet
    <2>5. Revives
      BY <2>3 DEF Revives
    <2>6. Inv'
      BY <1>0, <1>1, <2>2, <2>3, <2>4, FinalStep
    <2> QED
      BY <2>5, <2>6
  <1>3. CASE Admits(t, "done")
    <2> DEFINE new == [status |-> "done", by |-> final[p].by, chord |-> final[p].chord]
    <2>1. row' = [row EXCEPT ![t] = new] /\ Ends(p, "saved")
      BY <1>3 DEF SaveDone
    <2>2. new \in Rows /\ new.status = "done"
      <3>1. final[p].by \in Targets \cup {None} /\ final[p].chord \in Procs \cup {Nobody}
        BY <1>1 DEF Callbacks
      <3> QED
        BY <3>1, StepNames DEF Rows
    <2> HIDE DEF new
    <2>3. /\ row' \in [Targets -> Rows] /\ row'[t].status = "done"
          /\ \A u \in Targets \ {t} : row'[u] = row[u]
      BY <1>0, <1>1, <2>1, <2>2
    <2>4. /\ final' \in [Procs -> Callbacks] /\ final'[p].at = "saved"
          /\ final'[p].late = final[p].late
          /\ \A q \in Procs \ {p} : final'[q] = final[q]
      BY <1>0, <2>1, EndsFacts, StepNames
    <2>5. Doubles'
      BY <1>0, <1>1, <2>4, DoublesQuiet
    <2>6. Revives
      BY <1>0, <2>3, HandRevives
    <2>7. \A u \in Targets : row'[u].status = "cancelled" => row[u].status = "cancelled"
      BY <2>3
    <2>8. Inv'
      BY <1>0, <1>1, <2>3, <2>4, <2>5, <2>7, FinalStep
    <2> QED
      BY <2>6, <2>8
  <1> QED
    BY <1>2, <1>3

LEMMA ConstructRaisesStep ==
  ASSUME Inv, NEW p \in Procs, ConstructRaises(p)
  PROVE  Inv' /\ Revives
  <1>0. TypeOK /\ final[p].at = "constructing"
    BY DEF Inv, ConstructRaises
  <1>1. UNCHANGED <<run, job, task, held, rejected, crossed>> /\ faults' \in Nat
        /\ held \subseteq Procs /\ crossed \subseteq Procs
    BY <1>0, TypeParts DEF ConstructRaises, auxVars, Fault
  <1>2. /\ final' \in [Procs -> Callbacks] /\ final'[p].at = "over"
        /\ \A q \in Procs \ {p} : final'[q] = final[q]
    BY <1>0, OverFacts DEF ConstructRaises
  <1>3. /\ row' \in [Targets -> Rows]
        /\ \A u \in Targets : row'[u].status = "cancelled" <=> row[u].status = "cancelled"
    BY <1>0, RaisesFacts DEF ConstructRaises
  <1>4. Doubles'
    BY <1>0, <1>1, <1>2, DoublesQuiet
  <1>5. Inv'
    BY <1>0, <1>1, <1>2, <1>3, <1>4, FinalStep
  <1> QED
    BY <1>3, <1>5 DEF Revives

LEMMA CheckEmissionStep ==
  ASSUME Inv, NEW p \in Procs, CheckEmission(p)
  PROVE  Inv' /\ Revives
  <1>0. TypeOK /\ final[p].at = "saved"
    BY DEF Inv, CheckEmission
  <1>1. UNCHANGED <<row, run, job, task, held, rejected, crossed, faults>> /\ faults \in Nat
        /\ held \subseteq Procs /\ crossed \subseteq Procs /\ row \in [Targets -> Rows]
    BY <1>0, TypeParts DEF CheckEmission, auxVars
  <1>2. /\ final' \in [Procs -> Callbacks]
        /\ \/ final'[p].at = "over"
           \/ held = {} /\ final'[p].at = "emitting" /\ final'[p].late = final[p].late
        /\ \A q \in Procs \ {p} : final'[q] = final[q]
    BY <1>0, OverFacts, EndsFacts, StepNames DEF CheckEmission, NoneHeld
  <1>3. Doubles'
    BY <1>0, <1>1, <1>2 DEF Inv, TypeOK, Doubles, OnlyOverlapDoubles
  <1>4. Inv'
    BY <1>0, <1>1, <1>2, <1>3, FinalStep
  <1> QED
    BY <1>1, <1>4 DEF Revives

LEMMA EmitStep ==
  ASSUME Inv, NEW p \in Procs, Emit(p)
  PROVE  Inv' /\ Revives
  <1>0. TypeOK /\ final[p].at = "emitting"
    BY DEF Inv, Emit
  <1>1. UNCHANGED <<row, run, job, task, rejected, faults>> /\ faults \in Nat
        /\ held \subseteq Procs /\ crossed \subseteq Procs /\ row \in [Targets -> Rows]
    BY <1>0, TypeParts DEF Emit
  <1>2. /\ final' \in [Procs -> Callbacks] /\ final'[p].at = "placed"
        /\ final'[p].late = final[p].late
        /\ \A q \in Procs \ {p} : final'[q] = final[q]
    BY <1>0, EndsFacts, StepNames DEF Emit
  <1>3. p \notin held /\ (held # {} => p \in crossed)
    BY <1>0 DEF Inv, Doubles
  <1>4. CASE /\ held' = held \cup {p}
             /\ crossed' = crossed \cup {q \in Procs \ {p} : final[q].at = "emitting"}
    <2>1. Doubles'
      BY <1>1, <1>2, <1>3, <1>4 DEF Inv, Doubles, OnlyOverlapDoubles
    <2>2. held' \subseteq Procs /\ crossed' \subseteq Procs
      BY <1>1, <1>4
    <2> QED
      BY <1>0, <1>1, <1>2, <2>1, <2>2, FinalStep DEF Revives
  <1>5. CASE crossed' = crossed \ {p} /\ UNCHANGED held
    <2>1. Doubles'
      BY <1>1, <1>2, <1>3, <1>5 DEF Inv, Doubles, OnlyOverlapDoubles
    <2>2. held' \subseteq Procs /\ crossed' \subseteq Procs
      BY <1>1, <1>5
    <2> QED
      BY <1>0, <1>1, <1>2, <2>1, <2>2, FinalStep DEF Revives
  <1> QED
    BY <1>4, <1>5 DEF Emit

LEMMA SubmittedStep ==
  ASSUME Inv, NEW p \in Procs, Submitted(p)
  PROVE  Inv' /\ Revives
  <1> DEFINE t == job[p].t
  <1>0. TypeOK /\ final[p].at = "placed" /\ t \in Targets /\ HasRow(p, t)
    BY CallbackFacts DEF Inv, Submitted
  <1>1. UNCHANGED <<run, job, task, held, rejected, crossed, faults>> /\ faults \in Nat
        /\ held \subseteq Procs /\ crossed \subseteq Procs
    BY <1>0, TypeParts DEF Submitted, auxVars
  <1>2. /\ final' \in [Procs -> Callbacks] /\ final'[p].at = "over"
        /\ \A q \in Procs \ {p} : final'[q] = final[q]
    BY <1>0, OverFacts DEF Submitted
  <1>3. /\ row' \in [Targets -> Rows]
        /\ row'[t].status \in {row[t].status, "autopilot_submitted"}
        /\ \A u \in Targets \ {t} : row'[u] = row[u]
    <2>1. CASE SetStatus(t, "autopilot_submitted")
      BY <1>0, <2>1, StatusFacts, StepNames
    <2>2. CASE UNCHANGED row
      BY <1>0, <2>2, TypeParts
    <2> QED
      BY <2>1, <2>2 DEF Submitted
  <1>4. Doubles'
    BY <1>0, <1>1, <1>2, DoublesQuiet
  <1>5. Revives
    BY <1>0, <1>3, HandRevives
  <1>6. \A u \in Targets : row'[u].status = "cancelled" => row[u].status = "cancelled"
    BY <1>3
  <1>7. Inv'
    BY <1>0, <1>1, <1>2, <1>3, <1>4, <1>6, FinalStep
  <1> QED
    BY <1>5, <1>7

LEMMA ReleaseStep ==
  ASSUME Inv, NEW p \in Procs, Release(p)
  PROVE  Inv' /\ Revives
  <1>0. TypeOK /\ p \in held /\ held' = held \ {p} /\ crossed' = crossed \ {p}
    BY DEF Inv, Release
  <1>1. UNCHANGED <<row, run, job, task, final, rejected, faults>>
    BY DEF Release
  <1>2. TypeOK'
    BY <1>0, <1>1, TypeParts DEF TypeOK
  <1>3. Phases' /\ Warned' /\ Unjudged'
    BY <1>1 DEF Inv, Phases, Warned, HasRow, Unjudged, UnjudgedWasRejected
  <1>4. Doubles'
    BY <1>0, <1>1 DEF Inv, Doubles, OnlyOverlapDoubles
  <1> QED
    BY <1>1, <1>2, <1>3, <1>4 DEF Inv, Revives

-----------------------------------------------------------------------------
(* Requests.                                                                *)

LEMMA ApproveStep ==
  ASSUME Inv, NEW h \in Requests, NEW t \in Targets, Approve(h, t)
  PROVE  Inv' /\ Revives
  <1>0. TypeOK /\ h \in Procs /\ job[h].at = "idle" /\ row[t].status = "awaiting_review"
    BY DEF Inv, Procs, Approve
  <1>1. job \in [Procs -> Jobs] /\ UNCHANGED <<row, run, task, final, held, rejected, crossed, faults>>
    BY <1>0, TypeParts DEF Approve, auxVars
  <1>3. /\ job' \in [Procs -> Jobs] /\ job'[h].at = "resolved" /\ job'[h].t = t
        /\ \A q \in Procs \ {h} : job'[q] = job[q]
    BY <1>0, <1>1 DEF Approve, Jobs, Steps
  <1>4. TypeOK'
    BY <1>0, <1>1, <1>3, TypeParts DEF TypeOK, Jobs
  <1>5. Phases'
    BY <1>0, <1>1, <1>3 DEF Inv, Phases
  <1>6. Warned'
    BY <1>0, <1>1, <1>3 DEF Inv, Warned, HasRow
  <1>7. Unjudged'
    BY <1>0, <1>1, <1>3 DEF Inv, Phases, Unjudged, UnjudgedWasRejected
  <1>8. Doubles'
    BY <1>1 DEF Inv, Doubles, OnlyOverlapDoubles
  <1> QED
    BY <1>1, <1>4, <1>5, <1>6, <1>7, <1>8 DEF Inv, Revives

LEMMA StartRejectStep ==
  ASSUME Inv, NEW h \in Requests, NEW t \in Targets, StartReject(h, t)
  PROVE  Inv' /\ Revives
  <1>0. TypeOK /\ h \in Procs /\ job[h].at = "idle" /\ final[h].at = "none"
    BY DEF Inv, Procs, StartReject, Phases
  <1>1. /\ job \in [Procs -> Jobs] /\ final \in [Procs -> Callbacks]
        /\ row \in [Targets -> Rows]
        /\ UNCHANGED <<row, run, task, held, rejected, crossed, faults>>
    BY <1>0, TypeParts DEF StartReject, auxVars
  <1>2. /\ job' \in [Procs -> Jobs] /\ job'[h].at = "rejecting" /\ job'[h].t = t
        /\ \A q \in Procs \ {h} : job'[q] = job[q]
    BY <1>0, <1>1 DEF StartReject, Jobs, Steps
  <1>3. /\ final' \in [Procs -> Callbacks] /\ final'[h].at = "none"
        /\ \A q \in Procs \ {h} : final'[q] = final[q]
    <2>1. row[t].chord \in Procs \cup {Nobody} /\ final[h] \in Callbacks
      BY <1>0, <1>1 DEF Rows
    <2>2. final' = [final EXCEPT ![h].chord = row[t].chord]
      BY DEF StartReject
    <2> QED
      BY <1>0, <1>1, <2>1, <2>2 DEF Callbacks
  <1>4. TypeOK'
    BY <1>0, <1>1, <1>2, <1>3, TypeParts DEF TypeOK, Jobs, Callbacks
  <1>5. Phases'
    BY <1>0, <1>1, <1>2, <1>3 DEF Inv, Phases
  <1>6. Warned'
    BY <1>0, <1>1, <1>2, <1>3 DEF Inv, Warned, HasRow
  <1>7. Unjudged'
    BY <1>0, <1>1, <1>2 DEF Inv, Phases, Unjudged, UnjudgedWasRejected
  <1>8. Doubles'
    BY <1>0, <1>1, <1>3 DEF Inv, TypeOK, Doubles, OnlyOverlapDoubles
  <1> QED
    BY <1>1, <1>4, <1>5, <1>6, <1>7, <1>8 DEF Inv, Revives

LEMMA RejectStep ==
  ASSUME Inv, NEW h \in Requests, Reject(h)
  PROVE  Inv' /\ Revives
  <1> DEFINE t == job[h].t
             running == {c \in Candidates : run[t][c].status \in {"queued", "running"}}
             known == {pc \in Procs \X running :
                         /\ run[t][pc[2]].task = pc[1]
                         /\ task[pc[1]][pc[2]] \in {"queued", "loaded", "judging"}}
             callback == {p \in Procs : p = final[h].chord /\ final[p].at \notin {"none", "over"}}
             Left(ps) == [p \in Procs |-> IF p = h THEN Waiting
                                          ELSE IF p \in ps THEN [Waiting EXCEPT !.at = "over"]
                                          ELSE final[p]]
  <1>0. /\ TypeOK /\ h \in Procs /\ job[h].at = "rejecting" /\ t \in Targets
        /\ final[h].at = "none"
    BY DEF Inv, Procs, Reject, Phases
  <1>1. /\ final \in [Procs -> Callbacks] /\ run \in [Targets -> [Candidates -> Runs]]
        /\ task \in [Procs -> [Candidates -> TaskSteps]]
        /\ rejected' = rejected \cup {t} /\ UNCHANGED <<held, crossed, faults>>
    BY <1>0, TypeParts DEF Reject
  <1>2. PICK lost \in SUBSET known, dropped \in SUBSET callback :
          /\ task' = [p \in Procs |-> [c \in Candidates |->
                        IF <<p, c>> \in lost THEN "lost" ELSE task[p][c]]]
          /\ final' = Overtaken({t}, Left(dropped))
    BY DEF Reject
  <1>3. /\ task' \in [Procs -> [Candidates -> TaskSteps]]
        /\ \A p \in Procs, c \in Candidates :
             \/ task'[p][c] = task[p][c]
             \/ task'[p][c] = "lost" /\ task[p][c] \in {"queued", "loaded", "judging"}
    <2>1. ASSUME NEW p \in Procs, NEW c \in Candidates, <<p, c>> \in lost
          PROVE  task[p][c] \in {"queued", "loaded", "judging"}
      BY <1>2, <2>1
    <2>2. ASSUME NEW p \in Procs, NEW c \in Candidates
          PROVE  task'[p][c] = IF <<p, c>> \in lost THEN "lost" ELSE task[p][c]
      BY <1>2
    <2>4. task' \in [Procs -> [Candidates -> TaskSteps]]
      <3>1. ASSUME NEW p \in Procs
            PROVE  [c \in Candidates |-> IF <<p, c>> \in lost THEN "lost" ELSE task[p][c]]
                     \in [Candidates -> TaskSteps]
        BY <1>1 DEF TaskSteps
      <3> QED
        BY <1>2, <3>1
    <2> QED
      BY <2>1, <2>2, <2>4
  <1>4. /\ Left(dropped) \in [Procs -> Callbacks]
        /\ Left(dropped)[h].at = "none"
        /\ \A p \in Procs \ {h} :
             \/ Left(dropped)[p] = final[p]
             \/ Left(dropped)[p].at = "over" /\ final[p].at \notin {"none", "over"}
    <2>1. \A p \in dropped : final[p].at \notin {"none", "over"}
      BY <1>2
    <2>2. ASSUME NEW p \in Procs
          PROVE  Left(dropped)[p] = IF p = h THEN Waiting
                                    ELSE IF p \in dropped THEN [Waiting EXCEPT !.at = "over"]
                                    ELSE final[p]
      OBVIOUS
    <2>3. Left(dropped) \in [Procs -> Callbacks]
      BY <1>1, WaitingFacts
    <2> HIDE DEF Left
    <2> QED
      BY <1>0, <2>1, <2>2, <2>3, WaitingFacts
  <1>5. /\ final' \in [Procs -> Callbacks]
        /\ \A p \in Procs :
             /\ final'[p].at = Left(dropped)[p].at
             /\ Left(dropped)[p].late => final'[p].late
             /\ HasRow(p, t) /\ final'[p].at # "over" => final'[p].late
    <2> DEFINE f  == Left(dropped)
               ts == {t}
    <2>1. ts \in SUBSET Targets /\ \A p \in Procs : HasRow(p, t) => \E u \in ts : HasRow(p, u)
      BY <1>0
    <2>2. f \in [Procs -> Callbacks] /\ final' = Overtaken(ts, f)
      BY <1>2, <1>4
    <2> HIDE DEF f, ts, t
    <2>3. /\ final' \in [Procs -> Callbacks]
          /\ \A p \in Procs :
               /\ final'[p].at = f[p].at
               /\ f[p].late => final'[p].late
               /\ (\E u \in ts : HasRow(p, u)) /\ f[p].at # "over" => final'[p].late
      BY <2>1, <2>2, OvertakenFacts
    <2> QED
      BY <2>1, <2>3 DEF f
  <1>6. /\ run' \in [Targets -> [Candidates -> Runs]]
        /\ \A u \in Targets \ {t}, c \in Candidates : run'[u][c] = run[u][c]
    <2> DEFINE new == [c \in Candidates |->
                         IF c \in running THEN [run[t][c] EXCEPT !.status = "cancelled"]
                                          ELSE run[t][c]]
    <2>1. run' = [run EXCEPT ![t] = new]
      BY DEF Reject
    <2>2. \A r \in Runs : [r EXCEPT !.status = "cancelled"] \in Runs
      BY DEF Runs
    <2>3. new \in [Candidates -> Runs]
      <3> HIDE DEF running
      <3> QED
        BY <1>0, <1>1, <2>2
    <2> HIDE DEF new, t
    <2> QED
      BY <1>0, <1>1, <2>1, <2>3
  <1>7. /\ row' \in [Targets -> Rows] /\ row'[t].status = "cancelled"
        /\ \A u \in Targets \ {t} : row'[u] = row[u]
    BY <1>0, StatusFacts, StepNames DEF Reject
  <1>8. /\ job' \in [Procs -> Jobs] /\ job'[h].at = "done" /\ job'[h].t = t
        /\ \A q \in Procs \ {h} : job'[q] = job[q]
    BY <1>0, GoesFacts, StepNames DEF Reject
  <1> HIDE DEF running, known, callback, Left, t
  <1>9. TypeOK'
    <2>1. rejected' \subseteq Targets
      BY <1>0, <1>1 DEF TypeOK
    <2> QED
      BY <1>0, <1>1, <1>3, <1>5, <1>6, <1>7, <1>8, <2>1, TypeParts
      DEF TypeOK, Jobs, Callbacks, Rows, Runs, TaskSteps
  <1>10. Phases'
    <2>1. \A q \in Procs \ {h} : final'[q].at = final[q].at
                                 \/ (final'[q].at = "over" /\ final[q].at # "none")
      BY <1>4, <1>5
    <2>2. final'[h].at = "none"
      BY <1>0, <1>4, <1>5
    <2>3. \A q \in Procs : job'[q].at \in {"idle", "asked", "screening", "rejecting"}
            => q # h /\ \A c \in Candidates : task[q][c] = "none"
      BY <1>8 DEF Inv, Phases
    <2>4. \A q \in Procs : job'[q].at \in {"idle", "asked", "screening", "rejecting"}
            => \A c \in Candidates : task'[q][c] = "none"
      BY <1>3, <2>3
    <2> QED
      BY <1>0, <1>8, <2>1, <2>2, <2>4 DEF Inv, Phases
  <1>11. Warned'
    <2> SUFFICES ASSUME NEW p \in Procs, NEW u \in Targets, row'[u].status = "cancelled",
                        HasRow(p, u)', final'[p].at # "over"
                 PROVE  final'[p].late
      BY DEF Warned
    <2>1. p # h
      BY <1>4, <1>5, <1>8 DEF HasRow
    <2>2. Left(dropped)[p] = final[p] /\ final'[p].at = final[p].at
      BY <1>4, <1>5, <2>1
    <2>3. HasRow(p, u)
      BY <1>8, <2>1, <2>2 DEF HasRow
    <2>4. CASE u = t
      BY <1>5, <2>3, <2>4
    <2>5. CASE u # t
      <3>1. final[p].late
        BY <1>7, <2>2, <2>3, <2>5 DEF Inv, Warned
      <3> QED
        BY <1>5, <2>2, <3>1
    <2> QED
      BY <2>4, <2>5
  <1>12. Unjudged'
    <2>1. \A p \in Procs : job'[p].t = job[p].t
      BY <1>8 DEF t
    <2>2. \A p \in Procs, c \in Candidates : task'[p][c] = "unjudged" => task[p][c] = "unjudged"
      BY <1>3
    <2>3. UnjudgedWasRejected'
      BY <1>1, <2>1, <2>2 DEF Inv, Unjudged, UnjudgedWasRejected
    <2>4. \A u \in Targets, c \in Candidates : run'[u][c].status = "cancelled" => u \in rejected'
      BY <1>1, <1>6 DEF Inv, Unjudged
    <2> QED
      BY <2>3, <2>4 DEF Unjudged
  <1>13. Doubles'
    <2>1. h \notin held
      BY <1>0 DEF Inv, Doubles
    <2>2. \A q \in Procs : /\ final'[q].at = "emitting" => final[q].at = "emitting"
                           /\ q # h /\ final[q].at \in {"placed", "over"}
                              => final'[q].at \in {"placed", "over"}
      BY <1>0, <1>4, <1>5
    <2> QED
      BY <1>0, <1>1, <2>1, <2>2 DEF Inv, TypeOK, Doubles, OnlyOverlapDoubles
  <1>14. Revives
    BY <1>7 DEF Revives
  <1> QED
    BY <1>9, <1>10, <1>11, <1>12, <1>13, <1>14 DEF Inv

LEMMA DiesStep ==
  ASSUME Inv, NEW p \in Procs, Dies(p)
  PROVE  Inv' /\ Revives
  <1>0. TypeOK /\ faults' \in Nat /\ UNCHANGED <<row, run, held, rejected, crossed>>
    BY DEF Inv, Dies, Fault, auxVars, TypeOK
  <1>r. Revives
    BY <1>0 DEF Revives
  <1>1. CASE job[p].at \notin {"idle", "done"} /\ Goes(p, "done") /\ UNCHANGED <<task, final>>
    <2>1. /\ job' \in [Procs -> Jobs] /\ job'[p].at = "done" /\ job'[p].t = job[p].t
          /\ \A q \in Procs \ {p} : job'[q] = job[q]
      BY <1>0, <1>1, GoesFacts, StepNames
    <2>2. TypeOK'
      BY <1>0, <1>1, <2>1, TypeParts DEF TypeOK, Jobs
    <2>3. Phases'
      BY <1>1, <2>1 DEF Inv, Phases
    <2>4. Warned'
      BY <1>0, <1>1, <2>1 DEF Inv, Warned, HasRow
    <2>5. Unjudged'
      BY <1>0, <1>1, <2>1 DEF Inv, Unjudged, UnjudgedWasRejected
    <2>6. Doubles'
      BY <1>0, <1>1 DEF Inv, Doubles, OnlyOverlapDoubles
    <2> QED
      BY <1>r, <2>2, <2>3, <2>4, <2>5, <2>6 DEF Inv
  <1>2. ASSUME NEW c \in Candidates, task[p][c] \in {"loaded", "judging"},
               task' = [task EXCEPT ![p][c] = "lost"], UNCHANGED <<job, final>>
        PROVE  Inv' /\ Revives
    <2>1. task \in [Procs -> [Candidates -> TaskSteps]]
      BY <1>0, TypeParts
    <2>2. /\ task' \in [Procs -> [Candidates -> TaskSteps]] /\ task'[p][c] = "lost"
          /\ \A q \in Procs, d \in Candidates : q # p \/ d # c => task'[q][d] = task[q][d]
      BY <1>2, <2>1 DEF TaskSteps
    <2>3. TypeOK'
      BY <1>0, <1>2, <2>2, TypeParts DEF TypeOK, TaskSteps
    <2>4. Phases'
      <3>1. job[p].at \notin {"idle", "asked", "screening", "rejecting"}
        BY <1>2, TaskHasRow
      <3> QED
        BY <1>2, <2>2, <3>1 DEF Inv, Phases
    <2>5. Warned'
      BY <1>0, <1>2 DEF Inv, Warned, HasRow
    <2>6. Unjudged'
      BY <1>0, <1>2, <2>2 DEF Inv, Unjudged, UnjudgedWasRejected
    <2>7. Doubles'
      BY <1>0, <1>2 DEF Inv, Doubles, OnlyOverlapDoubles
    <2> QED
      BY <1>r, <2>3, <2>4, <2>5, <2>6, <2>7 DEF Inv
  <1>3. CASE /\ final[p].at \in {"constructing", "saved", "emitting", "placed"}
             /\ Over(p) /\ UNCHANGED <<job, task>>
    <2>1. /\ final' \in [Procs -> Callbacks] /\ final'[p].at = "over"
          /\ \A q \in Procs \ {p} : final'[q] = final[q]
      BY <1>0, <1>3, OverFacts
    <2>2. Doubles'
      BY <1>0, <1>3, <2>1, DoublesQuiet
    <2>3. row' \in [Targets -> Rows] /\ held' \subseteq Procs /\ crossed' \subseteq Procs
      BY <1>0, TypeParts
    <2>4. \A u \in Targets : row'[u].status = "cancelled" => row[u].status = "cancelled"
      BY <1>0
    <2>5. Inv'
      BY <1>0, <1>3, <2>1, <2>2, <2>3, <2>4, FinalStep
    <2> QED
      BY <1>r, <2>5
  <1> QED
    BY <1>1, <1>2, <1>3 DEF Dies

-----------------------------------------------------------------------------
LEMMA NextStep ==
  ASSUME Inv, Next
  PROVE  Inv' /\ Revives
  <1>1. ASSUME NEW s \in Starters, Start(s) \/ ScreenRaises(s)
        PROVE  Inv' /\ Revives
    BY <1>1, AskRerunStep, BeginPlainStep, BeginForcedStep, ScreenRaisesStep DEF Start
  <1>2. ASSUME NEW p \in Procs, Dispatch(p)
        PROVE  Inv' /\ Revives
    BY <1>2, ResolveStep, AwaitReviewStep, SendStep, CreateRunsStep, SetCouncilStep,
       StoreTaskIdStep DEF Dispatch
  <1>3. ASSUME NEW p \in Procs, Finalize(p) \/ ConstructRaises(p)
        PROVE  Inv' /\ Revives
    BY <1>3, BeginFinalStep, SaveDoneStep, ConstructRaisesStep, CheckEmissionStep, EmitStep,
       SubmittedStep DEF Finalize
  <1> QED
    BY <1>1, <1>2, <1>3, ApproveStep, StartRejectStep, RejectStep, ReleaseStep, DiesStep,
       CouncilStep DEF Next

LEMMA StutterStep ==
  ASSUME Inv, UNCHANGED vars
  PROVE  Inv'
  BY DEF Inv, vars, auxVars, TypeOK, Phases, Warned, HasRow, Unjudged, UnjudgedWasRejected,
         Doubles, OnlyOverlapDoubles

LEMMA InvHolds == Spec => []Inv
  <1>1. Inv /\ [Next]_vars => Inv'
    BY NextStep, StutterStep
  <1> QED
    BY InvInit, <1>1, PTL DEF Spec

\* Type correctness of every reachable state.
THEOREM TypeCorrect == Spec => []TypeOK
  <1>1. Inv => TypeOK
    BY DEF Inv
  <1> QED
    BY InvHolds, <1>1, PTL

\* A candidate goes unjudged only in a row that a user has rejected.
THEOREM UnjudgedRejected == Spec => []UnjudgedWasRejected
  <1>1. Inv => UnjudgedWasRejected
    BY DEF Inv, Unjudged
  <1> QED
    BY InvHolds, <1>1, PTL

\* Two held batches come from emissions that overlapped.
THEOREM DoublesOverlap == Spec => []OnlyOverlapDoubles
  <1>1. Inv => OnlyOverlapDoubles
    BY DEF Inv, Doubles
  <1> QED
    BY InvHolds, <1>1, PTL

\* A cancelled row comes back by a start or by a process it was cancelled under,
\* never by a callback that starts afterwards.
THEOREM RevivalOverlaps == Spec => OnlyOverlapRevives
  <1>1. Inv /\ [Next]_vars
        => [\A t \in Targets :
              row[t].status = "cancelled" /\ row'[t].status # "cancelled"
              => \/ \E s \in Starters : Resolve(s)
                 \/ \E p \in Procs : job[p].t = t /\ final[p].late /\ ~BeginFinal(p)]_vars
    BY NextStep DEF Revives
  <1> QED
    BY InvHolds, <1>1, PTL DEF Spec, OnlyOverlapRevives
=============================================================================
