---------------------------- MODULE FundHaltProofs ----------------------------
(***************************************************************************)
(* Proofs about FundHalt, for any members, sweeps, cycles and users, any    *)
(* limits, any valuation of the account and any number of failures, deaths  *)
(* and moves of the market.                                                *)
(***************************************************************************)
EXTENDS FundHalt, TLAPS

-----------------------------------------------------------------------------
(* Jobs: what a process holds.                                             *)

LEMMA NoRowType == NoRow \in Autopilots /\ NoFund \in Funds
  BY DEF NoRow, NoFund, Autopilots, Funds, Unknown

LEMMA JobFacts ==
  ASSUME NEW step \in Steps
  PROVE  /\ Job(step) \in Jobs
         /\ Job(step).at = step /\ Job(step).who = {} /\ Job(step).stale = {}
  BY NoRowType DEF Job, Jobs

LEMMA LoadedFacts ==
  ASSUME TypeOK, NEW step \in Steps, NEW ms \in SUBSET Members
  PROVE  /\ Loaded(step, ms) \in Jobs
         /\ Loaded(step, ms).at = step /\ Loaded(step, ms).who = ms
         /\ Loaded(step, ms).stale = {}
         /\ \A m \in ms : Loaded(step, ms).row[m] = ap[m]
  <1>1. [m \in Members |-> IF m \in ms THEN ap[m] ELSE NoRow] \in [Members -> Autopilots]
    BY NoRowType DEF TypeOK
  <1> QED
    BY <1>1, JobFacts DEF Loaded, Job, Jobs

\* A process that has seen to m holds no copy of m, and of the others what it held.
LEMMA SeenToFacts ==
  ASSUME TypeOK, NEW p \in Procs, NEW m \in Members, NEW step \in Steps
  PROVE  /\ SeenTo(p, m, step) \in Jobs
         /\ m \notin SeenTo(p, m, step).who
         /\ \/ SeenTo(p, m, step).at = step
               /\ SeenTo(p, m, step).who = {} /\ SeenTo(p, m, step).stale = {}
            \/ /\ SeenTo(p, m, step).at = job[p].at
               /\ SeenTo(p, m, step).who = job[p].who \ {m}
               /\ SeenTo(p, m, step).stale = job[p].stale \ {m}
               /\ \A n \in Members \ {m} : SeenTo(p, m, step).row[n] = job[p].row[n]
  <1>1. job[p] \in Jobs
    BY DEF TypeOK
  <1>2. CASE job[p].who = {m}
    BY <1>2, JobFacts DEF SeenTo
  <1>3. CASE job[p].who # {m}
    <2> DEFINE left == [job[p] EXCEPT !.who = @ \ {m}, !.row[m] = NoRow, !.stale = @ \ {m}]
    <2>1. SeenTo(p, m, step) = left
      BY <1>3 DEF SeenTo
    <2>2. left \in Jobs
      BY <1>1, NoRowType DEF Jobs
    <2>3. /\ left.at = job[p].at /\ left.who = job[p].who \ {m}
          /\ left.stale = job[p].stale \ {m}
          /\ \A n \in Members \ {m} : left.row[n] = job[p].row[n]
      BY <1>1 DEF Jobs
    <2> QED
      BY <2>1, <2>2, <2>3
  <1> QED
    BY <1>2, <1>3

\* The fund's row changes no copy of a member's.
LEMMA FundCopyFacts ==
  ASSUME NEW j \in Jobs, NEW f \in Funds
  PROVE  /\ [j EXCEPT !.frow = f] \in Jobs
         /\ [j EXCEPT !.frow = f].at = j.at /\ [j EXCEPT !.frow = f].who = j.who
         /\ [j EXCEPT !.frow = f].stale = j.stale
  BY DEF Jobs

LEMMA StepFacts ==
  ASSUME NEW j \in Jobs, NEW step \in Steps
  PROVE  /\ [j EXCEPT !.at = step] \in Jobs
         /\ [j EXCEPT !.at = step].at = step /\ [j EXCEPT !.at = step].who = j.who
         /\ [j EXCEPT !.at = step].stale = j.stale /\ [j EXCEPT !.at = step].row = j.row
  BY DEF Jobs

-----------------------------------------------------------------------------
(* Copies.  A process that loaded rows holds them as they are, but those     *)
(* that another has written since; this is what a step preserves.           *)

Holding == {"members", "loaded", "checked", "put", "enable"}

Own(j, rows) ==
  /\ j.stale \subseteq j.who
  /\ j.at \in Holding => \A m \in j.who \ j.stale : j.row[m] = rows[m]

Copies ==
  /\ \A p \in Procs : Own(job[p], ap)
  /\ \A c \in Cycles : job[c].at \in {"loaded", "checked"} => job[c].who = {Of[c]}

\* A process writes the rows of ms and goes on with j.
LEMMA GoesFacts ==
  ASSUME TypeOK, Copies, NEW p \in Procs, NEW j \in Jobs, NEW ms \in SUBSET Members,
         Goes(p, j, ms), ap' \in [Members -> Autopilots],
         \A m \in Members \ ms : ap'[m] = ap[m],
         Own(j, ap'),
         p \in Cycles /\ j.at \in {"loaded", "checked"} => j.who = {Of[p]}
  PROVE  job' \in [Procs -> Jobs] /\ job'[p] = j /\ Copies'
  <1>1. job \in [Procs -> Jobs]
    BY DEF TypeOK
  <1>2. ASSUME NEW q \in Procs \ {p}
        PROVE  /\ job'[q] \in Jobs
               /\ job'[q].at = job[q].at /\ job'[q].who = job[q].who
               /\ job'[q].row = job[q].row
               /\ job'[q].stale = job[q].stale \cup (ms \cap job[q].who)
    <2>1. job'[q] = [job[q] EXCEPT !.stale = job[q].stale \cup (ms \cap job[q].who)]
      BY DEF Goes
    <2>2. job[q] \in Jobs
      BY <1>1
    <2> QED
      BY <2>1, <2>2 DEF Jobs
  <1>3. job'[p] = j
    BY DEF Goes
  <1>4. job' \in [Procs -> Jobs]
    BY <1>2, <1>3 DEF Goes
  <1>5. ASSUME NEW q \in Procs
        PROVE  Own(job'[q], ap')
    <2>1. CASE q = p
      BY <1>3, <2>1
    <2>2. CASE q # p
      <3>1. Own(job[q], ap) /\ job[q] \in Jobs
        BY <1>1 DEF Copies
      <3>2. \A m \in job[q].who : m \in Members
        BY <3>1 DEF Jobs
      <3>3. q \in Procs \ {p}
        BY <2>2
      <3> QED
        BY <1>2, <3>1, <3>2, <3>3 DEF Own
    <2> QED
      BY <2>1, <2>2
  <1>6. ASSUME NEW c \in Cycles, job'[c].at \in {"loaded", "checked"}
        PROVE  job'[c].who = {Of[c]}
    BY <1>2, <1>3, <1>6 DEF Copies, Procs
  <1> QED
    BY <1>3, <1>4, <1>5, <1>6 DEF Copies

\* A process that takes up a job without copies, or with fresh ones.
LEMMA OwnJob ==
  ASSUME NEW step \in Steps, NEW rows
  PROVE  Own(Job(step), rows)
  BY JobFacts DEF Own

LEMMA OwnLoaded ==
  ASSUME TypeOK, NEW step \in Steps, NEW ms \in SUBSET Members
  PROVE  Own(Loaded(step, ms), ap)
  BY LoadedFacts DEF Own

LEMMA OwnSeenTo ==
  ASSUME TypeOK, Copies, NEW p \in Procs, NEW m \in Members, NEW step \in Steps,
         step = job[p].at \/ job[p].at \notin Holding,
         \A n \in Members \ {m} : ap'[n] = ap[n]
  PROVE  Own(SeenTo(p, m, step), ap')
  <1>1. Own(job[p], ap) /\ job[p] \in Jobs
    BY DEF Copies, TypeOK
  <1>2. job[p].who \subseteq Members
    BY <1>1 DEF Jobs
  <1> QED
    BY <1>1, <1>2, SeenToFacts DEF Own

LEMMA SameJob ==
  ASSUME TypeOK, Copies, NEW p \in Procs, NEW step \in Steps,
         step \notin Holding \/ job[p].at \in Holding,
         UNCHANGED ap
  PROVE  Own([job[p] EXCEPT !.at = step], ap')
  <1>1. Own(job[p], ap) /\ job[p] \in Jobs
    BY DEF Copies, TypeOK
  <1> QED
    BY <1>1, StepFacts DEF Own

-----------------------------------------------------------------------------
(* Values of the rows.                                                     *)

LEMMA LevelFacts == \A v \in Levels : v \in Nat /\ v # Unknown
  BY Numbers DEF Unknown

LEMMA SavedType ==
  ASSUME TypeOK, NEW m \in Members, NEW new \in Autopilots, Save(m, new)
  PROVE  /\ ap' \in [Members -> Autopilots] /\ ap'[m] = new
         /\ \A n \in Members \ {m} : ap'[n] = ap[n]
  BY DEF TypeOK, Save

LEMMA EvaluatedFacts ==
  ASSUME TypeOK, NEW m \in Members, NEW copy \in Autopilots
  PROVE  /\ Evaluated(m, copy) \in Autopilots
         /\ copy = ap[m] => /\ ap[m].state = "halted" => Evaluated(m, copy).state = "halted"
                            /\ Evaluated(m, copy).peak >= ap[m].peak
  <1>1. ap[m] \in Autopilots /\ equity[m] \in Levels
    BY DEF TypeOK
  <1>2. Larger(equity[m], copy.peak) \in Levels \cup {copy.peak}
        /\ Larger(equity[m], copy.peak) >= copy.peak
    BY <1>1, LevelFacts DEF Larger, Autopilots, Unknown
  <1>3. \A x, y : \A prior \in {"active", "soft_cut", "halted"} :
          /\ Resolved(prior, x, y) \in {"active", "soft_cut", "halted"}
          /\ prior = "halted" => Resolved(prior, x, y) = "halted"
    BY DEF Resolved
  <1>4. CASE copy.peak = Unknown
    BY <1>1, <1>4, LevelFacts DEF Evaluated, Autopilots, Unknown
  <1>5. CASE copy.peak # Unknown
    <2> DEFINE peak == Larger(equity[m], copy.peak)
               state == Resolved(copy.state, peak, equity[m])
    <2>1. Evaluated(m, copy) = [ap[m] EXCEPT !.peak = peak, !.state = state]
      BY <1>5 DEF Evaluated
    <2>2. peak \in Levels /\ peak >= copy.peak
      BY <1>2, <1>5 DEF Autopilots
    <2>3. /\ state \in {"active", "soft_cut", "halted"}
          /\ copy.state = "halted" => state = "halted"
      BY <1>3 DEF Autopilots
    <2> HIDE DEF peak, state
    <2> QED
      BY <1>1, <2>1, <2>2, <2>3 DEF Autopilots
  <1> QED
    BY <1>4, <1>5

LEMMA RearmedType ==
  ASSUME TypeOK, NEW m \in Members, NEW value \in Levels
  PROVE  Rearmed(m, value) \in Autopilots
  BY DEF Rearmed, Autopilots, TypeOK

LEMMA PoolType ==
  ASSUME TypeOK
  PROVE  Pool[equity] \in Nat
  BY Numbers DEF TypeOK

-----------------------------------------------------------------------------
(* The inductive invariant.                                                *)

Inv == TypeOK /\ Copies

LEMMA InvInit == Init => Inv
  <1> SUFFICES ASSUME Init
               PROVE  Inv
    OBVIOUS
  <1>1. "idle" \in Steps
    BY DEF Steps
  <1>2. \A p \in Procs : job[p] = Job("idle") /\ job[p] \in Jobs /\ Own(job[p], ap)
    BY <1>1, JobFacts, OwnJob DEF Init
  <1>3. job \in [Procs -> Jobs]
    BY <1>2 DEF Init
  <1>4. ap \in [Members -> Autopilots]
    BY DEF Init, Autopilots
  <1>5. TypeOK
    BY <1>3, <1>4, NoRowType, Numbers DEF Init, TypeOK
  <1>6. Copies
    BY <1>1, <1>2, JobFacts DEF Copies, Procs
  <1> QED
    BY <1>5, <1>6 DEF Inv

\* What a step does to jobs and to members' rows is the point of the lemmas
\* above; the other variables keep their types.
Rest == /\ fund \in Funds
        /\ equity \in [Members -> Levels]
        /\ holds \in SUBSET Members
        /\ closing \in [Members -> {"none", "open", "filled"}]
        /\ moves \in Nat /\ faults \in Nat

LEMMA InvGoes ==
  ASSUME Inv, Rest', NEW p \in Procs, NEW j \in Jobs, NEW ms \in SUBSET Members,
         Goes(p, j, ms), ap' \in [Members -> Autopilots],
         \A m \in Members \ ms : ap'[m] = ap[m],
         Own(j, ap'),
         p \in Cycles /\ j.at \in {"loaded", "checked"} => j.who = {Of[p]}
  PROVE  Inv' /\ job'[p] = j
  <1>1. TypeOK /\ Copies
    BY DEF Inv
  <1>2. job' \in [Procs -> Jobs] /\ job'[p] = j /\ Copies'
    BY <1>1, GoesFacts
  <1> QED
    BY <1>2 DEF Inv, TypeOK, Rest

LEMMA RestFacts == TypeOK => Rest
  BY DEF TypeOK, Rest

\* Steps that go on with a job without copies.
LEMMA InvPlain ==
  ASSUME Inv, Rest', NEW p \in Procs, NEW step \in Steps, NEW ms \in SUBSET Members,
         Goes(p, Job(step), ms), ap' \in [Members -> Autopilots],
         \A m \in Members \ ms : ap'[m] = ap[m],
         p \in Cycles => step \notin {"loaded", "checked"}
  PROVE  Inv' /\ job'[p] = Job(step)
  BY InvGoes, JobFacts, OwnJob

LEMMA OnHardHaltType ==
  ASSUME TypeOK, NEW m \in Members, OnHardHalt(m) \/ UNCHANGED closing
  PROVE  closing' \in [Members -> {"none", "open", "filled"}]
  BY DEF TypeOK, OnHardHalt

LEMMA InvSweep ==
  ASSUME Inv, NEW s \in Sweeps,
         Sweep(s) \/ \E m \in Members : SweepMemberFails(s, m)
  PROVE  Inv'
  <1>0. TypeOK /\ Copies /\ Rest /\ s \in Procs /\ s \notin Cycles
    BY RestFacts, Kinds DEF Inv, Procs
  <1>s. {"idle", "members", "fund", "update", "peak", "done"} \subseteq Steps
    BY DEF Steps
  <1> USE DEF rowVars, bookVars
  <1>1. CASE SweepLoads(s)
    <2> DEFINE ms == {m \in Members : ap[m].enabled}
    <2>1. Loaded("members", ms) \in Jobs /\ Own(Loaded("members", ms), ap)
      BY <1>0, <1>s, LoadedFacts, OwnLoaded
    <2>2. UNCHANGED ap /\ Rest' /\ Goes(s, Loaded("members", ms), {})
          /\ ap' \in [Members -> Autopilots]
      BY <1>0, <1>1 DEF SweepLoads, Rest, TypeOK
    <2> HIDE DEF ms
    <2> QED
      BY <1>0, <2>1, <2>2, InvGoes
  <1>2. ASSUME NEW m \in Members, SweepMember(s, m)
        PROVE  Inv'
    <2> DEFINE new == Evaluated(m, job[s].row[m])
    <2>1. job[s].row[m] \in Autopilots
      BY <1>0 DEF TypeOK, Jobs
    <2>2. new \in Autopilots
      BY <1>0, <2>1, EvaluatedFacts
    <2>3. Save(m, new) /\ job[s].at = "members" /\ Goes(s, SeenTo(s, m, "members"), {m})
      BY <1>2 DEF SweepMember
    <2>4. Rest'
      BY <1>0, <1>2, OnHardHaltType DEF SweepMember, Rest
    <2> HIDE DEF new
    <2>5. ap' \in [Members -> Autopilots] /\ \A n \in Members \ {m} : ap'[n] = ap[n]
      BY <1>0, <2>2, <2>3, SavedType
    <2>6. SeenTo(s, m, "members") \in Jobs /\ Own(SeenTo(s, m, "members"), ap')
      BY <1>0, <1>s, <2>3, <2>5, SeenToFacts, OwnSeenTo
    <2> QED
      BY <1>0, <2>3, <2>4, <2>5, <2>6, InvGoes
  <1>3. ASSUME NEW m \in Members, SweepMemberFails(s, m)
        PROVE  Inv'
    <2>1. UNCHANGED ap /\ Rest' /\ job[s].at = "members" /\ Goes(s, SeenTo(s, m, "members"), {})
          /\ ap' \in [Members -> Autopilots]
      BY <1>0, <1>3 DEF SweepMemberFails, Rest, Fault, TypeOK
    <2>2. SeenTo(s, m, "members") \in Jobs /\ Own(SeenTo(s, m, "members"), ap')
      BY <1>0, <1>s, <2>1, SeenToFacts, OwnSeenTo
    <2> QED
      BY <1>0, <2>1, <2>2, InvGoes
  <1>4. CASE SweepLoadsFund(s)
    <2> DEFINE j == IF fund.state = "active" THEN [Job("fund") EXCEPT !.frow = fund]
                                             ELSE Job("idle")
    <2>1. UNCHANGED ap /\ Rest' /\ Goes(s, j, {}) /\ ap' \in [Members -> Autopilots]
      BY <1>0, <1>4 DEF SweepLoadsFund, Rest, TypeOK
    <2>2. j \in Jobs /\ j.who = {} /\ j.stale = {}
      BY <1>0, <1>s, JobFacts, FundCopyFacts DEF TypeOK
    <2> HIDE DEF j
    <2>3. Own(j, ap')
      BY <2>2 DEF Own
    <2> QED
      BY <1>0, <2>1, <2>2, <2>3, InvGoes
  <1>5. CASE EvaluateFund(s)
    <2> DEFINE known == job[s].frow.peak
               peak  == Larger(Pool[equity], known)
               value == Pool[equity]
               copy  == [job[s].frow EXCEPT !.peak = peak]
    <2>1. value \in Nat /\ known \in Nat /\ job[s].frow \in Funds /\ fund \in Funds
      BY <1>0, PoolType DEF TypeOK, Jobs, Funds
    <2>2. peak \in Nat /\ copy \in Funds
      BY <2>1 DEF Larger, Funds
    <2>3. UNCHANGED <<ap, bookVars, faults>>
          /\ \/ fund' = [fund EXCEPT !.state = "halted"]
                /\ Goes(s, [Job("update") EXCEPT !.frow = copy], {})
             \/ (\E x \in {value, peak} : fund' = [fund EXCEPT !.peak = x])
                /\ Goes(s, Job("idle"), {})
      BY <1>5 DEF EvaluateFund, SaveFundPeak
    <2> HIDE DEF known, peak, value, copy
    <2>4. Rest'
      BY <1>0, <2>1, <2>2, <2>3 DEF Rest, Funds
    <2>5. ap' \in [Members -> Autopilots]
      BY <1>0, <2>3 DEF TypeOK
    <2>6. CASE Goes(s, [Job("update") EXCEPT !.frow = copy], {})
      <3> DEFINE j == [Job("update") EXCEPT !.frow = copy]
      <3>1. j \in Jobs /\ j.who = {} /\ j.stale = {}
        BY <1>s, <2>2, JobFacts, FundCopyFacts
      <3> HIDE DEF j
      <3>2. Own(j, ap')
        BY <3>1 DEF Own
      <3>3. Goes(s, j, {})
        BY <2>6 DEF j
      <3> QED
        BY <1>0, <2>3, <2>4, <2>5, <3>1, <3>2, <3>3, InvGoes
    <2>7. CASE Goes(s, Job("idle"), {})
      BY <1>0, <1>s, <2>3, <2>4, <2>5, <2>7, InvPlain
    <2> QED
      BY <2>3, <2>6, <2>7
  <1>6. CASE HaltMembers(s)
    <2> DEFINE ms == {m \in Members : ap[m].state # "halted"}
    <2>1. /\ ap' = [m \in Members |-> [ap[m] EXCEPT !.state = "halted"]]
          /\ Goes(s, [job[s] EXCEPT !.at = "peak"], ms)
          /\ job[s].at = "update"
      BY <1>6 DEF HaltMembers
    <2>2. Rest' /\ job[s] \in Jobs
      BY <1>0, <1>6 DEF HaltMembers, Rest, TypeOK
    <2>3. ap' \in [Members -> Autopilots] /\ \A m \in Members \ ms : ap'[m] = ap[m]
      BY <1>0, <2>1 DEF TypeOK, Autopilots
    <2> HIDE DEF ms
    <2>4. [job[s] EXCEPT !.at = "peak"] \in Jobs
          /\ [job[s] EXCEPT !.at = "peak"].stale \subseteq [job[s] EXCEPT !.at = "peak"].who
          /\ [job[s] EXCEPT !.at = "peak"].at = "peak"
      BY <1>0, <1>s, <2>2, StepFacts DEF Copies, Own
    <2>5. Own([job[s] EXCEPT !.at = "peak"], ap')
      BY <2>4 DEF Own, Holding
    <2>6. ms \subseteq Members
      BY DEF ms
    <2> QED
      BY <1>0, <2>1, <2>2, <2>3, <2>4, <2>5, <2>6, InvGoes
  <1>7. CASE SaveLastPeak(s)
    <2>1. job[s].frow.peak \in Nat /\ fund \in Funds
      BY <1>0 DEF TypeOK, Jobs, Funds
    <2>2. UNCHANGED <<ap, bookVars, faults>> /\ Goes(s, Job("idle"), {})
          /\ fund' = [fund EXCEPT !.peak = job[s].frow.peak]
      BY <1>7 DEF SaveLastPeak, SaveFundPeak
    <2>3. Rest'
      BY <1>0, <2>1, <2>2 DEF Rest, Funds
    <2> QED
      BY <1>0, <1>s, <2>2, <2>3, InvPlain DEF TypeOK
  <1> QED
    BY <1>1, <1>2, <1>3, <1>4, <1>5, <1>6, <1>7 DEF Sweep

\* A process that saves one row and is done with its job.
LEMMA InvSavesOne ==
  ASSUME Inv, Rest', NEW p \in Procs, NEW step \in Steps, NEW m \in Members,
         NEW new \in Autopilots, Save(m, new), Goes(p, Job(step), {m}),
         step \notin {"loaded", "checked"}
  PROVE  Inv'
  <1>1. ap' \in [Members -> Autopilots] /\ \A n \in Members \ {m} : ap'[n] = ap[n]
    BY SavedType DEF Inv
  <1> QED
    BY <1>1, InvPlain

LEMMA HaltedType ==
  ASSUME TypeOK, NEW m \in Members
  PROVE  [ap[m] EXCEPT !.state = "halted"] \in Autopilots
  BY DEF TypeOK, Autopilots

LEMMA InvCycle ==
  ASSUME Inv, NEW c \in Cycles, Cycle(c)
  PROVE  Inv'
  <1> DEFINE m == Of[c]
  <1>0. TypeOK /\ Copies /\ Rest /\ c \in Procs /\ m \in Members
    BY RestFacts, Kinds DEF Inv, Procs
  <1>s. {"loaded", "checked", "done"} \subseteq Steps
    BY DEF Steps
  <1>h. [ap[m] EXCEPT !.state = "halted"] \in Autopilots
    BY <1>0, HaltedType
  <1> USE DEF rowVars, bookVars
  <1>1. CASE CycleBegins(c)
    <2>1. Rest'
      BY <1>0, <1>1 DEF CycleBegins, Rest
    <2>2. \/ Goes(c, Job("done"), {}) /\ UNCHANGED ap
          \/ Goes(c, Loaded("loaded", {m}), {}) /\ UNCHANGED ap
          \/ Goes(c, Job("done"), {m}) /\ Save(m, [ap[m] EXCEPT !.state = "halted"])
      BY <1>1 DEF CycleBegins
    <2> HIDE DEF m
    <2>3. CASE Goes(c, Job("done"), {}) /\ UNCHANGED ap
      BY <1>0, <1>s, <2>1, <2>3, InvPlain DEF TypeOK
    <2>4. CASE Goes(c, Loaded("loaded", {m}), {}) /\ UNCHANGED ap
      <3>1. /\ Loaded("loaded", {m}) \in Jobs /\ Own(Loaded("loaded", {m}), ap)
            /\ Loaded("loaded", {m}).who = {m}
        BY <1>0, <1>s, LoadedFacts, OwnLoaded
      <3>2. Loaded("loaded", {m}).who = {Of[c]}
        BY <3>1 DEF m
      <3>3. ap' = ap /\ ap' \in [Members -> Autopilots] /\ Own(Loaded("loaded", {m}), ap')
        BY <1>0, <2>4, <3>1 DEF TypeOK
      <3>4. Goes(c, Loaded("loaded", {m}), {})
        BY <2>4
      <3> QED
        BY <1>0, <2>1, <3>1, <3>2, <3>3, <3>4, InvGoes
    <2>5. CASE Goes(c, Job("done"), {m}) /\ Save(m, [ap[m] EXCEPT !.state = "halted"])
      BY <1>0, <1>s, <1>h, <2>1, <2>5, InvSavesOne
    <2> QED
      BY <2>2, <2>3, <2>4, <2>5
  <1>2. CASE CycleReconciles(c)
    <2>1. Rest' /\ job[c].at = "loaded" /\ job[c] \in Jobs
      BY <1>0, <1>2 DEF CycleReconciles, Rest, TypeOK
    <2>2. \/ Goes(c, [job[c] EXCEPT !.at = "checked"], {}) /\ UNCHANGED ap
          \/ Goes(c, Job("done"), {m}) /\ Save(m, [ap[m] EXCEPT !.state = "halted"])
      BY <1>2 DEF CycleReconciles
    <2>3. [job[c] EXCEPT !.at = "checked"].who = {Of[c]}
      BY <1>0, <1>s, <2>1, StepFacts DEF Copies
    <2> HIDE DEF m
    <2>4. CASE Goes(c, [job[c] EXCEPT !.at = "checked"], {}) /\ UNCHANGED ap
      <3>1. [job[c] EXCEPT !.at = "checked"] \in Jobs
            /\ Own([job[c] EXCEPT !.at = "checked"], ap')
        BY <1>0, <1>s, <2>1, <2>4, StepFacts, SameJob DEF Holding
      <3>2. ap' = ap /\ ap' \in [Members -> Autopilots]
        BY <1>0, <2>4 DEF TypeOK
      <3>3. Goes(c, [job[c] EXCEPT !.at = "checked"], {})
        BY <2>4
      <3> DEFINE j == [job[c] EXCEPT !.at = "checked"]
      <3>4. j \in Jobs /\ Own(j, ap') /\ Goes(c, j, {}) /\ j.who = {Of[c]}
        BY <2>3, <3>1, <3>3
      <3> HIDE DEF j
      <3> QED
        BY <1>0, <2>1, <3>2, <3>4, InvGoes
    <2>5. CASE Goes(c, Job("done"), {m}) /\ Save(m, [ap[m] EXCEPT !.state = "halted"])
      BY <1>0, <1>s, <1>h, <2>1, <2>5, InvSavesOne
    <2> QED
      BY <2>2, <2>4, <2>5
  <1>3. CASE CycleEvaluates(c)
    <2> DEFINE new == Evaluated(m, job[c].row[m])
    <2>1. job[c].row[m] \in Autopilots
      BY <1>0 DEF TypeOK, Jobs
    <2>2. new \in Autopilots
      BY <1>0, <2>1, EvaluatedFacts
    <2>3. Save(m, new) /\ Goes(c, Job("done"), {m})
      BY <1>3 DEF CycleEvaluates
    <2>4. Rest'
      BY <1>0, <1>3, OnHardHaltType DEF CycleEvaluates, Rest
    <2> HIDE DEF new, m
    <2> QED
      BY <1>0, <1>s, <2>2, <2>3, <2>4, InvSavesOne
  <1> QED
    BY <1>1, <1>2, <1>3 DEF Cycle

LEMMA InvRequest ==
  ASSUME Inv, NEW h \in Humans, Request(h)
  PROVE  Inv'
  <1>0. TypeOK /\ Copies /\ Rest /\ h \in Procs /\ h \notin Cycles /\ h \notin Sweeps
    BY RestFacts, Kinds DEF Inv, Procs
  <1>s. {"update", "resume", "rearm", "put", "enable", "done"} \subseteq Steps
    BY DEF Steps
  <1>r. \A m \in Members, value \in Levels : Rearmed(m, value) \in Autopilots
    BY <1>0, RearmedType
  <1>a. UNCHANGED ap => ap' \in [Members -> Autopilots]
    BY <1>0 DEF TypeOK
  <1> USE DEF rowVars, bookVars
  <1>1. CASE HaltFund(h)
    <2>1. UNCHANGED ap /\ Goes(h, Job("update"), {}) /\ Rest'
      BY <1>0, <1>1 DEF HaltFund, Rest, Funds
    <2> QED
      BY <1>0, <1>s, <1>a, <2>1, InvPlain
  <1>2. CASE HaltMembers(h)
    <2> DEFINE ms == {m \in Members : ap[m].state # "halted"}
    <2>1. /\ ap' = [m \in Members |-> [ap[m] EXCEPT !.state = "halted"]]
          /\ Goes(h, Job("done"), ms)
      BY <1>0, <1>2 DEF HaltMembers
    <2>2. Rest'
      BY <1>0, <1>2 DEF HaltMembers, Rest
    <2>3. ap' \in [Members -> Autopilots] /\ \A m \in Members \ ms : ap'[m] = ap[m]
      BY <1>0, <2>1 DEF TypeOK, Autopilots
    <2>4. ms \subseteq Members
      OBVIOUS
    <2> HIDE DEF ms
    <2> QED
      BY <1>0, <1>s, <2>1, <2>2, <2>3, <2>4, InvPlain
  <1>3. CASE ResumeFund(h)
    <2> DEFINE j == [Job("resume") EXCEPT !.who = Members]
    <2>1. UNCHANGED ap /\ Goes(h, j, {})
      BY <1>3 DEF ResumeFund
    <2>2. Rest'
      BY <1>0, <1>3, PoolType DEF ResumeFund, Rest, Funds
    <2>3. j \in Jobs /\ j.at = "resume" /\ j.stale = {}
      BY <1>s, JobFacts DEF Jobs
    <2> HIDE DEF j
    <2>4. Own(j, ap')
      BY <2>3 DEF Own, Holding
    <2> QED
      BY <1>0, <1>a, <2>1, <2>2, <2>3, <2>4, InvGoes
  <1>4. CASE ResetFund(h)
    <2>1. /\ equity' \in [Members -> Levels]
          /\ ap' = [m \in Members |-> Rearmed(m, equity'[m])]
          /\ Goes(h, Job("done"), Members)
      BY <1>4 DEF ResetFund
    <2>2. Rest'
      BY <1>0, <1>4, PoolType DEF ResetFund, Rest, Funds
    <2>3. ap' \in [Members -> Autopilots]
      BY <1>r, <2>1
    <2> QED
      BY <1>0, <1>s, <2>1, <2>2, <2>3, InvPlain
  <1>5. ASSUME NEW m \in Members, AskResume(h, m)
        PROVE  Inv'
    <2> DEFINE j == [Job("rearm") EXCEPT !.who = {m}]
    <2>1. UNCHANGED ap /\ Goes(h, j, {}) /\ Rest'
      BY <1>0, <1>5 DEF AskResume, Rest
    <2>2. j \in Jobs /\ j.at = "rearm" /\ j.stale = {}
      BY <1>s, JobFacts DEF Jobs
    <2> HIDE DEF j
    <2>3. Own(j, ap')
      BY <2>2 DEF Own, Holding
    <2> QED
      BY <1>0, <1>a, <2>1, <2>2, <2>3, InvGoes
  <1>6. ASSUME NEW m \in Members, Resume(h, m)
        PROVE  Inv'
    <2>1. /\ Save(m, Rearmed(m, equity[m])) /\ Goes(h, SeenTo(h, m, "done"), {m}) /\ Rest'
          /\ job[h].at \notin Holding
      BY <1>0, <1>6 DEF Resume, Rest, Holding
    <2>r. Rearmed(m, equity[m]) \in Autopilots
      BY <1>0, <1>r DEF TypeOK
    <2>2. ap' \in [Members -> Autopilots] /\ \A n \in Members \ {m} : ap'[n] = ap[n]
      BY <1>0, <2>r, <2>1, SavedType
    <2>3. SeenTo(h, m, "done") \in Jobs /\ Own(SeenTo(h, m, "done"), ap')
      BY <1>0, <1>s, <2>1, <2>2, SeenToFacts, OwnSeenTo
    <2> QED
      BY <1>0, <2>1, <2>2, <2>3, InvGoes
  <1>7. ASSUME NEW m \in Members, AskPut(h, m)
        PROVE  Inv'
    <2>1. PICK step \in {"put", "enable"} : Goes(h, Loaded(step, {m}), {})
      BY <1>7 DEF AskPut
    <2>2. ap' = ap /\ Rest'
      BY <1>0, <1>7 DEF AskPut, Rest
    <2>3. Loaded(step, {m}) \in Jobs /\ Own(Loaded(step, {m}), ap')
      BY <1>0, <1>s, <2>2, LoadedFacts, OwnLoaded
    <2> QED
      BY <1>0, <1>a, <2>1, <2>2, <2>3, InvGoes
  <1>8. ASSUME NEW m \in Members, Put(h, m) \/ Enable(h, m) \/ Disable(h, m)
        PROVE  Inv'
    <2>1. PICK new \in Autopilots : Save(m, new)
      <3>1. ap[m] \in Autopilots /\ job[h].row[m] \in Autopilots
        BY <1>0 DEF TypeOK, Jobs
      <3>2. equity[m] \in Levels
        BY <1>0 DEF TypeOK
      <3> QED
        BY <1>8, <3>1, <3>2 DEF Put, Enable, Disable, Autopilots
    <2>2. Goes(h, Job("done"), {m}) /\ Rest'
      BY <1>0, <1>8 DEF Put, Enable, Disable, Rest
    <2> QED
      BY <1>0, <1>s, <2>1, <2>2, InvSavesOne
  <1> QED
    BY <1>1, <1>2, <1>3, <1>4, <1>5, <1>6, <1>7, <1>8 DEF Request

LEMMA InvElsewhere ==
  ASSUME Inv, Rest', UNCHANGED <<ap, job>>
  PROVE  Inv'
  BY DEF Inv, TypeOK, Copies, Rest

LEMMA InvStep == Inv /\ [Next]_vars => Inv'
  <1> SUFFICES ASSUME Inv, [Next]_vars
               PROVE  Inv'
    OBVIOUS
  <1>0. TypeOK /\ Rest
    BY RestFacts DEF Inv
  <1> USE DEF rowVars, bookVars
  <1>1. ASSUME NEW p \in Procs, Dies(p)
        PROVE  Inv'
    <2>1. PICK step \in {"idle", "done"} : Goes(p, Job(step), {})
      BY <1>1 DEF Dies
    <2>2. ap' = ap /\ Rest' /\ ap' \in [Members -> Autopilots]
      BY <1>0, <1>1 DEF Dies, Fault, Rest, TypeOK
    <2>3. step \in Steps
      BY DEF Steps
    <2> QED
      BY <2>1, <2>2, <2>3, InvPlain
  <1>2. ASSUME NEW m \in Members, MarketMoves(m) \/ CloseFills(m) \/ BuysAgain(m)
        PROVE  Inv'
    <2>1. UNCHANGED <<ap, job>> /\ Rest'
      BY <1>0, <1>2 DEF MarketMoves, CloseFills, BuysAgain, Rest
    <2> QED
      BY <2>1, InvElsewhere
  <1>3. CASE UNCHANGED vars
    BY <1>0, <1>3, InvElsewhere DEF vars, Rest
  <1> QED
    BY <1>1, <1>2, <1>3, InvSweep, InvCycle, InvRequest DEF Next

LEMMA InvHolds == Spec => []Inv
  BY InvInit, InvStep, PTL DEF Spec

\* Type correctness of every reachable state.
THEOREM TypeCorrect == Spec => []TypeOK
  <1>1. Inv => TypeOK
    BY DEF Inv
  <1> QED
    BY InvHolds, <1>1, PTL

-----------------------------------------------------------------------------
(* The member's latch.  Whoever saves a row from a copy that is not stale    *)
(* saves it from the row, and an evaluation of the row only tightens it.     *)

Loosened(m) ==
  \/ ap[m].state = "halted" /\ ap'[m].state # "halted"
  \/ ap'[m].peak < ap[m].peak

Answered(m) == Acknowledges(m) \/ \E p \in Procs : SavesStaleRow(p, m)

LEMMA UnchangedIsTight ==
  ASSUME TypeOK, NEW m \in Members, ap'[m] = ap[m]
  PROVE  ~Loosened(m)
  <1>1. ap[m].peak \in Nat
    BY LevelFacts DEF TypeOK, Autopilots, Unknown
  <1> QED
    BY <1>1 DEF Loosened

LEMMA SaveIsTight ==
  ASSUME TypeOK, NEW m \in Members, NEW new \in Autopilots, Save(m, new),
         ap[m].state = "halted" => new.state = "halted",
         new.peak >= ap[m].peak,
         NEW n \in Members
  PROVE  ~Loosened(n)
  <1>1. CASE n = m
    <2>1. ap'[m] = new
      BY SavedType
    <2>2. ap[m].peak \in Nat /\ new.peak \in Nat
      BY LevelFacts DEF TypeOK, Autopilots, Unknown
    <2> QED
      BY <1>1, <2>1, <2>2 DEF Loosened
  <1>2. CASE n # m
    BY <1>2, SavedType, UnchangedIsTight
  <1> QED
    BY <1>1, <1>2

LEMMA HaltIsTight ==
  ASSUME TypeOK, NEW m \in Members, ap'[m] = [ap[m] EXCEPT !.state = "halted"]
  PROVE  ~Loosened(m)
  <1>1. ap[m] \in Autopilots /\ ap[m].peak \in Nat
    BY LevelFacts DEF TypeOK, Autopilots, Unknown
  <1> QED
    BY <1>1 DEF Loosened, Autopilots

\* Saving the copy of m, evaluated or not, is tight unless the copy is stale.
LEMMA CopyIsTight ==
  ASSUME Inv, NEW p \in Procs, NEW m \in Members, NEW new \in Autopilots,
         m \in job[p].who, job[p].at \in Holding, Save(m, new), m \notin job'[p].who,
         job[p].row[m] = ap[m] => /\ ap[m].state = "halted" => new.state = "halted"
                                  /\ new.peak >= ap[m].peak,
         NEW n \in Members, Loosened(n)
  PROVE  Answered(n)
  <1>1. TypeOK /\ Own(job[p], ap)
    BY DEF Inv, Copies
  <1>2. CASE m \in job[p].stale
    <2>1. n # m => ~Loosened(n)
      BY <1>1, SavedType, UnchangedIsTight
    <2> QED
      BY <1>2, <2>1 DEF Answered, SavesStaleRow
  <1>3. CASE m \notin job[p].stale
    <2>1. job[p].row[m] = ap[m]
      BY <1>1, <1>3 DEF Own
    <2> QED
      BY <1>1, <2>1, SaveIsTight
  <1> QED
    BY <1>2, <1>3

LEMMA SweepLoosens ==
  ASSUME Inv, NEW s \in Sweeps, NEW n \in Members, Loosened(n),
         Sweep(s) \/ \E m \in Members : SweepMemberFails(s, m)
  PROVE  Answered(n)
  <1>0. TypeOK /\ s \in Procs
    BY DEF Inv, Procs
  <1>1. ASSUME NEW m \in Members, SweepMember(s, m)
        PROVE  Answered(n)
    <2> DEFINE new == Evaluated(m, job[s].row[m])
    <2>1. /\ Save(m, new) /\ Goes(s, SeenTo(s, m, "members"), {m})
          /\ job[s].at = "members" /\ m \in job[s].who
      BY <1>1 DEF SweepMember
    <2>2. job[s].row[m] \in Autopilots
      BY <1>0 DEF TypeOK, Jobs
    <2>3. /\ new \in Autopilots
          /\ job[s].row[m] = ap[m] => /\ ap[m].state = "halted" => new.state = "halted"
                                      /\ new.peak >= ap[m].peak
      BY <1>0, <2>2, EvaluatedFacts
    <2>4. m \notin job'[s].who
      <3>1. job'[s] = SeenTo(s, m, "members")
        BY <1>0, <2>1 DEF Goes
      <3> QED
        BY <1>0, <3>1, SeenToFacts DEF Steps
    <2> HIDE DEF new
    <2> QED
      BY <1>0, <2>1, <2>3, <2>4, CopyIsTight DEF Holding
  <1>2. CASE HaltMembers(s)
    BY <1>0, <1>2, HaltIsTight DEF HaltMembers
  <1>3. CASE UNCHANGED ap
    BY <1>0, <1>3, UnchangedIsTight
  <1>4. SweepLoads(s) \/ SweepLoadsFund(s) \/ EvaluateFund(s) \/ SaveLastPeak(s)
        \/ (\E m \in Members : SweepMemberFails(s, m)) => UNCHANGED ap
    BY DEF SweepLoads, SweepLoadsFund, EvaluateFund, SaveLastPeak, SweepMemberFails, rowVars
  <1> QED
    BY <1>1, <1>2, <1>3, <1>4 DEF Sweep

LEMMA CycleLoosens ==
  ASSUME Inv, NEW c \in Cycles, NEW n \in Members, Loosened(n), Cycle(c)
  PROVE  Answered(n)
  <1>0. TypeOK /\ Copies /\ c \in Procs /\ Of[c] \in Members
    BY Kinds DEF Inv, Procs
  <1>1. CASE CycleEvaluates(c)
    <2> DEFINE m == Of[c]
               new == Evaluated(m, job[c].row[m])
    <2>1. Save(m, new) /\ Goes(c, Job("done"), {m}) /\ job[c].at = "checked"
      BY <1>1 DEF CycleEvaluates
    <2>2. job[c].row[m] \in Autopilots
      BY <1>0 DEF TypeOK, Jobs
    <2>3. /\ new \in Autopilots
          /\ job[c].row[m] = ap[m] => /\ ap[m].state = "halted" => new.state = "halted"
                                      /\ new.peak >= ap[m].peak
      BY <1>0, <2>2, EvaluatedFacts
    <2>4. m \in job[c].who
      BY <1>0, <2>1 DEF Copies
    <2>5. m \notin job'[c].who
      <3>1. job'[c] = Job("done")
        BY <1>0, <2>1 DEF Goes
      <3> QED
        BY <3>1, JobFacts DEF Steps
    <2> HIDE DEF new, m
    <2> QED
      BY <1>0, <2>1, <2>3, <2>4, <2>5, CopyIsTight DEF m, Holding
  <1>2. CASE UNCHANGED ap
    BY <1>0, <1>2, UnchangedIsTight
  <1>3. CASE Save(Of[c], [ap[Of[c]] EXCEPT !.state = "halted"])
    <2>1. n # Of[c] => ap'[n] = ap[n]
      BY <1>0, <1>3 DEF Save
    <2>2. ap'[Of[c]] = [ap[Of[c]] EXCEPT !.state = "halted"]
      BY <1>0, <1>3 DEF Save, TypeOK
    <2> QED
      BY <1>0, <2>1, <2>2, UnchangedIsTight, HaltIsTight
  <1> QED
    BY <1>1, <1>2, <1>3 DEF Cycle, CycleBegins, CycleReconciles

LEMMA RequestLoosens ==
  ASSUME Inv, NEW h \in Humans, NEW n \in Members, Loosened(n), Request(h)
  PROVE  Answered(n)
  <1>0. TypeOK /\ h \in Procs
    BY DEF Inv, Procs
  <1>1. CASE HaltMembers(h)
    BY <1>0, <1>1, HaltIsTight DEF HaltMembers
  <1>2. CASE HaltFund(h) \/ ResumeFund(h) \/ \E m \in Members : AskResume(h, m) \/ AskPut(h, m)
    BY <1>0, <1>2, UnchangedIsTight DEF HaltFund, ResumeFund, AskResume, AskPut, rowVars
  <1>3. CASE ResetFund(h)
    BY <1>3 DEF Answered, Acknowledges
  <1>4. ASSUME NEW m \in Members, Resume(h, m) \/ Enable(h, m)
        PROVE  Answered(n)
    <2>1. n # m => ap'[n] = ap[n]
      BY <1>0, <1>4 DEF Resume, Enable, Save, TypeOK
    <2> QED
      BY <1>0, <1>4, <2>1, UnchangedIsTight DEF Answered, Acknowledges
  <1>5. ASSUME NEW m \in Members, Put(h, m)
        PROVE  Answered(n)
    <2>1. /\ Save(m, job[h].row[m]) /\ Goes(h, Job("done"), {m})
          /\ job[h].at = "put" /\ m \in job[h].who
      BY <1>5 DEF Put
    <2>2. job[h].row[m] \in Autopilots /\ ap[m].peak \in Nat
      BY <1>0, LevelFacts DEF TypeOK, Jobs, Autopilots, Unknown
    <2>3. m \notin job'[h].who
      <3>1. job'[h] = Job("done")
        BY <1>0, <2>1 DEF Goes
      <3> QED
        BY <3>1, JobFacts DEF Steps
    <2> DEFINE new == job[h].row[m]
    <2>4. /\ new \in Autopilots
          /\ new = ap[m] => /\ ap[m].state = "halted" => new.state = "halted"
                            /\ new.peak >= ap[m].peak
      BY <2>2
    <2> QED
      BY <1>0, <2>1, <2>3, <2>4, CopyIsTight DEF Holding
  <1>6. ASSUME NEW m \in Members, Disable(h, m)
        PROVE  Answered(n)
    <2> DEFINE new == [ap[m] EXCEPT !.enabled = FALSE]
    <2>1. Save(m, new)
      BY <1>6 DEF Disable
    <2>2. ap[m] \in Autopilots /\ ap[m].peak \in Nat
      BY <1>0, LevelFacts DEF TypeOK, Autopilots, Unknown
    <2>3. /\ new \in Autopilots /\ new.peak >= ap[m].peak
          /\ ap[m].state = "halted" => new.state = "halted"
      <3>1. new \in Autopilots /\ new.peak = ap[m].peak /\ new.state = ap[m].state
        BY <2>2 DEF Autopilots
      <3> QED
        BY <2>2, <3>1
    <2> HIDE DEF new
    <2> QED
      BY <1>0, <2>1, <2>3, SaveIsTight
  <1> QED
    BY <1>1, <1>2, <1>3, <1>4, <1>5, <1>6 DEF Request

LEMMA LoosenStep ==
  Inv /\ [Next]_vars => [\A m \in Members : Loosened(m) => Answered(m)]_vars
  <1> SUFFICES ASSUME Inv, Next, NEW n \in Members, Loosened(n)
               PROVE  Answered(n)
    OBVIOUS
  <1>1. ASSUME UNCHANGED ap
        PROVE  FALSE
    BY <1>1, UnchangedIsTight DEF Inv
  <1>2. (\E p \in Procs : Dies(p)) => UNCHANGED ap
    BY DEF Dies, rowVars
  <1>3. (\E m \in Members : MarketMoves(m) \/ CloseFills(m) \/ BuysAgain(m)) => UNCHANGED ap
    BY DEF MarketMoves, CloseFills, BuysAgain, rowVars
  <1> QED
    BY <1>1, <1>2, <1>3, SweepLoosens, CycleLoosens, RequestLoosens DEF Next

\* A member's halt ends and its peak falls by a person's acknowledgement or
\* by a save of a row that another has written since it was loaded.
THEOREM Tight == Spec => OnlyLostUpdatesLoosen
  <1>1. Inv /\ [Next]_vars
        => [\A m \in Members :
              \/ ap[m].state = "halted" /\ ap'[m].state # "halted"
              \/ ap'[m].peak < ap[m].peak
              => Acknowledges(m) \/ \E p \in Procs : SavesStaleRow(p, m)]_vars
    BY LoosenStep DEF Loosened, Answered
  <1> QED
    BY InvHolds, <1>1, PTL DEF Spec, OnlyLostUpdatesLoosen

-----------------------------------------------------------------------------
(* The fund's latch: whoever else writes the row writes its peak alone.      *)

LEMMA FundStep ==
  ASSUME Inv, Next, fund.state = "halted", fund'.state # "halted"
  PROVE  \E h \in Humans : ResumeFund(h) \/ ResetFund(h)
  <1>0. fund \in Funds
    BY DEF Inv, TypeOK
  <1>1. \A v : [fund EXCEPT !.peak = v].state = fund.state
    BY <1>0 DEF Funds
  <1>2. [fund EXCEPT !.state = "halted"].state = "halted"
    BY <1>0 DEF Funds
  <1>3. ASSUME UNCHANGED fund
        PROVE  FALSE
    BY <1>3
  <1>4. ASSUME NEW s \in Sweeps, Sweep(s) \/ \E m \in Members : SweepMemberFails(s, m)
        PROVE  FALSE
    BY <1>1, <1>2, <1>4
    DEF Sweep, SweepLoads, SweepMember, SweepMemberFails, SweepLoadsFund, EvaluateFund,
        SaveFundPeak, HaltMembers, SaveLastPeak, rowVars
  <1>5. ASSUME NEW c \in Cycles, Cycle(c)
        PROVE  FALSE
    BY <1>5 DEF Cycle, CycleBegins, CycleReconciles, CycleEvaluates
  <1>6. ASSUME NEW h \in Humans, Request(h)
        PROVE  ResumeFund(h) \/ ResetFund(h)
    BY <1>2, <1>6
    DEF Request, HaltFund, HaltMembers, AskResume, Resume, AskPut, Put, Enable, Disable, rowVars
  <1>7. ASSUME \/ \E p \in Procs : Dies(p)
               \/ \E m \in Members : MarketMoves(m) \/ CloseFills(m) \/ BuysAgain(m)
        PROVE  FALSE
    BY <1>7 DEF Dies, MarketMoves, CloseFills, BuysAgain, rowVars
  <1> QED
    BY <1>4, <1>5, <1>6, <1>7 DEF Next

\* The kill switch is let go by a resume or a reset of the fund alone.
THEOREM FundLatched == Spec => FundHaltIsLatched
  <1>1. Inv /\ [Next]_vars
        => [fund.state = "halted" /\ fund'.state # "halted"
            => \E h \in Humans : ResumeFund(h) \/ ResetFund(h)]_vars
    BY FundStep
  <1> QED
    BY InvHolds, <1>1, PTL DEF Spec, FundHaltIsLatched
=============================================================================
