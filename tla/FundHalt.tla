-------------------------------- MODULE FundHalt --------------------------------
(***************************************************************************)
(* The drawdown breakers and the kill switch of the autonomous fund        *)
(* (apps/portfolios/autopilot_risk.py, fund.py, tasks_autopilot.py,         *)
(* api_autopilot.py): the hourly sweep and the check before a cycle evaluate *)
(* a member's drawdown, the sweep evaluates the fund's, people halt, resume, *)
(* edit and enable.  Every one of them loads rows, works on its copies and  *)
(* saves them later; a save may undo what another has written in between.   *)
(***************************************************************************)
EXTENDS Integers, FiniteSets

CONSTANTS
  Members,   \* strategies of the fund
  Sweeps,    \* executions of guardrail_sweep, one after the other in each
  Cycles,    \* executions of run_autopilot_cycle
  Of,        \* the member a cycle is for
  Humans,    \* requests of the user
  Levels,    \* values of a member's book
  Share,     \* what each member starts with
  Pool,      \* the value of the account's book, from those of the members
  SoftPct,   \* dd_soft_cut_pct
  HardPct,   \* dd_hard_halt_pct
  FundPct,   \* fund_dd_halt_pct
  Flattens,  \* members with flatten_on_halt
  MaxMoves,  \* bound: how often the value of a book changes
  MaxFaults  \* bound: how many evaluations fail and processes die

ASSUME Kinds ==
  /\ IsFiniteSet(Members)
  /\ Of \in [Cycles -> Members]
  /\ Flattens \subseteq Members
  /\ Sweeps \cap Cycles = {} /\ Sweeps \cap Humans = {} /\ Cycles \cap Humans = {}
ASSUME Numbers ==
  /\ Levels \subseteq Nat \ {0} /\ Share \in Levels
  /\ Pool \in [[Members -> Levels] -> Nat \ {0}]
  /\ {SoftPct, HardPct, FundPct} \subseteq Nat \ {0}
  /\ {MaxMoves, MaxFaults} \subseteq Nat

Procs == Sweeps \cup Cycles \cup Humans
Unknown == 0       \* a peak that is not set

VARIABLES
  ap,      \* the autopilots' rows
  fund,    \* the fund's row
  equity,  \* the value of each member's book
  holds,   \* members whose book holds positions
  closing, \* the order flat-<autopilot>-<ticker>
  job,     \* what each process does next, and with which copies
  moves, faults

rowVars  == <<ap, fund>>
bookVars == <<equity, holds, closing, moves>>
vars == <<rowVars, bookVars, job, faults>>

\* The peak of a member is a value its own book has had.
Autopilots == [enabled : BOOLEAN, state : {"active", "soft_cut", "halted"},
               peak : Levels \cup {Unknown}]
Funds == [state : {"active", "halted"}, peak : Nat]

\* A process: its next step, the members it still has to see to, their rows
\* and the fund's row as it has loaded them, and the members whose rows others
\* have written since.
Steps == {"idle", "members", "fund", "update", "peak", "loaded", "checked",
          "resume", "rearm", "put", "enable", "done"}
Jobs == [at : Steps, who : SUBSET Members, row : [Members -> Autopilots],
         frow : Funds, stale : SUBSET Members]

NoFund == [state |-> "active", peak |-> Unknown]
NoRow == [enabled |-> FALSE, state |-> "active", peak |-> Unknown]
Job(step) == [at |-> step, who |-> {}, row |-> [m \in Members |-> NoRow],
              frow |-> NoFund, stale |-> {}]

TypeOK ==
  /\ ap \in [Members -> Autopilots]
  /\ fund \in Funds
  /\ equity \in [Members -> Levels]
  /\ holds \in SUBSET Members
  /\ closing \in [Members -> {"none", "open", "filled"}]
  /\ job \in [Procs -> Jobs]
  /\ moves \in Nat /\ faults \in Nat

\* A member whose first cycle is still to come holds nothing.
Init ==
  /\ ap = [m \in Members |-> [enabled |-> TRUE, state |-> "active", peak |-> Unknown]]
  /\ fund = NoFund
  /\ equity = [m \in Members |-> Share]
  /\ holds \in SUBSET Members
  /\ closing = [m \in Members |-> "none"]
  /\ job = [p \in Procs |-> Job("idle")]
  /\ moves = 0 /\ faults = 0

Fault == faults < MaxFaults /\ faults' = faults + 1

-----------------------------------------------------------------------------
(* Loading and saving rows.                                                 *)

\* p goes on with the job j, having written the rows of ms: the copies of
\* them that others hold are stale.
Goes(p, j, ms) ==
  job' = [q \in Procs |->
            IF q = p THEN j ELSE [job[q] EXCEPT !.stale = @ \cup (ms \cap job[q].who)]]

\* The job of loading the rows of ms.
Loaded(step, ms) ==
  [Job(step) EXCEPT !.who = ms,
                    !.row = [m \in Members |-> IF m \in ms THEN ap[m] ELSE NoRow]]

\* The job of p once it has seen to m, and done with the last member.
SeenTo(p, m, step) ==
  IF job[p].who = {m} THEN Job(step)
  ELSE [job[p] EXCEPT !.who = @ \ {m}, !.row[m] = NoRow, !.stale = @ \ {m}]

Save(m, new) == ap' = [ap EXCEPT ![m] = new]

-----------------------------------------------------------------------------
(* The breaker of a member.                                                 *)

Larger(x, y) == IF x < y THEN y ELSE x
Past(pct, peak, value) == (peak - value) * 100 >= pct * peak

\* Slip: what an evaluation finds replaces a halt.
NotLatched(prior, peak, value) ==
  IF Past(HardPct, peak, value) THEN "halted"
  ELSE IF Past(SoftPct, peak, value) THEN "soft_cut" ELSE "active"

\* A halt is latched: the evaluation raises the severity and never ends it.
Resolved(prior, peak, value) ==
  IF prior = "halted" \/ Past(HardPct, peak, value) THEN "halted"
  ELSE IF Past(SoftPct, peak, value) THEN "soft_cut" ELSE "active"

\* Slip: an evaluation saves the peak and forgets the state.
StateUnsaved(m, copy) == [ap[m] EXCEPT !.peak = Larger(equity[m], copy.peak)]

\* The row of m after evaluate_drawdown of a copy: a first evaluation saves
\* the peak alone, every other one the peak and the state.
Evaluated(m, copy) ==
  LET peak == Larger(equity[m], copy.peak)
  IN  IF copy.peak = Unknown
      THEN [ap[m] EXCEPT !.peak = equity[m]]
      ELSE [ap[m] EXCEPT !.peak = peak, !.state = Resolved(copy.state, peak, equity[m])]

\* _on_hard_halt: the order that closes the book, unless it exists already.
OnHardHalt(m) ==
  closing' = IF m \in Flattens \cap holds /\ closing[m] = "none"
             THEN [closing EXCEPT ![m] = "open"] ELSE closing

-----------------------------------------------------------------------------
(* guardrail_sweep.                                                         *)

SweepLoads(s) ==
  /\ job[s].at = "idle"
  /\ Goes(s, Loaded("members", {m \in Members : ap[m].enabled}), {})
  /\ UNCHANGED <<rowVars, bookVars, faults>>

SweepMember(s, m) ==
  LET copy == job[s].row[m] IN
  /\ job[s].at = "members" /\ m \in job[s].who
  /\ Save(m, Evaluated(m, copy))
  /\ IF copy.peak # Unknown /\ copy.state # "halted" /\ ap'[m].state = "halted"
     THEN OnHardHalt(m) ELSE UNCHANGED closing
  /\ Goes(s, SeenTo(s, m, "members"), {m})
  /\ UNCHANGED <<fund, equity, holds, moves, faults>>

\* A member whose evaluation fails is passed over.
SweepMemberFails(s, m) ==
  /\ job[s].at = "members" /\ m \in job[s].who
  /\ Fault
  /\ Goes(s, SeenTo(s, m, "members"), {})
  /\ UNCHANGED <<rowVars, bookVars>>

\* A fund that is halted is not evaluated.
SweepLoadsFund(s) ==
  /\ job[s].at = "members" /\ job[s].who = {}
  /\ Goes(s, IF fund.state = "active" THEN [Job("fund") EXCEPT !.frow = fund]
                                      ELSE Job("idle"), {})
  /\ UNCHANGED <<rowVars, bookVars, faults>>

\* Slip: the evaluation saves the fund's whole row.
SaveWholeFund(s, peak) == fund' = [job[s].frow EXCEPT !.peak = peak]

SaveFundPeak(s, peak) == fund' = [fund EXCEPT !.peak = peak]

\* evaluate_fund_drawdown; a breach halts the fund, then its members, and
\* saves the peak last.
EvaluateFund(s) ==
  LET value == Pool[equity]
      known == job[s].frow.peak
      peak  == Larger(value, known)
  IN
  /\ job[s].at = "fund"
  /\ IF known # Unknown /\ Past(FundPct, peak, value)
     THEN /\ fund' = [fund EXCEPT !.state = "halted"]
          /\ Goes(s, [Job("update") EXCEPT !.frow = [job[s].frow EXCEPT !.peak = peak]], {})
     ELSE /\ SaveFundPeak(s, IF known = Unknown THEN value ELSE peak)
          /\ Goes(s, Job("idle"), {})
  /\ UNCHANGED <<ap, bookVars, faults>>

SaveLastPeak(s) ==
  /\ job[s].at = "peak"
  /\ SaveFundPeak(s, job[s].frow.peak)
  /\ Goes(s, Job("idle"), {})
  /\ UNCHANGED <<ap, bookVars, faults>>

\* halt_fund, after the fund's own row: one UPDATE of every member not halted.
HaltMembers(p) ==
  /\ job[p].at = "update"
  /\ ap' = [m \in Members |-> [ap[m] EXCEPT !.state = "halted"]]
  /\ Goes(p, IF p \in Sweeps THEN [job[p] EXCEPT !.at = "peak"] ELSE Job("done"),
          {m \in Members : ap[m].state # "halted"})
  /\ UNCHANGED <<fund, bookVars, faults>>

-----------------------------------------------------------------------------
(* The checks of run_autopilot_cycle before it decides anything.             *)

\* Skipped while the member or the fund is halted; halts a member whose
\* strategy would wait for a review.
CycleBegins(c) ==
  LET m == Of[c] IN
  /\ job[c].at = "idle"
  /\ IF ap[m].state = "halted" \/ fund.state = "halted"
     THEN Goes(c, Job("done"), {}) /\ UNCHANGED ap
     ELSE \/ Goes(c, Loaded("loaded", {m}), {}) /\ UNCHANGED ap
          \/ Goes(c, Job("done"), {m}) /\ Save(m, [ap[m] EXCEPT !.state = "halted"])
  /\ UNCHANGED <<fund, bookVars, faults>>

\* The book is reconciled; more drift than tolerated halts the member.
CycleReconciles(c) ==
  LET m == Of[c] IN
  /\ job[c].at = "loaded"
  /\ \/ Goes(c, [job[c] EXCEPT !.at = "checked"], {}) /\ UNCHANGED ap
     \/ Goes(c, Job("done"), {m}) /\ Save(m, [ap[m] EXCEPT !.state = "halted"])
  /\ UNCHANGED <<fund, bookVars, faults>>

CycleEvaluates(c) ==
  LET m == Of[c] IN
  /\ job[c].at = "checked"
  /\ Save(m, Evaluated(m, job[c].row[m]))
  /\ IF ap'[m].state = "halted" THEN OnHardHalt(m) ELSE UNCHANGED closing
  /\ Goes(c, Job("done"), {m})
  /\ UNCHANGED <<fund, equity, holds, moves, faults>>

-----------------------------------------------------------------------------
(* Requests of the user.                                                    *)

HaltFund(h) ==
  /\ job[h].at = "idle"
  /\ fund' = [fund EXCEPT !.state = "halted"]
  /\ Goes(h, Job("update"), {})
  /\ UNCHANGED <<ap, bookVars, faults>>

Rearmed(m, value) == [ap[m] EXCEPT !.state = "active", !.peak = value]

\* resume_fund: the fund, then one member after the other.
ResumeFund(h) ==
  /\ job[h].at = "idle"
  /\ fund' = [state |-> "active", peak |-> Pool[equity]]
  /\ Goes(h, [Job("resume") EXCEPT !.who = Members], {})
  /\ UNCHANGED <<ap, bookVars, faults>>

\* A member alone cannot be resumed while the fund is halted.
AskResume(h, m) ==
  /\ job[h].at = "idle"
  /\ fund.state # "halted"
  /\ Goes(h, [Job("rearm") EXCEPT !.who = {m}], {})
  /\ UNCHANGED <<rowVars, bookVars, faults>>

\* The peak is rebased to today's value, the halt ends.
Resume(h, m) ==
  /\ job[h].at \in {"resume", "rearm"} /\ m \in job[h].who
  /\ Save(m, Rearmed(m, equity[m]))
  /\ Goes(h, SeenTo(h, m, "done"), {m})
  /\ UNCHANGED <<fund, bookVars, faults>>

\* An edit and an enable load the row and save all of it.
AskPut(h, m) ==
  /\ job[h].at = "idle"
  /\ \E step \in {"put", "enable"} : Goes(h, Loaded(step, {m}), {})
  /\ UNCHANGED <<rowVars, bookVars, faults>>

Put(h, m) ==
  /\ job[h].at = "put" /\ m \in job[h].who
  /\ Save(m, job[h].row[m])
  /\ Goes(h, Job("done"), {m})
  /\ UNCHANGED <<fund, bookVars, faults>>

\* Enabling out of a halt is a resume.
Enable(h, m) ==
  LET copy == job[h].row[m] IN
  /\ job[h].at = "enable" /\ m \in job[h].who
  /\ Save(m, IF copy.state = "halted"
             THEN [enabled |-> TRUE, state |-> "active", peak |-> equity[m]]
             ELSE [copy EXCEPT !.enabled = TRUE])
  /\ Goes(h, Job("done"), {m})
  /\ UNCHANGED <<fund, bookVars, faults>>

Disable(h, m) ==
  /\ job[h].at = "idle"
  /\ Save(m, [ap[m] EXCEPT !.enabled = FALSE])
  /\ Goes(h, Job("done"), {m})
  /\ UNCHANGED <<fund, bookVars, faults>>

\* A fund that holds nothing is reset in one transaction, its cash split anew.
ResetFund(h) ==
  /\ job[h].at = "idle"
  /\ holds = {} /\ \A m \in Members : closing[m] # "open"
  /\ equity' \in {e \in [Members -> Levels] : Pool[e] = Pool[equity]}
  /\ ap' = [m \in Members |-> Rearmed(m, equity'[m])]
  /\ fund' = [state |-> "active", peak |-> Pool[equity]]
  /\ Goes(h, Job("done"), Members)
  /\ UNCHANGED <<holds, closing, moves, faults>>

-----------------------------------------------------------------------------
(* A worker dies; what it has saved stays.  The sweep comes back every hour. *)

Dies(p) ==
  /\ job[p].at \notin {"idle", "done"}
  /\ Fault
  /\ Goes(p, Job(IF p \in Sweeps THEN "idle" ELSE "done"), {})
  /\ UNCHANGED <<rowVars, bookVars>>

\* The market moves the value of a book that holds positions.
MarketMoves(m) ==
  /\ m \in holds
  /\ moves < MaxMoves
  /\ moves' = moves + 1
  /\ \E v \in Levels \ {equity[m]} : equity' = [equity EXCEPT ![m] = v]
  /\ UNCHANGED <<rowVars, holds, closing, job, faults>>

CloseFills(m) ==
  /\ closing[m] = "open"
  /\ closing' = [closing EXCEPT ![m] = "filled"]
  /\ holds' = holds \ {m}
  /\ UNCHANGED <<rowVars, equity, moves, job, faults>>

\* A later cycle of a member that trades buys positions again.
BuysAgain(m) ==
  /\ m \notin holds
  /\ fund.state = "active" /\ ap[m].state # "halted" /\ ap[m].enabled
  /\ holds' = holds \cup {m}
  /\ UNCHANGED <<rowVars, equity, closing, moves, job, faults>>

-----------------------------------------------------------------------------
Sweep(s) ==
  \/ SweepLoads(s) \/ SweepLoadsFund(s)
  \/ \E m \in Members : SweepMember(s, m)
  \/ EvaluateFund(s) \/ HaltMembers(s) \/ SaveLastPeak(s)

Cycle(c) == CycleBegins(c) \/ CycleReconciles(c) \/ CycleEvaluates(c)

Request(h) ==
  \/ HaltFund(h) \/ HaltMembers(h) \/ ResumeFund(h) \/ ResetFund(h)
  \/ \E m \in Members :
       \/ AskResume(h, m) \/ Resume(h, m)
       \/ AskPut(h, m) \/ Put(h, m) \/ Enable(h, m) \/ Disable(h, m)

Next ==
  \/ \E s \in Sweeps : Sweep(s) \/ \E m \in Members : SweepMemberFails(s, m)
  \/ \E c \in Cycles : Cycle(c)
  \/ \E h \in Humans : Request(h)
  \/ \E p \in Procs : Dies(p)
  \/ \E m \in Members : MarketMoves(m) \/ CloseFills(m) \/ BuysAgain(m)

Spec == Init /\ [][Next]_vars

\* The hourly beat and its worker keep running.
Fairness == \A s \in Sweeps : WF_vars(Sweep(s))
FairSpec == Spec /\ Fairness

-----------------------------------------------------------------------------
(* Properties.                                                              *)

\* A person ends the halt of m, and says so.
Acknowledges(m) ==
  \E h \in Humans :
    Resume(h, m) \/ Enable(h, m) \/ ResetFund(h)

\* The step is one of p, which holds an outdated copy of the row of m.
SavesStaleRow(p, m) == m \in job[p].stale /\ m \notin job'[p].who

\* Nothing loosens a member's breaker, by ending its halt or by lowering the
\* peak that drawdowns are measured from, but a person's acknowledgement or a
\* save of a row that another has written since it was loaded.
OnlyLostUpdatesLoosen ==
  [][\A m \in Members :
       \/ ap[m].state = "halted" /\ ap'[m].state # "halted"
       \/ ap'[m].peak < ap[m].peak
       => Acknowledges(m) \/ \E p \in Procs : SavesStaleRow(p, m)]_vars

\* The kill switch is let go by a resume or a reset of the fund and by nothing
\* else, also not by a sweep that loaded the fund before the halt and saves
\* its peak afterwards.
FundHaltIsLatched ==
  [][fund.state = "halted" /\ fund'.state # "halted"
     => \E h \in Humans : ResumeFund(h) \/ ResetFund(h)]_vars

\* The drawdown from the peak of the row is past the limit.
Breached(m) ==
  ap[m].enabled /\ ap[m].peak # Unknown /\ Past(HardPct, ap[m].peak, equity[m])
FundBreached ==
  fund.peak # Unknown /\ Past(FundPct, fund.peak, Pool[equity])

\* A drawdown past the limit that stays is answered: an enabled member ends up
\* halted, and so does the fund with the account's book, whatever copies were
\* saved over each other on the way.
BreachHalts ==
  /\ \A m \in Members : <>[]Breached(m) => <>[](ap[m].state = "halted")
  /\ <>[]FundBreached => <>[](fund.state = "halted")
=============================================================================
