# A verification development for HaspelHedgeFund

HaspelHedgeFund is a Django and Celery application: councils of LLM agents
produce decisions, strategies turn them into target portfolios, an autopilot
turns the targets into orders, and a broker layer sends the orders to a venue
(Alpaca paper first), follows them and books their fills. This directory holds
TLA+ modules translated from that code (`src/` at one commit), TLC
configurations, TLAPS proofs, and this guide.

Contents: [the system](#the-system) · [plan](#plan) ·
[order lifecycle](#order-lifecycle) · [council runs](#council-runs) ·
[backtests](#backtests) · [schedules](#schedules) · [account book](#account-book) ·
[fund halt](#fund-halt) · [strategy cycle](#strategy-cycle) ·
[shared ticker](#shared-ticker) · [runs](#runs) · [proofs](#proofs) ·
[what is not modelled](#what-is-not-modelled)

## The system

Every component runs as HTTP requests on a threaded web server or as Celery
tasks on a worker with eight children; they share a PostgreSQL database and
nothing else. `ATOMIC_REQUESTS` is off, so each `.save()` and `.update()`
commits on its own unless the code opens a transaction. Celery acknowledges a
task when it is taken (no `acks_late`), so a task whose worker dies is lost;
beat entries overlap with themselves and with requests.

| component | state | operations | what is hard | what makes it correct |
|---|---|---|---|---|
| order lifecycle (`brokers/idempotency.py`, `confirmation.py`, `tasks.py`, order views) | `BrokerOrder.status`, `idempotency_state`, `broker_order_id`, `error_message`; account `connection_status` | create, confirm (gate + claim + POST), cancel, poll, resolve unknown, sweep | the POST's answer may be lost; handlers overlap on one row; writes by primary key | placed at most once; a live order stays polled; a cancelled order stays cancelled |
| autopilot (`portfolios/autopilot.py`, `tasks_autopilot.py`) | `AutopilotRun`, held orders (`pending_open`) | dispatch, cycle, emit or hold, release at the open, guardrail sweep, flatten | release tick, guardrail sweep and owner act on the same held orders | one cycle per fire, held orders released once, no wash trades, daily caps |
| book and reconciliation (`brokers/reconcile.py`) | `BrokerFill`, `Portfolio`, `Position`, ledger | ingest a fill, square drift against the venue | fills may be seen twice, late, or after the drift was squared | every share booked once, and in the end the book equals the venue |
| bracket groups (`brokers/brackets.py`) | three linked orders | create, submit, poll, derive the group's status | legs are polled one by one | the status follows from the legs |
| demo venue (`brokers/demo_fills.py`) | orders, fills and cash in one database | place, fill, evaluate resting orders | concurrent evaluations | one fill per order, no overdraft |
| fund and sleeves (`portfolios/fund.py`, `sleeves.py`, `autopilot_risk.py`) | fund and member state, sleeve cash and positions | halt, resume, drawdown sweep, membership, reset, flatten | the halt is latched while cycles are in flight | nothing is emitted while halted, cash is conserved |
| strategy cycle (`portfolios/tasks.py`, `runs_bridge.py`) | `PortfolioTarget`, candidate runs | start, fan out, finalise, enrol | fan-in of asynchronous runs | a target is finalised once, from all its runs |
| council runs (`runs/`) | `Run.status`, decisions, task id | queue, claim, execute, cancel, sweep, rerun | cancel and sweep against a running worker, re-delivery | terminal states are final, one set of decisions |
| backtests (`backtests/`) | `Backtest.status`, heartbeat, folds | queue, claim, walk forward, cancel, sweep | as above | as above |
| schedules (`schedules/`) | `next_run_at`, history rows | dispatch, execute, auto-submit | double dispatch, crash between writes | one execution per fire |
| model catalogue (`models_catalog/`) | model rows, quarantine, stored maps | reconcile, quarantine, heal | a map stored before a reconcile | a healed map names live models |
| market data, graphs, agents, profile, screener, leaderboard, watchlists, notifications, accounts | caches, read models, settings | refresh, compile, edit | provider failures | local |

Calls go from the strategy cycle to the council runs, back to the cycle's
finalisation, from there to the autopilot's emission, to the confirmation gate
and `submit_idempotent`, and through the adapter to the venue. The way back is
the poll (every 30 s), the reconciliation (every 300 s) and the sweeps.
`PROJECT.json` lists all components with their sources, and under `hazards` the
places, by line, where the code is exposed to an order of events that a unit
test hardly reaches.

## Plan

1. `OrderLifecycle`, with the abstract `SubmitOnce`; type correctness, at-most-once
   placement, booking and refinement proved. *Done.*
2. `RunLifecycle` and `BacktestLifecycle`: queue, claim, cancel, orphan sweep,
   re-delivery, rerun, delete, for council runs and backtests. *Done*; a common
   abstract job specification is left.
3. `AccountBook`: fills, ledgers and positions of the account and of a sleeve, the
   post-confirm transaction, drift and its squaring. *Done.*
4. `ScheduleDispatch`: schedules, their dispatcher with overlapping passes and
   deaths, the execution of fires under the daily cap. *Done.*
5. `FundHalt`: drawdown breakers, the kill switch, what users do to them. *Done.*
6. `StrategyCycle`: the cycles of a day, their councils, callback and emission,
   approvals, rejections, reruns. *Done.*
7. `SharedTicker`: the members' orders of one ticker of the account, held, released
   one at a time, fitted, flattened; removal of a member, reset of the fund. *Done.*
8. Left: `DemoFills` (cash and fills in one database, orders evaluated by polls and
   requests at once), `Brackets`, the sleeves' cash and allocations, the autopilot's
   dispatcher and daily caps, account deletion, quarantine and healing of models.

Each module takes its actors and rows as CONSTANTS, has one action per database
write or outside call, and keeps RECURSIVE operators out. Theorems follow each
module: type correctness, then the invariant that matters most with the
strengthening it needs, then refinement.

## Order lifecycle

`OrderLifecycle.tla` is the life of plain orders on one credentialed account.

**State.** `status`, `idem`, `bid`, `err`, `booked` are the row's `status`,
`idempotency_state`, whether `broker_order_id` and `error_message` are set, and
the shares of its `BrokerFill` rows. `account` is the account's
`connection_status`. `vstate`, `exec`, `accepted`, `late` are the venue and the
network, which are outside the repository: an order at the venue is working,
being cancelled, or closed, with 0, 1 or 2 parts executed; `accepted` counts
POSTs taken, `late` says that a POST nobody waits for is still under way. A
*handler* is a request or task while it deals with one order; `pc`, `on` say
where it is, `kind` whether the owner or the autopilot asked, and `ready`,
`reply`, `snap`, `fillq` what it has read.

**Actions and code.**

| action | code |
|---|---|
| `CreateDraft` | `BrokerOrderListCreateView.post` |
| `EmitClosed`, `HoldForOpen`, `EmitNow` | `_emit_one`: market closed (draft, then held) or open |
| `StartConfirm`, `GatePasses`, `GateRefuses` | `BrokerOrderConfirmView.post`, `confirmation.gate` |
| `StartRelease`, `ResetHeld`, `RefreshHeld` | `release_pending_open_orders`, `submit_held_order` |
| `Claim`, `ClaimConflict` | the conditional UPDATE of `submit_idempotent` |
| `SubmitAcknowledged`, `SubmitUnknown`, `SubmitDenied`, `SubmitRefused` | its four endings; an acknowledged row takes the status of the answer (`Answers`) |
| `StartPoll`, `GetOrder`, `GetRecentFills`, `QueryFails`, `IngestFill`, `ApplyStatus` | `poll_open_orders_for_account`, `ingest_order_fills`, `_ingest_fill`, `_apply_snapshot_status` |
| `Find`, `Adopt`, `GraceExpires`, `RereadUnknown` | `resolve_unknown` and the refresh after it |
| `StartCancel`, `CancelRow`, `CancelAtVenue`, `CancelFails`, `CancelSave` | `BrokerOrderCancelView.post` |
| `StartSweep`, `SweepSave` | `sweep_stuck_confirmed_orders` |
| `Reauthenticate` | `BrokerAccountCredentialsView.post` |
| `Crash` | a worker or web process dies, at any step |

Between two database statements of a handler any other handler may act; a
decision the code takes on a loaded row is taken on what the handler read
(`StartConfirm` reads, `GatePasses` writes by primary key). `RefreshHeld` reads
the account anew because Django's `refresh_from_db` drops the cached foreign
key; `EmitNow` keeps the account as the cycle loaded it.

**Abstractions.** Quantity is two parts, enough for "nothing, partly, wholly".
The claim and the time stamp written just after it are one step. The
post-confirm pipeline runs in one transaction; here its writes commit one by
one, which only adds behaviours. Ages are left out: the grace window may have
expired at any lookup that finds nothing, and the 24-hour sweep takes a row only
when no handler is busy with it. The answer to a POST carries any status the order has
had since it was accepted, `filled`, `cancelled` and `rejected` included. The risk and venue-fit checks of the gate are a
choice between passing and refusing.

**Specifications around it.** `SubmitOnce.tla` is what `submit_idempotent`
promises: exclusive claims, one placement, a claim given back only while nothing
was placed. `OrderProperties.tla` adds fairness, liveness, the refinement
(`SubmitsOnce`). `MCOrderLifecycle.tla` is the instance for TLC.

**Fairness.** A handler that has begun takes its next step (the adapters set
HTTP timeouts, so waiting ends). The 30-second beat polls every pollable row
again and again on an active account, and the venue does not fail every query
about an order for ever: strong fairness of starting a poll and of each of the
three queries. Neither owner nor venue has to act, and an account that stays
dark keeps everything waiting, hence the premise `StaysActive`.

## Council runs

`RunLifecycle.tla` is the life of `Run` rows between the requests, the workers
and the sweep.

**State.** `status`, `taskid`, `outputs` are the row's status, whether its
`celery_task_id` is set, and how many sets of messages and decisions it has.
`queue`, `revoked` are the copies of its message in Redis and the workers' set
of revoked tasks. `creating` and `cancelling` are the requests under way, `old`
the rows beyond the orphan cutoff; `pc`, `on` say what each worker does; `sweep`,
`active`, `todo` what the sweep has learnt.

| action | code |
|---|---|
| `CreateRun`, `Enqueue`, `StoreTaskId` | `RunListCreateView.perform_create`, and `RunRerunView.post` alike |
| `ExecuteInProcess` | the loop of `execute_scheduled_run` |
| `Claim`, `ClaimRefused`, `PersistOutputs`, `Finish`, `Fail` | `execute_run` |
| `StartCancel`, `SaveCancel` | `RunCancelView.post`, before and after the revocation |
| `PassCutoff`, `Inspect`, `ListCandidates`, `SweepRun`, `EndSweep` | `sweep_orphan_runs` |
| `Deliver`, `Redeliver`, `DropRevoked`, `KillRevoked` | Celery and Redis (external) |
| `WorkerDies`, `CreatorDies`, `CancelDies` | a process dies; for the worker also an exception before the `try` |

The sweep's `candidates.exists()` and the loop over `candidates` are two queries,
with the inspection of the workers between them: `Inspect` and `ListCandidates`
are two actions. A run is one ticker: an execution writes its outputs in one
step. A message may be delivered twice because it is held back unacknowledged by
a prefetching worker beyond Redis' visibility timeout; once a task has started it
is acknowledged.

**Fairness.** A worker that has taken a task goes on (the task has time limits), a
waiting message is taken by a worker that becomes free again and again, a cancel
request ends, time passes the cutoff, and beat starts the sweep again and again.

## Backtests

`BacktestLifecycle.tla` is built the same way, with what is different in the
code: the claim takes queued rows only, a running walk writes a heartbeat
(`fresh`), ends are saved unconditionally, the cancel is conditional, the sweep
also takes queued rows and saves unconditionally, and rows can be deleted.

| action | code |
|---|---|
| `CreateBacktest`, `Enqueue`, `StoreTaskId` | `BacktestListCreateView.perform_create` |
| `Claim`, `ClaimRefused`, `NoFolds`, `Progress`, `WriteResults`, `Finish` | `_claim`, `_save_progress`, `run_walkforward` and its deterministic twin |
| `Fail`, `SaveFailure` | the exception path of `run_backtest`: read the status, then save |
| `StartCancel`, `SaveCancel` | `BacktestCancelView.post` |
| `StartDelete`, `Delete` | `BacktestDetailView.destroy` |
| `PassCutoff`, `HeartbeatAges`, `Inspect`, `ListCandidates`, `SweepBacktest`, `EndSweep` | `sweep_orphan_backtests` |
| `WorkerDies`, `RequestDies` | deaths |

`walks` counts the executions that have written folds and metrics; the folds of
one execution are written in one step. `live` is any subset of the backtests a
worker holds: the three probes follow one another, and a probe nobody answers
counts as empty.

**Fairness.** As for runs; besides, a revoked message is dropped, and the heartbeat
of a backtest nobody executes ages.

## Schedules

`ScheduleDispatch.tla` is the life of scheduled runs: the owner's requests, the
dispatcher that beat starts every minute (and that overlaps with itself when a
pass is slow), and the task that executes a fire.

**State.** `stored`, `active`, `next` are the rows, their `is_active` and
`next_run_at`; `hist` is the status of a `ScheduledRunHistory` row, which is known
by its schedule and its fire time (`uniq_schedule_fire_time`). `queue` counts the
copies of a row's message, `starts` how often it was given to a worker, `sending`
the run-now requests that have saved their row and not yet sent its message.
`pass`, `now`, `due`, `sr`, `fire` are what a pass of the dispatcher does and has
read, `edit`, `form` an owner's request and the row it holds in memory, `exec`,
`task`, `today`, `placed` a worker. `linked` and `orders` count a schedule's
orders that its history rows name and that were created. `owed` is an auxiliary
variable: the fires that some pass has moved `next_run_at` past.

| action | code |
|---|---|
| `CreateSchedule`, `ReadSchedule`, `SaveSchedule`, `Reschedule` | `perform_create`, `perform_update`, `ScheduledRun.reschedule` |
| `RunNow`, `SendNow` | `ScheduledRunRunNowView.post` |
| `StartPass`, `Load`, `Advance`, `RecordSkip`, `RecordFire`, `Send`, `FinishPass` | `dispatch_due_scheduled_runs` |
| `AbortPass` | the same, when the row was deactivated after it was listed: a fire time of `None` raises and ends the pass |
| `Begin`, `StopEarly`, `CountOrders`, `Finish` | `execute_scheduled_run` |
| `Submit`, `SubmitRaises`, `LinkOrders` | `auto_submit_orders`, `_create_and_submit` |
| `Deliver`, `Redeliver` | Celery and Redis (external) |
| `EditorDies`, `RunNowDies`, `PassDies`, `ExecutorDies` | a process dies; for the executor also an exception, which nothing in the task catches |

**Abstractions.** Time is counted in slots of the cron: `clock` is the last slot
that has passed, and the next fire after time *t* is slot *t + 1*. The modelled
span is shorter than a day, so that every order of a schedule counts for its
daily cap. The cron of a schedule is usable and does not change; a watchlist,
a cost estimate and the councils' outcome are a choice. `RecordSkip` and
`RecordFire` are one `get_or_create` each, atomic by the unique constraint; that of
`RecordSkip` may fail unnoticed, one of `RecordFire` that fails ends the pass (`PassDies`).
Deleting a schedule, and the cap on notional value, are left out.

**Fairness.** Beat starts passes, a pass and an executor go on to their next step
(weak fairness), a waiting message is taken by a worker that is free again and
again (strong fairness). No owner has to act, time need not pass, and an edit need
not end.

## Account book

`AccountBook.tla` is the book of one broker account in one ticker: the fills of its
orders, the book of the sleeve that sent them, and the venue's own book.

**State.** `executed`, `venue` are the venue's executions and its book. `rows` are
the fills with a committed `BrokerFill`; `db` the committed books (position, average
cost, realised profit, cash), how often each fill is in each ledger, and the sum of
the reconciliation adjustments. `owner`, `draft`, `newRows` are the open transaction
of a post-confirm pipeline, which holds the row lock on the book from its first
write. `poll`, `hand` say what a poller does and with which fill; `rec`, `seen` what
a reconciliation does and has read; `halts` are the cycles that found more drift than
tolerated; `lost` (auxiliary) the fills whose poller died between row and book.

| action | code |
|---|---|
| `PollRow`, `PollBook`, `PollSleeve`, `PollSleeveFails` | `_ingest_fill`, `_apply_fill_to_portfolio`, each write committed by itself |
| `Reduces`, `Flips`, `Gain`, `Cost`, `Trade`, `Apply` | `_apply_fill_to_book` |
| `PipeIngests`, `PipeCommits`, `PipeRollsBack` | `run_post_confirm_pipeline`, one transaction |
| `Refetch`, `GetPositions`, `GetAccount`, `ComputeDrift`, `ApplyDrift`, `VenueFails` | `reconcile_account`, `compute_drift`, `apply_drift_as_ledger_entries` |
| `WithinTolerance` | `drift_within_tolerance` |
| `VenueExecutes` | the venue, also of trades nobody here ordered (external) |
| `PollerDies`, `RecDies` | deaths |

The decisive order is the code's: the cash is read at the refetch, before the venue is
asked; the positions when the drift is computed, after; and the drift is *added* to
whatever the book has become when it is applied.

**Abstractions.** One ticker, whole shares and money; the instances have averages that
are whole. Fees are nought. What the venue reports as cost is its own average.

**Fairness** (`book_squared`). The beat reconciles again and again and a pipeline that
has begun goes on; polls and cycles need not act.

## Fund halt

`FundHalt.tla` is the drawdown breaker of each member, the fund's own, the kill switch,
and what users do to them.

**State.** `ap`, `fund` are the rows (`is_enabled`, `state`, `peak_equity_usd`);
`equity` what each member's book is worth, `holds` who holds positions, `closing` the
order `flat-<autopilot>-<ticker>`. `job` is what each process does next and the *copies*
of rows it has loaded; `stale` in it is auxiliary: the members whose rows others have
written since.

| action | code |
|---|---|
| `SweepLoads`, `SweepMember`, `SweepMemberFails`, `SweepLoadsFund` | `guardrail_sweep` |
| `Evaluated`, `Resolved`, `OnHardHalt` | `evaluate_drawdown`, `_on_hard_halt` |
| `EvaluateFund`, `HaltMembers`, `SaveLastPeak` | `evaluate_fund_drawdown`, `halt_fund` |
| `CycleBegins`, `CycleReconciles`, `CycleEvaluates` | the checks of `run_autopilot_cycle` |
| `HaltFund`, `ResumeFund`, `Resume`, `ResetFund` | `FundHaltView`, `resume_fund`, `reset_fund` |
| `AskResume`, `AskPut`, `Put`, `Enable`, `Disable` | `StrategyAutopilotView` and its siblings |
| `MarketMoves`, `CloseFills`, `BuysAgain` | market and venue (external) |
| `Dies` | a process dies; the beat starts the sweep again |

`evaluate_drawdown` and the edit work on a loaded row and save it later (`Evaluated`
takes the copy's state and peak); saves with `update_fields` leave the other fields,
the edit and the enable save the whole row.

**Abstractions.** A member's equity is read and its row saved in one step, a valuation
never fails to answer (a failure of the evaluation is `SweepMemberFails`); a change of
limits by an edit is left out, so that a breach does not depend on who moved the limit.

**Fairness.** The hourly beat and its worker keep running the sweep; nobody else has to act.

## Strategy cycle

`StrategyCycle.tla` is what happens to the `PortfolioTarget` rows of one strategy on one
day: cycles started by the user or by an autopilot's fire, one council per candidate,
the chord's callback, and the user's approvals, rejections and reruns.

**State.** `row`, `run` are the rows (status, `superseded_by`, `celery_task_id`) and
their candidate runs; `job` what each start or request does next, on which row; `task`
the council of each candidate of a process's chord; `final` its callback with the copy
of the row it saves at the end; `held` whose orders are held for the open. Auxiliary:
`rejected` (rows ever rejected), `late` (the row was cancelled while the process had
it), `crossed` (the emission was overtaken by another).

| action | code |
|---|---|
| `BeginPlain`, `BeginForced`, `AskRerun`, `ScreenRaises` | `StrategyRunNowView`, `StrategyCycleRerunView`, the start of `daily_long_short_cycle` |
| `Resolvable`, `Resolve` | `_resolve_cycle_target` |
| `AwaitReview`, `NothingToJudge`, `SetCouncil`, `SendChord`, `StoreTaskId` | the end of it, `_dispatch_council_chord` |
| `CreateRuns` | `create_candidate_runs` |
| `LoadRun`, `ClaimRun`, `EndCouncil` | `run_candidate_council` |
| `BeginFinal`, `SaveDone`, `ConstructRaises` | `finalize_cycle`; the computed flavours use `Resolve` and `SaveDone` |
| `CheckEmission`, `Emit`, `Submitted`, `Release` | `_finalize_target`, `maybe_emit_and_submit`, the release task |
| `Approve`, `StartReject`, `Reject` | `CycleApproveCouncilView`, `CycleRejectView` |
| `Raises` | `_fail_cycle`, when an autopilot's cycle raises |
| `Admits` | the constraint `uniq_active_strategy_target_per_day` |
| `Sent`, `Reported` | Celery's chord (external) |

**Abstractions.** A cycle is council or computed (risk parity, momentum, news); the pairs
flavour, manual enrolment and the `AutopilotRun` rows are left out. The check and the
UPDATE at the start of `finalize_cycle`, the two reads at the end of a council, and the
listing and the update in a rejection are one step each. A batch is one decision: held
or sent.

**Fairness.** Workers take what is in the queue and go on with what they have begun; no
user has to act, so a cycle may wait for its review for ever.

## Shared ticker

`SharedTicker.tla` is one ticker of the account that the members of a fund share: their
cycles, the release of held orders, the owner's flatten, removal of a member and reset.
It takes one order's way to the venue, the subject of `OrderLifecycle`, in large steps,
and follows what several orders and several processes do to each other.

**State.** `row` are the orders (status, shares to buy, sleeve, whether it is one of a
flatten's `flat-` orders), `venue` where each is at the venue; `account`, `book` the
positions of the account's book and of the sleeves'; `members` the roster, `open` the
market. `job` is what each process does next and what it has read: the orders it has
listed, the order it is submitting, the sleeves still to close, what is left to close.
Auxiliary: `passed` (since a tick or reset looked, somebody else has changed venue or
books, or an order at the venue could not be seen), `contested` (orders two processes
have had in hand at once, while one has them or the poll cannot see them), `flat` (the last request of any effect was a flatten).

| action | code |
|---|---|
| `CycleEmits`, `Emit` | `maybe_emit_and_submit` with its skip when a batch is held, `_emit_one` |
| `ListHeld`, `LookForLive`, `ResetHeld` | `release_pending_open_orders`, `submit_held_order` |
| `Fit`, `Fitted` | the venue fit with the account's position as booked |
| `Admitted`, `GateRefuses` | the gate's risk check: an order of a sleeve against the sleeve's book; one of no sleeve that is released, against the first linked member's cap on the account's book (`_risk_check_for_order`); one of no sleeve submitted by the flatten itself, nothing (`_emit_close`) |
| `ClaimConflict`, `VenueRefuses`, `VenueAccepts`, `AnswerIsLost` | `submit_idempotent` and its endings |
| `ListToCancel`, `CancelHeld`, `LookForClosing`, `CloseSleeve`, `CloseRest` | `flatten_fund`: `cancel_pending_open` lists and updates, then the closes one by one |
| `RemoveMember`, `Commit` | `set_members` of a member that leaves: `flatten_sleeve` and `deactivate_sleeve` in one transaction |
| `FindEmpty`, `FindSettled`, `WipeSleeves` | `reset_readiness`, `reset_fund` |
| `Adopt`, `Book` | the poll: `resolve_unknown`, `_apply_fill_to_portfolio` |
| `MarketOpens`, `Executes`, `Clashes` | exchange and venue (external): market orders are executed in the end; the venue refuses an order against one that works, and one for more of the position than is left |

The decisive orders are the code's: a tick lists the held orders first and asks for live
ones afterwards; it makes a listed order a draft whatever has become of it; a flatten
lists, updates, and only then asks for closes in flight and reads the position; a reset
counts positions, then orders, then wipes.

**Abstractions.** One ticker and whole shares, so the fit never leaves less than a share.
Gate, claim and POST are one step, and an answer that is lost is one of a POST that
arrived: `OrderLifecycle` has the rest. A close's cap is the one every order has, the same
for each sleeve (`Cap`); `AccountCap` is the one of the first linked member in shares of
the account, the same whoever that is, and looked up when the gate runs, not when the
order is reset. The caps stay what they are while prices move.
Requests are numbered in the order in which they begin. The look for closes in flight
and the reading of the position are one step. Nobody dies.

**Fairness.** The beat starts the release again and again, a cycle or request that has
begun goes on, the market opens, the venue executes market orders, the poll looks. No
request need begin, no cycle either.

## Runs

| run | instance | what it shows |
|---|---|---|
| `order_overlap` | 1 order, 2 handlers, 1 death, fair | the safety invariants and the refinement, under any overlap of two handlers and a death; no row becomes filled behind the back of the fetch of its fills; nobody new takes up a cancelled order; an order whose answer was lost is adopted |
| `order_in_turn` | 1 order, 1 handler, fair | what holds as long as handlers of an order do not overlap or die: a live order is polled, a closed order's execution is booked |
| `run_overlap` | 1 run, 2 workers, 1 redelivery, 2 deaths, fair | an ended run is never revived, each delivery writes outputs once, a queued run waits somewhere, a started run with a stored task id ends |
| `backtest_overlap` | 1 backtest, 2 workers, 1 redelivery, 1 death, fair | one execution; an outcome nobody works on stands; a backtest does not stay active for ever |
| `schedule_overlap` | 1 schedule, 2 passes, 1 editor, a closed day, 1 death, fair | a fire is sent once and, on an open day, leaves a row, an active schedule stays armed, a due schedule is dealt with |
| `schedule_fires` | 1 schedule, 2 run-now fires, 2 workers, 1 redelivery, 1 failing submission, 1 death, fair | the daily cap is exceeded at most once per worker, a fire that was sent ends if nobody dies |
| `book_overlap` | 3 fills (open, turn round, enlarge), 2 pollers, 1 pipeline, no beat and no cycle's check, 1 failure or death | each fill is booked once per book, a committed row is booked or its poller died, ledgers and books agree, the average-cost arithmetic agrees with the cash |
| `book_squared` | 1 fill, 1 foreign trade, 1 poller, 1 beat, 1 cycle's check, 1 failure or death, fair | double counting happens, and the book ends up equal to the venue's |
| `fund_overlap` | 2 members, 1 sweep, 1 cycle, 1 user, 1 move of the market, 1 failure or death, fair | only a person or a lost update loosens a breaker, only a resume or reset lets the kill switch go, a drawdown that stays is answered |
| `cycle_overlap` | 2 starts (1 an autopilot's), 1 request, 1 candidate, 2 rows, 1 exception or death, fair | a cancelled cycle is revived, a batch doubled, a candidate passed over only in the ways the properties name; a cycle ends |
| `cycle_unjudged` | 2 starts, 1 request, 1 candidate | violated: a cycle started after a rejection takes the rejected row and its cancelled runs; nobody judges its candidates |
| `ticker_overlap` | 2 sleeves, 1 tick, 1 cycle, 2 requests, 3 orders, 1 lost answer, fair | while nothing moves, the venue refuses no released order; orders at the venue are seen; a reset wipes nothing real; a flatten flattens; held orders are dealt with |

Bounds: orders do not share state except the account, and every race in the code
is between handlers of the same row, so one order with two handlers (three
interleaved histories once a handler ends and starts anew) reaches them.
`MaxCrashes` bounds deaths, not their place. Runs and backtests share only the
sweep, so one row with two workers (two deliveries of one message) reaches every
race but the one that needs a second row to start the sweep; `MaxRedeliveries`
bounds second deliveries. The dispatcher meets the executors only in the queue,
and the executors never read `next_run_at`; so `schedule_overlap` has no executors
and `schedule_fires` no passes (its messages come from run-now requests), and the
two rows a schedule's fires need to meet at the cap are two run-now fires. In
`schedule_overlap` two slots pass, the second on a closed day, and each stale pass
can push `next_run_at` one slot further; `LastSlot` is above the last slot that is
ever armed, so that bound cuts nothing off. Deadlock is not checked: when every
row is final the system rightly stops (`fund_overlap` and `book_squared`, whose beats
never stop, do check it).

In `book_overlap` the three fills take a position from nothing through zero and back,
which reaches every branch of `Cost` and `Gain`; `book_squared` has the smallest set in
which a fill, a foreign trade and two reconciliations meet. In `fund_overlap` a market
move of 6 or 10 in a hundred passes the soft or the hard limit of a member and the
fund's; `MaxMoves` bounds the moves, `MaxFaults` failures and deaths. Members start
with or without positions (a member whose first cycle is to come). In `cycle_overlap`
two starts and one request make every pair of them overlap on one row; `LastTarget`
bounds the rows of the day, and a start that needs a third stops there.
In `ticker_overlap` the account starts with two shares, one of sleeve `a` and one of no
sleeve, so that a flatten makes two closes, the second deferred behind the first; the
cycle buys for `b`, so that a held purchase meets the closes. `AccountCap` is one share: the
account begins above it, and the gate refuses a close of no sleeve only when the account
has grown in between. Two requests make a flatten
meet a flatten, a removal or a reset. `Last` bounds the orders to three: an action that
needs a fourth waits, which only a second flatten ever does.

The violated run quotes the sentences of the code it contradicts in `PROJECT.json`
(`findings`). `RestartIsJudged` stands in `StrategyCycle.tla` and is assumed nowhere.

### Deviations without a run of their own

Met while modelling; the passing properties are worded so that they allow for them.

Orders:

- The cancel view decides on the draft it read and saves `cancelled` unconditionally
  (`brokers/views.py:1402`), also over a row confirmed and submitted meanwhile: the order
  works at the venue outside the poll. `LiveIsPolled` is checked one handler at a time.
- `submit_held_order` resets the listed order to draft whatever its status has become
  (`autopilot.py:658`): a cancel between the listing and the reset is undone. So is one
  between `_emit_one`'s two writes, and one between a confirmation's read of the draft and
  its claim. `CancelStopsNewcomers` allows exactly these: handlers that had the order in
  hand before.
- `resolve_unknown` writes `filled` before any fill is fetched (`idempotency.py:354`); if
  the query that follows fails the row is never polled again and the fill is not booked.
  The answer to the POST is written in the same way (`idempotency.py:145`); after the
  owner's confirmation the fills are fetched at once, but the autopilot's submissions
  fetch none, so an order of theirs answered `filled` or `cancelled` at once is not
  booked by the poll. `FilledIsFetched` names both.
- A death between the claim and the recorded answer leaves a confirmed,
  `submit_pending` row that may be live at the venue and is in no family of
  `pollable_orders_q` (`LiveIsPolled` is checked without deaths).
- After the grace window an unknown row is `rejected` but stays unknown, so it is
  polled for ever (`idempotency.py:371` against `reconcile.py:180`).
- The executed part of an open order is not booked until it closes: the Alpaca
  adapter lists the fills of closed orders (`alpaca_paper.py:533` against 524).

Runs, backtests, schedules:

- The orphan sweep queries its candidates after it has asked the workers
  (`runs/tasks.py:237`), so a run that started in between is swept while it executes.
- `run_walkforward` saves `done` unconditionally (`walkforward.py:262`): a backtest
  cancelled during the walk ends as done. `EndedStaysEnded` is about rows nobody walks.
- The dispatcher reads a listed schedule again without asking whether it is still due
  (`schedules/tasks.py:56`): an edit in between has a future slot fired at once.
- A request that dies between saving a run and sending its message, or between
  revoking its task and saving the cancel, leaves a queued run nothing starts or
  sweeps (`QueuedIsWaiting` has the premise that nobody has died); a run whose task
  id was never stored, or that a scheduled task executed in process, is not swept
  either (`StartedRunEnds` has the premise `taskid`).
- The backtest sweep saves `failed` over a backtest that ended after it was listed,
  and a delete removes one that became `done` after it was read as cancelled
  (`EndedStaysEnded` allows `failed` and `deleted`).
- The cancel of a partly executed order closes it without a poll: the executed part
  is never booked (`ClosedIsBooked` is about orders whose row is open when they close).
- A run's cancel saves `cancelled` over the outcome a worker has written since it
  read the row (`runs/views.py:242`; `NeverRevived` allows it).
- A re-delivered message of a run that is still running executes it a second time
  and adds a second set of decisions (`runs/tasks.py:283`); `OutputsPerDelivery` counts
  the second deliveries.
- Two fires of one schedule that are executed at the same time each count the orders
  of the day before the other has linked its own (`autosubmit.py:122`), so the daily
  cap is exceeded; `CapPerExecutor` is the bound that holds, and it is reached. An
  order whose submission raised is never linked and never counted.
- Two edits of one schedule at the same time, or an edit that dies between its
  saves, can leave an active schedule without a next fire (`ActiveIsArmed` is checked
  for one editor and without deaths).
- The row of a fire on a closed day is written as best the dispatcher can
  (`schedules/tasks.py:126`): when that write fails the pass goes on, and a fire that
  "Next run" had promised is gone without a row though nobody died.
  `OpenDayFireRecorded` is about open days.
- An exception in `execute_scheduled_run` leaves its history row `running` for ever:
  nothing writes `failed`, and nothing sweeps it.
- A schedule deactivated between the listing and the reading of its row ends the
  dispatcher's pass with an exception; the rest waits for the next minute.

Book:

- Two reconciliations at the same time apply the same drift twice; the next ones take it
  back, in step with each other again if they stay in lockstep (`BookIsSquared` has the
  beat alone again and again).
- A poller that dies between the row and the book loses the fill for the ledger; the
  next reconciliation squares the account's position, the sleeve never sees it. The
  beat, which squares whatever it finds, does so before a cycle's check can halt on it.
- A sleeve's write that fails is logged and not repeated (`reconcile.py:347`).

Fund and autopilot:

- "Nothing trades until POST /api/fund/resume/" (`fund.py:387`), but the release of held
  orders does not ask for the fund's halt (`tasks_autopilot.py:369`, `autopilot.py:640`).
- A second flatten of the same ticker emits nothing: its order id is fixed
  (`autopilot.py:513`).
- An edit saves the whole row it loaded, the halt of a moment ago included
  (`OnlyLostUpdatesLoosen` names it). So does the sweep with the row it evaluates
  (`autopilot_risk.py:300`), although the comment there says of the halt that "it is
  cleared ONLY by a human" (284). The fund's own latch holds (`FundHaltIsLatched`).

Shared ticker:

- A second flatten while the closes of the first are partly in flight, or one after a
  member's removal, cancels the held closes and skips the ticker for the others: the
  position stays open, although `flatten_fund` queues "closing orders for EVERY position"
  (`sleeves.py:711`). `FlattenedIsFlat` is about a flatten on a quiet fund.
- A flatten that closes a sleeve only in part, because sleeves hold more between them than
  the account does, can be refused by the sleeve's own risk check: it measures what remains
  against the position cap, although the order makes the position smaller
  (`autopilot_risk.py:149`, `sleeves.py:744`). With sleeves of 5 and -3 shares on an account
  of 2 and a cap of 2 the flatten leaves the account as it is. The run's sleeves are within
  their cap, and the theorem has that as its premise (`WithinCap`).
- What a flatten closes for no sleeve is checked by nobody if it is submitted at once
  (`sleeves.py:800`), but when it was held and a tick releases it, the first linked member's
  `max_position_pct` is asked of the whole account's book (`autopilot.py:550`, 655). If the
  close of a sleeve before it is not in the books yet, its answer being lost, what would
  remain can be above that cap: the close is rejected, nobody makes another one, and the
  account stays non-flat although every sleeve is within its cap. With `AccountCap = 0` TLC
  finds this behaviour of 20 states, two shares and one tick; `WithinCap` therefore also
  has the account within that cap while such a close is on its way.
- A flatten marks orders cancelled that a tick has begun to submit since it listed them,
  and a tick submits orders a flatten has cancelled since it listed them
  (`sleeves.py:683`, `autopilot.py:658`): `contested` in `HiddenExplained`.
- An order found placed already is set back to `confirmed` (`ClaimConflict`): at the venue,
  outside the poll, and not in the set a tick defers to.
- `flatten_sleeve` neither cancels the member's held orders nor looks for closes in flight:
  the position can be closed twice, and a removed member's held batch is still released.
- `set_members` submits inside a transaction (`sleeves.py:274`): if it is rolled back, the
  row of a live order is lost. Until it commits, nobody sees the order.
- Flattening leaves orders that work at the venue alone; a reset does not count drafts and
  orders whose answer was lost as in flight (`sleeves.py:550`).

Cycle:

- A forced start cancels a row and then takes the same row: the callback of the old
  chord finds it alive and constructs into it as well; both may emit.
- A cancel during `constructing`, or between the resolution and the dispatch, is
  overwritten (`OnlyOverlapRevives` names it). Two approvals send two chords.
- The callback saves the row as it loaded it, `superseded_by` and `celery_task_id`
  included.
- `_fail_cycle` fails every active row of the strategy, whose chords go on.
- An exception in the callback of a chord leaves `constructing` for ever and blocks
  every start that is not forced (`CycleEnds` has the premise that nothing raised).
- The test "already finalized for this fire" can never be true, as the run it tests was
  selected as pending or running (`autopilot.py:205`); only held batches stop a second
  emission.

## Proofs

Type correctness is proved of every module, so no run repeats it. What else is proved,
and along which argument:

`OrderLifecycleProofs.tla`, for any set of orders, any set of handlers and any number of
crashes; assumptions: `MaxCrashes \in Nat` and `NoOrder \notin Orders`.

- `TypeCorrect`: the type invariant, including that a busy handler has an order.
- `ExactlyOnce`, `HonestWalkBack`, `AcknowledgedPlaced`, from the inductive
  `SubmitInv`. At-most-once is not inductive alone: one must know that at most one
  handler waits for the POST of an order (`OneWaits`), that the row says so while
  it waits (`WaitIsExclusive`), that an abandoned POST belongs to an order the
  venue does not hold (`VenueCounts`), that a handler before the POST has no
  answer yet (`NoAnswerYet`) and that whoever resolves an unknown row finds it
  unknown or adopted (`ResolvesUnknown`). The proof splits on the actions; only
  the claim, the venue's answer and the four endings matter.
- `Booking`, `FilledOnlyFetched`, from `BookInv`: what a poll carries from the
  venue (`CarriesTruth`) stays true because a closed order never changes, so a poll that
  writes `filled` has booked everything (`AppliesBooked`); of the other writers of a
  status only two can write `filled`.
- `CancelStands`: `CancelStopsNewcomers`, for any overlap and any deaths, from `CancelInv`:
  who polls, adopts, expires or sweeps a row has it acknowledged or in doubt, which no row
  ever ceases to be (`DoubtStays`), or sweeps a confirmed row that is in nobody else's
  hand (`InHand`).
- `SubmissionRefines`: `Spec => SubmitsOnce`, step by step, under `SubmitInv`.
- `LiveOrderPolled`: `LiveIsPolled` follows from `Spec` and `[]InTurn` (no order is in two
  hands at once, and nobody dies): what the run `order_in_turn` shows of one handler holds
  for any number of orders and handlers that keep to the turn. The invariant is `TurnInv`: of every order no claim is abandoned,
  an abandoned POST has left it unknown, and what works at the venue is polled
  (`Orderly`), and a handler still `Knows` what it has read, because nobody else has
  touched that order (`Frame`).

`RunLifecycleProofs.tla`, for any runs and any finite set of workers:

- `TypeCorrect`, and `EndedNeverRevived` from it, action by action.
- `QueuedWaits`: `QueuedIsWaiting`, from the inductive `WaitInv`: while nobody dies a queued
  run has a message, or its message is about to be sent, or a worker or a cancel is at it;
  and what may be dropped without it, a revoked task and a worker past its claim, is of a
  run that is not queued or whose cancel is still to be saved.
- `OutputsBounded`, from the inductive `OutputInv`: what has been written, plus the
  workers that may still write (`Pending`), plus the messages in the queue, plus the
  one about to be sent, never exceeds one more than the second deliveries. The
  bound on what is written alone is not inductive: a delivery must be paid for by
  the message it consumes.

`BacktestLifecycleProofs.tla`, for any backtests and workers:

- `TypeCorrect`, and `EndStands` from it.
- `ExecutedOnce`, from the inductive `ClaimInv`: an unclaimed backtest has no
  results and no walker, a walker has not written yet, and nothing unclaims a row.

`ScheduleDispatchProofs.tla`, for any schedules, passes, editors, executors and
run-now requests; assumptions: the bounds are natural numbers, `None` and the
run-now fire times are no slots, the sets of special schedules and slots are
subsets.

- `TypeCorrect`.
- `FiresOnce`, from the inductive `FireInv`: nothing was sent for a history row that
  does not exist or whose creator has yet to send its message, and a row has one
  creator. That is what makes `get_or_create` the guard the code's comment calls
  it, whatever stale `next_run_at` an edit or an overlapping pass saves.
- `FiresRecorded`: `OpenDayFireRecorded` is inductive together with the types; only a
  pass that holds the fire leaves the state in which it is accounted for.
- `CapHolds`, from `CapInv`, an argument of potential: the orders a schedule's executors may
  still place are a finite set of pairs (executor, number of the order), `Room`; those
  linked and those pairs never exceed the cap for every executor. The count
  alone is not inductive, because an executor reads it once and then places several.
- `ArmedUnlessEdited`: `ActiveIsArmed` follows from `Spec` and `[]OneEditAtATime`: no two
  edits of one schedule overlap. An edit saves the row and computes `next_run_at` in a
  second save, by the flag it saved itself: of two that overlap, the one that deactivates
  can disarm what the other has activated. No pass does so, whatever row it works on
  (`ArmedInv`: an active schedule without a next fire is being edited, and the flag an
  edit goes by is the one in the row).

`AccountBookProofs.tla`, for any fills, prices, pollers, pipelines and reconciliations;
assumptions: foreign executions are no fills, the kinds of processes are disjoint.

- `TypeCorrect`.
- `Booked`, `RowsAreBooked`, from an inductive invariant of four parts: the open
  transaction's rows are its own and its ledger is the committed one plus them
  (`DraftIsOwn`), a fill in a ledger has its row (`LedgerFollowsRow`), no two pollers
  hold the same fill and a poller's fill has its row and is not yet booked
  (`HandIsOwn`), and `RowIsBooked`. The row is what makes booking exclusive; that
  books are written *after* the row is what makes the row a promise.
- `LedgerExplains`: `LedgerExplainsBook` is inductive together with the types, once it is
  known that one more entry in a ledger moves its sum by that entry. `MapThenSumSet` is a
  recursive function over the subsets of a finite set; that it exists (`SumsExists`), and
  that changing one entry changes the sum by as much (`SumChanges`), is proved without an
  induction principle, from a smallest subset for which it fails (`Smallest`).
- `AverageAddsUp`: `AverageCostAddsUp` follows from `Spec` and `[]AveragesExact`. Averages
  are whole numbers here, rounded down, and a rounded average does not add up; the premise
  says that none is rounded, for the fills that the sleeve has still to book. It holds in
  every state of the run `book_overlap`, whose prices were chosen for it. `TradeAddsUp` is
  the argument: a trade from flat, one that enlarges, reduces, closes or turns the position.

`FundHaltProofs.tla`, for any members, sweeps, cycles, users, limits and valuations:

- `TypeCorrect`; `Tight` and `FundLatched` from `Inv`, the types together with `Copies`:
  a copy that nobody else has written over is the row itself. With it an evaluation of
  a fresh copy can only raise the severity and the peak, and what remains are
  acknowledgements and stale saves.

`StrategyCycleProofs.tla`, for any starts, requests, candidates and number of rows:

- `TypeCorrect`; `UnjudgedRejected`, `DoublesOverlap`, `RevivalOverlaps` from `Inv`: the
  types, what each phase of a process implies for its row and its tasks (`Phases`),
  that a process whose row is cancelled while it has it knows (`Warned`), and the
  statements themselves.

`SharedTickerProofs.tla`, for any sleeves, ticks, cycles and requests and any number of
orders and shares; assumptions: the kinds of processes are disjoint, shares are whole.

- `TypeCorrect`, and the theorems below, from `IInv`. Its first half, `HandInv`, says who
  has which order *in hand*: orders are made one after the other (`InOrder`), one that is
  new or held is not at the venue (`HeldIsHere`), an order in hand is not there either
  unless it is contested (`InHandOf`), two hands on one order make it contested
  (`OneHand`), and an order of an open transaction is in no other hand (`PrivateOf`).
  Every step is of one of six kinds by what it writes (`Looks`, `Emits`, `Sends`, `Marks`,
  `Commit`, `Turns`), and each kind keeps the hands once and for all.
- `LiveIsSeen`: an order that becomes hidden was in the hand of who wrote it, so it is
  unknown, contested, or not committed yet.
- `RefusalsExplained`: a tick nobody has passed has seen the venue as it is, because what
  it does not see is `Hidden` and would have passed it (`SeesOf`); its fitted order
  then clashes with nothing. `ResetsExplained` likewise, from `CountsOf`.
- `FlatSettles`: `FlattenedIsFlat` follows from `Spec` and `[](flat => WithinCap)`: while a
  flatten can be held to its promise no sleeve's position is over its cap, nor the account's
  over the first member's while a close of no sleeve is on its way. The invariant is
  `FlatInv`. Until the flatten has looked for closing orders the fund is `Cleared`:
  nothing is on its way and what is held, it is about to cancel. From then on it `Covers`
  the account: the position, plus all that is held, on its way or working (`Alive`), is what
  it has left to close; all of that points one way, each sleeve has one order and no
  larger than its position, and every order in the hands of ticks and flatten is one of
  them or booked. This is why the fit leaves such an order as it is (`FitsAsItIs`), why
  neither the venue nor the gate refuses it (`NoClash`, `GatePasses`: a sum argument over
  orders of one side), and why nothing is left once nothing is alive. Of the steps only
  four kinds matter: one that leaves the orders alive (`Passes`), a closing order
  (`ClosingCovers`), a booking (`BookCovers`) and the end of the clearing
  (`ClearedMoves`).

Only model-checked: the liveness properties (fairness is out of the prover's
reach) and the violated run. The premises above (`InTurn`, `OneEditAtATime`,
`AveragesExact`, `WithinCap`) are no assumptions of the models, which have the behaviours
they rule out. The run `order_overlap` checks its properties on handlers that overlap and
die; the runs of schedules have one editor, so that `OneEditAtATime` holds in them; the
numbers of `book_overlap` satisfy `AveragesExact`; `ticker_overlap` starts with an account
above `AccountCap`, outside `WithinCap`, and `FlattenedIsFlat` holds there all the same.

## What is not modelled

Bracket orders, demo accounts, disabled and deleted accounts, several tickers in one
book, the daily caps (in the release they only annotate), the autopilot dispatcher, the
sleeves' cash and members that join: see the plan. Of
runs and backtests: archiving, cost totals, budgets as numbers, notifications. Portfolio construction and the backtest engine compute over floats
and are out of TLC's reach; agents, data providers, notifications and the
frontend are input and output.
