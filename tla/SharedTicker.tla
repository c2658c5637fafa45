------------------------------ MODULE SharedTicker ------------------------------
(***************************************************************************)
(* One ticker of the account that the members of a fund share              *)
(* (apps/portfolios/sleeves.py, autopilot.py, tasks_autopilot.py): cycles   *)
(* emit orders for their sleeve, held while the market is closed; the       *)
(* release and the guardrail sweep submit the held ones, one of a ticker at *)
(* a time; people flatten the fund, remove a member and reset the fund.     *)
(* What happens to one order on its way is the subject of OrderLifecycle.   *)
(***************************************************************************)
EXTENDS Integers, FiniteSets, FiniteSetsExt

CONSTANTS
  Sleeves,   \* of the members, the former ones included
  Last,      \* bound: the number of orders
  Ticks,     \* executions of release_pending_open_orders, one after the other in each
  Cycles,    \* executions of the bridge from a target to orders
  Requests,  \* of the fund's owner
  Starts,    \* what account and sleeves hold at first
  Trades,    \* <<s, n>>: a cycle of s may buy n shares (sell, if negative)
  Cap,       \* max_position_pct, in shares of a sleeve
  AccountCap,   \* that of the first linked member, in shares of the account
  MaxLost,   \* bound: how many answers of the venue are lost
  None

ASSUME Kinds ==
  /\ Ticks \cap Cycles = {} /\ Ticks \cap Requests = {} /\ Cycles \cap Requests = {}
  /\ Requests \subseteq Nat /\ None \notin Sleeves /\ None \notin Nat
ASSUME Numbers ==
  /\ Starts \subseteq [account : Int, book : [Sleeves -> Int]]
  /\ Trades \subseteq Sleeves \X (Int \ {0})
  /\ {Last, Cap, AccountCap, MaxLost} \subseteq Nat

Orders == 1..Last
Procs == Ticks \cup Cycles \cup Requests

VARIABLES
  row,      \* the orders: status, shares to buy, sleeve, whether they are flat- orders
  venue,    \* each order at the venue; "booked" once its execution is in the books
  account,  \* the position of the account's book
  book,     \* the positions of the sleeves' books
  members,  \* the sleeves of the roster
  open,     \* the market is open
  job,      \* what each process does next, and what it has read
  lost,
  \* Auxiliary:
  passed,    \* processes since whose look another has changed venue or books, or that
             \* could not see an order that is at the venue
  contested, \* orders that two processes have had in hand at once, as long as one has it
             \* or the poll does not see it at the venue
  flat       \* the account was last asked to be flattened, by a request nobody disturbs

rowVars  == <<row, venue, lost>>
bookVars == <<account, book>>
state == <<rowVars, bookVars, members, open, job>>
vars == <<state, passed, contested, flat>>

Statuses == {"none", "held", "draft", "confirmed", "submitted", "unknown",
             "filled", "cancelled", "rejected"}
Steps == {"idle", "listed", "looked", "fit", "place", "commit", "cancelled",
          "closing", "empty", "counted", "done"}
Jobs == [at : Steps, todo : SUBSET Orders, order : Orders \cup {None},
         who : SUBSET Sleeves, left : Int, got : Statuses]

TypeOK ==
  /\ row \in [Orders -> [status : Statuses, amount : Int,
                         sleeve : Sleeves \cup {None}, closes : BOOLEAN]]
  /\ venue \in [Orders -> {"none", "working", "executed", "booked"}]
  /\ account \in Int /\ book \in [Sleeves -> Int] /\ members \subseteq Sleeves
  /\ open \in BOOLEAN
  /\ job \in [Procs -> Jobs]
  /\ lost \in Nat
  /\ passed \subseteq Procs /\ contested \subseteq Orders /\ flat \in BOOLEAN

Job(step) == [at |-> step, todo |-> {}, order |-> None, who |-> {}, left |-> 0,
              got |-> "none"]
NoRow == [status |-> "none", amount |-> 0, sleeve |-> None, closes |-> FALSE]

Init ==
  /\ row = [o \in Orders |-> NoRow]
  /\ venue = [o \in Orders |-> "none"]
  /\ \E s \in Starts : account = s.account /\ book = s.book
  /\ members = Sleeves
  /\ open \in BOOLEAN
  /\ job = [p \in Procs |-> Job("idle")]
  /\ lost = 0
  /\ passed = {} /\ contested = {} /\ flat = FALSE

-----------------------------------------------------------------------------
(* Orders.                                                                  *)

Having(statuses) == {o \in Orders : row[o].status \in statuses}
Made == {o \in Orders : row[o].status # "none"}
Fresh == Cardinality(Made) + 1
First(os) == CHOOSE o \in os : \A u \in os : o <= u

Goes(p, step) == job' = [job EXCEPT ![p].at = step]
SetStatus(o, status) == row' = [row EXCEPT ![o].status = status]

Size(n) == IF n < 0 THEN -n ELSE n
\* -n and the part of it that m covers, when both point the same way.
Closing(n, m) == IF n > 0 THEN -(IF n < m THEN n ELSE m) ELSE -(IF n > m THEN n ELSE m)
SameSide(n, m) == (n > 0 /\ m > 0) \/ (n < 0 /\ m < 0)

\* venue_fit: an order that would take the account through zero takes it to zero.
Fitted(held, amount) ==
  IF SameSide(held, -amount) /\ Size(amount) > Size(held) THEN -held ELSE amount

\* The risk check: the sleeve's position stays within the cap. An order of no sleeve
\* that a tick releases is held against the whole account and the first member's cap;
\* the request that makes it checks nothing.
Admitted(p) ==
  LET o == job[p].order IN
  IF row[o].sleeve # None
  THEN Size(book[row[o].sleeve] + row[o].amount) <= Cap
  ELSE p \in Ticks /\ members # {} => Size(account + row[o].amount) <= AccountCap

\* _emit_one: a new order is held while the market is closed, and otherwise on
\* its way to the venue.
Emit(p, j, s, amount, closes) ==
  /\ Fresh \in Orders
  /\ row' = [row EXCEPT ![Fresh] = [status |-> IF open THEN "draft" ELSE "held",
                                    amount |-> amount, sleeve |-> s, closes |-> closes]]
  /\ job' = [job EXCEPT ![p] = IF open THEN [j EXCEPT !.at = "fit", !.order = Fresh] ELSE [j EXCEPT !.got = "none"]]

\* Slip: the tick goes on with the ticker after it has submitted an order of it.
Onward(p, placed) ==
  LET left == job[p].todo \ {job[p].order} IN
  IF p \in Ticks
  THEN IF left = {} THEN Job("idle") ELSE [Job("looked") EXCEPT !.todo = left]
  ELSE IF p \in Cycles THEN Job("done")
  ELSE [job[p] EXCEPT !.at = "closing", !.order = None]

\* What a process does once its order has been placed, or not.
After(p, placed) ==
  LET left == job[p].todo \ {job[p].order} IN
  IF p \in Ticks
  THEN IF placed \/ left = {} THEN Job("idle")
       ELSE [Job("looked") EXCEPT !.todo = left]
  ELSE IF p \in Cycles THEN Job("done")
  ELSE [job[p] EXCEPT !.at = "closing", !.order = None]

\* venue_fit, with the account's position as booked.
Fit(p) ==
  LET o == job[p].order IN
  /\ job[p].at = "fit"
  /\ row' = [row EXCEPT ![o].amount = Fitted(account, @)]
  /\ Goes(p, "place")
  /\ UNCHANGED <<venue, lost, bookVars, members, open>>

\* The gate and the claim refuse an order, or it is submitted with some outcome.
\* A request that removes a member has a transaction open until it is done.
Lands(p, status, placed) ==
  IF job[p].got # "none"
  THEN /\ job' = [job EXCEPT ![p].at = "commit", ![p].got = status]
       /\ UNCHANGED row
  ELSE /\ SetStatus(job[p].order, status)
       /\ job' = [job EXCEPT ![p] = After(p, placed)]

Total(os) == MapThenSumSet(LAMBDA o : row[o].amount, os)
At(where) == {o \in Orders : venue[o] = where}

\* The venue refuses an order against one that works, and an order for more of
\* the position than is left by those that work on the same side.
Clashes(o) ==
  LET mine     == row[o].amount
      position == account + Total(At("executed"))
      ahead    == Total({u \in At("working") : SameSide(row[u].amount, mine)})
  IN
  \/ \E u \in At("working") : SameSide(row[u].amount, -mine)
  \/ SameSide(position, -mine) /\ Size(ahead + mine) > Size(position)

GateRefuses(p) ==
  /\ job[p].at = "place" /\ ~Admitted(p)
  /\ Lands(p, "rejected", FALSE)
  /\ UNCHANGED <<venue, lost, bookVars, members, open>>

\* An order that has been submitted before is confirmed again and not claimed.
ClaimConflict(p) ==
  /\ job[p].at = "place" /\ Admitted(p)
  /\ venue[job[p].order] # "none"
  /\ Lands(p, "confirmed", FALSE)
  /\ UNCHANGED <<venue, lost, bookVars, members, open>>

Submits(p) ==
  job[p].at = "place" /\ Admitted(p) /\ venue[job[p].order] = "none"

VenueRefuses(p) ==
  /\ Submits(p) /\ Clashes(job[p].order)
  /\ Lands(p, "rejected", FALSE)
  /\ UNCHANGED <<venue, lost, bookVars, members, open>>

VenueAccepts(p) ==
  /\ Submits(p) /\ ~Clashes(job[p].order)
  /\ venue' = [venue EXCEPT ![job[p].order] = "working"]
  /\ Lands(p, "submitted", TRUE)
  /\ UNCHANGED <<lost, bookVars, members, open>>

\* Slip: an answer that is lost counts as a refusal.
LostMeansRefused(p) ==
  /\ Submits(p) /\ ~Clashes(job[p].order)
  /\ lost < MaxLost /\ lost' = lost + 1
  /\ venue' = [venue EXCEPT ![job[p].order] = "working"]
  /\ Lands(p, "rejected", FALSE)
  /\ UNCHANGED <<bookVars, members, open>>

AnswerIsLost(p) ==
  /\ Submits(p) /\ ~Clashes(job[p].order)
  /\ lost < MaxLost /\ lost' = lost + 1
  /\ venue' = [venue EXCEPT ![job[p].order] = "working"]
  /\ Lands(p, "unknown", FALSE)
  /\ UNCHANGED <<bookVars, members, open>>

-----------------------------------------------------------------------------
(* release_pending_open_orders.                                             *)

ListHeld(t) ==
  /\ t \in Ticks /\ job[t].at = "idle"
  /\ open /\ Having({"held"}) # {}
  /\ job' = [job EXCEPT ![t] = [Job("listed") EXCEPT !.todo = Having({"held"})]]
  /\ UNCHANGED <<rowVars, bookVars, members, open>>

\* Slip: an order that has been filled still keeps the ticker busy.
FilledIsOpen == {"submitted", "filled"}

OpenStatuses == {"submitted"}

\* The ticker has an order at the venue: the listed ones wait for the next tick.
LookForLive(t) ==
  /\ t \in Ticks /\ job[t].at = "listed"
  /\ IF Having(OpenStatuses) # {}
     THEN job' = [job EXCEPT ![t] = Job("idle")]
     ELSE Goes(t, "looked")
  /\ UNCHANGED <<rowVars, bookVars, members, open>>

\* submit_held_order makes the order a draft, whatever has become of it.
ResetHeld(t) ==
  LET o == First(job[t].todo) IN
  /\ t \in Ticks /\ job[t].at = "looked"
  /\ SetStatus(o, "draft")
  /\ job' = [job EXCEPT ![t].at = "fit", ![t].order = o]
  /\ UNCHANGED <<venue, lost, bookVars, members, open>>

-----------------------------------------------------------------------------
(* maybe_emit_and_submit.                                                   *)

\* A member of whose sleeve no order is held emits.
CycleEmits(c, s, amount) ==
  /\ c \in Cycles /\ job[c].at = "idle" /\ s \in members
  /\ \A o \in Having({"held"}) : row[o].sleeve # s
  /\ Emit(c, Job("done"), s, amount, FALSE)
  /\ UNCHANGED <<venue, lost, bookVars, members, open>>

-----------------------------------------------------------------------------
(* flatten_fund.                                                            *)

\* Requests are numbered in the order in which they come.
Begins(r) ==
  r \in Requests /\ job[r].at = "idle" /\ \A q \in Requests : q < r => job[q].at # "idle"

\* Slip: the held orders stay held.
ListNothing(r) ==
  /\ Begins(r)
  /\ job' = [job EXCEPT ![r] = Job("listed")]
  /\ UNCHANGED <<rowVars, bookVars, members, open>>

ListToCancel(r) ==
  /\ Begins(r)
  /\ job' = [job EXCEPT ![r] = [Job("listed") EXCEPT !.todo = Having({"held"})]]
  /\ UNCHANGED <<rowVars, bookVars, members, open>>

\* The listed orders are cancelled, whatever has become of them.
CancelHeld(r) ==
  /\ r \in Requests /\ job[r].at = "listed"
  /\ row' = [o \in Orders |-> IF o \in job[r].todo THEN [row[o] EXCEPT !.status = "cancelled"]
                              ELSE row[o]]
  /\ job' = [job EXCEPT ![r] = Job("cancelled")]
  /\ UNCHANGED <<venue, lost, bookVars, members, open>>

\* Slip: only what waits here is in flight.
StillHere == {"held", "confirmed"}

Inflight == {"held", "confirmed", "submitted"}

\* A ticker with a closing order in flight is left alone; otherwise the request
\* reads the account's position.
LookForClosing(r) ==
  /\ job[r].at = "cancelled"
  /\ job' = [job EXCEPT ![r] =
               IF account = 0 \/ \E o \in Having(Inflight) : row[o].closes THEN Job("done")
               ELSE [Job("closing") EXCEPT !.who = Sleeves, !.left = account]]
  /\ UNCHANGED <<rowVars, bookVars, members, open>>

\* A sleeve closes what it holds of the account's position, one after the other.
CloseSleeve(r, s) ==
  LET amount == Closing(book[s], job[r].left)
      j == [job[r] EXCEPT !.who = @ \ {s}, !.left = @ + amount]
  IN
  /\ job[r].at = "closing" /\ s \in job[r].who
  /\ IF SameSide(book[s], job[r].left)
     THEN Emit(r, j, s, amount, TRUE)
     ELSE job' = [job EXCEPT ![r].who = @ \ {s}] /\ UNCHANGED row
  /\ UNCHANGED <<venue, lost, bookVars, members, open>>

\* What is left belongs to no sleeve.
CloseRest(r) ==
  /\ job[r].at = "closing" /\ job[r].who = {}
  /\ IF job[r].left # 0
     THEN Emit(r, [job[r] EXCEPT !.left = 0], None, -job[r].left, TRUE)
     ELSE job' = [job EXCEPT ![r] = Job("done")] /\ UNCHANGED row
  /\ UNCHANGED <<venue, lost, bookVars, members, open>>

-----------------------------------------------------------------------------
(* set_members, of a member that leaves, and reset_fund.                     *)

\* flatten_sleeve neither cancels orders nor looks for those in flight. Nobody sees
\* the order before the transaction ends.
RemoveMember(r, s) ==
  LET sends == open /\ book[s] # 0 IN
  /\ Begins(r) /\ s \in members
  /\ IF book[s] # 0
     THEN Emit(r, [Job("done") EXCEPT !.got = "draft"], s, -book[s], TRUE)
     ELSE job' = [job EXCEPT ![r] = Job("done")] /\ UNCHANGED row
  /\ members' = IF sends THEN members ELSE members \ {s}
  /\ UNCHANGED <<venue, lost, bookVars, open>>

Commit(r) ==
  LET o == job[r].order IN
  /\ job[r].at = "commit"
  /\ SetStatus(o, job[r].got)
  /\ members' = members \ {row[o].sleeve}
  /\ job' = [job EXCEPT ![r] = Job("done")]
  /\ UNCHANGED <<venue, lost, bookVars, open>>

\* reset_readiness: no position, then nothing in flight.
FindEmpty(r) ==
  /\ Begins(r) /\ account = 0
  /\ Goes(r, "empty")
  /\ UNCHANGED <<rowVars, bookVars, members, open>>

FindSettled(r) ==
  /\ job[r].at = "empty"
  /\ IF Having(Inflight) = {} /\ members # {} THEN Goes(r, "counted") ELSE Goes(r, "done")
  /\ UNCHANGED <<rowVars, bookVars, members, open>>

WipeSleeves(r) ==
  /\ job[r].at = "counted"
  /\ book' = [s \in Sleeves |-> 0]
  /\ job' = [job EXCEPT ![r] = Job("done")]
  /\ UNCHANGED <<rowVars, account, members, open>>

-----------------------------------------------------------------------------
(* The market, the venue and the poll.                                      *)

MarketOpens ==
  /\ ~open /\ open' = TRUE
  /\ UNCHANGED <<rowVars, bookVars, members, job>>

Executes(o) ==
  /\ venue[o] = "working"
  /\ venue' = [venue EXCEPT ![o] = "executed"]
  /\ UNCHANGED <<row, lost, bookVars, members, open, job>>

Adopt(o) ==
  /\ row[o].status = "unknown"
  /\ SetStatus(o, "submitted")
  /\ UNCHANGED <<venue, lost, bookVars, members, open, job>>

\* The poll looks at submitted orders.
Book(o) ==
  /\ venue[o] = "executed" /\ row[o].status \in OpenStatuses
  /\ venue' = [venue EXCEPT ![o] = "booked"]
  /\ SetStatus(o, "filled")
  /\ account' = account + row[o].amount
  /\ book' = [s \in Sleeves |-> IF s = row[o].sleeve THEN book[s] + row[o].amount ELSE book[s]]
  /\ UNCHANGED <<lost, members, open, job>>

-----------------------------------------------------------------------------
(* The system.                                                              *)

\* The orders p works on or is about to work on.
Hand(j) == IF j.order = None THEN j.todo ELSE j.todo \cup {j.order}

\* An order is at the venue and the poll does not look at it.
Hidden(o) == venue[o] \in {"working", "executed"} /\ row[o].status \notin OpenStatuses

\* Steps of a tick, or of a reset, after it has looked whether the way is clear.
Relying(p) == IF p \in Ticks THEN {"looked", "fit", "place"} ELSE {"empty", "counted"}

Quiet(r) ==
  /\ \A p \in Procs \ {r} : job[p].at \in {"idle", "done"}
  /\ \A o \in Orders : venue[o] \in {"none", "booked"} /\ row[o].status \notin {"draft", "unknown"}

Watch ==
  /\ passed' = {p \in Procs : /\ job'[p].at \in Relying(p)
                              /\ \/ p \in passed
                                 \/ job'[p] = job[p] /\ <<venue, bookVars>>' # <<venue, bookVars>>
                                 \/ \E o \in Orders : Hidden(o)'}
  /\ contested' = {o \in Orders :
       \/ \E p, q \in Procs : p # q /\ o \in Hand(job'[p]) \cap Hand(job'[q])
       \/ o \in contested /\ (Hidden(o)' \/ \E p \in Procs : o \in Hand(job'[p]))}
  /\ flat' = IF \E r \in Requests : job[r].at = "idle" /\ job'[r].at = "listed"
             THEN \E r \in Requests : job[r].at = "idle" /\ job'[r].at = "listed" /\ Quiet(r)
             ELSE /\ flat
                  /\ \A p \in Cycles \cup Requests : job[p].at = "idle" => job'[p].at = "idle"
                  /\ \A t \in Ticks, r \in Requests : job[r].at = "listed" => job'[t].at # "listed"

Process(p) ==
  \/ Fit(p) \/ GateRefuses(p) \/ ClaimConflict(p)
  \/ VenueRefuses(p) \/ VenueAccepts(p) \/ AnswerIsLost(p)
  \/ ListHeld(p) \/ LookForLive(p) \/ ResetHeld(p)
  \/ \E trade \in Trades : CycleEmits(p, trade[1], trade[2])
  \/ ListToCancel(p) \/ CancelHeld(p) \/ LookForClosing(p)
  \/ \E s \in Sleeves : CloseSleeve(p, s)
  \/ CloseRest(p)
  \/ \E s \in Sleeves : RemoveMember(p, s)
  \/ Commit(p)
  \/ FindEmpty(p) \/ FindSettled(p) \/ WipeSleeves(p)

World == MarketOpens \/ \E o \in Orders : Executes(o) \/ Adopt(o) \/ Book(o)

Next == ((\E p \in Procs : Process(p)) \/ World) /\ Watch

Spec == Init /\ [][Next]_vars

\* The beat starts the release again and again, a request or cycle that has begun
\* goes on, the market opens, the venue executes market orders, and the poll looks.
FairSpec ==
  /\ Spec
  /\ \A t \in Ticks : WF_state(Process(t))
  /\ WF_state(\E p \in Cycles \cup Requests : job[p].at # "idle" /\ Process(p))
  /\ WF_state(World)

-----------------------------------------------------------------------------
(* Properties.                                                              *)

\* The rule of release_pending_open_orders, one order of a ticker at a time and each
\* fitted to the account, works: the venue refuses a released order only if the venue or
\* the books changed after the tick had looked, or an order at the venue was not
\* submitted here (its answer lost, or its row overwritten).
RefusalExplained ==
  [][\A t \in Ticks : VenueRefuses(t) => t \in passed]_vars

\* Every order at the venue is one the poll and the release see as open, unless its answer
\* was lost, two processes had it in hand (a flatten cancels, or a second tick resets,
\* what a tick is submitting), or the transaction that sends it has not committed.
HiddenExplained ==
  \A o \in Orders : Hidden(o) =>
    \/ row[o].status = "unknown"
    \/ o \in contested
    \/ \E r \in Requests : job[r].at = "commit" /\ job[r].order = o

\* reset_fund wipes the sleeves only when the account is flat and nothing is on its way,
\* as its docstring says, unless something moved between its looks and the wipe or an
\* order at the venue was not submitted here.
ResetExplained ==
  [][\A r \in Requests : WipeSleeves(r) =>
       \/ r \in passed
       \/ account = 0 /\ \A o \in Orders : venue[o] \in {"none", "booked"}]_vars

\* Nothing is under way or held.
Settled ==
  /\ \A p \in Procs : job[p].at \in {"idle", "done"}
  /\ \A o \in Orders : /\ venue[o] \in {"none", "booked"}
                       /\ row[o].status \in {"none", "filled", "cancelled", "rejected"}

\* After a flatten that begins on a quiet fund, and that no cycle or other request follows
\* and no tick's listing crosses, the account is flat once everything has settled, however
\* market, venue, poll and release interleave: held orders do not deploy the book again.
\* Sleeves and account are within the caps (see WithinCap in SharedTickerProofs).
FlattenedIsFlat == flat /\ Settled => account = 0

\* Deferral does not last: again and again no order is held. An order that waits for one
\* at the venue, for the market or for its turn is released, refused or cancelled.
HeldIsDealtWith == []<>(Having({"held"}) = {})
=============================================================================
