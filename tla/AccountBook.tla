------------------------------ MODULE AccountBook ------------------------------
(***************************************************************************)
(* The book of a broker account (apps/brokers/reconcile.py): the fills of  *)
(* its orders are ingested by the 30 s poll and by the pipeline that runs  *)
(* after a confirmation, each into the account's book and into the book of *)
(* the sleeve that sent the order; the periodic reconciliation and the     *)
(* check before a cycle compare the account's book with the venue and      *)
(* square the difference.                                                  *)
(*                                                                         *)
(* One ticker.  Quantities and money are whole numbers; averages are       *)
(* rounded down, and the instances are chosen so that they never need it.  *)
(***************************************************************************)
EXTENDS Integers, FiniteSets, FiniteSetsExt

CONSTANTS
  Fills,        \* executions of the account's orders
  Foreign,      \* executions at the venue that no order here asked for
  Sleeved,      \* the fills of orders that a sleeve sent
  Signed,       \* shares of an execution: positive bought, negative sold
  Price,        \* price of an execution
  Pollers,      \* executions of poll_open_orders
  Pipes,        \* requests that run the post-confirm pipeline
  Beats,        \* executions of the periodic reconciliation
  Gates,        \* cycles that reconcile with halt_beyond_tolerance
  Floor,        \* DRIFT_TOLERANCE_FLOOR_USD
  UnknownCost,  \* the cost of a position nobody knows the cost of
  None,         \* no fill, no process
  MaxFaults     \* bound: how many writes and queries fail and processes die

ASSUME Executions ==
  /\ Fills \cap Foreign = {} /\ IsFiniteSet(Fills) /\ Sleeved \subseteq Fills
  /\ Signed \in [Fills \cup Foreign -> Int \ {0}]
  /\ Price \in [Fills \cup Foreign -> Nat \ {0}]
ASSUME Numbers ==
  {Floor, UnknownCost, MaxFaults} \subseteq Nat
ASSUME Names ==
  /\ None \notin Fills \cup Pipes
  /\ Pipes \cap Beats = {} /\ Pipes \cap Gates = {} /\ Beats \cap Gates = {}

Executed == Fills \cup Foreign
Books == {"account", "sleeve"}
Recs == Pipes \cup Beats \cup Gates

VARIABLES
  executed,  \* what the venue has executed
  venue,     \* the venue's own book of the account
  rows,      \* the fills with a committed BrokerFill row
  db,        \* the committed books and their ledgers
  owner,     \* the pipeline whose transaction holds the lock on the book
  draft,     \* the uncommitted books of that transaction
  newRows,   \* the uncommitted BrokerFill rows of that transaction
  poll,      \* poller: what it does next
  hand,      \* poller: the fill whose row it has written
  lost,      \* fills whose poller ended between the row and the book
  rec,       \* reconciliation: what it does next
  seen,      \* reconciliation: what it has read
  halts,     \* cycles that were halted on their drift
  faults     \* failed writes and queries, and deaths

venueVars == <<executed, venue>>
dataVars  == <<rows, db, owner, draft, newRows>>
pollVars  == <<poll, hand, lost>>
recVars   == <<rec, seen, halts>>
vars == <<venueVars, dataVars, pollVars, recVars, faults>>

\* A book: position, average cost, realised profit in the ledger, cash.
BookRows == [qty : Int, cost : Int, realized : Int, cash : Int]
Empty == [qty |-> 0, cost |-> 0, realized |-> 0, cash |-> 0]

\* Both books, how often each fill is in the ledger of each, and the sum of
\* the reconciliation adjustments in the account's ledger.
States == [book   : [Books -> BookRows],
           booked : [Books -> [Fills -> Nat]],
           adj    : [qty : Int, cash : Int]]
EmptyState == [book   |-> [b \in Books |-> Empty],
               booked |-> [b \in Books |-> [f \in Fills |-> 0]],
               adj    |-> [qty |-> 0, cash |-> 0]]

\* The cash read at the refetch, the venue's position and cash, the drift.
Seen == [cash : Int, vqty : Int, vcost : Int, vcash : Int, dqty : Int, dcash : Int]
Blind == [cash |-> 0, vqty |-> 0, vcost |-> 0, vcash |-> 0, dqty |-> 0, dcash |-> 0]

\* The type invariant; whoever has written a row and not the book has a fill.
TypeOK ==
  /\ executed \in SUBSET Executed
  /\ venue \in BookRows
  /\ rows \in SUBSET Fills
  /\ db \in States
  /\ owner \in Pipes \cup {None}
  /\ draft \in States
  /\ newRows \in SUBSET Fills
  /\ poll \in [Pollers -> {"idle", "book", "sleeve"}]
  /\ hand \in [Pollers -> Fills \cup {None}]
  /\ lost \in SUBSET Fills
  /\ rec \in [Recs -> {"idle", "positions", "cash", "drift", "apply",
                       "commit", "done"}]
  /\ seen \in [Recs -> Seen]
  /\ halts \in SUBSET Gates
  /\ faults \in Nat
  /\ \A p \in Pollers : poll[p] # "idle" => hand[p] \in Fills

Init ==
  /\ executed = {}
  /\ venue = Empty
  /\ rows = {} /\ newRows = {}
  /\ db = EmptyState /\ draft = EmptyState
  /\ owner = None
  /\ poll = [p \in Pollers |-> "idle"]
  /\ hand = [p \in Pollers |-> None]
  /\ lost = {}
  /\ rec = [r \in Recs |-> "idle"]
  /\ seen = [r \in Recs |-> Blind]
  /\ halts = {}
  /\ faults = 0

Fault == faults < MaxFaults /\ faults' = faults + 1

-----------------------------------------------------------------------------
(* One fill applied to one book.                                            *)

Size(q) == IF q < 0 THEN -q ELSE q
Smaller(x, y) == IF x < y THEN x ELSE y
Larger(x, y) == IF x < y THEN y ELSE x

\* Whether q shares reduce the position, and whether they turn it round.
Reduces(b, q) == b.qty # 0 /\ (b.qty > 0) # (q > 0)
Flips(b, q) == Reduces(b, q) /\ Size(q) > Size(b.qty)

Gain(b, q, p) ==
  IF ~Reduces(b, q) THEN 0
  ELSE LET closed == Smaller(Size(b.qty), Size(q))
       IN  IF b.qty > 0 THEN (p - b.cost) * closed ELSE (b.cost - p) * closed

\* Slip: the turned position keeps the average of the closed one.
CostKept(b, q, p) ==
  IF b.qty + q = 0 THEN 0
  ELSE IF b.qty = 0 THEN p
  ELSE IF Reduces(b, q) THEN b.cost
  ELSE (Size(b.qty) * b.cost + Size(q) * p) \div (Size(b.qty) + Size(q))

Cost(b, q, p) ==
  IF b.qty + q = 0 THEN 0
  ELSE IF b.qty = 0 \/ Flips(b, q) THEN p
  ELSE IF Reduces(b, q) THEN b.cost
  ELSE (Size(b.qty) * b.cost + Size(q) * p) \div (Size(b.qty) + Size(q))

Trade(b, q, p) ==
  [qty      |-> b.qty + q,
   cost     |-> Cost(b, q, p),
   realized |-> b.realized + Gain(b, q, p),
   cash     |-> b.cash - q * p]

\* The fill in the book and in the ledger of b, in one transaction.
Apply(s, b, f) ==
  [book   |-> [s.book EXCEPT ![b] = Trade(@, Signed[f], Price[f])],
   booked |-> [s.booked EXCEPT ![b][f] = @ + 1],
   adj    |-> s.adj]

-----------------------------------------------------------------------------
(* The venue executes what was ordered, and what was not ordered here.      *)

VenueExecutes(f) ==
  /\ f \notin executed
  /\ executed' = executed \cup {f}
  /\ venue' = Trade(venue, Signed[f], Price[f])
  /\ UNCHANGED <<dataVars, pollVars, recVars, faults>>

-----------------------------------------------------------------------------
(* The poll: the BrokerFill row, then the account's book, then the sleeve's, *)
(* each committed by itself.  A row that exists makes the poll skip the     *)
(* fill, a row of an open transaction makes it wait.                        *)

\* Slip: the fill is taken again although its row exists.
PollRowAgain(p, f) ==
  /\ poll[p] = "idle"
  /\ f \in executed \cap Fills
  /\ f \notin newRows
  /\ rows' = rows \cup {f}
  /\ poll' = [poll EXCEPT ![p] = "book"]
  /\ hand' = [hand EXCEPT ![p] = f]
  /\ UNCHANGED <<venueVars, db, owner, draft, newRows, lost, recVars, faults>>

PollRow(p, f) ==
  /\ poll[p] = "idle"
  /\ f \in executed \cap Fills
  /\ f \notin rows \cup newRows
  /\ rows' = rows \cup {f}
  /\ poll' = [poll EXCEPT ![p] = "book"]
  /\ hand' = [hand EXCEPT ![p] = f]
  /\ UNCHANGED <<venueVars, db, owner, draft, newRows, lost, recVars, faults>>

EndFill(p) ==
  /\ poll' = [poll EXCEPT ![p] = "idle"]
  /\ hand' = [hand EXCEPT ![p] = None]

PollBook(p) ==
  /\ poll[p] = "book"
  /\ owner = None
  /\ db' = Apply(db, "account", hand[p])
  /\ IF hand[p] \in Sleeved
     THEN poll' = [poll EXCEPT ![p] = "sleeve"] /\ UNCHANGED hand
     ELSE EndFill(p)
  /\ UNCHANGED <<venueVars, rows, owner, draft, newRows, lost, recVars, faults>>

PollSleeve(p) ==
  /\ poll[p] = "sleeve"
  /\ owner = None
  /\ db' = Apply(db, "sleeve", hand[p])
  /\ EndFill(p)
  /\ UNCHANGED <<venueVars, rows, owner, draft, newRows, lost, recVars, faults>>

\* The sleeve's write fails; it is logged and the poll goes on.
PollSleeveFails(p) ==
  /\ poll[p] = "sleeve"
  /\ Fault
  /\ EndFill(p)
  /\ UNCHANGED <<venueVars, dataVars, lost, recVars>>

PollerDies(p) ==
  /\ poll[p] # "idle"
  /\ Fault
  /\ lost' = IF poll[p] = "book" THEN lost \cup {hand[p]} ELSE lost
  /\ EndFill(p)
  /\ UNCHANGED <<venueVars, dataVars, recVars>>

-----------------------------------------------------------------------------
(* The post-confirm pipeline: fills and reconciliation in one transaction,  *)
(* which holds the lock on the book from its first write on.                *)

\* What r reads: its own transaction's books if it has one, else the committed.
View(r) == IF owner = r THEN draft ELSE db

Goto(r, l) == rec' = [rec EXCEPT ![r] = l]

PipeIngests(p, f) ==
  /\ rec[p] = "idle"
  /\ owner \in {None, p}
  /\ f \in (executed \cap Fills) \ (rows \cup newRows)
  /\ owner' = p
  /\ newRows' = newRows \cup {f}
  /\ LET s == Apply(View(p), "account", f)
     IN  \/ /\ draft' = IF f \in Sleeved THEN Apply(s, "sleeve", f) ELSE s
            /\ UNCHANGED faults
         \/ f \in Sleeved /\ Fault /\ draft' = s
  /\ UNCHANGED <<venueVars, rows, db, pollVars, recVars>>

\* The transaction of p is undone or committed: its lock is released.
Release(p) ==
  IF owner = p THEN newRows' = {} /\ owner' = None /\ draft' = EmptyState
               ELSE UNCHANGED <<newRows, owner, draft>>

\* Slip: the fills' rows are not part of the transaction that is rolled back.
KeepRows(p) ==
  /\ rec[p] \notin {"idle", "done"} \/ owner = p
  /\ Fault
  /\ Goto(p, "done")
  /\ rows' = IF owner = p THEN rows \cup newRows ELSE rows
  /\ Release(p)
  /\ UNCHANGED <<venueVars, db, pollVars, seen, halts>>

\* Anything the pipeline raises, or its death, rolls all of it back.
PipeRollsBack(p) ==
  /\ rec[p] \notin {"idle", "done"} \/ owner = p
  /\ Fault
  /\ Goto(p, "done")
  /\ Release(p)
  /\ UNCHANGED <<venueVars, rows, db, pollVars, seen, halts>>

PipeCommits(p) ==
  /\ rec[p] = "commit"
  /\ IF owner = p THEN db' = draft /\ rows' = rows \cup newRows
                  ELSE UNCHANGED <<db, rows>>
  /\ Release(p)
  /\ Goto(p, "done")
  /\ UNCHANGED <<venueVars, pollVars, seen, halts, faults>>

-----------------------------------------------------------------------------
(* reconcile_account, by a pipeline, by the beat or before a cycle.          *)

\* The account and its cash are read again.
Refetch(r) ==
  /\ rec[r] = "idle"
  /\ seen' = [seen EXCEPT ![r].cash = View(r).book["account"].cash]
  /\ Goto(r, "positions")
  /\ UNCHANGED <<venueVars, dataVars, pollVars, halts, faults>>

GetPositions(r) ==
  /\ rec[r] = "positions"
  /\ seen' = [seen EXCEPT ![r].vqty = venue.qty, ![r].vcost = venue.cost]
  /\ Goto(r, "cash")
  /\ UNCHANGED <<venueVars, dataVars, pollVars, halts, faults>>

GetAccount(r) ==
  /\ rec[r] = "cash"
  /\ seen' = [seen EXCEPT ![r].vcash = venue.cash]
  /\ Goto(r, "drift")
  /\ UNCHANGED <<venueVars, dataVars, pollVars, halts, faults>>

\* After the reconciliation: a beat comes again, a pipeline commits.
Over(r) == IF r \in Beats THEN "idle" ELSE IF r \in Pipes THEN "commit" ELSE "done"
Ends(r) == rec' = [rec EXCEPT ![r] = Over(r)] /\ seen' = [seen EXCEPT ![r] = Blind]

\* The venue does not answer: nothing is written.
VenueFails(r) ==
  /\ rec[r] \in {"positions", "cash"}
  /\ Fault
  /\ Ends(r)
  /\ UNCHANGED <<venueVars, dataVars, pollVars, halts>>

WithinTolerance(b, cash, dqty, dcash) ==
  LET price == IF b.qty = 0 \/ b.cost = 0 THEN UnknownCost ELSE b.cost
  IN  /\ Size(dcash) <= Larger(Size(cash) \div 100, Floor)
      /\ Size(dqty) * price <= Larger((Size(b.qty) * price) \div 100, Floor)

\* Slip: a book whose cash alone is off counts as squared.
DiffersInShares(dqty, dcash) == dqty # 0

Differs(dqty, dcash) == dqty # 0 \/ dcash # 0

\* compute_drift: the positions as they are now, the cash as it was read.
ComputeDrift(r) ==
  /\ rec[r] = "drift"
  /\ LET b     == View(r).book["account"]
         dqty  == seen[r].vqty - b.qty
         dcash == seen[r].vcash - seen[r].cash
     IN  CASE ~Differs(dqty, dcash) -> Ends(r) /\ UNCHANGED halts
           [] /\ Differs(dqty, dcash)
              /\ r \in Gates
              /\ ~WithinTolerance(b, seen[r].cash, dqty, dcash)
              -> Ends(r) /\ halts' = halts \cup {r}
           [] OTHER ->
              /\ seen' = [seen EXCEPT ![r].dqty = dqty, ![r].dcash = dcash]
              /\ Goto(r, "apply")
              /\ UNCHANGED halts
  /\ UNCHANGED <<venueVars, dataVars, pollVars, faults>>

\* The cost of the adjusted position: the venue's, when it holds one.
AdjustedCost(b, o) ==
  IF b.qty + o.dqty = 0 THEN 0
  ELSE IF o.dqty = 0 THEN b.cost
  ELSE IF o.vqty # 0 /\ o.vcost > 0 THEN o.vcost
  ELSE IF b.qty = 0 THEN UnknownCost ELSE b.cost

\* Slip: the adjustment of the cash has no row in the ledger.
RecordedShares(a, o) == [a EXCEPT !.qty = @ + o.dqty]

Recorded(a, o) == [qty |-> a.qty + o.dqty, cash |-> a.cash + o.dcash]

\* The drift is added to whatever the book has become.
Adjust(s, o) ==
  LET b == s.book["account"]
      adjusted == [b EXCEPT !.qty = @ + o.dqty, !.cost = AdjustedCost(b, o),
                            !.cash = @ + o.dcash]
  IN  [book   |-> [s.book EXCEPT !["account"] = adjusted],
       booked |-> s.booked,
       adj    |-> Recorded(s.adj, o)]

ApplyDrift(r) ==
  /\ rec[r] = "apply"
  /\ owner \in {None, r}
  /\ IF r \in Pipes
     THEN owner' = r /\ draft' = Adjust(View(r), seen[r]) /\ UNCHANGED db
     ELSE db' = Adjust(db, seen[r]) /\ UNCHANGED <<owner, draft>>
  /\ Ends(r)
  /\ UNCHANGED <<venueVars, rows, newRows, pollVars, halts, faults>>

\* A beat or a cycle dies; nothing it read survives.
RecDies(r) ==
  /\ r \notin Pipes
  /\ rec[r] \in {"positions", "cash", "drift", "apply"}
  /\ Fault
  /\ Ends(r)
  /\ UNCHANGED <<venueVars, dataVars, pollVars, halts>>

-----------------------------------------------------------------------------
Poll(p) ==
  \/ \E f \in Fills : PollRow(p, f)
  \/ PollBook(p) \/ PollSleeve(p) \/ PollSleeveFails(p) \/ PollerDies(p)

Pipe(p) ==
  \/ \E f \in Fills : PipeIngests(p, f)
  \/ PipeRollsBack(p) \/ PipeCommits(p)

Reconcile(r) ==
  \/ Refetch(r) \/ GetPositions(r) \/ GetAccount(r) \/ VenueFails(r)
  \/ ComputeDrift(r) \/ ApplyDrift(r) \/ RecDies(r)

Next ==
  \/ \E f \in Executed : VenueExecutes(f)
  \/ \E p \in Pollers : Poll(p)
  \/ \E p \in Pipes : Pipe(p)
  \/ \E r \in Recs : Reconcile(r)

Spec == Init /\ [][Next]_vars

\* The beat comes every five minutes; a transaction that was begun ends.
ReconcileStep(r) ==
  Refetch(r) \/ GetPositions(r) \/ GetAccount(r) \/ ComputeDrift(r) \/ ApplyDrift(r)

Fairness ==
  /\ \A r \in Beats : WF_vars(ReconcileStep(r))
  /\ \A p \in Pipes : WF_vars((rec[p] # "idle" \/ owner = p) /\ (ReconcileStep(p) \/ PipeCommits(p)))

FairSpec == Spec /\ Fairness

-----------------------------------------------------------------------------
(* Properties.                                                              *)

\* A fill is in the ledger of a book at most once, whoever ingests it and
\* whatever is rolled back; the sleeve's ledger holds no fill that the
\* account's does not.
BookedOnce ==
  \A s \in {db, draft} : \A f \in Fills :
    /\ s.booked["account"][f] <= 1
    /\ s.booked["sleeve"][f] <= s.booked["account"][f]

\* A committed BrokerFill row stands for a booked fill, unless its poller is
\* still at it or ended in between: then no later poll books it.
RowIsBooked ==
  \A f \in rows :
    \/ db.booked["account"][f] = 1
    \/ \E p \in Pollers : poll[p] = "book" /\ hand[p] = f
    \/ f \in lost

\* What the fills counted in ledger l moved, and the sum of such entries.
Shares(l) == [f \in Fills |-> l[f] * Signed[f]]
Money(l) == [f \in Fills |-> l[f] * (Signed[f] * Price[f])]
Sum(v) == MapThenSumSet(LAMBDA f : v[f], Fills)

Adjusted(s, b) == IF b = "account" THEN s.adj ELSE [qty |-> 0, cash |-> 0]

Explained(s) ==
  \A b \in Books :
    /\ s.book[b].qty = Sum(Shares(s.booked[b])) + Adjusted(s, b).qty
    /\ s.book[b].cash = Adjusted(s, b).cash - Sum(Money(s.booked[b]))

\* The ledger accounts for the books: position and cash of each are the sum
\* of the fills and the adjustments in its ledger, in every interleaving of
\* polls, pipelines and reconciliations.
LedgerExplainsBook == Explained(db) /\ Explained(draft)

AddsUp(b) == b.cash = b.realized - b.qty * b.cost

\* What a sleeve has realised and what its position cost add up to its cash,
\* through every order of buying, selling, closing and turning round.
AverageCostAddsUp == AddsUp(db.book["sleeve"]) /\ AddsUp(draft.book["sleeve"])

\* Whatever polls, pipelines and checks did to each other, the account's book
\* ends up equal to the venue's once the venue is quiet.
BookIsSquared ==
  <>[](/\ db.book["account"].qty = venue.qty
       /\ db.book["account"].cash = venue.cash)
=============================================================================
