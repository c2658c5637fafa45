--------------------------- MODULE AccountBookProofs ---------------------------
(***************************************************************************)
(* Proofs about AccountBook, for any fills, quantities and prices, any      *)
(* pollers, pipelines, beats and cycles, and any number of failures and     *)
(* deaths.                                                                 *)
(***************************************************************************)
EXTENDS AccountBook, FiniteSetTheorems, WellFoundedInduction, TLAPS

-----------------------------------------------------------------------------
(* The operators on books.                                                 *)

\* A trade of whole numbers leaves whole numbers.
LEMMA TradeType ==
  ASSUME NEW b \in BookRows, NEW q \in Int, NEW p \in Int, q # 0
  PROVE  Trade(b, q, p) \in BookRows
  <1> USE DEF BookRows
  <1>1. b.qty \in Int /\ b.cost \in Int /\ b.realized \in Int /\ b.cash \in Int
    OBVIOUS
  <1>2. Size(b.qty) \in Nat /\ Size(q) \in Nat /\ Size(q) > 0
    BY <1>1 DEF Size
  <1>3. Cost(b, q, p) \in Int
    <2> DEFINE sum == Size(b.qty) * b.cost + Size(q) * p
               all == Size(b.qty) + Size(q)
    <2>1. Size(b.qty) * b.cost \in Int /\ Size(q) * p \in Int
      BY <1>1, <1>2
    <2>2. sum \in Int /\ all \in Int /\ all > 0
      BY <2>1, <1>2
    <2> HIDE DEF sum, all
    <2>3. sum \div all \in Int
      BY <2>2
    <2> QED
      BY <1>1, <2>3 DEF Cost, sum, all
  <1>4. Gain(b, q, p) \in Int
    <2> DEFINE closed == Smaller(Size(b.qty), Size(q))
    <2>1. closed \in Int
      BY <1>2 DEF Smaller
    <2>2. p - b.cost \in Int /\ b.cost - p \in Int
      BY <1>1
    <2> HIDE DEF closed
    <2>3. (p - b.cost) * closed \in Int /\ (b.cost - p) * closed \in Int
      BY <2>1, <2>2
    <2> QED
      BY <2>3 DEF Gain, closed
  <1>5. q * p \in Int
    OBVIOUS
  <1> QED
    BY <1>1, <1>3, <1>4, <1>5 DEF Trade

LEMMA SignedFacts ==
  ASSUME NEW f \in Executed
  PROVE  Signed[f] \in Int /\ Signed[f] # 0 /\ Price[f] \in Int
  BY Executions DEF Executed

LEMMA BooksFacts == "account" \in Books /\ "sleeve" \in Books
  BY DEF Books

\* Applying a fill to a book counts it there once more and nothing else.
LEMMA ApplyFacts ==
  ASSUME NEW s \in States, NEW b \in Books, NEW f \in Fills
  PROVE  /\ Apply(s, b, f) \in States
         /\ \A c \in Books, g \in Fills :
              Apply(s, b, f).booked[c][g] = IF c = b /\ g = f THEN s.booked[c][g] + 1
                                                             ELSE s.booked[c][g]
  <1>1. s.book \in [Books -> BookRows] /\ s.booked \in [Books -> [Fills -> Nat]]
        /\ s.adj \in [qty : Int, cash : Int]
    BY DEF States
  <1>2. Trade(s.book[b], Signed[f], Price[f]) \in BookRows
    BY <1>1, TradeType, SignedFacts DEF Executed
  <1> DEFINE bk == [s.book EXCEPT ![b] = Trade(s.book[b], Signed[f], Price[f])]
             bd == [s.booked EXCEPT ![b][f] = s.booked[b][f] + 1]
  <1>3. Apply(s, b, f) = [book |-> bk, booked |-> bd, adj |-> s.adj]
    BY DEF Apply, States
  <1>4. bk \in [Books -> BookRows]
    BY <1>1, <1>2
  <1>5. bd \in [Books -> [Fills -> Nat]]
    BY <1>1
  <1>6. \A c \in Books, g \in Fills :
          bd[c][g] = IF c = b /\ g = f THEN s.booked[c][g] + 1 ELSE s.booked[c][g]
    BY <1>1
  <1> HIDE DEF bk, bd
  <1>7. Apply(s, b, f).booked = bd
    BY <1>3
  <1>8. Apply(s, b, f) \in States
    BY <1>1, <1>3, <1>4, <1>5 DEF States
  <1> QED
    BY <1>6, <1>7, <1>8

LEMMA AdjustedRow ==
  ASSUME NEW b \in BookRows, NEW x \in Int, NEW y \in Int, NEW z \in Int
  PROVE  [b EXCEPT !.qty = x, !.cost = y, !.cash = z] \in BookRows
  BY DEF BookRows

\* An adjustment touches neither ledger's fills.
LEMMA AdjustFacts ==
  ASSUME NEW s \in States, NEW o \in Seen
  PROVE  Adjust(s, o) \in States /\ Adjust(s, o).booked = s.booked
  <1>1. s.book \in [Books -> BookRows] /\ s.booked \in [Books -> [Fills -> Nat]]
        /\ s.adj \in [qty : Int, cash : Int]
    BY DEF States
  <1>2. s.book["account"] \in BookRows
    BY <1>1, BooksFacts
  <1>3. AdjustedCost(s.book["account"], o) \in Int
    BY <1>2, Numbers DEF AdjustedCost, BookRows, Seen
  <1> DEFINE b == s.book["account"]
             nb == [b EXCEPT !.qty = b.qty + o.dqty, !.cost = AdjustedCost(b, o),
                             !.cash = b.cash + o.dcash]
             bk == [s.book EXCEPT !["account"] = nb]
             ad == Recorded(s.adj, o)
  <1>4. nb \in BookRows
    <2>1. b.qty + o.dqty \in Int /\ b.cash + o.dcash \in Int
      BY <1>2 DEF BookRows, Seen
    <2> HIDE DEF b
    <2> QED
      BY <1>2, <1>3, <2>1, AdjustedRow DEF b
  <1>5. ad \in [qty : Int, cash : Int]
    BY <1>1 DEF Recorded, Seen
  <1>6. bk \in [Books -> BookRows]
    BY <1>1, <1>4
  <1>7. Adjust(s, o) = [book |-> bk, booked |-> s.booked, adj |-> ad]
    BY DEF Adjust, States
  <1> HIDE DEF b, nb, bk, ad
  <1> QED
    BY <1>1, <1>5, <1>6, <1>7 DEF States

LEMMA EmptyFacts ==
  /\ Empty \in BookRows /\ EmptyState \in States /\ Blind \in Seen
  /\ \A b \in Books, f \in Fills : EmptyState.booked[b][f] = 0
  <1>1. Empty \in BookRows
    BY DEF Empty, BookRows
  <1>2. Blind \in Seen
    BY DEF Blind, Seen
  <1>3. [b \in Books |-> [f \in Fills |-> 0]] \in [Books -> [Fills -> Nat]]
    OBVIOUS
  <1>4. EmptyState \in States
    BY <1>1, <1>3 DEF EmptyState, States
  <1>5. \A b \in Books, f \in Fills : EmptyState.booked[b][f] = 0
    BY DEF EmptyState
  <1> QED
    BY <1>1, <1>2, <1>4, <1>5

-----------------------------------------------------------------------------
(* Type correctness.                                                       *)

LEMMA ViewType ==
  ASSUME TypeOK, NEW r
  PROVE  View(r) \in States
  BY DEF TypeOK, View

LEMMA TypeInit == Init => TypeOK
  BY EmptyFacts DEF Init, TypeOK

LEMMA TypePoll ==
  ASSUME TypeOK, NEW p \in Pollers, Poll(p)
  PROVE  TypeOK'
  <1> USE DEF TypeOK, pollVars, recVars, dataVars, venueVars
  <1>1. ASSUME NEW f \in Fills, PollRow(p, f)
        PROVE  TypeOK'
    BY <1>1 DEF PollRow
  <1>2. CASE PollBook(p)
    <2>1. hand[p] \in Fills
      BY <1>2 DEF PollBook
    <2>2. db' \in States
      BY <1>2, <2>1, ApplyFacts, BooksFacts DEF PollBook
    <2> QED
      BY <1>2, <2>2 DEF PollBook, EndFill
  <1>3. CASE PollSleeve(p)
    <2>1. hand[p] \in Fills
      BY <1>3 DEF PollSleeve
    <2>2. db' \in States
      BY <1>3, <2>1, ApplyFacts, BooksFacts DEF PollSleeve
    <2> QED
      BY <1>3, <2>2 DEF PollSleeve, EndFill
  <1>4. CASE PollSleeveFails(p)
    BY <1>4 DEF PollSleeveFails, EndFill, Fault
  <1>5. CASE PollerDies(p)
    <2>1. lost' \in SUBSET Fills
      BY <1>5 DEF PollerDies
    <2> QED
      BY <1>5, <2>1 DEF PollerDies, EndFill, Fault
  <1> QED
    BY <1>1, <1>2, <1>3, <1>4, <1>5 DEF Poll

LEMMA TypePipe ==
  ASSUME TypeOK, NEW p \in Pipes, Pipe(p)
  PROVE  TypeOK'
  <1> USE DEF TypeOK, pollVars, recVars, dataVars, venueVars, Recs
  <1>1. ASSUME NEW f \in Fills, PipeIngests(p, f)
        PROVE  TypeOK'
    <2> DEFINE s == Apply(View(p), "account", f)
    <2>1. s \in States
      BY ViewType, ApplyFacts, BooksFacts
    <2>2. Apply(s, "sleeve", f) \in States
      BY <2>1, ApplyFacts, BooksFacts
    <2>3. draft' \in States /\ faults' \in Nat
      <3> HIDE DEF s
      <3> QED
        BY <1>1, <2>1, <2>2 DEF PipeIngests, Fault, s
    <2> QED
      BY <1>1, <2>3 DEF PipeIngests
  <1>2. CASE PipeRollsBack(p)
    BY <1>2, EmptyFacts DEF PipeRollsBack, Goto, Release, Fault
  <1>3. CASE PipeCommits(p)
    BY <1>3, EmptyFacts DEF PipeCommits, Goto, Release
  <1> QED
    BY <1>1, <1>2, <1>3 DEF Pipe

LEMMA TypeReconcile ==
  ASSUME TypeOK, NEW r \in Recs, Reconcile(r)
  PROVE  TypeOK'
  <1>0. Over(r) \in {"idle", "commit", "done"}
    BY DEF Over
  <1>1. View(r) \in States
    BY ViewType
  <1>2. View(r).book["account"] \in BookRows
    BY <1>1, BooksFacts DEF States
  <1>3. seen[r] \in Seen /\ rec \in [Recs -> {"idle", "positions", "cash", "drift",
                                            "apply", "commit", "done"}]
        /\ seen \in [Recs -> Seen] /\ venue \in BookRows
    BY DEF TypeOK
  <1>5. ASSUME Ends(r)
        PROVE  rec' \in [Recs -> {"idle", "positions", "cash", "drift", "apply",
                                  "commit", "done"}] /\ seen' \in [Recs -> Seen]
    BY <1>0, <1>3, <1>5, EmptyFacts DEF Ends
  <1> USE DEF pollVars, recVars, dataVars, venueVars, Goto
  <1>6. CASE Refetch(r)
    <2>1. seen' \in [Recs -> Seen]
      BY <1>2, <1>3, <1>6 DEF Refetch, Seen, BookRows
    <2> QED
      BY <1>6, <2>1 DEF Refetch, TypeOK
  <1>7. CASE GetPositions(r)
    <2>1. seen' \in [Recs -> Seen]
      BY <1>3, <1>7 DEF GetPositions, Seen, BookRows
    <2> QED
      BY <1>7, <2>1 DEF GetPositions, TypeOK
  <1>8. CASE GetAccount(r)
    <2>1. seen' \in [Recs -> Seen]
      BY <1>3, <1>8 DEF GetAccount, Seen, BookRows
    <2> QED
      BY <1>8, <2>1 DEF GetAccount, TypeOK
  <1>9. CASE VenueFails(r)
    BY <1>5, <1>9 DEF VenueFails, TypeOK, Fault
  <1>10. CASE ComputeDrift(r)
    <2> DEFINE b     == View(r).book["account"]
               dqty  == seen[r].vqty - b.qty
               dcash == seen[r].vcash - seen[r].cash
    <2>1. dqty \in Int /\ dcash \in Int
      BY <1>2, <1>3 DEF BookRows, Seen
    <2>2. [seen EXCEPT ![r].dqty = dqty, ![r].dcash = dcash] \in [Recs -> Seen]
      <3> HIDE DEF dqty, dcash
      <3> QED
        BY <1>3, <2>1 DEF Seen
    <2>3. \/ Ends(r) /\ halts' \in {halts, halts \cup {r}} /\ (r \in Gates \/ halts' = halts)
          \/ /\ seen' = [seen EXCEPT ![r].dqty = dqty, ![r].dcash = dcash]
             /\ Goto(r, "apply")
             /\ UNCHANGED halts
      BY <1>10 DEF ComputeDrift
    <2> HIDE DEF dqty, dcash
    <2>4. rec' \in [Recs -> {"idle", "positions", "cash", "drift", "apply",
                             "commit", "done"}] /\ seen' \in [Recs -> Seen]
      BY <1>3, <1>5, <2>2, <2>3
    <2>5. halts' \in SUBSET Gates
      BY <2>3 DEF TypeOK
    <2> QED
      BY <1>10, <2>4, <2>5 DEF ComputeDrift, TypeOK
  <1>11. CASE ApplyDrift(r)
    <2>1. Adjust(View(r), seen[r]) \in States /\ Adjust(db, seen[r]) \in States
      BY <1>1, <1>3, AdjustFacts DEF TypeOK
    <2>2. rec' \in [Recs -> {"idle", "positions", "cash", "drift", "apply",
                             "commit", "done"}] /\ seen' \in [Recs -> Seen]
      BY <1>5, <1>11 DEF ApplyDrift
    <2>3. db' \in States /\ draft' \in States /\ owner' \in Pipes \cup {None}
      BY <1>11, <2>1 DEF ApplyDrift, TypeOK
    <2> QED
      BY <1>11, <2>2, <2>3 DEF ApplyDrift, TypeOK
  <1>12. CASE RecDies(r)
    BY <1>5, <1>12 DEF RecDies, TypeOK, Fault
  <1> QED
    BY <1>6, <1>7, <1>8, <1>9, <1>10, <1>11, <1>12 DEF Reconcile

LEMMA TypeStep == TypeOK /\ [Next]_vars => TypeOK'
  <1> SUFFICES ASSUME TypeOK, [Next]_vars
               PROVE  TypeOK'
    OBVIOUS
  <1>1. ASSUME NEW f \in Executed, VenueExecutes(f)
        PROVE  TypeOK'
    <2>1. Trade(venue, Signed[f], Price[f]) \in BookRows
      BY TradeType, SignedFacts DEF TypeOK
    <2> QED
      BY <1>1, <2>1 DEF VenueExecutes, TypeOK, dataVars, pollVars, recVars
  <1>2. CASE UNCHANGED vars
    BY <1>2 DEF vars, venueVars, dataVars, pollVars, recVars, TypeOK
  <1> QED
    BY <1>1, <1>2, TypePoll, TypePipe, TypeReconcile DEF Next

\* Type correctness of every reachable state.
THEOREM TypeCorrect == Spec => []TypeOK
  BY TypeInit, TypeStep, PTL DEF Spec

-----------------------------------------------------------------------------
(* Booking.  The row decides who books a fill: it is committed before the  *)
(* poll books, and with the transaction when the pipeline does; so a fill   *)
(* without a row is in no ledger, a poller holds a fill of its own, and a   *)
(* transaction's books differ from the committed ones in its own new rows.  *)

\* What the transaction holds.
DraftIsOwn ==
  /\ owner = None => newRows = {} /\ draft = EmptyState
  /\ newRows \cap rows = {}
  /\ owner # None =>
       \A f \in Fills :
         /\ f \in newRows => /\ draft.booked["account"][f] = 1
                             /\ draft.booked["sleeve"][f] <= 1
         /\ f \notin newRows => \A b \in Books : draft.booked[b][f] = db.booked[b][f]

\* What the committed ledgers hold of a fill.
LedgerFollowsRow ==
  \A f \in Fills :
    /\ db.booked["account"][f] <= 1
    /\ db.booked["sleeve"][f] <= db.booked["account"][f]
    /\ f \notin rows => db.booked["account"][f] = 0

\* What a poller holds.
HandIsOwn ==
  /\ \A p \in Pollers :
       /\ poll[p] # "idle" => hand[p] \in rows
       /\ poll[p] = "book" => db.booked["account"][hand[p]] = 0
       /\ poll[p] = "sleeve" => /\ db.booked["account"][hand[p]] = 1
                                /\ db.booked["sleeve"][hand[p]] = 0
  /\ \A p, q \in Pollers :
       p # q /\ poll[p] # "idle" /\ poll[q] # "idle" => hand[p] # hand[q]

Booking == DraftIsOwn /\ LedgerFollowsRow /\ HandIsOwn /\ RowIsBooked

LEMMA BookingInit == Init => Booking
  BY EmptyFacts, BooksFacts
  DEF Init, Booking, DraftIsOwn, LedgerFollowsRow, HandIsOwn, RowIsBooked

\* Steps that leave the books, the rows and the pollers alone.
LEMMA BookingElsewhere ==
  ASSUME Booking, UNCHANGED <<dataVars, pollVars>>
  PROVE  Booking'
  BY DEF Booking, DraftIsOwn, LedgerFollowsRow, HandIsOwn, RowIsBooked, dataVars, pollVars

LEMMA BookingPoll ==
  ASSUME TypeOK, Booking, NEW p \in Pollers, Poll(p)
  PROVE  Booking'
  <1>0. /\ poll \in [Pollers -> {"idle", "book", "sleeve"}]
        /\ hand \in [Pollers -> Fills \cup {None}]
        /\ db \in States
        /\ \A q \in Pollers : poll[q] # "idle" => hand[q] \in Fills
    BY DEF TypeOK
  <1>1. ASSUME NEW f \in Fills, PollRow(p, f)
        PROVE  Booking'
    <2>1. /\ f \notin rows \cup newRows /\ rows' = rows \cup {f} /\ poll[p] = "idle"
          /\ poll' = [poll EXCEPT ![p] = "book"] /\ hand' = [hand EXCEPT ![p] = f]
          /\ UNCHANGED <<db, owner, draft, newRows, lost>>
      BY <1>1 DEF PollRow
    <2>2. DraftIsOwn'
      BY <2>1 DEF Booking, DraftIsOwn
    <2>3. LedgerFollowsRow'
      BY <2>1 DEF Booking, LedgerFollowsRow
    <2>4. HandIsOwn'
      <3>1. \A q \in Pollers \ {p} : poll'[q] = poll[q] /\ hand'[q] = hand[q]
        BY <1>0, <2>1
      <3>2. poll'[p] = "book" /\ hand'[p] = f
        BY <1>0, <2>1
      <3>3. db.booked["account"][f] = 0
        BY <2>1 DEF Booking, LedgerFollowsRow
      <3> QED
        BY <2>1, <3>1, <3>2, <3>3 DEF Booking, HandIsOwn
    <2>5. RowIsBooked'
      BY <1>0, <2>1 DEF Booking, RowIsBooked
    <2> QED
      BY <2>2, <2>3, <2>4, <2>5 DEF Booking
  <1>2. ASSUME NEW b \in Books,
               \/ b = "account" /\ poll[p] = "book"
               \/ b = "sleeve" /\ poll[p] = "sleeve",
               owner = None, db' = Apply(db, b, hand[p]),
               UNCHANGED <<rows, owner, draft, newRows, lost>>,
               \/ EndFill(p)
               \/ poll[p] = "book" /\ poll' = [poll EXCEPT ![p] = "sleeve"] /\ UNCHANGED hand
        PROVE  Booking'
    <2> DEFINE f == hand[p]
    <2>1. f \in Fills /\ f \in rows
      BY <1>0, <1>2 DEF Booking, HandIsOwn
    <2>2. \A c \in Books, g \in Fills :
            db'.booked[c][g] = IF c = b /\ g = f THEN db.booked[c][g] + 1
                                                ELSE db.booked[c][g]
      BY <1>0, <1>2, <2>1, ApplyFacts
    <2>3. \A q \in Pollers \ {p} : poll'[q] = poll[q] /\ hand'[q] = hand[q]
      BY <1>0, <1>2 DEF EndFill
    <2>4. poll'[p] = "idle" \/ (poll'[p] = "sleeve" /\ hand'[p] = f /\ poll[p] = "book")
      <3>1. CASE EndFill(p)
        BY <1>0, <3>1 DEF EndFill
      <3>2. CASE poll[p] = "book" /\ poll' = [poll EXCEPT ![p] = "sleeve"] /\ UNCHANGED hand
        BY <1>0, <3>2
      <3> QED
        BY <1>2, <3>1, <3>2
    <2>5. DraftIsOwn'
      BY <1>2 DEF Booking, DraftIsOwn
    <2>6. LedgerFollowsRow' /\ db'.booked["account"][f] = 1
      <3>1. IF b = "account" THEN db.booked["account"][f] = 0
            ELSE db.booked["account"][f] = 1 /\ db.booked["sleeve"][f] = 0
        BY <1>2 DEF Booking, HandIsOwn
      <3>2. \A g \in Fills : /\ db.booked["account"][g] \in Nat
                             /\ db.booked["sleeve"][g] \in Nat
        BY <1>0, BooksFacts DEF States
      <3> QED
        BY <1>2, <2>1, <2>2, <3>1, <3>2, BooksFacts DEF Booking, LedgerFollowsRow
    <2>7. HandIsOwn'
      <3>1. \A q \in Pollers \ {p} : poll[q] # "idle" => hand[q] # f /\ hand[q] \in Fills
        BY <1>0, <1>2 DEF Booking, HandIsOwn
      <3>2. \A q \in Pollers \ {p}, c \in Books :
              poll[q] # "idle" => db'.booked[c][hand[q]] = db.booked[c][hand[q]]
        BY <2>2, <3>1
      <3>3. poll[p] = "book" => db'.booked["sleeve"][f] = 0
        <4>1. poll[p] = "book" => b = "account"
          BY <1>2
        <4>2. poll[p] = "book" => db'.booked["sleeve"][f] = db.booked["sleeve"][f]
          BY <2>1, <2>2, <4>1, BooksFacts
        <4>3. poll[p] = "book" => db.booked["account"][f] = 0
          BY <1>2 DEF Booking, HandIsOwn
        <4>4. db.booked["sleeve"][f] \in Nat
          BY <1>0, <2>1, BooksFacts DEF States
        <4>5. db.booked["sleeve"][f] <= db.booked["account"][f]
          BY <2>1 DEF Booking, LedgerFollowsRow
        <4> QED
          BY <4>2, <4>3, <4>4, <4>5
      <3> QED
        BY <1>2, <2>1, <2>3, <2>4, <2>6, <3>1, <3>2, <3>3, BooksFacts DEF Booking, HandIsOwn
    <2>8. RowIsBooked'
      <3>1. \A g \in rows \ {f} : db.booked["account"][g] = 1 => db'.booked["account"][g] = 1
        BY <2>2, BooksFacts DEF Booking, TypeOK
      <3> QED
        BY <1>2, <2>3, <2>6, <3>1 DEF Booking, RowIsBooked
    <2> QED
      BY <2>5, <2>6, <2>7, <2>8 DEF Booking
  <1>3. CASE PollBook(p)
    <2>1. /\ poll[p] = "book" /\ owner = None /\ db' = Apply(db, "account", hand[p])
          /\ UNCHANGED <<rows, owner, draft, newRows, lost>>
          /\ \/ EndFill(p)
             \/ poll' = [poll EXCEPT ![p] = "sleeve"] /\ UNCHANGED hand
      BY <1>3 DEF PollBook
    <2> QED
      BY <1>2, <2>1, BooksFacts
  <1>4. CASE PollSleeve(p)
    BY <1>2, <1>4, BooksFacts DEF PollSleeve
  <1>5. CASE PollSleeveFails(p) \/ PollerDies(p)
    <2>1. /\ poll' = [poll EXCEPT ![p] = "idle"] /\ hand' = [hand EXCEPT ![p] = None]
          /\ UNCHANGED dataVars
          /\ lost \subseteq lost' /\ (poll[p] = "book" => hand[p] \in lost')
      BY <1>5 DEF PollSleeveFails, PollerDies, EndFill
    <2>2. \A q \in Pollers \ {p} : poll'[q] = poll[q] /\ hand'[q] = hand[q]
      BY <1>0, <2>1
    <2>3. poll'[p] = "idle"
      BY <1>0, <2>1
    <2>4. DraftIsOwn' /\ LedgerFollowsRow'
      BY <2>1 DEF Booking, DraftIsOwn, LedgerFollowsRow, dataVars
    <2>5. HandIsOwn'
      BY <2>1, <2>2, <2>3 DEF Booking, HandIsOwn, dataVars
    <2>6. RowIsBooked'
      BY <2>1, <2>2 DEF Booking, RowIsBooked, dataVars
    <2> QED
      BY <2>4, <2>5, <2>6 DEF Booking
  <1> QED
    BY <1>1, <1>3, <1>4, <1>5 DEF Poll

\* A fill that a pipeline takes is in neither ledger that it sees.
LEMMA FreshForPipe ==
  ASSUME TypeOK, Booking, NEW p \in Pipes, NEW f \in Fills, PipeIngests(p, f)
  PROVE  View(p).booked["account"][f] = 0 /\ View(p).booked["sleeve"][f] = 0
  <1>1. /\ p # None /\ db \in States /\ draft \in States
        /\ owner \in {None, p} /\ f \notin rows \cup newRows
    BY Names DEF TypeOK, PipeIngests
  <1>2. \A b \in Books : View(p).booked[b][f] = db.booked[b][f]
    BY <1>1 DEF View, Booking, DraftIsOwn
  <1>3. db.booked["account"][f] = 0 /\ db.booked["sleeve"][f] <= 0
    BY <1>1 DEF Booking, LedgerFollowsRow
  <1>4. db.booked["sleeve"][f] \in Nat
    BY <1>1, BooksFacts DEF States
  <1> QED
    BY <1>2, <1>3, <1>4, BooksFacts

LEMMA BookingPipe ==
  ASSUME TypeOK, Booking, NEW p \in Pipes, Pipe(p)
  PROVE  Booking'
  <1>0. p # None /\ db \in States /\ draft \in States
    BY Names DEF TypeOK
  <1>1. ASSUME NEW f \in Fills, PipeIngests(p, f)
        PROVE  Booking'
    <2> DEFINE s == Apply(View(p), "account", f)
    <2>1. /\ owner \in {None, p} /\ f \notin rows \cup newRows /\ owner' = p
          /\ newRows' = newRows \cup {f} /\ draft' \in {s, Apply(s, "sleeve", f)}
          /\ UNCHANGED <<rows, db, pollVars>>
      BY <1>1 DEF PipeIngests
    <2>2. View(p) \in States
      BY ViewType
    <2>3. \A g \in Fills : \/ g \in newRows /\ owner = p
                           \/ \A b \in Books : View(p).booked[b][g] = db.booked[b][g]
      BY <1>0, <2>1 DEF View, Booking, DraftIsOwn
    <2>4. /\ View(p).booked["account"][f] = 0
          /\ View(p).booked["sleeve"][f] = 0
      BY <1>1, FreshForPipe
    <2>5. s \in States
          /\ \A c \in Books, g \in Fills :
               s.booked[c][g] = IF c = "account" /\ g = f THEN View(p).booked[c][g] + 1
                                                         ELSE View(p).booked[c][g]
      BY <2>2, ApplyFacts, BooksFacts
    <2> HIDE DEF s
    <2>6. \A c \in Books, g \in Fills :
               Apply(s, "sleeve", f).booked[c][g]
                 = IF c = "sleeve" /\ g = f THEN s.booked[c][g] + 1 ELSE s.booked[c][g]
      BY <2>5, ApplyFacts, BooksFacts
    <2>7. /\ draft'.booked["account"][f] = 1 /\ draft'.booked["sleeve"][f] <= 1
          /\ \A g \in Fills \ {f}, c \in Books : draft'.booked[c][g] = View(p).booked[c][g]
      BY <2>1, <2>4, <2>5, <2>6, BooksFacts
    <2>8. DraftIsOwn'
      <3>1. newRows' \cap rows' = {}
        BY <2>1 DEF Booking, DraftIsOwn
      <3>2. \A g \in Fills \ {f} : g \in newRows => /\ draft'.booked["account"][g] = 1
                                                    /\ draft'.booked["sleeve"][g] <= 1
        <4>1. newRows # {} => owner = p
          BY <2>1 DEF Booking, DraftIsOwn
        <4>2. newRows # {} => View(p) = draft
          BY <4>1 DEF View
        <4> QED
          BY <1>0, <2>7, <4>1, <4>2, BooksFacts DEF Booking, DraftIsOwn
      <3>3. \A g \in Fills \ {f} : g \notin newRows =>
              \A b \in Books : draft'.booked[b][g] = db.booked[b][g]
        BY <2>3, <2>7
      <3> QED
        BY <1>0, <2>1, <2>7, <3>1, <3>2, <3>3 DEF DraftIsOwn
    <2>9. LedgerFollowsRow' /\ HandIsOwn' /\ RowIsBooked'
      BY <2>1 DEF Booking, LedgerFollowsRow, HandIsOwn, RowIsBooked, pollVars
    <2> QED
      BY <2>8, <2>9 DEF Booking
  <1>2. CASE PipeRollsBack(p)
    <2>1. UNCHANGED <<rows, db, pollVars>>
          /\ \/ newRows' = {} /\ owner' = None /\ draft' = EmptyState
             \/ UNCHANGED <<newRows, owner, draft>>
      BY <1>2 DEF PipeRollsBack, Release
    <2>2. DraftIsOwn'
      BY <2>1 DEF Booking, DraftIsOwn
    <2>3. LedgerFollowsRow' /\ HandIsOwn' /\ RowIsBooked'
      BY <2>1 DEF Booking, LedgerFollowsRow, HandIsOwn, RowIsBooked, pollVars
    <2> QED
      BY <2>2, <2>3 DEF Booking
  <1>3. CASE PipeCommits(p)
    <2>1. CASE owner # p
      BY <1>3, <2>1, BookingElsewhere DEF PipeCommits, Release, dataVars
    <2>2. CASE owner = p
      <3>1. /\ db' = draft /\ rows' = rows \cup newRows /\ newRows' = {} /\ owner' = None
            /\ draft' = EmptyState /\ UNCHANGED pollVars
        BY <1>3, <2>2 DEF PipeCommits, Release
      <3>2. /\ newRows \cap rows = {}
            /\ \A f \in Fills :
                 /\ f \in newRows => /\ draft.booked["account"][f] = 1
                                     /\ draft.booked["sleeve"][f] <= 1
                 /\ f \notin newRows => \A b \in Books : draft.booked[b][f] = db.booked[b][f]
        BY <1>0, <2>2 DEF Booking, DraftIsOwn
      <3>3. DraftIsOwn'
        BY <3>1 DEF DraftIsOwn
      <3>4. LedgerFollowsRow'
        <4>1. \A f \in Fills : f \notin newRows =>
                /\ draft.booked["account"][f] = db.booked["account"][f]
                /\ draft.booked["sleeve"][f] = db.booked["sleeve"][f]
          BY <3>2, BooksFacts
        <4> QED
          BY <3>1, <3>2, <4>1 DEF Booking, LedgerFollowsRow
      <3>5. HandIsOwn'
        <4>1. \A q \in Pollers : poll[q] # "idle" =>
                /\ hand[q] \in Fills /\ hand[q] \in rows
                /\ draft.booked["account"][hand[q]] = db.booked["account"][hand[q]]
                /\ draft.booked["sleeve"][hand[q]] = db.booked["sleeve"][hand[q]]
          BY <3>2, BooksFacts DEF Booking, HandIsOwn, TypeOK
        <4> QED
          BY <3>1, <4>1 DEF Booking, HandIsOwn, pollVars
      <3>6. RowIsBooked'
        <4>1. rows' \subseteq Fills
          BY <3>1 DEF TypeOK
        <4> QED
          BY <3>1, <3>2, <4>1, BooksFacts DEF Booking, RowIsBooked, pollVars
      <3> QED
        BY <3>3, <3>4, <3>5, <3>6 DEF Booking
    <2> QED
      BY <2>1, <2>2
  <1> QED
    BY <1>1, <1>2, <1>3 DEF Pipe

LEMMA BookingReconcile ==
  ASSUME TypeOK, Booking, NEW r \in Recs, Reconcile(r)
  PROVE  Booking'
  <1>1. CASE ApplyDrift(r)
    <2>1. seen[r] \in Seen /\ db \in States /\ View(r) \in States
      BY ViewType DEF TypeOK
    <2>2. Adjust(db, seen[r]).booked = db.booked
          /\ Adjust(View(r), seen[r]).booked = View(r).booked
      BY <2>1, AdjustFacts
    <2>3. LedgerFollowsRow' /\ HandIsOwn' /\ RowIsBooked'
      <3>1. db'.booked = db.booked /\ UNCHANGED <<rows, pollVars>>
        BY <1>1, <2>2 DEF ApplyDrift
      <3> QED
        BY <3>1 DEF Booking, LedgerFollowsRow, HandIsOwn, RowIsBooked, pollVars
    <2>4. DraftIsOwn'
      <3>1. CASE r \in Pipes
        <4>1. /\ owner \in {None, r} /\ owner' = r /\ draft'.booked = View(r).booked
              /\ r # None /\ UNCHANGED <<db, rows, newRows>>
          BY <1>1, <2>2, <3>1, Names DEF ApplyDrift
        <4>2. owner = None => newRows = {} /\ View(r) = db
          BY <4>1 DEF View, Booking, DraftIsOwn
        <4>3. owner = r => View(r) = draft
          BY DEF View
        <4> QED
          BY <4>1, <4>2, <4>3, BooksFacts DEF Booking, DraftIsOwn
      <3>2. CASE r \notin Pipes
        <4>1. owner = None \/ owner \notin Pipes
          BY <1>1, <3>2 DEF ApplyDrift
        <4>2. owner = None
          BY <4>1 DEF TypeOK
        <4> QED
          BY <1>1, <3>2, <4>2 DEF ApplyDrift, Booking, DraftIsOwn
      <3> QED
        BY <3>1, <3>2
    <2> QED
      BY <2>3, <2>4 DEF Booking
  <1>2. CASE Refetch(r) \/ GetPositions(r) \/ GetAccount(r) \/ VenueFails(r)
             \/ ComputeDrift(r) \/ RecDies(r)
    BY <1>2, BookingElsewhere
    DEF Refetch, GetPositions, GetAccount, VenueFails, ComputeDrift, RecDies
  <1> QED
    BY <1>1, <1>2 DEF Reconcile

LEMMA BookingStep == TypeOK /\ Booking /\ [Next]_vars => Booking'
  <1> SUFFICES ASSUME TypeOK, Booking, [Next]_vars
               PROVE  Booking'
    OBVIOUS
  <1>1. ASSUME NEW f \in Executed, VenueExecutes(f)
        PROVE  Booking'
    BY <1>1, BookingElsewhere DEF VenueExecutes
  <1>2. CASE UNCHANGED vars
    BY <1>2, BookingElsewhere DEF vars
  <1> QED
    BY <1>1, <1>2, BookingPoll, BookingPipe, BookingReconcile DEF Next

LEMMA BookingHolds == Spec => []Booking
  BY TypeCorrect, BookingInit, BookingStep, PTL DEF Spec

LEMMA BookedFromBooking == TypeOK /\ Booking => BookedOnce
  <1> SUFFICES ASSUME TypeOK, Booking, NEW f \in Fills
               PROVE  /\ db.booked["account"][f] <= 1 
                      /\ db.booked["sleeve"][f] <= db.booked["account"][f]
                      /\ draft.booked["account"][f] <= 1 
                      /\ draft.booked["sleeve"][f] <= draft.booked["account"][f]
    BY DEF BookedOnce
  <1>1. /\ db.booked["account"][f] <= 1
        /\ db.booked["sleeve"][f] <= db.booked["account"][f]
    BY DEF Booking, LedgerFollowsRow
  <1>2. CASE owner = None
    BY <1>1, <1>2, EmptyFacts, BooksFacts DEF Booking, DraftIsOwn
  <1>3. CASE owner # None
    BY <1>1, <1>3, BooksFacts DEF Booking, DraftIsOwn
  <1> QED
    BY <1>1, <1>2, <1>3

\* A fill is in the ledger of a book at most once, committed or about to be,
\* and in the sleeve's only if it is in the account's.
THEOREM Booked == Spec => []BookedOnce
  BY TypeCorrect, BookingHolds, BookedFromBooking, PTL

\* A committed row is booked, or its poller is still at it, or ended in
\* between: a rolled back transaction never leaves a row without its booking.
THEOREM RowsAreBooked == Spec => []RowIsBooked
  <1>1. Booking => RowIsBooked
    BY DEF Booking
  <1> QED
    BY BookingHolds, <1>1, PTL

-----------------------------------------------------------------------------
(* Sums.  MapThenSumSet is a recursive function over the subsets of a finite *)
(* set: that it exists, and each fact about it, follows by looking at a      *)
(* smallest subset for which it fails.                                       *)

SumOver(v, S) == MapThenSumSet(LAMBDA x : v[x], S)

\* The element that the sum takes next, and one step of it.
Choice(S) == CHOOSE x \in S : TRUE
Body(g, v, S) == [s \in SUBSET S |-> IF s = {} THEN 0 ELSE v[Choice(s)] + g[s \ {Choice(s)}]]

\* What MapThenSumSet stands for.
LEMMA SumIs ==
  ASSUME NEW v, NEW S
  PROVE  SumOver(v, S) = (CHOOSE g : g = Body(g, v, S))[S]
  BY DEF SumOver, MapThenSumSet, MapThenFoldSet, Body, Choice

\* g[s] is the sum of the entries of v in s, for every s within S.
Sums(g, v, S) == g \in [SUBSET S -> Int] /\ g = Body(g, v, S)

LEMMA ChoiceIn ==
  ASSUME NEW S, S # {}
  PROVE  Choice(S) \in S
  BY DEF Choice

\* A nonempty set of finite sets has a smallest one.
LEMMA Smallest ==
  ASSUME NEW S, IsFiniteSet(S), NEW T, T \subseteq SUBSET S, T # {}
  PROVE  \E x \in T : \A y \in T : y \subseteq x => y = x
  <1>1. IsWellFoundedOn(StrictSubsetOrdering(S), SUBSET S)
    BY FS_StrictSubsetOrderingWellFounded, FS_FiniteSubsetsOfFinite
  <1>2. PICK x \in T : \A y \in T : ~ (<<y, x>> \in StrictSubsetOrdering(S))
    BY <1>1, WFMin
  <1> QED
    BY <1>2 DEF StrictSubsetOrdering

LEMMA SumsAt ==
  ASSUME NEW S, NEW v, NEW g, Sums(g, v, S), NEW s \in SUBSET S
  PROVE  /\ g[s] \in Int
         /\ s = {} => g[s] = 0
         /\ s # {} => g[s] = v[Choice(s)] + g[s \ {Choice(s)}]
  BY DEF Sums, Body

\* Two functions that sum v up agree wherever both are defined.
LEMMA SumsUnique ==
  ASSUME NEW S, IsFiniteSet(S), NEW v, NEW U \in SUBSET S, NEW W \in SUBSET S,
         NEW g, NEW h, Sums(g, v, U), Sums(h, v, W)
  PROVE  \A s \in SUBSET (U \cap W) : g[s] = h[s]
  <1> DEFINE bad == {s \in SUBSET (U \cap W) : g[s] # h[s]}
  <1> SUFFICES ASSUME bad # {} PROVE FALSE
    OBVIOUS
  <1>1. PICK s \in bad : \A t \in bad : t \subseteq s => t = s
    <2>1. bad \subseteq SUBSET S
      OBVIOUS
    <2> HIDE DEF bad
    <2> QED
      BY <2>1, Smallest
  <1>2. s # {}
    BY <1>1, SumsAt
  <1>3. Choice(s) \in s
    BY <1>2, ChoiceIn
  <1>4. s \ {Choice(s)} \notin bad
    BY <1>1, <1>3
  <1>5. g[s \ {Choice(s)}] = h[s \ {Choice(s)}]
    BY <1>4
  <1> QED
    BY <1>1, <1>2, <1>5, SumsAt

\* Some function sums v up: take the smallest set without one.
LEMMA SumsExists ==
  ASSUME NEW S, IsFiniteSet(S), NEW v \in [S -> Int]
  PROVE  \E g : Sums(g, v, S)
  <1> DEFINE bad == {U \in SUBSET S : ~ \E g : Sums(g, v, U)}
  <1> SUFFICES ASSUME bad # {} PROVE FALSE
    OBVIOUS
  <1>1. PICK T \in bad : \A U \in bad : U \subseteq T => U = T
    <2>1. bad \subseteq SUBSET S
      OBVIOUS
    <2> HIDE DEF bad
    <2> QED
      BY <2>1, Smallest
  <1> DEFINE of(U) == CHOOSE g : Sums(g, v, U)
             g == [s \in SUBSET T |-> IF s = {} THEN 0
                                      ELSE v[Choice(s)] + of(s \ {Choice(s)})[s \ {Choice(s)}]]
  <1>2. \A U \in SUBSET T : U # T => Sums(of(U), v, U)
    <2> SUFFICES ASSUME NEW U \in SUBSET T, U # T PROVE Sums(of(U), v, U)
      OBVIOUS
    <2>1. \E h : Sums(h, v, U)
      BY <1>1
    <2> QED
      BY <2>1
  <1> HIDE DEF of
  <1>3. T \subseteq S
    OBVIOUS
  <1>4. \A s \in SUBSET T : s # {} => /\ Choice(s) \in s /\ v[Choice(s)] \in Int
                                      /\ s \ {Choice(s)} \in SUBSET T
                                      /\ s \ {Choice(s)} # T
    BY <1>3, ChoiceIn
  <1>5. g \in [SUBSET T -> Int]
    <2> SUFFICES ASSUME NEW s \in SUBSET T, s # {}
                 PROVE  of(s \ {Choice(s)})[s \ {Choice(s)}] \in Int
      BY <1>4
    <2> QED
      BY <1>2, <1>4, SumsAt
  <1>6. \A s \in SUBSET T : s # T => g[s] = of(s)[s]
    <2> SUFFICES ASSUME NEW s \in SUBSET T, s # T, s # {} PROVE g[s] = of(s)[s]
      <3> SUFFICES ASSUME {} # T PROVE of({})[{}] = 0
        OBVIOUS
      <3>1. Sums(of({}), v, {})
        BY <1>2
      <3> QED
        BY <3>1 DEF Sums, Body
    <2> DEFINE r == s \ {Choice(s)}
    <2>1. Sums(of(s), v, s) /\ Sums(of(r), v, r)
      BY <1>2, <1>4
    <2>2. of(s)[s] = v[Choice(s)] + of(s)[r]
      BY <2>1, SumsAt
    <2>3. of(s)[r] = of(r)[r]
      <3>1. s \in SUBSET S /\ r \in SUBSET S /\ r \in SUBSET (s \cap r)
        BY <1>3
      <3> HIDE DEF r
      <3> QED
        BY <2>1, <3>1, SumsUnique
    <2>4. g[s] = v[Choice(s)] + of(r)[r]
      OBVIOUS
    <2> QED
      BY <2>2, <2>3, <2>4
  <1>7. g = Body(g, v, T)
    <2>1. \A s \in SUBSET T : s # {} => of(s \ {Choice(s)})[s \ {Choice(s)}] = g[s \ {Choice(s)}]
      BY <1>4, <1>6
    <2> QED
      BY <2>1 DEF Body
  <1>8. Sums(g, v, T)
    BY <1>5, <1>7 DEF Sums
  <1> QED
    BY <1>1, <1>8

LEMMA SumSums ==
  ASSUME NEW S, IsFiniteSet(S), NEW v \in [S -> Int]
  PROVE  \E g : Sums(g, v, S) /\ SumOver(v, S) = g[S]
  <1>1. PICK h : Sums(h, v, S)
    BY SumsExists
  <1> DEFINE g == CHOOSE f : f = Body(f, v, S)
  <1>2. g = Body(g, v, S)
    BY <1>1 DEF Sums
  <1>3. g = h
    <2> DEFINE bad == {s \in SUBSET S : g[s] # h[s]}
    <2>1. bad = {}
      <3> SUFFICES ASSUME bad # {} PROVE FALSE
        OBVIOUS
      <3>1. PICK s \in bad : \A t \in bad : t \subseteq s => t = s
        <4>1. bad \subseteq SUBSET S
          OBVIOUS
        <4> HIDE DEF bad
        <4> QED
          BY <4>1, Smallest
      <3> HIDE DEF g
      <3>2. g[s] = IF s = {} THEN 0 ELSE v[Choice(s)] + g[s \ {Choice(s)}]
        BY <1>2 DEF Body
      <3>3. s # {} => g[s \ {Choice(s)}] = h[s \ {Choice(s)}]
        BY <3>1, ChoiceIn
      <3> QED
        BY <1>1, <3>2, <3>3, SumsAt
    <2> HIDE DEF g
    <2> QED
      BY <1>1, <1>2, <2>1 DEF Sums, Body
  <1> QED
    BY <1>1, <1>3, SumIs

\* The sum, one entry after the other.
LEMMA SumSteps ==
  ASSUME NEW S, IsFiniteSet(S), NEW v \in [S -> Int]
  PROVE  \E g \in [SUBSET S -> Int] :
           /\ g[{}] = 0 /\ \A s \in SUBSET S : s # {} => g[s] = v[Choice(s)] + g[s \ {Choice(s)}]
           /\ SumOver(v, S) = g[S]
  <1>1. PICK g : Sums(g, v, S) /\ SumOver(v, S) = g[S]
    BY SumSums
  <1>2. g \in [SUBSET S -> Int]
        /\ g[{}] = 0 /\ \A s \in SUBSET S : s # {} => g[s] = v[Choice(s)] + g[s \ {Choice(s)}]
    <2>1. g[{}] = 0
      BY <1>1 DEF Sums, Body
    <2> QED
      BY <1>1, <2>1 DEF Sums, Body
  <1> QED
    BY <1>1, <1>2

LEMMA SumType ==
  ASSUME NEW S, IsFiniteSet(S), NEW v \in [S -> Int]
  PROVE  SumOver(v, S) \in Int
  <1>1. PICK g \in [SUBSET S -> Int] : SumOver(v, S) = g[S]
    BY SumSteps
  <1> QED
    BY <1>1

\* Nothing adds up to nothing.
LEMMA SumZero ==
  ASSUME NEW S, IsFiniteSet(S)
  PROVE  SumOver([x \in S |-> 0], S) = 0
  <1> DEFINE v == [x \in S |-> 0]
  <1>1. v \in [S -> Int] /\ \A x \in S : v[x] = 0
    OBVIOUS
  <1> HIDE DEF v
  <1>2. PICK g \in [SUBSET S -> Int] :
           /\ g[{}] = 0 /\ \A s \in SUBSET S : s # {} => g[s] = v[Choice(s)] + g[s \ {Choice(s)}]
           /\ SumOver(v, S) = g[S]
    BY <1>1, SumSteps
  <1> DEFINE bad == {s \in SUBSET S : g[s] # 0}
  <1> SUFFICES ASSUME bad # {} PROVE FALSE
    BY <1>2 DEF v
  <1>3. PICK s \in bad : \A t \in bad : t \subseteq s => t = s
    <2>1. bad \subseteq SUBSET S
      OBVIOUS
    <2> HIDE DEF bad
    <2> QED
      BY <2>1, Smallest
  <1>9. /\ s \in SUBSET S
        /\ s # {} /\ g[s] = v[Choice(s)] + g[s \ {Choice(s)}]
    <2>1. s \in SUBSET S
      BY <1>3
    <2>2. s # {}
      BY <1>2, <1>3
    <2> HIDE DEF bad
    <2> QED
      BY <1>2, <2>1, <2>2
  <1>4. s # {}
    BY <1>9
  <1>5. Choice(s) \in s
    BY <1>4, ChoiceIn
  <1>6. g[s \ {Choice(s)}] = 0
    BY <1>3, <1>5
  <1>7. Choice(s) \in S
    BY <1>5, <1>9
  <1>8. g[s] = 0
    BY <1>1, <1>4, <1>6, <1>7, <1>9
  <1> QED
    BY <1>3, <1>8

\* When one entry changes, the sum changes by as much.
LEMMA SumChanges ==
  ASSUME NEW S, IsFiniteSet(S), NEW v \in [S -> Int], NEW w \in [S -> Int], NEW a \in S,
         \A x \in S : x # a => w[x] = v[x]
  PROVE  SumOver(w, S) = SumOver(v, S) + (w[a] - v[a])
  <1>1. PICK g \in [SUBSET S -> Int] :
           /\ g[{}] = 0 /\ \A s \in SUBSET S : s # {} => g[s] = v[Choice(s)] + g[s \ {Choice(s)}]
           /\ SumOver(v, S) = g[S]
    BY SumSteps
  <1>2. PICK h \in [SUBSET S -> Int] :
           /\ h[{}] = 0 /\ \A s \in SUBSET S : s # {} => h[s] = w[Choice(s)] + h[s \ {Choice(s)}]
           /\ SumOver(w, S) = h[S]
    BY SumSteps
  <1> DEFINE d(s) == IF a \in s THEN w[a] - v[a] ELSE 0
             bad == {s \in SUBSET S : h[s] # g[s] + d(s)}
  <1>3. bad = {}
    <2> SUFFICES ASSUME bad # {} PROVE FALSE
      OBVIOUS
    <2>1. PICK s \in bad : \A t \in bad : t \subseteq s => t = s
      <3>1. bad \subseteq SUBSET S
        OBVIOUS
      <3> HIDE DEF bad
      <3> QED
        BY <3>1, Smallest
    <2>2. s \in SUBSET S /\ s # {}
      <3>1. h[{}] = g[{}] + d({})
        BY <1>1, <1>2
      <3>2. s \in SUBSET S /\ h[s] # g[s] + d(s)
        OBVIOUS
      <3> HIDE DEF d, bad
      <3> QED
        BY <3>1, <3>2, Zenon
    <2>8. /\ h[s] = w[Choice(s)] + h[s \ {Choice(s)}]
          /\ g[s] = v[Choice(s)] + g[s \ {Choice(s)}]
      <3> HIDE DEF bad, d
      <3> QED
        BY <1>1, <1>2, <2>2
    <2> DEFINE c == Choice(s)
               r == s \ {c}
    <2>3. c \in s
      BY <2>2, ChoiceIn
    <2>4. /\ h[s] = w[c] + h[r]
          /\ g[s] = v[c] + g[r]
          /\ r \in SUBSET S /\ h[r] \in Int /\ g[r] \in Int
      <3>1. r \in SUBSET S
        BY <2>2
      <3>2. h[r] \in Int /\ g[r] \in Int
        BY <1>1, <1>2, <3>1
      <3> QED
        BY <2>2, <2>8, <3>1, <3>2
    <2> HIDE DEF c
    <2>5. h[r] = g[r] + d(r)
      BY <2>1, <2>3, <2>4
    <2>6. v[c] \in Int /\ w[c] \in Int /\ v[a] \in Int /\ w[a] \in Int
      BY <2>3
    <2>7. d(s) = d(r) + (w[c] - v[c])
      BY <2>3, <2>6
    <2> QED
      BY <2>1, <2>4, <2>5, <2>6, <2>7
  <1>4. h[S] = g[S] + d(S)
    BY <1>3
  <1> QED
    BY <1>1, <1>2, <1>4

-----------------------------------------------------------------------------
(* The ledger explains the books.                                           *)

LEMMA SumIsOver ==
  ASSUME NEW v
  PROVE  Sum(v) = SumOver(v, Fills)
  BY DEF Sum, SumOver

LEMMA EntriesTyped ==
  ASSUME NEW l \in [Fills -> Nat]
  PROVE  /\ Shares(l) \in [Fills -> Int] /\ Money(l) \in [Fills -> Int]
         /\ Sum(Shares(l)) \in Int /\ Sum(Money(l)) \in Int
  <1>1. \A f \in Fills : /\ l[f] * Signed[f] \in Int
                         /\ l[f] * (Signed[f] * Price[f]) \in Int
    <2> SUFFICES ASSUME NEW f \in Fills
                 PROVE  /\ l[f] * Signed[f] \in Int
                        /\ l[f] * (Signed[f] * Price[f]) \in Int
      OBVIOUS
    <2>1. l[f] \in Int /\ Signed[f] \in Int /\ Price[f] \in Int
      BY SignedFacts DEF Executed
    <2>2. Signed[f] * Price[f] \in Int
      BY <2>1
    <2> QED
      BY <2>1, <2>2
  <1>2. Shares(l) \in [Fills -> Int] /\ Money(l) \in [Fills -> Int]
    BY <1>1 DEF Shares, Money
  <1> QED
    BY <1>2, SumIsOver, SumType, Executions

LEMMA EntryChanges ==
  ASSUME NEW v \in [Fills -> Int], NEW w \in [Fills -> Int], NEW f \in Fills,
         \A g \in Fills : g # f => w[g] = v[g]
  PROVE  Sum(w) = Sum(v) + (w[f] - v[f])
  <1>1. SumOver(w, Fills) = SumOver(v, Fills) + (w[f] - v[f])
    BY SumChanges, Executions
  <1> QED
    BY <1>1, SumIsOver

\* One more fill in a ledger adds its shares and its money.
LEMMA OneMore ==
  ASSUME NEW l \in [Fills -> Nat], NEW m \in [Fills -> Nat], NEW f \in Fills,
         \A g \in Fills : m[g] = IF g = f THEN l[g] + 1 ELSE l[g]
  PROVE  /\ Sum(Shares(m)) = Sum(Shares(l)) + Signed[f]
         /\ Sum(Money(m)) = Sum(Money(l)) + Signed[f] * Price[f]
  <1>1. l[f] \in Int /\ Signed[f] \in Int /\ Price[f] \in Int /\ Signed[f] * Price[f] \in Int
    <2>1. l[f] \in Int /\ Signed[f] \in Int /\ Price[f] \in Int
      BY SignedFacts DEF Executed
    <2> QED
      BY <2>1
  <1>2. \A x \in Int, n \in Int : (n + 1) * x - n * x = x
    OBVIOUS
  <1>3. /\ Shares(l)[f] = l[f] * Signed[f] /\ Shares(m)[f] = (l[f] + 1) * Signed[f]
        /\ Money(l)[f] = l[f] * (Signed[f] * Price[f])
        /\ Money(m)[f] = (l[f] + 1) * (Signed[f] * Price[f])
        /\ \A g \in Fills : g # f => /\ Shares(m)[g] = Shares(l)[g]
                                     /\ Money(m)[g] = Money(l)[g]
    BY DEF Shares, Money
  <1>4. Shares(m)[f] - Shares(l)[f] = Signed[f]
    BY <1>1, <1>2, <1>3
  <1>5. Money(m)[f] - Money(l)[f] = Signed[f] * Price[f]
    BY <1>1, <1>2, <1>3
  <1>6. /\ Shares(l) \in [Fills -> Int] /\ Shares(m) \in [Fills -> Int]
        /\ Money(l) \in [Fills -> Int] /\ Money(m) \in [Fills -> Int]
    BY EntriesTyped
  <1>7. Sum(Shares(m)) = Sum(Shares(l)) + (Shares(m)[f] - Shares(l)[f])
    <2>1. \A g \in Fills : g # f => Shares(m)[g] = Shares(l)[g]
      BY <1>3
    <2> QED
      BY <1>6, <2>1, EntryChanges
  <1>8. Sum(Money(m)) = Sum(Money(l)) + (Money(m)[f] - Money(l)[f])
    <2>1. \A g \in Fills : g # f => Money(m)[g] = Money(l)[g]
      BY <1>3
    <2> QED
      BY <1>6, <2>1, EntryChanges
  <1> QED
    BY <1>4, <1>5, <1>7, <1>8

LEMMA EmptyExplained == Explained(EmptyState)
  <1> DEFINE none == [f \in Fills |-> 0]
  <1>1. \A f \in Fills : 0 * Signed[f] = 0 /\ 0 * (Signed[f] * Price[f]) = 0
    <2> SUFFICES ASSUME NEW f \in Fills
                 PROVE  0 * Signed[f] = 0 /\ 0 * (Signed[f] * Price[f]) = 0
      OBVIOUS
    <2>1. Signed[f] \in Int /\ Price[f] \in Int
      BY SignedFacts DEF Executed
    <2>2. Signed[f] * Price[f] \in Int
      BY <2>1
    <2> QED
      BY <2>1, <2>2
  <1>2. Shares(none) = none /\ Money(none) = none
    BY <1>1 DEF Shares, Money
  <1>3. Sum(none) = 0
    BY SumIsOver, SumZero, Executions
  <1>4. \A b \in Books : /\ EmptyState.booked[b] = none
                         /\ EmptyState.book[b].qty = 0 /\ EmptyState.book[b].cash = 0
                         /\ Adjusted(EmptyState, b).qty = 0
                         /\ Adjusted(EmptyState, b).cash = 0
    BY DEF EmptyState, Empty, Adjusted
  <1> HIDE DEF none
  <1> QED
    BY <1>2, <1>3, <1>4 DEF Explained

LEMMA StateFacts ==
  ASSUME NEW s \in States, NEW b \in Books
  PROVE  /\ s.book[b] \in BookRows /\ s.booked[b] \in [Fills -> Nat]
         /\ s.book[b].qty \in Int /\ s.book[b].cash \in Int
         /\ s.book[b].cost \in Int /\ s.book[b].realized \in Int
         /\ Adjusted(s, b).qty \in Int /\ Adjusted(s, b).cash \in Int
  <1>1. s.book[b] \in BookRows /\ s.booked[b] \in [Fills -> Nat]
        /\ s.adj \in [qty : Int, cash : Int]
    BY DEF States
  <1> QED
    BY <1>1 DEF BookRows, Adjusted

\* A fill moves the book by what it adds to the ledger.
LEMMA ApplyExplained ==
  ASSUME NEW s \in States, NEW b \in Books, NEW f \in Fills, Explained(s)
  PROVE  Explained(Apply(s, b, f))
  <1> DEFINE t == Apply(s, b, f)
  <1>1. /\ t \in States
        /\ \A c \in Books, g \in Fills :
             t.booked[c][g] = IF c = b /\ g = f THEN s.booked[c][g] + 1 ELSE s.booked[c][g]
    BY ApplyFacts
  <1>2. /\ t.book[b] = Trade(s.book[b], Signed[f], Price[f])
        /\ \A c \in Books : c # b => t.book[c] = s.book[c] /\ t.booked[c] = s.booked[c]
        /\ t.adj = s.adj
    BY DEF Apply, States
  <1>3. /\ t.book[b].qty = s.book[b].qty + Signed[f]
        /\ t.book[b].cash = s.book[b].cash - Signed[f] * Price[f]
    BY <1>2 DEF Trade
  <1> HIDE DEF t
  <1> SUFFICES ASSUME NEW c \in Books
               PROVE  /\ t.book[c].qty = Sum(Shares(t.booked[c])) + Adjusted(t, c).qty
                      /\ t.book[c].cash = Adjusted(t, c).cash - Sum(Money(t.booked[c]))
    BY DEF t, Explained
  <1>4. /\ s.book[c].qty = Sum(Shares(s.booked[c])) + Adjusted(s, c).qty
        /\ s.book[c].cash = Adjusted(s, c).cash - Sum(Money(s.booked[c]))
        /\ Adjusted(t, c) = Adjusted(s, c)
    BY <1>2 DEF Explained, Adjusted
  <1>5. CASE c # b
    BY <1>2, <1>4, <1>5
  <1>6. CASE c = b
    <2>1. s.booked[c] \in [Fills -> Nat] /\ t.booked[c] \in [Fills -> Nat]
      BY <1>1, StateFacts
    <2>2. \A g \in Fills : t.booked[c][g] = IF g = f THEN s.booked[c][g] + 1
                                                     ELSE s.booked[c][g]
      BY <1>1, <1>6
    <2>3. /\ Sum(Shares(t.booked[c])) = Sum(Shares(s.booked[c])) + Signed[f]
          /\ Sum(Money(t.booked[c])) = Sum(Money(s.booked[c])) + Signed[f] * Price[f]
      BY <2>1, <2>2, OneMore
    <2>4. /\ Sum(Shares(s.booked[c])) \in Int /\ Sum(Money(s.booked[c])) \in Int
          /\ Adjusted(s, c).qty \in Int /\ Adjusted(s, c).cash \in Int
          /\ Signed[f] \in Int /\ Price[f] \in Int
      BY <2>1, EntriesTyped, StateFacts, SignedFacts DEF Executed
    <2>5. Signed[f] * Price[f] \in Int
      BY <2>4
    <2> QED
      BY <1>3, <1>4, <1>6, <2>3, <2>4, <2>5
  <1> QED
    BY <1>5, <1>6

\* So does an adjustment.
LEMMA AdjustExplained ==
  ASSUME NEW s \in States, NEW o \in Seen, Explained(s)
  PROVE  Explained(Adjust(s, o))
  <1> DEFINE t == Adjust(s, o)
  <1>1. t.booked = s.booked
    BY AdjustFacts
  <1>2. /\ t.book["sleeve"] = s.book["sleeve"]
        /\ t.adj = Recorded(s.adj, o)
    BY BooksFacts DEF Adjust, States
  <1>3. /\ t.book["account"].qty = s.book["account"].qty + o.dqty
        /\ t.book["account"].cash = s.book["account"].cash + o.dcash
    <2>1. s.book["account"] \in BookRows /\ s.book \in [Books -> BookRows]
      BY BooksFacts DEF States
    <2> QED
      BY <2>1, BooksFacts DEF Adjust, BookRows
  <1>4. \A c \in Books : /\ s.book[c].qty = Sum(Shares(s.booked[c])) + Adjusted(s, c).qty
                         /\ s.book[c].cash = Adjusted(s, c).cash - Sum(Money(s.booked[c]))
    BY DEF Explained
  <1> HIDE DEF t
  <1>5. /\ t.book["sleeve"].qty = Sum(Shares(t.booked["sleeve"])) + Adjusted(t, "sleeve").qty
        /\ t.book["sleeve"].cash = Adjusted(t, "sleeve").cash - Sum(Money(t.booked["sleeve"]))
    BY <1>1, <1>2, <1>4, BooksFacts DEF Adjusted
  <1>6. /\ t.book["account"].qty = Sum(Shares(t.booked["account"])) + Adjusted(t, "account").qty
        /\ t.book["account"].cash = Adjusted(t, "account").cash - Sum(Money(t.booked["account"]))
    <2>1. s.booked["account"] \in [Fills -> Nat] /\ s.adj.qty \in Int /\ s.adj.cash \in Int
      BY BooksFacts, StateFacts DEF States
    <2>2. /\ Sum(Shares(s.booked["account"])) \in Int /\ Sum(Money(s.booked["account"])) \in Int
          /\ o.dqty \in Int /\ o.dcash \in Int
      BY <2>1, EntriesTyped DEF Seen
    <2>3. /\ Adjusted(t, "account").qty = s.adj.qty + o.dqty
          /\ Adjusted(t, "account").cash = s.adj.cash + o.dcash
          /\ Adjusted(s, "account") = s.adj
      BY <1>2 DEF Adjusted, Recorded
    <2>4. /\ s.book["account"].qty = Sum(Shares(s.booked["account"])) + s.adj.qty
          /\ s.book["account"].cash = s.adj.cash - Sum(Money(s.booked["account"]))
      BY <1>4, <2>3, BooksFacts
    <2> QED
      BY <1>1, <1>3, <2>1, <2>2, <2>3, <2>4
  <1> QED
    BY <1>5, <1>6 DEF Explained, Books, t

LEMMA ExplainedPoll ==
  ASSUME TypeOK, LedgerExplainsBook, NEW p \in Pollers, Poll(p)
  PROVE  LedgerExplainsBook'
  <1> USE DEF LedgerExplainsBook
  <1>0. db \in States
    BY DEF TypeOK
  <1>1. CASE \E f \in Fills : PollRow(p, f)
    BY <1>1 DEF PollRow
  <1>2. CASE PollBook(p)
    <2>1. db' = Apply(db, "account", hand[p]) /\ draft' = draft /\ hand[p] \in Fills
      BY <1>2 DEF PollBook, TypeOK
    <2> QED
      BY <1>0, <2>1, ApplyExplained, BooksFacts
  <1>3. CASE PollSleeve(p)
    <2>1. db' = Apply(db, "sleeve", hand[p]) /\ draft' = draft /\ hand[p] \in Fills
      BY <1>3 DEF PollSleeve, TypeOK
    <2> QED
      BY <1>0, <2>1, ApplyExplained, BooksFacts
  <1>4. CASE PollSleeveFails(p) \/ PollerDies(p)
    BY <1>4 DEF PollSleeveFails, PollerDies, dataVars
  <1> QED
    BY <1>1, <1>2, <1>3, <1>4 DEF Poll

LEMMA ViewExplained ==
  ASSUME LedgerExplainsBook, NEW r
  PROVE  Explained(View(r))
  BY DEF LedgerExplainsBook, View

LEMMA ExplainedPipe ==
  ASSUME TypeOK, LedgerExplainsBook, NEW p \in Pipes, Pipe(p)
  PROVE  LedgerExplainsBook'
  <1> USE DEF LedgerExplainsBook
  <1>1. ASSUME NEW f \in Fills, PipeIngests(p, f)
        PROVE  LedgerExplainsBook'
    <2> DEFINE s == Apply(View(p), "account", f)
    <2>1. db' = db /\ draft' \in {s, Apply(s, "sleeve", f)}
      BY <1>1 DEF PipeIngests
    <2>2. s \in States /\ Explained(s)
      BY ViewType, ViewExplained, ApplyFacts, ApplyExplained, BooksFacts
    <2> HIDE DEF s
    <2>3. Explained(Apply(s, "sleeve", f))
      BY <2>2, ApplyExplained, BooksFacts
    <2> QED
      BY <2>1, <2>2, <2>3
  <1>2. CASE PipeRollsBack(p)
    BY <1>2, EmptyExplained DEF PipeRollsBack, Release
  <1>3. CASE PipeCommits(p)
    BY <1>3, EmptyExplained DEF PipeCommits, Release
  <1> QED
    BY <1>1, <1>2, <1>3 DEF Pipe

LEMMA ExplainedReconcile ==
  ASSUME TypeOK, LedgerExplainsBook, NEW r \in Recs, Reconcile(r)
  PROVE  LedgerExplainsBook'
  <1> USE DEF LedgerExplainsBook
  <1>1. CASE ApplyDrift(r)
    <2>1. /\ seen[r] \in Seen /\ db \in States /\ View(r) \in States
          /\ Explained(View(r))
      BY ViewType, ViewExplained DEF TypeOK
    <2>2. Explained(Adjust(View(r), seen[r])) /\ Explained(Adjust(db, seen[r]))
      BY <2>1, AdjustExplained
    <2> QED
      BY <1>1, <2>2 DEF ApplyDrift
  <1>2. CASE \/ Refetch(r) \/ GetPositions(r) \/ GetAccount(r) \/ VenueFails(r)
             \/ ComputeDrift(r) \/ RecDies(r)
    BY <1>2 DEF Refetch, GetPositions, GetAccount, VenueFails, ComputeDrift, RecDies, dataVars
  <1> QED
    BY <1>1, <1>2 DEF Reconcile

LEMMA ExplainedStep == TypeOK /\ LedgerExplainsBook /\ [Next]_vars => LedgerExplainsBook'
  <1> SUFFICES ASSUME TypeOK, LedgerExplainsBook, [Next]_vars
               PROVE  LedgerExplainsBook'
    OBVIOUS
  <1>1. CASE (\E f \in Executed : VenueExecutes(f)) \/ UNCHANGED vars
    BY <1>1 DEF VenueExecutes, LedgerExplainsBook, dataVars, vars
  <1> QED
    BY <1>1, ExplainedPoll, ExplainedPipe, ExplainedReconcile DEF Next

\* Whatever polls, pipelines, rollbacks and reconciliations interleave, position
\* and cash of the account and of the sleeve are what their ledgers say, for any
\* fills and any number of them.
THEOREM LedgerExplains == Spec => []LedgerExplainsBook
  <1>1. Init => LedgerExplainsBook
    BY EmptyExplained DEF Init, LedgerExplainsBook
  <1> QED
    BY TypeCorrect, <1>1, ExplainedStep, PTL DEF Spec

-----------------------------------------------------------------------------
(* Average cost.                                                            *)

\* A trade that enlarges the position moves its average to a whole number.
Exact(b, q, p) ==
  Reduces(b, q) \/ (Size(b.qty) * b.cost + Size(q) * p) % (Size(b.qty) + Size(q)) = 0

\* What the model leaves out, the rounding of averages, does not happen: not for
\* the sleeve's book as it is and the fills that are still to come.
AveragesExact ==
  \A s \in {db, draft}, f \in Fills :
    s.booked["sleeve"][f] = 0 => Exact(s.book["sleeve"], Signed[f], Price[f])

LEMMA Products ==
  ASSUME NEW x \in Int, NEW y \in Int
  PROVE  /\ x * y \in Int /\ (-x) * y = -(x * y) /\ x * (-y) = -(x * y)
         /\ x * y = y * x
  OBVIOUS

LEMMA Distributes ==
  ASSUME NEW x \in Int, NEW y \in Int, NEW z \in Int
  PROVE  /\ (x + y) * z = x * z + y * z
         /\ (x - y) * z = x * z - y * z
         /\ (x - y) * (-z) = y * z - x * z
         /\ z * (x - y) = z * x - z * y
  OBVIOUS

LEMMA WholeAverage ==
  ASSUME NEW sum \in Int, NEW all \in Int, all > 0, sum % all = 0
  PROVE  (sum \div all) \in Int /\ (sum \div all) * all = sum
  OBVIOUS

\* Buying, selling, closing and turning round keep a book that adds up adding up.
LEMMA TradeAddsUp ==
  ASSUME NEW b \in BookRows, NEW q \in Int, NEW p \in Int, q # 0, AddsUp(b), Exact(b, q, p)
  PROVE  AddsUp(Trade(b, q, p))
  <1> DEFINE n == b.qty
             c == b.cost
             t == Trade(b, q, p)
  <1>1. /\ n \in Int /\ c \in Int /\ b.cash \in Int /\ b.realized \in Int
        /\ b.cash = b.realized - n * c
    BY DEF BookRows, AddsUp
  <1>2. /\ t.qty = n + q /\ t.cost = Cost(b, q, p)
        /\ t.realized = b.realized + Gain(b, q, p)
        /\ t.cash = b.cash - q * p
    BY DEF Trade
  <1>3. Reduces(b, q) <=> (n > 0 /\ q < 0) \/ (n < 0 /\ q > 0)
    BY <1>1 DEF Reduces
  <1>4. /\ Size(n) = IF n < 0 THEN -n ELSE n
        /\ Size(q) = IF q < 0 THEN -q ELSE q
    BY DEF Size
  <1>5. n * c \in Int /\ q * p \in Int /\ q * c \in Int /\ n * p \in Int
    BY <1>1, Products
  <1>6. /\ (n + q) * p = n * p + q * p
        /\ (n + q) * c = n * c + q * c
    BY <1>1, Distributes
  <1> SUFFICES t.cash = t.realized - t.qty * t.cost
    BY DEF AddsUp
  <1>7. CASE ~Reduces(b, q)
    <2>1. Gain(b, q, p) = 0
      BY <1>7 DEF Gain
    <2>2. CASE n = 0
      <3>1. Cost(b, q, p) = p /\ 0 * c = 0 /\ 0 + q = q
        BY <1>1, <2>2 DEF Cost
      <3> QED
        BY <1>1, <1>2, <1>5, <2>1, <2>2, <3>1
    <2>3. CASE n # 0
      <3> DEFINE sum == Size(n) * c + Size(q) * p
                 all == Size(n) + Size(q)
      <3>1. (n > 0 /\ q > 0) \/ (n < 0 /\ q < 0)
        BY <1>1, <1>3, <1>7, <2>3
      <3>2. Cost(b, q, p) = sum \div all
        <4>1. ~Flips(b, q) /\ n + q # 0
          BY <1>1, <1>7, <3>1 DEF Flips
        <4> QED
          BY <1>7, <2>3, <4>1 DEF Cost
      <3>3. \/ sum = n * c + q * p /\ all = n + q
            \/ sum = -(n * c) - q * p /\ all = -(n + q)
        <4>1. CASE n > 0 /\ q > 0
          BY <1>1, <1>4, <4>1
        <4>2. CASE n < 0 /\ q < 0
          <5>1. Size(n) = -n /\ Size(q) = -q
            BY <1>1, <1>4, <4>2
          <5>2. (-n) * c = -(n * c) /\ (-q) * p = -(q * p)
            BY <1>1, Products
          <5> QED
            BY <1>1, <1>5, <5>1, <5>2
        <4> QED
          BY <3>1, <4>1, <4>2
      <3>4. all \in Int /\ all > 0 /\ sum \in Int
        BY <1>1, <1>4, <1>5, <3>1, <3>3
      <3>5. sum % all = 0
        BY <1>7 DEF Exact
      <3> HIDE DEF sum, all
      <3> DEFINE a == sum \div all
      <3>6. a \in Int /\ a * all = sum
        BY <3>4, <3>5, WholeAverage
      <3> HIDE DEF a
      <3>7. (n + q) * a = n * c + q * p
        <4>1. n + q \in Int /\ a * (n + q) = (n + q) * a /\ a * (-(n + q)) = -(a * (n + q))
              /\ a * (n + q) \in Int
          BY <1>1, <3>6, Products
        <4> QED
          BY <1>5, <3>3, <3>6, <4>1
      <3> QED
        BY <1>1, <1>2, <1>5, <2>1, <3>2, <3>6, <3>7 DEF a
    <2> QED
      BY <2>2, <2>3
  <1>8. CASE Reduces(b, q)
    <2>1. CASE Size(q) > Size(n) \/ n + q = 0
      <3>1. Smaller(Size(n), Size(q)) = Size(n)
        BY <1>1, <1>4, <2>1 DEF Smaller
      <3>2. Gain(b, q, p) = n * p - n * c
        <4>1. CASE n > 0
          <5>1. (p - c) * n = p * n - c * n /\ p * n = n * p /\ c * n = n * c
            BY <1>1, Products, Distributes
          <5> QED
            BY <1>1, <1>4, <1>8, <3>1, <4>1, <5>1 DEF Gain
        <4>2. CASE n < 0
          <5>1. (c - p) * (-n) = p * n - c * n /\ p * n = n * p /\ c * n = n * c
            <6>1. (c - p) * (-n) = p * n - c * n
              BY <1>1, Distributes
            <6>2. p * n = n * p /\ c * n = n * c
              BY <1>1, Products
            <6> QED
              BY <6>1, <6>2
          <5> QED
            BY <1>1, <1>4, <1>8, <3>1, <4>2, <5>1 DEF Gain
        <4> QED
          BY <1>1, <1>3, <1>8, <4>1, <4>2
      <3>3. (n + q) * Cost(b, q, p) = (n + q) * p
        <4>1. CASE n + q = 0
          <5>1. Cost(b, q, p) = 0 /\ 0 * p = 0
            BY <4>1 DEF Cost
          <5> QED
            BY <4>1, <5>1
        <4>2. CASE n + q # 0
          BY <1>8, <2>1, <4>2 DEF Cost, Flips
        <4> QED
          BY <4>1, <4>2
      <3> QED
        BY <1>1, <1>2, <1>5, <1>6, <3>2, <3>3
    <2>2. CASE ~(Size(q) > Size(n)) /\ n + q # 0
      <3>1. Smaller(Size(n), Size(q)) = Size(q)
        BY <1>1, <1>3, <1>4, <1>8, <2>2 DEF Smaller
      <3>2. Gain(b, q, p) = q * c - q * p
        <4>1. CASE n > 0
          <5>1. (p - c) * (-q) = c * q - p * q /\ p * q = q * p /\ c * q = q * c
            BY <1>1, Products, Distributes
          <5>2. Size(q) = -q
            BY <1>1, <1>3, <1>4, <1>8, <4>1
          <5> QED
            BY <1>1, <1>8, <3>1, <4>1, <5>1, <5>2 DEF Gain
        <4>2. CASE n < 0
          <5>1. (c - p) * q = c * q - p * q /\ p * q = q * p /\ c * q = q * c
            BY <1>1, Products, Distributes
          <5>2. Size(q) = q
            BY <1>1, <1>3, <1>4, <1>8, <4>2
          <5> QED
            BY <1>1, <1>8, <3>1, <4>2, <5>1, <5>2 DEF Gain
        <4> QED
          BY <1>1, <1>3, <1>8, <4>1, <4>2
      <3>3. Cost(b, q, p) = c
        BY <1>1, <1>3, <1>8, <2>2 DEF Cost, Flips
      <3> QED
        BY <1>1, <1>2, <1>5, <1>6, <3>2, <3>3
    <2> QED
      BY <2>1, <2>2
  <1> QED
    BY <1>7, <1>8

LEMMA AdjustsAccountOnly ==
  ASSUME NEW s \in States, NEW o \in Seen
  PROVE  Adjust(s, o).book["sleeve"] = s.book["sleeve"]
  BY BooksFacts DEF Adjust, States

LEMMA SleeveOfApply ==
  ASSUME NEW s \in States, NEW f \in Fills
  PROVE  /\ Apply(s, "account", f).book["sleeve"] = s.book["sleeve"]
         /\ Apply(s, "sleeve", f).book["sleeve"]
              = Trade(s.book["sleeve"], Signed[f], Price[f])
  BY BooksFacts DEF Apply, States

LEMMA EmptyAddsUp == AddsUp(EmptyState.book["sleeve"])
  BY BooksFacts DEF EmptyState, Empty, AddsUp

\* A fill that the sleeve's ledger does not hold yet is applied to its book.
LEMMA ApplyAddsUp ==
  ASSUME NEW s \in States, NEW f \in Fills, AddsUp(s.book["sleeve"]),
         Exact(s.book["sleeve"], Signed[f], Price[f])
  PROVE  /\ AddsUp(Apply(s, "account", f).book["sleeve"])
         /\ AddsUp(Apply(s, "sleeve", f).book["sleeve"])
  <1>1. s.book["sleeve"] \in BookRows /\ Signed[f] \in Int /\ Price[f] \in Int /\ Signed[f] # 0
    BY StateFacts, BooksFacts, SignedFacts DEF Executed
  <1> QED
    BY <1>1, SleeveOfApply, TradeAddsUp

LEMMA AddsUpPoll ==
  ASSUME TypeOK, Booking, AveragesExact, AverageCostAddsUp, NEW p \in Pollers, Poll(p)
  PROVE  AverageCostAddsUp'
  <1> USE DEF AverageCostAddsUp
  <1>0. db \in States
    BY DEF TypeOK
  <1>1. CASE \E f \in Fills : PollRow(p, f)
    BY <1>1 DEF PollRow
  <1>2. CASE PollBook(p)
    <2>1. db' = Apply(db, "account", hand[p]) /\ draft' = draft /\ hand[p] \in Fills
      BY <1>2 DEF PollBook, TypeOK
    <2> QED
      BY <1>0, <2>1, SleeveOfApply
  <1>3. CASE PollSleeve(p)
    <2>1. db' = Apply(db, "sleeve", hand[p]) /\ draft' = draft /\ hand[p] \in Fills
      BY <1>3 DEF PollSleeve, TypeOK
    <2>2. db.booked["sleeve"][hand[p]] = 0
      BY <1>3 DEF PollSleeve, Booking, HandIsOwn
    <2> QED
      BY <1>0, <2>1, <2>2, ApplyAddsUp DEF AveragesExact
  <1>4. CASE PollSleeveFails(p) \/ PollerDies(p)
    BY <1>4 DEF PollSleeveFails, PollerDies, dataVars
  <1> QED
    BY <1>1, <1>2, <1>3, <1>4 DEF Poll

LEMMA AddsUpPipe ==
  ASSUME TypeOK, Booking, AveragesExact, AverageCostAddsUp, NEW p \in Pipes, Pipe(p)
  PROVE  AverageCostAddsUp'
  <1> USE DEF AverageCostAddsUp
  <1>1. ASSUME NEW f \in Fills, PipeIngests(p, f)
        PROVE  AverageCostAddsUp'
    <2> DEFINE s == Apply(View(p), "account", f)
    <2>1. db' = db /\ draft' \in {s, Apply(s, "sleeve", f)}
      BY <1>1 DEF PipeIngests
    <2>2. View(p) \in States /\ View(p) \in {db, draft} /\ AddsUp(View(p).book["sleeve"])
      BY ViewType DEF View
    <2>3. View(p).booked["sleeve"][f] = 0
      BY <1>1, FreshForPipe
    <2>4. s \in States /\ s.book["sleeve"] = View(p).book["sleeve"]
      BY <2>2, ApplyFacts, SleeveOfApply, BooksFacts
    <2>5. Exact(View(p).book["sleeve"], Signed[f], Price[f])
      BY <2>2, <2>3 DEF AveragesExact
    <2> HIDE DEF s
    <2>6. AddsUp(s.book["sleeve"]) /\ AddsUp(Apply(s, "sleeve", f).book["sleeve"])
      BY <2>2, <2>4, <2>5, ApplyAddsUp
    <2> QED
      BY <2>1, <2>2, <2>6
  <1>2. CASE PipeRollsBack(p)
    BY <1>2, EmptyAddsUp DEF PipeRollsBack, Release
  <1>3. CASE PipeCommits(p)
    BY <1>3, EmptyAddsUp DEF PipeCommits, Release
  <1> QED
    BY <1>1, <1>2, <1>3 DEF Pipe

LEMMA AddsUpReconcile ==
  ASSUME TypeOK, AverageCostAddsUp, NEW r \in Recs, Reconcile(r)
  PROVE  AverageCostAddsUp'
  <1> USE DEF AverageCostAddsUp
  <1>1. CASE ApplyDrift(r)
    <2>1. /\ seen[r] \in Seen /\ db \in States /\ View(r) \in States
          /\ AddsUp(View(r).book["sleeve"])
      BY ViewType DEF TypeOK, View
    <2> QED
      BY <1>1, <2>1, AdjustsAccountOnly DEF ApplyDrift
  <1>2. CASE \/ Refetch(r) \/ GetPositions(r) \/ GetAccount(r) \/ VenueFails(r)
             \/ ComputeDrift(r) \/ RecDies(r)
    BY <1>2 DEF Refetch, GetPositions, GetAccount, VenueFails, ComputeDrift, RecDies, dataVars
  <1> QED
    BY <1>1, <1>2 DEF Reconcile

LEMMA AddsUpStep ==
  TypeOK /\ Booking /\ AveragesExact /\ AverageCostAddsUp /\ [Next]_vars => AverageCostAddsUp'
  <1> SUFFICES ASSUME TypeOK, Booking, AveragesExact, AverageCostAddsUp, [Next]_vars
               PROVE  AverageCostAddsUp'
    OBVIOUS
  <1>1. CASE (\E f \in Executed : VenueExecutes(f)) \/ UNCHANGED vars
    BY <1>1 DEF VenueExecutes, AverageCostAddsUp, dataVars, vars
  <1> QED
    BY <1>1, AddsUpPoll, AddsUpPipe, AddsUpReconcile DEF Next

\* Unless an average is rounded, cash, realised profit and cost of a sleeve's book
\* add up whatever is bought, sold, closed and turned round, in every order and
\* with every rollback, failure and death.
THEOREM AverageAddsUp == Spec /\ []AveragesExact => []AverageCostAddsUp
  <1>1. Init => AverageCostAddsUp
    BY EmptyAddsUp DEF Init, AverageCostAddsUp
  <1> QED
    BY TypeCorrect, BookingHolds, <1>1, AddsUpStep, PTL DEF Spec
=============================================================================
