--------------------------- MODULE OrderLifecycle ---------------------------
(***************************************************************************)
(* The life of a BrokerOrder row on one credentialed paper account, from   *)
(* its creation to its fills: apps/brokers (confirmation.py,               *)
(* idempotency.py, reconcile.py, views.py, tasks.py) and the release and   *)
(* emission paths of apps/portfolios/autopilot.py.                         *)
(*                                                                         *)
(* Web requests and Celery tasks run concurrently (a threaded web server   *)
(* and a worker with eight children) and share nothing but the database,   *)
(* where every .save() and .update() commits on its own.  A HANDLER is one *)
(* such request or task while it deals with one order.  It carries what it *)
(* has READ in its own variables, so every decision taken on a row loaded  *)
(* earlier is taken here on the stale copy, as in the code.                *)
(*                                                                         *)
(* The venue is outside the repository.  It is modelled by what the        *)
(* adapters can observe: it accepts or refuses a POST, executes an order   *)
(* in up to two parts, closes it, and answers queries - or does not.       *)
(***************************************************************************)
EXTENDS Naturals, FiniteSets

CONSTANTS
  Orders,       \* the rows of BrokerOrder (plain orders, no bracket legs)
  Handlers,     \* requests and tasks that may run at the same time
  NoOrder,      \* what an idle handler works on
  MaxCrashes    \* bound: how many handlers may die in one behaviour

ASSUME CrashBound == MaxCrashes \in Nat
ASSUME NoOrderIsNone == NoOrder \notin Orders

VARIABLES
  status,    \* BrokerOrder.status ("absent": the row is not created yet)
  idem,      \* BrokerOrder.idempotency_state
  bid,       \* is broker_order_id set?
  err,       \* is error_message set?
  booked,    \* shares of this order's BrokerFill rows
  account,   \* BrokerAccount.connection_status: "active" or "needs_reauth"
  vstate,    \* venue: "none", "working", "cancelling" or "closed"
  exec,      \* venue: shares executed, 0, 1 (partly) or 2 (wholly)
  accepted,  \* venue: how many POSTs of this client_order_id it accepted
  late,      \* network: a POST nobody waits for any more is still under way
  pc,        \* handler: what it does next
  on,        \* handler: the order it works on
  kind,      \* handler: "confirm" (the owner) or "machine" (the autopilot)
  ready,     \* handler: the row it READ was a draft on an active account
  reply,     \* handler: the venue's answer to the POST it waits for
  snap,      \* handler: the order status the venue last reported to it
  fillq,     \* handler: the shares the venue's fill list gave it
  crashes    \* how many handlers have died

rowVars   == <<status, idem, bid, err, booked>>
venueVars == <<vstate, exec, accepted, late>>
handVars  == <<pc, on, kind, ready, reply, snap, fillq>>
vars == <<rowVars, account, venueVars, handVars, crashes>>

Statuses == {"absent", "draft", "pending_open", "confirmed", "submitted",
             "partial", "filled", "cancelled", "rejected", "error"}
OpenStatuses == {"submitted", "partial"}
IdemStates == {"unsubmitted", "submit_pending", "acknowledged", "unknown"}
VenueStates == {"none", "working", "cancelling", "closed"}
Replies == {"none", "accepted", "refused", "denied"}
Reports == {"submitted", "partial", "filled", "cancelled", "rejected"}
Steps == {"idle", "hold", "reset", "refresh", "gate", "claim", "wait", "find",
          "adopt", "expire", "reread", "getorder", "getfills", "ingest",
          "apply", "cancelrow", "cancelvenue", "cancelsave", "sweep"}

RowTypes ==
  /\ status   \in [Orders -> Statuses]
  /\ idem     \in [Orders -> IdemStates]
  /\ bid      \in [Orders -> BOOLEAN]
  /\ err      \in [Orders -> BOOLEAN]
  /\ booked   \in [Orders -> Nat]

VenueTypes ==
  /\ vstate   \in [Orders -> VenueStates]
  /\ exec     \in [Orders -> 0..2]
  /\ accepted \in [Orders -> Nat]
  /\ late     \in [Orders -> BOOLEAN]

HandlerTypes ==
  /\ pc       \in [Handlers -> Steps]
  /\ on       \in [Handlers -> Orders \cup {NoOrder}]
  /\ kind     \in [Handlers -> {"confirm", "machine"}]
  /\ ready    \in [Handlers -> BOOLEAN]
  /\ reply    \in [Handlers -> Replies]
  /\ snap     \in [Handlers -> Reports]
  /\ fillq    \in [Handlers -> 0..2]
  /\ \A h \in Handlers : pc[h] # "idle" => on[h] \in Orders

OtherTypes ==
  /\ account \in {"active", "needs_reauth"}
  /\ crashes \in Nat

\* The type invariant; among others, a handler that is busy has an order.
TypeOK == RowTypes /\ VenueTypes /\ HandlerTypes /\ OtherTypes

Init ==
  /\ status   = [o \in Orders |-> "absent"]
  /\ idem     = [o \in Orders |-> "unsubmitted"]
  /\ bid      = [o \in Orders |-> FALSE]
  /\ err      = [o \in Orders |-> FALSE]
  /\ booked   = [o \in Orders |-> 0]
  /\ account  = "active"
  /\ vstate   = [o \in Orders |-> "none"]
  /\ exec     = [o \in Orders |-> 0]
  /\ accepted = [o \in Orders |-> 0]
  /\ late     = [o \in Orders |-> FALSE]
  /\ pc       = [h \in Handlers |-> "idle"]
  /\ on       = [h \in Handlers |-> NoOrder]
  /\ kind     = [h \in Handlers |-> "confirm"]
  /\ ready    = [h \in Handlers |-> FALSE]
  /\ reply    = [h \in Handlers |-> "none"]
  /\ snap     = [h \in Handlers |-> "submitted"]
  /\ fillq    = [h \in Handlers |-> 0]
  /\ crashes  = 0

-----------------------------------------------------------------------------
(* Moving a handler.  A handler that ends forgets what it read.            *)

Goto(h, step) == pc' = [pc EXCEPT ![h] = step]

Begin(h, o, step) ==
  /\ pc[h] = "idle"
  /\ pc' = [pc EXCEPT ![h] = step]
  /\ on' = [on EXCEPT ![h] = o]

End(h) ==
  /\ pc'    = [pc EXCEPT ![h] = "idle"]
  /\ on'    = [on EXCEPT ![h] = NoOrder]
  /\ kind'  = [kind EXCEPT ![h] = "confirm"]
  /\ ready' = [ready EXCEPT ![h] = FALSE]
  /\ reply' = [reply EXCEPT ![h] = "none"]
  /\ snap'  = [snap EXCEPT ![h] = "submitted"]
  /\ fillq' = [fillq EXCEPT ![h] = 0]

SetStatus(o, s) == status' = [status EXCEPT ![o] = s]

(* An auth error darkens the account only if a second probe fails too.     *)
MaybeDarken == account' \in {account, "needs_reauth"}

-----------------------------------------------------------------------------
(* Creating orders.                                                        *)

\* The owner drafts an order.
CreateDraft(o) ==
  /\ status[o] = "absent"
  /\ SetStatus(o, "draft")
  /\ UNCHANGED <<idem, bid, err, booked, account, venueVars, handVars, crashes>>

\* The autopilot emits an order while the market is closed.  The row is created
\* as a draft, visible to every other handler, and held by a second write.
EmitClosed(h, o) ==
  /\ status[o] = "absent"
  /\ Begin(h, o, "hold")
  /\ SetStatus(o, "draft")
  /\ UNCHANGED <<idem, bid, err, booked, account, venueVars, kind, ready, reply,
                 snap, fillq, crashes>>

HoldForOpen(h) ==
  /\ pc[h] = "hold"
  /\ SetStatus(on[h], "pending_open")
  /\ End(h)
  /\ UNCHANGED <<idem, bid, err, booked, account, venueVars, crashes>>

\* The autopilot emits an order while the market is open: the draft goes on to
\* the gate, with the account as the cycle loaded it.
EmitNow(h, o) ==
  /\ status[o] = "absent"
  /\ Begin(h, o, "gate")
  /\ SetStatus(o, "draft")
  /\ kind'  = [kind EXCEPT ![h] = "machine"]
  /\ ready' = [ready EXCEPT ![h] = (account = "active")]
  /\ UNCHANGED <<idem, bid, err, booked, account, venueVars, reply, snap,
                 fillq, crashes>>

-----------------------------------------------------------------------------
(* Confirming: the gate, then the submission.                              *)

\* Slip: the view confirms any row.
StartConfirmAny(h, o) ==
  /\ status[o] # "absent"
  /\ account = "active"
  /\ Begin(h, o, "gate")
  /\ ready' = [ready EXCEPT ![h] = TRUE]
  /\ UNCHANGED <<rowVars, account, venueVars, kind, reply, snap, fillq, crashes>>

\* The confirm view loads the row with its account; both checks of the gate
\* that concern the row and the account are made on this copy.
StartConfirm(h, o) ==
  /\ status[o] = "draft"
  /\ account = "active"
  /\ Begin(h, o, "gate")
  /\ ready' = [ready EXCEPT ![h] = TRUE]
  /\ UNCHANGED <<rowVars, account, venueVars, kind, reply, snap, fillq, crashes>>

\* The release task lists the held orders ...
StartRelease(h, o) ==
  /\ status[o] = "pending_open"
  /\ Begin(h, o, "reset")
  /\ kind' = [kind EXCEPT ![h] = "machine"]
  /\ UNCHANGED <<rowVars, account, venueVars, ready, reply, snap, fillq, crashes>>

\* ... and resets each to draft, whatever its status has become ...
ResetHeld(h) ==
  /\ pc[h] = "reset"
  /\ SetStatus(on[h], "draft")
  /\ Goto(h, "refresh")
  /\ UNCHANGED <<idem, bid, err, booked, account, venueVars, on, kind, ready,
                 reply, snap, fillq, crashes>>

\* ... and reads it back, and its account with it.
RefreshHeld(h) ==
  /\ pc[h] = "refresh"
  /\ ready' = [ready EXCEPT ![h] = status[on[h]] = "draft" /\ account = "active"]
  /\ Goto(h, "gate")
  /\ UNCHANGED <<rowVars, account, venueVars, on, kind, reply, snap, fillq,
                 crashes>>

\* The gate passes: it writes `confirmed` to the row by primary key.
GatePasses(h) ==
  /\ pc[h] = "gate"
  /\ ready[h]
  /\ SetStatus(on[h], "confirmed")
  /\ Goto(h, "claim")
  /\ UNCHANGED <<idem, bid, err, booked, account, venueVars, on, kind, ready,
                 reply, snap, fillq, crashes>>

\* The gate refuses: not a draft, account not active, a risk limit, a missing
\* confirmation, or (autopilot) nothing left after the venue fit.  The view
\* answers 4xx; the autopilot marks the row rejected.
GateRefuses(h) ==
  /\ pc[h] = "gate"
  /\ \/ /\ kind[h] = "machine"
        /\ SetStatus(on[h], "rejected")
        /\ err' = [err EXCEPT ![on[h]] = TRUE]
     \/ /\ kind[h] = "confirm"
        /\ UNCHANGED <<status, err>>
  /\ End(h)
  /\ UNCHANGED <<idem, bid, booked, account, venueVars, crashes>>

\* Slip: the row is read, then saved, without a conditional UPDATE.
ClaimUnguarded(h) ==
  /\ pc[h] = "claim"
  /\ idem' = [idem EXCEPT ![on[h]] = "submit_pending"]
  /\ Goto(h, "wait")
  /\ UNCHANGED <<status, bid, err, booked, account, venueVars, on, kind, ready,
                 reply, snap, fillq, crashes>>

\* The conditional UPDATE unsubmitted -> submit_pending.  Exactly one caller
\* gets the row and POSTs it; any other sees IdempotencyConflict and ends.
Claim(h) ==
  /\ pc[h] = "claim"
  /\ idem[on[h]] = "unsubmitted"
  /\ idem' = [idem EXCEPT ![on[h]] = "submit_pending"]
  /\ Goto(h, "wait")
  /\ UNCHANGED <<status, bid, err, booked, account, venueVars, on, kind, ready,
                 reply, snap, fillq, crashes>>

ClaimConflict(h) ==
  /\ pc[h] = "claim"
  /\ idem[on[h]] # "unsubmitted"
  /\ End(h)
  /\ UNCHANGED <<rowVars, account, venueVars, crashes>>

-----------------------------------------------------------------------------
(* The venue's side of a submission.                                       *)

PlaceAtVenue(o) ==
  /\ accepted' = [accepted EXCEPT ![o] = @ + 1]
  /\ vstate'   = [vstate EXCEPT ![o] = IF @ = "none" THEN "working" ELSE @]

VenueAccepts(h) ==
  /\ pc[h] = "wait"
  /\ reply[h] = "none"
  /\ PlaceAtVenue(on[h])
  /\ reply' = [reply EXCEPT ![h] = "accepted"]
  /\ UNCHANGED <<rowVars, account, exec, late, pc, on, kind, ready, snap, fillq,
                 crashes>>

\* "refused": a documented rejection of the order; "denied": HTTP 401/403.
VenueRefuses(h) ==
  /\ pc[h] = "wait"
  /\ reply[h] = "none"
  /\ \E r \in {"refused", "denied"} : reply' = [reply EXCEPT ![h] = r]
  /\ UNCHANGED <<rowVars, account, venueVars, pc, on, kind, ready, snap, fillq,
                 crashes>>

\* A POST whose sender has given up on it arrives after all, or is lost.
LatePostArrives(o) ==
  /\ late[o]
  /\ PlaceAtVenue(o)
  /\ late' = [late EXCEPT ![o] = FALSE]
  /\ UNCHANGED <<rowVars, account, exec, handVars, crashes>>

LatePostLost(o) ==
  /\ late[o]
  /\ late' = [late EXCEPT ![o] = FALSE]
  /\ UNCHANGED <<rowVars, account, vstate, exec, accepted, handVars, crashes>>

\* What the sender leaves behind when it stops waiting.
AbandonPost(h) ==
  \/ UNCHANGED late
  \/ /\ reply[h] = "none"
     /\ late' = [late EXCEPT ![on[h]] = TRUE]

-----------------------------------------------------------------------------
(* The four ways submit_idempotent ends.                                   *)

\* The statuses an adapter may report for the order.  `pending_cancel` and
\* `canceled` both read `cancelled`; an order that closes without an execution
\* may have been rejected after its POST was accepted.
Report(o) ==
  CASE vstate[o] = "working" -> {IF exec[o] = 0 THEN "submitted" ELSE "partial"}
    [] vstate[o] = "closed" /\ exec[o] = 2 -> {"filled"}
    [] vstate[o] = "closed" /\ exec[o] = 0 -> {"cancelled", "rejected"}
    [] OTHER -> {"cancelled"}

\* The answer to the POST carries a status the order has had since it was
\* accepted: the one of now, or an earlier one.
Answers(o) ==
  Report(o) \cup {"submitted"} \cup (IF exec[o] > 0 THEN {"partial"} ELSE {})

\* The answer's status is written to the row, whatever it is: an order the venue
\* answers `filled` at once has no fill of it booked yet.
SubmitAcknowledged(h) ==
  /\ pc[h] = "wait"
  /\ reply[h] = "accepted"
  /\ idem' = [idem EXCEPT ![on[h]] = "acknowledged"]
  /\ bid'  = [bid EXCEPT ![on[h]] = TRUE]
  /\ \E s \in Answers(on[h]) : SetStatus(on[h], s)
  /\ \/ /\ kind[h] = "confirm"      \* the post-confirm pipeline follows
        /\ Goto(h, "getorder")
        /\ UNCHANGED <<on, kind, ready, reply, snap, fillq>>
     \/ /\ kind[h] = "machine"
        /\ End(h)
  /\ UNCHANGED <<err, booked, account, venueVars, crashes>>

\* Slip: a timeout is taken for a refusal.
SubmitTimeoutWalksBack(h) ==
  /\ pc[h] = "wait"
  /\ idem' = [idem EXCEPT ![on[h]] = "unsubmitted"]
  /\ SetStatus(on[h], "error")
  /\ err'  = [err EXCEPT ![on[h]] = TRUE]
  /\ AbandonPost(h)
  /\ End(h)
  /\ UNCHANGED <<bid, booked, account, vstate, exec, accepted, crashes>>

\* BrokerTransientError: a timeout, a lost answer, 429, 5xx, an HTML page.
SubmitUnknown(h) ==
  /\ pc[h] = "wait"
  /\ idem' = [idem EXCEPT ![on[h]] = "unknown"]
  /\ SetStatus(on[h], "error")
  /\ err'  = [err EXCEPT ![on[h]] = TRUE]
  /\ AbandonPost(h)
  /\ End(h)
  /\ UNCHANGED <<bid, booked, account, vstate, exec, accepted, crashes>>

\* BrokerAuthError: the row is walked back to a re-submittable state.
SubmitDenied(h) ==
  /\ pc[h] = "wait"
  /\ reply[h] = "denied"
  /\ idem' = [idem EXCEPT ![on[h]] = "unsubmitted"]
  /\ SetStatus(on[h], "confirmed")
  /\ err'  = [err EXCEPT ![on[h]] = TRUE]
  /\ MaybeDarken
  /\ End(h)
  /\ UNCHANGED <<bid, booked, venueVars, crashes>>

\* BrokerError: the venue refused the order.
SubmitRefused(h) ==
  /\ pc[h] = "wait"
  /\ reply[h] = "refused"
  /\ idem' = [idem EXCEPT ![on[h]] = "unsubmitted"]
  /\ SetStatus(on[h], "rejected")
  /\ err'  = [err EXCEPT ![on[h]] = TRUE]
  /\ End(h)
  /\ UNCHANGED <<bid, booked, account, venueVars, crashes>>

-----------------------------------------------------------------------------
(* The venue works the order.                                              *)

VenueExecutes(o) ==
  /\ vstate[o] \in {"working", "cancelling"}
  /\ exec[o] < 2
  /\ exec' = [exec EXCEPT ![o] = @ + 1]
  /\ vstate' = [vstate EXCEPT ![o] = IF exec[o] = 1 THEN "closed" ELSE @]
  /\ UNCHANGED <<rowVars, account, accepted, late, handVars, crashes>>

\* The order expires, or a cancellation takes effect.
VenueCloses(o) ==
  /\ vstate[o] \in {"working", "cancelling"}
  /\ vstate' = [vstate EXCEPT ![o] = "closed"]
  /\ UNCHANGED <<rowVars, account, exec, accepted, late, handVars, crashes>>

\* The executions an adapter lists: those of CLOSED orders only.
FillList(o) == IF vstate[o] = "closed" THEN exec[o] ELSE 0

-----------------------------------------------------------------------------
(* Polling: ask for the order, then for its fills, then write.             *)

\* Slips: one of the two families of rows, or one open status, is forgotten.
PollableOpenOnly(o) == status[o] \in OpenStatuses

PollableSubmittedOnly(o) == status[o] = "submitted" \/ idem[o] = "unknown"

\* The rows a poll must look at.
Pollable(o) == status[o] \in OpenStatuses \/ idem[o] = "unknown"

StartPoll(h, o) ==
  /\ Pollable(o)
  /\ account = "active"
  /\ \/ idem[o] = "unknown" /\ Begin(h, o, "find")
     \/ idem[o] # "unknown" /\ bid[o] /\ Begin(h, o, "getorder")
  /\ UNCHANGED <<rowVars, account, venueVars, kind, ready, reply, snap, fillq,
                 crashes>>

\* resolve_unknown asks for the order by its client id.  No record of it: the
\* row waits for the next pass or, once the grace window is over, is rejected.
Find(h) ==
  /\ pc[h] = "find"
  /\ \/ /\ vstate[on[h]] # "none"
        /\ \E r \in Report(on[h]) : snap' = [snap EXCEPT ![h] = r]
        /\ Goto(h, "adopt")
        /\ UNCHANGED <<on, kind, ready, reply, fillq>>
     \/ /\ vstate[on[h]] = "none"
        /\ Goto(h, "expire")
        /\ UNCHANGED <<on, kind, ready, reply, snap, fillq>>
     \/ /\ vstate[on[h]] = "none"
        /\ Goto(h, "reread")
        /\ UNCHANGED <<on, kind, ready, reply, snap, fillq>>
  /\ UNCHANGED <<rowVars, account, venueVars, crashes>>

Adopt(h) ==
  /\ pc[h] = "adopt"
  /\ idem' = [idem EXCEPT ![on[h]] = "acknowledged"]
  /\ bid'  = [bid EXCEPT ![on[h]] = TRUE]
  /\ err'  = [err EXCEPT ![on[h]] = FALSE]
  /\ SetStatus(on[h], snap[h])
  /\ Goto(h, "getorder")
  /\ UNCHANGED <<booked, account, venueVars, on, kind, ready, reply, snap, fillq,
                 crashes>>

\* Slip: the grace window closes the case for good.
GraceForgets(h) ==
  /\ pc[h] = "expire"
  /\ SetStatus(on[h], "rejected")
  /\ idem' = [idem EXCEPT ![on[h]] = "unsubmitted"]
  /\ err' = [err EXCEPT ![on[h]] = TRUE]
  /\ Goto(h, "reread")
  /\ UNCHANGED <<bid, booked, account, venueVars, on, kind, ready,
                 reply, snap, fillq, crashes>>

\* The grace window is over: `rejected`, but still idempotency `unknown`.
GraceExpires(h) ==
  /\ pc[h] = "expire"
  /\ SetStatus(on[h], "rejected")
  /\ err' = [err EXCEPT ![on[h]] = TRUE]
  /\ Goto(h, "reread")
  /\ UNCHANGED <<idem, bid, booked, account, venueVars, on, kind, ready,
                 reply, snap, fillq, crashes>>

\* Either way the row is read back: another handler may have adopted it.
RereadUnknown(h) ==
  /\ pc[h] = "reread"
  /\ \/ /\ bid[on[h]]
        /\ Goto(h, "getorder")
        /\ UNCHANGED <<on, kind, ready, reply, snap, fillq>>
     \/ /\ ~bid[on[h]]
        /\ End(h)
  /\ UNCHANGED <<rowVars, account, venueVars, crashes>>

GetOrder(h) ==
  /\ pc[h] = "getorder"
  /\ \E r \in Report(on[h]) : snap' = [snap EXCEPT ![h] = r]
  /\ Goto(h, "getfills")
  /\ UNCHANGED <<rowVars, account, venueVars, on, kind, ready, reply, fillq,
                 crashes>>

GetRecentFills(h) ==
  /\ pc[h] = "getfills"
  /\ fillq' = [fillq EXCEPT ![h] = FillList(on[h])]
  /\ Goto(h, "ingest")
  /\ UNCHANGED <<rowVars, account, venueVars, on, kind, ready, reply, snap,
                 crashes>>

\* A query fails: nothing is learnt.  An auth error may darken the account;
\* a definitive error on the order is written to its row.
QueryFails(h) ==
  /\ pc[h] \in {"find", "getorder", "getfills"}
  /\ \/ UNCHANGED <<err, account>>
     \/ MaybeDarken /\ UNCHANGED err
     \/ /\ pc[h] # "find"
        /\ err' = [err EXCEPT ![on[h]] = TRUE]
        /\ UNCHANGED account
  /\ End(h)
  /\ UNCHANGED <<status, idem, bid, booked, venueVars, crashes>>

\* Slips: every sight of the fill is booked; the status is asked for once more
\* after the fills were fetched.
IngestFillAgain(h) ==
  /\ pc[h] = "ingest"
  /\ booked' = [booked EXCEPT ![on[h]] = @ + fillq[h]]
  /\ Goto(h, "apply")
  /\ UNCHANGED <<status, idem, bid, err, account, venueVars, on, kind, ready,
                 reply, snap, fillq, crashes>>

IngestFillThenAsk(h) ==
  /\ pc[h] = "ingest"
  /\ booked' = [booked EXCEPT ![on[h]] = IF @ = 0 THEN fillq[h] ELSE @]
  /\ \E r \in Report(on[h]) : snap' = [snap EXCEPT ![h] = r]
  /\ Goto(h, "apply")
  /\ UNCHANGED <<status, idem, bid, err, account, venueVars, on, kind, ready,
                 reply, fillq, crashes>>

\* _ingest_fill: get_or_create on (order, broker_fill_id).  A closed order has
\* one fill id, so a second sight of it creates nothing.
IngestFill(h) ==
  /\ pc[h] = "ingest"
  /\ booked' = [booked EXCEPT ![on[h]] = IF @ = 0 THEN fillq[h] ELSE @]
  /\ Goto(h, "apply")
  /\ UNCHANGED <<status, idem, bid, err, account, venueVars, on, kind, ready,
                 reply, snap, fillq, crashes>>

\* _apply_snapshot_status: the reported status is written, whatever the row
\* holds by now.
ApplyStatus(h) ==
  /\ pc[h] = "apply"
  /\ SetStatus(on[h], snap[h])
  /\ End(h)
  /\ UNCHANGED <<idem, bid, err, booked, account, venueVars, crashes>>

-----------------------------------------------------------------------------
(* Cancelling.                                                             *)

StartCancel(h, o) ==
  /\ \/ status[o] \in {"draft", "pending_open"} /\ Begin(h, o, "cancelrow")
     \/ status[o] \in OpenStatuses /\ Begin(h, o, "cancelvenue")
  /\ UNCHANGED <<rowVars, account, venueVars, kind, ready, reply, snap, fillq,
                 crashes>>

\* A draft or a held order is cancelled in the database only.
CancelRow(h) ==
  /\ pc[h] = "cancelrow"
  /\ SetStatus(on[h], "cancelled")
  /\ End(h)
  /\ UNCHANGED <<idem, bid, err, booked, account, venueVars, crashes>>

\* The venue takes the cancel request; it may still execute the order.
CancelAtVenue(h) ==
  /\ pc[h] = "cancelvenue"
  /\ vstate[on[h]] = "working"
  /\ vstate' = [vstate EXCEPT ![on[h]] = "cancelling"]
  /\ Goto(h, "cancelsave")
  /\ UNCHANGED <<rowVars, account, exec, accepted, late, on, kind, ready, reply,
                 snap, fillq, crashes>>

\* The request fails (order closed, timeout): the view answers 502.  A timeout
\* says nothing about whether the venue took the request.
CancelFails(h) ==
  /\ pc[h] = "cancelvenue"
  /\ \/ UNCHANGED vstate
     \/ /\ vstate[on[h]] = "working"
        /\ vstate' = [vstate EXCEPT ![on[h]] = "cancelling"]
  /\ End(h)
  /\ UNCHANGED <<rowVars, account, exec, accepted, late, crashes>>

CancelSave(h) ==
  /\ pc[h] = "cancelsave"
  /\ SetStatus(on[h], "cancelled")
  /\ End(h)
  /\ UNCHANGED <<idem, bid, err, booked, account, venueVars, crashes>>

-----------------------------------------------------------------------------
(* Housekeeping.                                                           *)

\* sweep_stuck_confirmed_orders looks at attempts more than a day old; no
\* handler works on an order for a day, so none is busy with it.
StartSweep(h, o) ==
  /\ status[o] = "confirmed"
  /\ ~bid[o]
  /\ err[o]
  /\ \A g \in Handlers : on[g] # o
  /\ Begin(h, o, "sweep")
  /\ UNCHANGED <<rowVars, account, venueVars, kind, ready, reply, snap, fillq,
                 crashes>>

SweepSave(h) ==
  /\ pc[h] = "sweep"
  /\ SetStatus(on[h], "rejected")
  /\ err' = [err EXCEPT ![on[h]] = TRUE]
  /\ End(h)
  /\ UNCHANGED <<idem, bid, booked, account, venueVars, crashes>>

\* The owner enters new credentials.
Reauthenticate ==
  /\ account = "needs_reauth"
  /\ account' = "active"
  /\ UNCHANGED <<rowVars, venueVars, handVars, crashes>>

\* A worker or web process dies; an exception the handler does not catch has
\* the same effect.  What it has committed stays.
Crash(h) ==
  /\ pc[h] # "idle"
  /\ crashes < MaxCrashes
  /\ crashes' = crashes + 1
  /\ IF pc[h] = "wait" THEN AbandonPost(h) ELSE UNCHANGED late
  /\ End(h)
  /\ UNCHANGED <<rowVars, account, vstate, exec, accepted>>

-----------------------------------------------------------------------------
OrderStep(o) ==
  \/ CreateDraft(o)
  \/ LatePostArrives(o) \/ LatePostLost(o)
  \/ VenueExecutes(o) \/ VenueCloses(o)

StartStep(h, o) ==
  \/ EmitClosed(h, o) \/ EmitNow(h, o)
  \/ StartConfirm(h, o) \/ StartRelease(h, o)
  \/ StartPoll(h, o) \/ StartCancel(h, o) \/ StartSweep(h, o)

HandlerStep(h) ==
  \/ HoldForOpen(h)
  \/ ResetHeld(h) \/ RefreshHeld(h) \/ GatePasses(h) \/ GateRefuses(h)
  \/ Claim(h) \/ ClaimConflict(h) \/ VenueAccepts(h) \/ VenueRefuses(h)
  \/ SubmitAcknowledged(h) \/ SubmitUnknown(h) \/ SubmitDenied(h)
  \/ SubmitRefused(h) \/ Find(h) \/ Adopt(h) \/ GraceExpires(h)
  \/ RereadUnknown(h) \/ GetOrder(h) \/ GetRecentFills(h) \/ QueryFails(h) \/ IngestFill(h)
  \/ ApplyStatus(h) \/ CancelRow(h) \/ CancelAtVenue(h) \/ CancelFails(h)
  \/ CancelSave(h) \/ SweepSave(h) \/ Crash(h)

Next ==
  \/ \E o \in Orders : OrderStep(o)
  \/ \E h \in Handlers, o \in Orders : StartStep(h, o)
  \/ \E h \in Handlers : HandlerStep(h)
  \/ Reauthenticate

Spec == Init /\ [][Next]_vars

-----------------------------------------------------------------------------
(* Safety, whatever the interleaving and wherever a handler dies.          *)

\* The venue accepts an order at most once, even if it did not refuse
\* duplicate client ids: of all handlers that ever try to submit a row, the
\* conditional UPDATE lets one POST it, and no way back from a POST that may
\* have arrived leads to a second one (submit_idempotent).
ExactlyOnceAtVenue == \A o \in Orders : accepted[o] <= 1

\* A row walked back to `unsubmitted` never reached the venue and never will:
\* the promise on which a later submission of the same row rests.
WalkBackIsHonest ==
  \A o \in Orders : idem[o] = "unsubmitted" => accepted[o] = 0 /\ ~late[o]

\* A row is `acknowledged`, and carries a broker id, exactly when the venue's
\* answer has been read: by the submission itself or by resolve_unknown.
AcknowledgedIsPlaced ==
  \A o \in Orders : /\ idem[o] = "acknowledged" => accepted[o] = 1
                    /\ bid[o] <=> idem[o] = "acknowledged"

\* Polls of the same order that overlap, repeat or act on old answers book its
\* execution once, and never a quantity the venue did not execute.
BookedOnce ==
  \A o \in Orders :
    booked[o] > 0 => vstate[o] = "closed" /\ booked[o] = exec[o]

\* A row becomes `filled` - after which no poll looks at it again - with its whole
\* execution booked, or else from an answer read before the fills are fetched (the
\* POST's, resolve_unknown's), by a handler that goes on to fetch them.  The one
\* exception is the answer to a POST of the autopilot, which fetches nothing.
FilledIsFetched ==
  [][\A o \in Orders :
       status[o] # "filled" /\ status'[o] = "filled" /\ booked[o] # 2
         => \E h \in Handlers :
              /\ on[h] = o
              /\ \/ pc[h] = "adopt" /\ pc'[h] = "getorder"
                 \/ pc[h] = "wait" /\ (kind[h] = "confirm" => pc'[h] = "getorder")]_vars

\* The owner has stopped an order that was never sent (BrokerOrderCancelView).
Cancelled(o) == status[o] = "cancelled" /\ idem[o] = "unsubmitted"

\* From then on no request or task takes the order up, and none that polls, adopts,
\* expires or sweeps it writes to it.  Only a handler that had it in hand before - to
\* hold it, to release it, to pass the gate with it or to claim it - writes over the
\* cancellation, because it works on the copy it has read.
CancelStopsNewcomers ==
  [][\A o \in Orders :
       Cancelled(o)
         => \/ Cancelled(o)' /\ \A h \in Handlers : on'[h] = o => on[h] = o
            \/ \E h \in Handlers : /\ on[h] = o
                                   /\ pc[h] \in {"hold", "reset", "gate", "claim"}
                                   /\ pc'[h] # pc[h]]_vars

-----------------------------------------------------------------------------
(* Safety as long as handlers of one order do not overlap or die.          *)

Quiet == \A h \in Handlers : pc[h] = "idle"

\* An order that works at the venue is one the poll looks at, also after lost
\* answers, refusals, auth errors and expired grace windows
\* (pollable_orders_q).
LiveIsPolled ==
  Quiet => \A o \in Orders : vstate[o] = "working" => Pollable(o)

=============================================================================
