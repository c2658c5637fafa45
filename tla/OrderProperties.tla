-------------------------- MODULE OrderProperties --------------------------
(***************************************************************************)
(* Liveness of OrderLifecycle, and the abstract specification it           *)
(* implements.                                                             *)
(***************************************************************************)
EXTENDS OrderLifecycle

-----------------------------------------------------------------------------
(* Fairness.  A handler that waits for nothing but its own next step takes *)
(* it (a POST it waits for times out: the adapters set an HTTP timeout).   *)
(* The 30-second beat polls every row it may poll, again and again, and    *)
(* the venue does not fail every query about an order for ever.  Nothing   *)
(* makes an owner or the venue act.                                        *)

Progress(h) == HandlerStep(h) /\ crashes' = crashes

(* The venue answers a query about order o. *)
Looked(o)  == \E h \in Handlers : on[h] = o /\ Find(h)
Asked(o)   == \E h \in Handlers : on[h] = o /\ GetOrder(h)
Fetched(o) == \E h \in Handlers : on[h] = o /\ GetRecentFills(h)

FairSpec ==
  /\ Spec
  /\ \A h \in Handlers : WF_vars(Progress(h))
  /\ \A o \in Orders : /\ SF_vars(\E h \in Handlers : StartPoll(h, o))
                       /\ SF_vars(Looked(o))
                       /\ SF_vars(Asked(o))
                       /\ SF_vars(Fetched(o))

StaysActive == <>[](account = "active")

\* An order the venue holds although the answer to its submission was lost is
\* adopted by the poll in the end, on an account that stays usable
\* (resolve_unknown, the second family of pollable_orders_q).
LostAnswerIsAdopted ==
  StaysActive =>
    \A o \in Orders :
      idem[o] = "unknown" /\ accepted[o] = 1 ~> idem[o] = "acknowledged"

\* An order found closed at the venue while its row is open has its whole
\* execution booked in the end.
ClosedIsBooked ==
  StaysActive =>
    \A o \in Orders :
      Quiet /\ status[o] \in OpenStatuses /\ vstate[o] = "closed"
        ~> booked[o] = exec[o]

-----------------------------------------------------------------------------
(* The promise of SubmitOnce, kept by all of the above together.           *)

Promise ==
  INSTANCE SubmitOnce WITH
    claimed <- {o \in Orders : idem[o] # "unsubmitted"},
    placed  <- accepted,
    known   <- {o \in Orders : idem[o] = "acknowledged"}

\* Every behaviour of the handlers, the venue and the network is one of
\* SubmitOnce: claims are exclusive, an order is placed once, by its claimant,
\* and a claim is given back only while nothing was placed.
SubmitsOnce == Promise!Spec
=============================================================================
