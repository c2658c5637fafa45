------------------------ MODULE OrderLifecycleProofs ------------------------
(***************************************************************************)
(* Proofs about OrderLifecycle, for any sets of orders and handlers and    *)
(* any number of crashes.                                                  *)
(***************************************************************************)
EXTENDS OrderProperties, TLAPS

-----------------------------------------------------------------------------
(* The inductive invariants.                                               *)

\* Who has sent a POST and still waits for the answer.
Waiting(h, o) == pc[h] = "wait" /\ on[h] = o

\* At most one handler waits for an order's POST, ...
OneWaits ==
  \A g, h \in Handlers : \A o \in Orders : Waiting(g, o) /\ Waiting(h, o) => g = h

\* ... the row says so meanwhile, no abandoned POST of it is under way, and the
\* order is at the venue exactly if the answer says it was accepted.
WaitIsExclusive ==
  \A h \in Handlers : \A o \in Orders :
    Waiting(h, o) =>
      /\ idem[o] = "submit_pending"
      /\ ~late[o]
      /\ accepted[o] = (IF reply[h] = "accepted" THEN 1 ELSE 0)

\* A handler that has not sent a POST yet has no answer to one.
NoAnswerYet ==
  \A h \in Handlers :
    pc[h] \in {"idle", "reset", "refresh", "gate", "claim"} => reply[h] = "none"

\* An abandoned POST is of an order the venue does not hold, and the venue
\* holds the orders it accepted.
VenueCounts ==
  \A o \in Orders : /\ accepted[o] \in {0, 1}
                    /\ late[o] => accepted[o] = 0
                    /\ vstate[o] = "none" <=> accepted[o] = 0

\* A handler that resolves an unknown row finds it unknown, or already adopted
\* by another; the one about to adopt has seen the order at the venue.
ResolvesUnknown ==
  \A h \in Handlers :
    /\ pc[h] \in {"find", "adopt", "expire"}
         => idem[on[h]] \in {"unknown", "acknowledged"}
    /\ pc[h] = "adopt" => accepted[on[h]] = 1

SubmitCore ==
  /\ OneWaits
  /\ WaitIsExclusive
  /\ NoAnswerYet
  /\ VenueCounts
  /\ ResolvesUnknown
  /\ WalkBackIsHonest
  /\ AcknowledgedIsPlaced

SubmitInv == TypeOK /\ SubmitCore

\* What a handler carries from the venue to the row is still true there: a
\* closed order never changes again.
CarriesTruth ==
  \A h \in Handlers :
    LET o == on[h] IN
    /\ pc[h] \in {"getfills", "ingest"} /\ snap[h] = "filled"
         => vstate[o] = "closed" /\ exec[o] = 2
    /\ pc[h] = "ingest" /\ fillq[h] > 0
         => vstate[o] = "closed" /\ fillq[h] = exec[o]
    /\ pc[h] = "ingest" /\ snap[h] = "filled" => fillq[h] = 2

\* A poll that writes `filled` after the fetch has booked the whole execution.
AppliesBooked ==
  \A h \in Handlers :
    pc[h] = "apply" /\ snap[h] = "filled" => booked[on[h]] = 2

BookCore ==
  /\ CarriesTruth
  /\ BookedOnce
  /\ AppliesBooked

BookInv == TypeOK /\ BookCore

-----------------------------------------------------------------------------
(* Types.                                                                  *)

\* A handler that ends leaves well-typed variables.
LEMMA EndTypes ==
  ASSUME HandlerTypes, NEW h \in Handlers, End(h)
  PROVE  HandlerTypes'
  BY SMTT(30) DEF HandlerTypes, End, Steps, Replies, Reports

\* What the venue reports or answers is a status.
LEMMA ReportTypes ==
  \A o : /\ Report(o) \subseteq Reports
         /\ Answers(o) \subseteq Reports
         /\ Reports \subseteq Statuses
  BY DEF Report, Answers, Reports, Statuses

\* Every step preserves the type invariant.
LEMMA TypeStep == TypeOK /\ [Next]_vars => TypeOK'
  <1> SUFFICES ASSUME TypeOK, [Next]_vars PROVE TypeOK'
    OBVIOUS
  <1> USE DEF TypeOK, RowTypes, VenueTypes, HandlerTypes, OtherTypes, SetStatus,
              Statuses, IdemStates, VenueStates, Replies, Reports, Steps
  <1>1. ASSUME NEW o \in Orders, CreateDraft(o) PROVE TypeOK'
    BY <1>1 DEF CreateDraft, venueVars, handVars
  <1>2. ASSUME NEW o \in Orders, LatePostArrives(o) PROVE TypeOK'
    BY <1>2 DEF LatePostArrives, PlaceAtVenue, rowVars, handVars
  <1>3. ASSUME NEW o \in Orders, LatePostLost(o) PROVE TypeOK'
    BY <1>3 DEF LatePostLost, rowVars, handVars
  <1>4. ASSUME NEW o \in Orders, VenueExecutes(o) PROVE TypeOK'
    BY <1>4 DEF VenueExecutes, rowVars, handVars
  <1>5. ASSUME NEW o \in Orders, VenueCloses(o) PROVE TypeOK'
    BY <1>5 DEF VenueCloses, rowVars, handVars
  <1>6. ASSUME NEW h \in Handlers, NEW o \in Orders, EmitClosed(h, o) PROVE TypeOK'
    BY <1>6 DEF EmitClosed, Begin, venueVars
  <1>7. ASSUME NEW h \in Handlers, NEW o \in Orders, EmitNow(h, o) PROVE TypeOK'
    BY <1>7 DEF EmitNow, Begin, venueVars
  <1>8. ASSUME NEW h \in Handlers, NEW o \in Orders, StartConfirm(h, o) PROVE TypeOK'
    BY <1>8 DEF StartConfirm, Begin, rowVars, venueVars
  <1>9. ASSUME NEW h \in Handlers, NEW o \in Orders, StartRelease(h, o) PROVE TypeOK'
    BY <1>9 DEF StartRelease, Begin, rowVars, venueVars
  <1>10. ASSUME NEW h \in Handlers, NEW o \in Orders, StartPoll(h, o) PROVE TypeOK'
    BY SMTT(30), <1>10 DEF StartPoll, Begin, rowVars, venueVars
  <1>11. ASSUME NEW h \in Handlers, NEW o \in Orders, StartCancel(h, o) PROVE TypeOK'
    BY <1>11 DEF StartCancel, Begin, rowVars, venueVars
  <1>12. ASSUME NEW h \in Handlers, NEW o \in Orders, StartSweep(h, o) PROVE TypeOK'
    BY <1>12 DEF StartSweep, Begin, rowVars, venueVars
  <1>13. ASSUME NEW h \in Handlers, HoldForOpen(h) PROVE TypeOK'
    <2>1. RowTypes' /\ VenueTypes' /\ OtherTypes'
      BY <1>13 DEF HoldForOpen, venueVars
    <2> QED
      BY <1>13, <2>1, EndTypes DEF HoldForOpen
  <1>14. ASSUME NEW h \in Handlers, ResetHeld(h) PROVE TypeOK'
    BY <1>14 DEF ResetHeld, Goto, venueVars
  <1>15. ASSUME NEW h \in Handlers, RefreshHeld(h) PROVE TypeOK'
    BY <1>15 DEF RefreshHeld, Goto, rowVars, venueVars
  <1>16. ASSUME NEW h \in Handlers, GatePasses(h) PROVE TypeOK'
    BY <1>16 DEF GatePasses, Goto, venueVars
  <1>17. ASSUME NEW h \in Handlers, GateRefuses(h) PROVE TypeOK'
    <2>1. RowTypes' /\ VenueTypes' /\ OtherTypes'
      BY ZenonT(60), <1>17 DEF GateRefuses, venueVars
    <2> QED
      BY <1>17, <2>1, EndTypes DEF GateRefuses
  <1>18. ASSUME NEW h \in Handlers, Claim(h) PROVE TypeOK'
    BY <1>18 DEF Claim, Goto, venueVars
  <1>19. ASSUME NEW h \in Handlers, ClaimConflict(h) PROVE TypeOK'
    <2>1. RowTypes' /\ VenueTypes' /\ OtherTypes'
      BY <1>19 DEF ClaimConflict, rowVars, venueVars
    <2> QED
      BY <1>19, <2>1, EndTypes DEF ClaimConflict
  <1>20. ASSUME NEW h \in Handlers, VenueAccepts(h) PROVE TypeOK'
    BY <1>20 DEF VenueAccepts, PlaceAtVenue, rowVars
  <1>21. ASSUME NEW h \in Handlers, VenueRefuses(h) PROVE TypeOK'
    BY <1>21 DEF VenueRefuses, rowVars, venueVars
  <1>22. ASSUME NEW h \in Handlers, SubmitAcknowledged(h) PROVE TypeOK'
    <2>1. RowTypes' /\ VenueTypes' /\ OtherTypes'
      BY <1>22, ReportTypes DEF SubmitAcknowledged, rowVars, venueVars
    <2>2. CASE End(h)
      BY <2>1, <2>2, EndTypes
    <2>3. CASE ~End(h)
      <3>1. HandlerTypes'
        BY <1>22, <2>3 DEF SubmitAcknowledged, Goto
      <3> QED
        BY <2>1, <3>1
    <2> QED
      BY <2>2, <2>3
  <1>23. ASSUME NEW h \in Handlers, SubmitUnknown(h) PROVE TypeOK'
    <2>1. RowTypes' /\ VenueTypes' /\ OtherTypes'
      BY ZenonT(60), <1>23 DEF SubmitUnknown, AbandonPost
    <2> QED
      BY <1>23, <2>1, EndTypes DEF SubmitUnknown
  <1>24. ASSUME NEW h \in Handlers, SubmitDenied(h) PROVE TypeOK'
    <2>1. RowTypes' /\ VenueTypes' /\ OtherTypes'
      BY <1>24 DEF SubmitDenied, MaybeDarken, venueVars
    <2> QED
      BY <1>24, <2>1, EndTypes DEF SubmitDenied
  <1>25. ASSUME NEW h \in Handlers, SubmitRefused(h) PROVE TypeOK'
    <2>1. RowTypes' /\ VenueTypes' /\ OtherTypes'
      BY <1>25 DEF SubmitRefused, venueVars
    <2> QED
      BY <1>25, <2>1, EndTypes DEF SubmitRefused
  <1>26. ASSUME NEW h \in Handlers, Find(h) PROVE TypeOK'
    BY <1>26, ReportTypes DEF Find, Goto, rowVars, venueVars
  <1>27. ASSUME NEW h \in Handlers, Adopt(h) PROVE TypeOK'
    BY <1>27 DEF Adopt, Goto, venueVars
  <1>28. ASSUME NEW h \in Handlers, GraceExpires(h) PROVE TypeOK'
    BY <1>28 DEF GraceExpires, Goto, venueVars
  <1>29. ASSUME NEW h \in Handlers, RereadUnknown(h) PROVE TypeOK'
    <2>1. RowTypes' /\ VenueTypes' /\ OtherTypes'
      BY <1>29 DEF RereadUnknown, rowVars, venueVars
    <2>2. CASE End(h)
      BY <2>1, <2>2, EndTypes
    <2>3. CASE ~End(h)
      <3>1. HandlerTypes'
        BY <1>29, <2>3 DEF RereadUnknown, Goto
      <3> QED
        BY <2>1, <3>1
    <2> QED
      BY <2>2, <2>3
  <1>30. ASSUME NEW h \in Handlers, GetOrder(h) PROVE TypeOK'
    BY <1>30, ReportTypes DEF GetOrder, Goto, rowVars, venueVars
  <1>31. ASSUME NEW h \in Handlers, GetRecentFills(h) PROVE TypeOK'
    BY <1>31 DEF GetRecentFills, Goto, FillList, rowVars, venueVars
  <1>32. ASSUME NEW h \in Handlers, QueryFails(h) PROVE TypeOK'
    <2>1. RowTypes' /\ VenueTypes' /\ OtherTypes'
      BY ZenonT(60), <1>32 DEF QueryFails, MaybeDarken, venueVars
    <2> QED
      BY <1>32, <2>1, EndTypes DEF QueryFails
  <1>33. ASSUME NEW h \in Handlers, IngestFill(h) PROVE TypeOK'
    BY <1>33 DEF IngestFill, Goto, venueVars
  <1>34. ASSUME NEW h \in Handlers, ApplyStatus(h) PROVE TypeOK'
    <2>1. RowTypes' /\ VenueTypes' /\ OtherTypes'
      BY <1>34 DEF ApplyStatus, venueVars
    <2> QED
      BY <1>34, <2>1, EndTypes DEF ApplyStatus
  <1>35. ASSUME NEW h \in Handlers, CancelRow(h) PROVE TypeOK'
    <2>1. RowTypes' /\ VenueTypes' /\ OtherTypes'
      BY <1>35 DEF CancelRow, venueVars
    <2> QED
      BY <1>35, <2>1, EndTypes DEF CancelRow
  <1>36. ASSUME NEW h \in Handlers, CancelAtVenue(h) PROVE TypeOK'
    BY <1>36 DEF CancelAtVenue, Goto, rowVars
  <1>37. ASSUME NEW h \in Handlers, CancelFails(h) PROVE TypeOK'
    <2>1. RowTypes' /\ VenueTypes' /\ OtherTypes'
      BY <1>37 DEF CancelFails, rowVars
    <2> QED
      BY <1>37, <2>1, EndTypes DEF CancelFails
  <1>38. ASSUME NEW h \in Handlers, CancelSave(h) PROVE TypeOK'
    <2>1. RowTypes' /\ VenueTypes' /\ OtherTypes'
      BY <1>38 DEF CancelSave, venueVars
    <2> QED
      BY <1>38, <2>1, EndTypes DEF CancelSave
  <1>39. ASSUME NEW h \in Handlers, SweepSave(h) PROVE TypeOK'
    <2>1. RowTypes' /\ VenueTypes' /\ OtherTypes'
      BY <1>39 DEF SweepSave, venueVars
    <2> QED
      BY <1>39, <2>1, EndTypes DEF SweepSave
  <1>40. ASSUME NEW h \in Handlers, Crash(h) PROVE TypeOK'
    <2>1. RowTypes' /\ OtherTypes'
      BY <1>40 DEF Crash, rowVars
    <2>2. VenueTypes'
      BY ZenonT(60), <1>40 DEF Crash, AbandonPost
    <2> QED
      BY <1>40, <2>1, <2>2, EndTypes DEF Crash
  <1>41. CASE Reauthenticate
    BY <1>41 DEF Reauthenticate, rowVars, venueVars, handVars
  <1>42. CASE UNCHANGED vars
    BY <1>42 DEF vars, rowVars, venueVars, handVars
  <1> QED
    BY <1>1, <1>2, <1>3, <1>4, <1>5, <1>6, <1>7, <1>8, <1>9, <1>10, <1>11,
       <1>12, <1>13, <1>14, <1>15, <1>16, <1>17, <1>18, <1>19, <1>20, <1>21,
       <1>22, <1>23, <1>24, <1>25, <1>26, <1>27, <1>28, <1>29, <1>30, <1>31,
       <1>32, <1>33, <1>34, <1>35, <1>36, <1>37, <1>38, <1>39, <1>40, <1>41,
       <1>42
       DEF Next, OrderStep, StartStep, HandlerStep

\* Type correctness of every reachable state.
THEOREM TypeCorrect == Spec => []TypeOK
  <1>1. Init => TypeOK
    BY DEF Init, TypeOK, RowTypes, VenueTypes, HandlerTypes, OtherTypes,
           Statuses, IdemStates, VenueStates, Replies, Reports, Steps
  <1> QED
    BY <1>1, TypeStep, PTL DEF Spec

-----------------------------------------------------------------------------
(* One POST per order.                                                     *)

\* Every step preserves the submission invariant.
LEMMA SubmitStep == SubmitInv /\ [Next]_vars => SubmitInv'
  <1> SUFFICES ASSUME SubmitInv, [Next]_vars PROVE SubmitCore'
    BY TypeStep DEF SubmitInv
  <1> USE DEF SubmitInv, SubmitCore, TypeOK, RowTypes, VenueTypes, HandlerTypes,
              OneWaits, Waiting, WaitIsExclusive, NoAnswerYet, VenueCounts,
              ResolvesUnknown, WalkBackIsHonest, AcknowledgedIsPlaced,
              SetStatus, Steps, IdemStates, VenueStates, Replies
  <1>1. ASSUME NEW o \in Orders, CreateDraft(o) PROVE SubmitCore'
    BY <1>1 DEF CreateDraft, venueVars, handVars
  <1>2. ASSUME NEW o \in Orders, LatePostArrives(o) PROVE SubmitCore'
    BY <1>2 DEF LatePostArrives, PlaceAtVenue, rowVars, handVars
  <1>3. ASSUME NEW o \in Orders, LatePostLost(o) PROVE SubmitCore'
    BY <1>3 DEF LatePostLost, rowVars, handVars
  <1>4. ASSUME NEW o \in Orders, VenueExecutes(o) PROVE SubmitCore'
    BY <1>4 DEF VenueExecutes, rowVars, handVars
  <1>5. ASSUME NEW o \in Orders, VenueCloses(o) PROVE SubmitCore'
    BY <1>5 DEF VenueCloses, rowVars, handVars
  <1>6. ASSUME NEW h \in Handlers, NEW o \in Orders, EmitClosed(h, o) PROVE SubmitCore'
    BY <1>6 DEF EmitClosed, Begin, venueVars
  <1>7. ASSUME NEW h \in Handlers, NEW o \in Orders, EmitNow(h, o) PROVE SubmitCore'
    BY <1>7 DEF EmitNow, Begin, venueVars
  <1>8. ASSUME NEW h \in Handlers, NEW o \in Orders, StartConfirm(h, o) PROVE SubmitCore'
    BY <1>8 DEF StartConfirm, Begin, rowVars, venueVars
  <1>9. ASSUME NEW h \in Handlers, NEW o \in Orders, StartRelease(h, o) PROVE SubmitCore'
    BY <1>9 DEF StartRelease, Begin, rowVars, venueVars
  <1>10. ASSUME NEW h \in Handlers, NEW o \in Orders, StartPoll(h, o) PROVE SubmitCore'
    BY SMTT(30), <1>10 DEF StartPoll, Begin, rowVars, venueVars
  <1>11. ASSUME NEW h \in Handlers, NEW o \in Orders, StartCancel(h, o) PROVE SubmitCore'
    <2>1. \E s \in {"cancelrow", "cancelvenue"} : Begin(h, o, s)
      BY <1>11 DEF StartCancel
    <2>2. UNCHANGED <<rowVars, account, venueVars, reply>>
      BY <1>11 DEF StartCancel
    <2> QED
      BY <2>1, <2>2 DEF Begin, rowVars, venueVars
  <1>12. ASSUME NEW h \in Handlers, NEW o \in Orders, StartSweep(h, o) PROVE SubmitCore'
    BY <1>12 DEF StartSweep, Begin, rowVars, venueVars
  <1>13. ASSUME NEW h \in Handlers, HoldForOpen(h) PROVE SubmitCore'
    BY <1>13 DEF HoldForOpen, End, venueVars
  <1>14. ASSUME NEW h \in Handlers, ResetHeld(h) PROVE SubmitCore'
    BY <1>14 DEF ResetHeld, Goto, venueVars
  <1>15. ASSUME NEW h \in Handlers, RefreshHeld(h) PROVE SubmitCore'
    BY <1>15 DEF RefreshHeld, Goto, rowVars, venueVars
  <1>16. ASSUME NEW h \in Handlers, GatePasses(h) PROVE SubmitCore'
    BY <1>16 DEF GatePasses, Goto, venueVars
  <1>17. ASSUME NEW h \in Handlers, GateRefuses(h) PROVE SubmitCore'
    BY <1>17 DEF GateRefuses, End, venueVars
  <1>18. ASSUME NEW h \in Handlers, Claim(h) PROVE SubmitCore'
    <2>1. /\ on[h] \in Orders
          /\ idem[on[h]] = "unsubmitted"
          /\ idem' = [idem EXCEPT ![on[h]] = "submit_pending"]
          /\ pc' = [pc EXCEPT ![h] = "wait"]
          /\ reply[h] = "none"
          /\ UNCHANGED <<bid, accepted, late, vstate, on, reply>>
      BY <1>18 DEF Claim, Goto, venueVars
    <2>2. \A g \in Handlers : ~Waiting(g, on[h])
      BY <2>1
    <2>3. OneWaits' /\ WaitIsExclusive' /\ NoAnswerYet'
      BY <2>1, <2>2
    <2>4. VenueCounts' /\ WalkBackIsHonest' /\ AcknowledgedIsPlaced'
      BY <2>1
    <2>5. ResolvesUnknown'
      BY <2>1
    <2> QED
      BY <2>3, <2>4, <2>5
  <1>19. ASSUME NEW h \in Handlers, ClaimConflict(h) PROVE SubmitCore'
    BY <1>19 DEF ClaimConflict, End, rowVars, venueVars
  <1>20. ASSUME NEW h \in Handlers, VenueAccepts(h) PROVE SubmitCore'
    BY <1>20 DEF VenueAccepts, PlaceAtVenue, rowVars
  <1>21. ASSUME NEW h \in Handlers, VenueRefuses(h) PROVE SubmitCore'
    BY <1>21 DEF VenueRefuses, rowVars, venueVars
  <1>22. ASSUME NEW h \in Handlers, SubmitAcknowledged(h) PROVE SubmitCore'
    <2>1. /\ Waiting(h, on[h])
          /\ on[h] \in Orders
          /\ accepted[on[h]] = 1
          /\ idem' = [idem EXCEPT ![on[h]] = "acknowledged"]
          /\ bid' = [bid EXCEPT ![on[h]] = TRUE]
          /\ UNCHANGED <<accepted, late, vstate>>
      BY <1>22 DEF SubmitAcknowledged, venueVars
    <2>2. VenueCounts' /\ WalkBackIsHonest' /\ AcknowledgedIsPlaced'
      BY <2>1
    <2>3. \/ /\ pc' = [pc EXCEPT ![h] = "getorder"]
             /\ UNCHANGED <<on, reply>>
          \/ End(h)
      BY <1>22 DEF SubmitAcknowledged, Goto
    <2>4. /\ pc'[h] \in {"getorder", "idle"}
          /\ pc'[h] = "idle" => reply'[h] = "none"
          /\ \A g \in Handlers \ {h} :
               pc'[g] = pc[g] /\ on'[g] = on[g] /\ reply'[g] = reply[g]
      BY <2>3 DEF End
    <2>5. \A g \in Handlers : \A o \in Orders :
            Waiting(g, o)' => Waiting(g, o) /\ g # h /\ o # on[h]
      BY <2>1, <2>4
    <2>6. OneWaits' /\ NoAnswerYet'
      BY <2>4, <2>5
    <2>7. WaitIsExclusive'
      BY <2>1, <2>4, <2>5
    <2>8. ResolvesUnknown'
      BY <2>1, <2>4
    <2> QED
      BY <2>2, <2>6, <2>7, <2>8
  <1>23. ASSUME NEW h \in Handlers, SubmitUnknown(h) PROVE SubmitCore'
    BY <1>23 DEF SubmitUnknown, End, AbandonPost
  <1>24. ASSUME NEW h \in Handlers, SubmitDenied(h) PROVE SubmitCore'
    BY <1>24 DEF SubmitDenied, End, venueVars
  <1>25. ASSUME NEW h \in Handlers, SubmitRefused(h) PROVE SubmitCore'
    BY <1>25 DEF SubmitRefused, End, venueVars
  <1>26. ASSUME NEW h \in Handlers, Find(h) PROVE SubmitCore'
    BY SMTT(30), <1>26 DEF Find, Goto, rowVars, venueVars
  <1>27. ASSUME NEW h \in Handlers, Adopt(h) PROVE SubmitCore'
    BY <1>27 DEF Adopt, Goto, venueVars
  <1>28. ASSUME NEW h \in Handlers, GraceExpires(h) PROVE SubmitCore'
    BY <1>28 DEF GraceExpires, Goto, venueVars
  <1>29. ASSUME NEW h \in Handlers, RereadUnknown(h) PROVE SubmitCore'
    <2>1. UNCHANGED <<rowVars, venueVars>>
      BY <1>29 DEF RereadUnknown
    <2>2. CASE End(h)
      BY <2>1, <2>2 DEF End, rowVars, venueVars
    <2>3. CASE ~End(h)
      <3>1. /\ pc' = [pc EXCEPT ![h] = "getorder"]
            /\ UNCHANGED <<on, reply>>
        BY <1>29, <2>3 DEF RereadUnknown, Goto
      <3> QED
        BY <2>1, <3>1 DEF rowVars, venueVars
    <2> QED
      BY <2>2, <2>3
  <1>30. ASSUME NEW h \in Handlers, GetOrder(h) PROVE SubmitCore'
    BY <1>30 DEF GetOrder, Goto, rowVars, venueVars
  <1>31. ASSUME NEW h \in Handlers, GetRecentFills(h) PROVE SubmitCore'
    BY <1>31 DEF GetRecentFills, Goto, rowVars, venueVars
  <1>32. ASSUME NEW h \in Handlers, QueryFails(h) PROVE SubmitCore'
    BY <1>32 DEF QueryFails, End, venueVars
  <1>33. ASSUME NEW h \in Handlers, IngestFill(h) PROVE SubmitCore'
    BY <1>33 DEF IngestFill, Goto, venueVars
  <1>34. ASSUME NEW h \in Handlers, ApplyStatus(h) PROVE SubmitCore'
    BY <1>34 DEF ApplyStatus, End, venueVars
  <1>35. ASSUME NEW h \in Handlers, CancelRow(h) PROVE SubmitCore'
    BY <1>35 DEF CancelRow, End, venueVars
  <1>36. ASSUME NEW h \in Handlers, CancelAtVenue(h) PROVE SubmitCore'
    BY <1>36 DEF CancelAtVenue, Goto, rowVars
  <1>37. ASSUME NEW h \in Handlers, CancelFails(h) PROVE SubmitCore'
    BY <1>37 DEF CancelFails, End, rowVars
  <1>38. ASSUME NEW h \in Handlers, CancelSave(h) PROVE SubmitCore'
    BY <1>38 DEF CancelSave, End, venueVars
  <1>39. ASSUME NEW h \in Handlers, SweepSave(h) PROVE SubmitCore'
    BY <1>39 DEF SweepSave, End, venueVars
  <1>40. ASSUME NEW h \in Handlers, Crash(h) PROVE SubmitCore'
    BY <1>40 DEF Crash, End, AbandonPost, rowVars
  <1>41. CASE Reauthenticate
    BY <1>41 DEF Reauthenticate, rowVars, venueVars, handVars
  <1>42. CASE UNCHANGED vars
    BY <1>42 DEF vars, rowVars, venueVars, handVars
  <1> QED
    BY <1>1, <1>2, <1>3, <1>4, <1>5, <1>6, <1>7, <1>8, <1>9, <1>10, <1>11,
       <1>12, <1>13, <1>14, <1>15, <1>16, <1>17, <1>18, <1>19, <1>20, <1>21,
       <1>22, <1>23, <1>24, <1>25, <1>26, <1>27, <1>28, <1>29, <1>30, <1>31,
       <1>32, <1>33, <1>34, <1>35, <1>36, <1>37, <1>38, <1>39, <1>40, <1>41,
       <1>42
       DEF Next, OrderStep, StartStep, HandlerStep

\* The submission invariant holds of every reachable state.
LEMMA SubmitInvariant == Spec => []SubmitInv
  <1>1. Init => SubmitInv
    BY DEF Init, SubmitInv, SubmitCore, TypeOK, RowTypes, VenueTypes,
           HandlerTypes, OtherTypes, Statuses, IdemStates, VenueStates, Replies,
           Reports, Steps, OneWaits, Waiting, WaitIsExclusive, NoAnswerYet,
           VenueCounts, ResolvesUnknown, WalkBackIsHonest, AcknowledgedIsPlaced
  <1> QED
    BY <1>1, SubmitStep, PTL DEF Spec

\* The venue accepts every order at most once.
THEOREM ExactlyOnce == Spec => []ExactlyOnceAtVenue
  <1>1. SubmitInv => ExactlyOnceAtVenue
    BY DEF SubmitInv, SubmitCore, VenueCounts, ExactlyOnceAtVenue
  <1> QED
    BY <1>1, SubmitInvariant, PTL

\* A row walked back to `unsubmitted` never reached the venue and never will.
THEOREM HonestWalkBack == Spec => []WalkBackIsHonest
  <1>1. SubmitInv => WalkBackIsHonest
    BY DEF SubmitInv, SubmitCore
  <1> QED
    BY <1>1, SubmitInvariant, PTL

\* The rows marked acknowledged, and only they, carry a broker id, and they are
\* at the venue.
THEOREM AcknowledgedPlaced == Spec => []AcknowledgedIsPlaced
  <1>1. SubmitInv => AcknowledgedIsPlaced
    BY Zenon DEF SubmitInv, SubmitCore
  <1> QED
    BY <1>1, SubmitInvariant, PTL

-----------------------------------------------------------------------------
(* Booking.                                                                *)

\* Every step preserves the booking invariant.
LEMMA BookStep == BookInv /\ [Next]_vars => BookInv'
  <1> SUFFICES ASSUME BookInv, [Next]_vars PROVE BookCore'
    BY TypeStep DEF BookInv
  <1> USE DEF BookInv, BookCore, TypeOK, RowTypes, VenueTypes, HandlerTypes,
              CarriesTruth, BookedOnce, AppliesBooked, SetStatus, Steps,
              VenueStates, Reports
  <1>1. ASSUME NEW o \in Orders, CreateDraft(o) PROVE BookCore'
    BY <1>1 DEF CreateDraft, venueVars, handVars
  <1>2. ASSUME NEW o \in Orders, LatePostArrives(o) PROVE BookCore'
    BY <1>2 DEF LatePostArrives, PlaceAtVenue, rowVars, handVars
  <1>3. ASSUME NEW o \in Orders, LatePostLost(o) PROVE BookCore'
    BY <1>3 DEF LatePostLost, rowVars, handVars
  <1>4. ASSUME NEW o \in Orders, VenueExecutes(o) PROVE BookCore'
    BY <1>4 DEF VenueExecutes, rowVars, handVars
  <1>5. ASSUME NEW o \in Orders, VenueCloses(o) PROVE BookCore'
    BY <1>5 DEF VenueCloses, rowVars, handVars
  <1>6. ASSUME NEW h \in Handlers, NEW o \in Orders, EmitClosed(h, o) PROVE BookCore'
    BY <1>6 DEF EmitClosed, Begin, venueVars
  <1>7. ASSUME NEW h \in Handlers, NEW o \in Orders, EmitNow(h, o) PROVE BookCore'
    BY <1>7 DEF EmitNow, Begin, venueVars
  <1>8. ASSUME NEW h \in Handlers, NEW o \in Orders, StartConfirm(h, o) PROVE BookCore'
    BY <1>8 DEF StartConfirm, Begin, rowVars, venueVars
  <1>9. ASSUME NEW h \in Handlers, NEW o \in Orders, StartRelease(h, o) PROVE BookCore'
    BY <1>9 DEF StartRelease, Begin, rowVars, venueVars
  <1>10. ASSUME NEW h \in Handlers, NEW o \in Orders, StartPoll(h, o) PROVE BookCore'
    BY <1>10 DEF StartPoll, Begin, rowVars, venueVars
  <1>11. ASSUME NEW h \in Handlers, NEW o \in Orders, StartCancel(h, o) PROVE BookCore'
    BY <1>11 DEF StartCancel, Begin, rowVars, venueVars
  <1>12. ASSUME NEW h \in Handlers, NEW o \in Orders, StartSweep(h, o) PROVE BookCore'
    BY <1>12 DEF StartSweep, Begin, rowVars, venueVars
  <1>13. ASSUME NEW h \in Handlers, HoldForOpen(h) PROVE BookCore'
    BY <1>13 DEF HoldForOpen, End, venueVars
  <1>14. ASSUME NEW h \in Handlers, ResetHeld(h) PROVE BookCore'
    BY <1>14 DEF ResetHeld, Goto, venueVars
  <1>15. ASSUME NEW h \in Handlers, RefreshHeld(h) PROVE BookCore'
    BY <1>15 DEF RefreshHeld, Goto, rowVars, venueVars
  <1>16. ASSUME NEW h \in Handlers, GatePasses(h) PROVE BookCore'
    BY <1>16 DEF GatePasses, Goto, venueVars
  <1>17. ASSUME NEW h \in Handlers, GateRefuses(h) PROVE BookCore'
    BY <1>17 DEF GateRefuses, End, venueVars
  <1>18. ASSUME NEW h \in Handlers, Claim(h) PROVE BookCore'
    BY <1>18 DEF Claim, Goto, venueVars
  <1>19. ASSUME NEW h \in Handlers, ClaimConflict(h) PROVE BookCore'
    BY <1>19 DEF ClaimConflict, End, rowVars, venueVars
  <1>20. ASSUME NEW h \in Handlers, VenueAccepts(h) PROVE BookCore'
    BY <1>20 DEF VenueAccepts, PlaceAtVenue, rowVars
  <1>21. ASSUME NEW h \in Handlers, VenueRefuses(h) PROVE BookCore'
    BY <1>21 DEF VenueRefuses, rowVars, venueVars
  <1>22. ASSUME NEW h \in Handlers, SubmitAcknowledged(h) PROVE BookCore'
    BY SMTT(30), <1>22 DEF SubmitAcknowledged, Goto, End, venueVars
  <1>23. ASSUME NEW h \in Handlers, SubmitUnknown(h) PROVE BookCore'
    BY <1>23 DEF SubmitUnknown, End, AbandonPost
  <1>24. ASSUME NEW h \in Handlers, SubmitDenied(h) PROVE BookCore'
    BY <1>24 DEF SubmitDenied, End, venueVars
  <1>25. ASSUME NEW h \in Handlers, SubmitRefused(h) PROVE BookCore'
    BY <1>25 DEF SubmitRefused, End, venueVars
  <1>26. ASSUME NEW h \in Handlers, Find(h) PROVE BookCore'
    BY <1>26 DEF Find, Goto, Report, rowVars, venueVars
  <1>27. ASSUME NEW h \in Handlers, Adopt(h) PROVE BookCore'
    BY <1>27 DEF Adopt, Goto, venueVars
  <1>28. ASSUME NEW h \in Handlers, GraceExpires(h) PROVE BookCore'
    BY <1>28 DEF GraceExpires, Goto, venueVars
  <1>29. ASSUME NEW h \in Handlers, RereadUnknown(h) PROVE BookCore'
    BY SMTT(30), <1>29 DEF RereadUnknown, Goto, End, rowVars, venueVars
  <1>30. ASSUME NEW h \in Handlers, GetOrder(h) PROVE BookCore'
    BY <1>30 DEF GetOrder, Goto, Report, rowVars, venueVars
  <1>31. ASSUME NEW h \in Handlers, GetRecentFills(h) PROVE BookCore'
    BY <1>31 DEF GetRecentFills, Goto, FillList, rowVars, venueVars
  <1>32. ASSUME NEW h \in Handlers, QueryFails(h) PROVE BookCore'
    BY <1>32 DEF QueryFails, End, venueVars
  <1>33. ASSUME NEW h \in Handlers, IngestFill(h) PROVE BookCore'
    BY <1>33 DEF IngestFill, Goto, venueVars
  <1>34. ASSUME NEW h \in Handlers, ApplyStatus(h) PROVE BookCore'
    BY <1>34 DEF ApplyStatus, End, venueVars
  <1>35. ASSUME NEW h \in Handlers, CancelRow(h) PROVE BookCore'
    BY <1>35 DEF CancelRow, End, venueVars
  <1>36. ASSUME NEW h \in Handlers, CancelAtVenue(h) PROVE BookCore'
    BY <1>36 DEF CancelAtVenue, Goto, rowVars
  <1>37. ASSUME NEW h \in Handlers, CancelFails(h) PROVE BookCore'
    BY <1>37 DEF CancelFails, End, rowVars
  <1>38. ASSUME NEW h \in Handlers, CancelSave(h) PROVE BookCore'
    BY <1>38 DEF CancelSave, End, venueVars
  <1>39. ASSUME NEW h \in Handlers, SweepSave(h) PROVE BookCore'
    BY <1>39 DEF SweepSave, End, venueVars
  <1>40. ASSUME NEW h \in Handlers, Crash(h) PROVE BookCore'
    BY <1>40 DEF Crash, End, AbandonPost, rowVars
  <1>41. CASE Reauthenticate
    BY <1>41 DEF Reauthenticate, rowVars, venueVars, handVars
  <1>42. CASE UNCHANGED vars
    BY <1>42 DEF vars, rowVars, venueVars, handVars
  <1> QED
    BY <1>1, <1>2, <1>3, <1>4, <1>5, <1>6, <1>7, <1>8, <1>9, <1>10, <1>11,
       <1>12, <1>13, <1>14, <1>15, <1>16, <1>17, <1>18, <1>19, <1>20, <1>21,
       <1>22, <1>23, <1>24, <1>25, <1>26, <1>27, <1>28, <1>29, <1>30, <1>31,
       <1>32, <1>33, <1>34, <1>35, <1>36, <1>37, <1>38, <1>39, <1>40, <1>41,
       <1>42
       DEF Next, OrderStep, StartStep, HandlerStep

\* The booking invariant holds of every reachable state.
LEMMA BookInvariant == Spec => []BookInv
  <1>1. Init => BookInv
    BY DEF Init, BookInv, BookCore, TypeOK, RowTypes, VenueTypes, HandlerTypes,
           OtherTypes, Statuses, IdemStates, VenueStates, Replies, Reports,
           Steps, CarriesTruth, BookedOnce, AppliesBooked
  <1> QED
    BY <1>1, BookStep, PTL DEF Spec

\* Overlapping, repeated and late polls of an order book its execution once,
\* and never a quantity the venue did not execute.
THEOREM Booking == Spec => []BookedOnce
  <1>1. BookInv => BookedOnce
    BY DEF BookInv, BookCore
  <1> QED
    BY <1>1, BookInvariant, PTL

\* A row becomes `filled` with its whole execution booked, or else from the answer to
\* its POST or of resolve_unknown, by a handler that goes on to fetch its fills; only
\* the autopilot's submissions write the answer's status and fetch nothing.
THEOREM FilledOnlyFetched == Spec => FilledIsFetched
  <1>1. ASSUME BookInv, [Next]_vars, NEW o \in Orders,
               status[o] # "filled", status'[o] = "filled", booked[o] # 2
        PROVE  \E h \in Handlers :
                 /\ on[h] = o
                 /\ \/ pc[h] = "adopt" /\ pc'[h] = "getorder"
                    \/ pc[h] = "wait" /\ (kind[h] = "confirm" => pc'[h] = "getorder")
    <2> USE DEF BookInv, TypeOK, RowTypes, HandlerTypes, SetStatus
    <2>1. PICK h \in Handlers : ApplyStatus(h) \/ Adopt(h) \/ SubmitAcknowledged(h)
      BY <1>1 DEF Next, OrderStep, StartStep, HandlerStep, vars, rowVars, venueVars,
           CreateDraft, EmitClosed, HoldForOpen, LatePostArrives, LatePostLost,
           VenueExecutes, VenueCloses, RereadUnknown, EmitNow, StartConfirm,
           StartRelease, StartPoll, StartCancel, StartSweep, ResetHeld, RefreshHeld,
           GatePasses, GateRefuses, Claim, ClaimConflict, VenueAccepts, VenueRefuses,
           SubmitUnknown, SubmitDenied, SubmitRefused, Find, GraceExpires, GetOrder,
           GetRecentFills, QueryFails, IngestFill, CancelRow, CancelAtVenue,
           CancelFails, CancelSave, SweepSave, Crash, Reauthenticate
    <2>2. CASE ApplyStatus(h)
      <3>1. pc[h] = "apply" /\ on[h] = o /\ snap[h] = "filled"
        BY <1>1, <2>2 DEF ApplyStatus
      <3> QED
        BY <1>1, <3>1 DEF BookCore, AppliesBooked
    <2>3. CASE Adopt(h)
      BY <1>1, <2>3 DEF Adopt, Goto
    <2>4. CASE SubmitAcknowledged(h)
      BY <1>1, <2>4 DEF SubmitAcknowledged, Goto
    <2> QED
      BY <2>1, <2>2, <2>3, <2>4
  <1>2. BookInv /\ [Next]_vars
          => [\A o \in Orders :
                status[o] # "filled" /\ status'[o] = "filled" /\ booked[o] # 2
                  => \E h \in Handlers :
                       /\ on[h] = o
                       /\ \/ pc[h] = "adopt" /\ pc'[h] = "getorder"
                          \/ pc[h] = "wait" /\ (kind[h] = "confirm" => pc'[h] = "getorder")]_vars
    BY <1>1
  <1> QED
    BY <1>2, BookInvariant, PTL DEF Spec, FilledIsFetched


-----------------------------------------------------------------------------
(* OrderLifecycle implements SubmitOnce: every behaviour of the handlers,  *)
(* the venue and the network is one of claims that exclude each other and  *)
(* placements that happen once.                                            *)

\* A step that touches neither the idempotency states nor the venue's
\* acceptances is a stutter of SubmitOnce.
LEMMA Stutter == UNCHANGED <<idem, accepted>> => UNCHANGED Promise!vars
  BY DEF Promise!vars

\* Every step is a step of SubmitOnce, or a stutter.
LEMMA PromiseStep == SubmitInv /\ [Next]_vars => [Promise!Next]_Promise!vars
  <1> SUFFICES ASSUME SubmitInv, [Next]_vars, ~ UNCHANGED <<idem, accepted>>
               PROVE  Promise!Next \/ UNCHANGED Promise!vars
    BY Stutter
  <1> USE DEF SubmitInv, SubmitCore, TypeOK, RowTypes, VenueTypes, HandlerTypes
  <1>1. ASSUME NEW h \in Handlers, Claim(h) PROVE Promise!Claim(on[h])
    BY <1>1 DEF Claim, venueVars, Steps, Promise!Claim, IdemStates
  <1>2. ASSUME NEW h \in Handlers, SubmitDenied(h) \/ SubmitRefused(h)
        PROVE  Promise!GiveBack(on[h])
    <2>1. /\ Waiting(h, on[h])
          /\ on[h] \in Orders
          /\ reply[h] # "accepted"
          /\ idem' = [idem EXCEPT ![on[h]] = "unsubmitted"]
          /\ UNCHANGED accepted
      BY <1>2 DEF SubmitDenied, SubmitRefused, Waiting, venueVars
    <2>2. idem[on[h]] = "submit_pending" /\ accepted[on[h]] = 0
      BY <2>1 DEF WaitIsExclusive
    <2> QED
      BY <2>1, <2>2 DEF Promise!GiveBack
  <1>3. ASSUME NEW h \in Handlers, VenueAccepts(h) PROVE Promise!Place(on[h])
    <2>1. /\ Waiting(h, on[h])
          /\ on[h] \in Orders
          /\ reply[h] = "none"
          /\ accepted' = [accepted EXCEPT ![on[h]] = @ + 1]
          /\ UNCHANGED idem
      BY <1>3 DEF VenueAccepts, PlaceAtVenue, Waiting, rowVars
    <2>2. idem[on[h]] = "submit_pending" /\ accepted[on[h]] = 0
      BY <2>1 DEF WaitIsExclusive
    <2> QED
      BY <2>1, <2>2 DEF Promise!Place
  <1>4. ASSUME NEW o \in Orders, LatePostArrives(o) PROVE Promise!Place(o)
    <2>1. /\ late[o]
          /\ accepted' = [accepted EXCEPT ![o] = @ + 1]
          /\ UNCHANGED idem
      BY <1>4 DEF LatePostArrives, PlaceAtVenue, rowVars
    <2>2. idem[o] # "unsubmitted" /\ accepted[o] = 0
      BY <2>1 DEF WalkBackIsHonest, VenueCounts
    <2> QED
      BY <2>1, <2>2 DEF Promise!Place
  <1>5. ASSUME NEW h \in Handlers, SubmitAcknowledged(h) \/ Adopt(h)
        PROVE  Promise!Learn(on[h])
    <2>1. /\ on[h] \in Orders
          /\ idem' = [idem EXCEPT ![on[h]] = "acknowledged"]
          /\ UNCHANGED accepted
      BY <1>5 DEF SubmitAcknowledged, Adopt, venueVars
    <2>2. accepted[on[h]] = 1 /\ idem[on[h]] # "unsubmitted"
      BY <1>5, <2>1 DEF SubmitAcknowledged, Adopt, WaitIsExclusive, Waiting,
                        ResolvesUnknown
    <2> QED
      BY <2>1, <2>2 DEF Promise!Learn
  <1>6. ASSUME NEW h \in Handlers, SubmitUnknown(h) PROVE UNCHANGED Promise!vars
    <2>1. /\ Waiting(h, on[h])
          /\ on[h] \in Orders
          /\ idem' = [idem EXCEPT ![on[h]] = "unknown"]
          /\ UNCHANGED accepted
      BY <1>6 DEF SubmitUnknown, Waiting
    <2>2. idem[on[h]] = "submit_pending"
      BY <2>1 DEF WaitIsExclusive
    <2> QED
      BY <2>1, <2>2 DEF Promise!vars
  <1>7. \/ \E o \in Orders : LatePostArrives(o)
        \/ \E h \in Handlers :
             \/ Claim(h) \/ SubmitDenied(h) \/ SubmitRefused(h)
             \/ VenueAccepts(h) \/ SubmitAcknowledged(h) \/ Adopt(h)
             \/ SubmitUnknown(h)
    BY DEF Next, OrderStep, StartStep, HandlerStep, vars, rowVars, venueVars,
           CreateDraft, EmitClosed, HoldForOpen, LatePostLost, VenueExecutes, VenueCloses,
           RereadUnknown, EmitNow, StartConfirm, StartRelease, StartPoll, StartCancel,
           StartSweep, ResetHeld, RefreshHeld, GatePasses, GateRefuses,
           ClaimConflict, VenueRefuses, Find, GraceExpires, GetOrder,
           GetRecentFills, QueryFails, IngestFill, ApplyStatus, CancelRow,
           CancelAtVenue, CancelFails, CancelSave, SweepSave, Crash,
           Reauthenticate
  <1>8. \A h \in Handlers :
          Claim(h) \/ SubmitDenied(h) \/ SubmitRefused(h) \/ VenueAccepts(h)
            \/ SubmitAcknowledged(h) \/ Adopt(h) => on[h] \in Orders
    BY DEF Claim, SubmitDenied, SubmitRefused, VenueAccepts,
           SubmitAcknowledged, Adopt, Steps
  <1> QED
    <2>1. CASE \E o \in Orders : LatePostArrives(o)
      BY <2>1, <1>4 DEF Promise!Next
    <2>2. ASSUME NEW h \in Handlers, SubmitUnknown(h)
          PROVE  UNCHANGED Promise!vars
      BY <2>2, <1>6
    <2>3. ASSUME NEW h \in Handlers,
                 \/ Claim(h) \/ SubmitDenied(h) \/ SubmitRefused(h)
                 \/ VenueAccepts(h) \/ SubmitAcknowledged(h) \/ Adopt(h)
          PROVE  Promise!Next
      <3>1. on[h] \in Orders
        BY <2>3, <1>8
      <3>2. \/ Promise!Claim(on[h]) \/ Promise!GiveBack(on[h])
            \/ Promise!Place(on[h]) \/ Promise!Learn(on[h])
        BY <2>3, <1>1, <1>2, <1>3, <1>5
      <3> QED
        BY <3>1, <3>2 DEF Promise!Next, Promise!Claim, Promise!GiveBack,
                          Promise!Place, Promise!Learn
    <2> QED
      BY <1>7, <2>1, <2>2, <2>3

\* Submission keeps the promise of SubmitOnce.
THEOREM SubmissionRefines == Spec => SubmitsOnce
  <1>1. Init => Promise!Init
    BY DEF Init, Promise!Init
  <1> QED
    BY <1>1, PromiseStep, SubmitInvariant, PTL DEF Spec, SubmitsOnce, Promise!Spec

-----------------------------------------------------------------------------
(* Orders handled one request or task at a time.                           *)

Busy(h, o) == pc[h] # "idle" /\ on[h] = o

\* No two handlers deal with one order at the same time, and none has died.
InTurn ==
  /\ \A o \in Orders : \A g, h \in Handlers : Busy(g, o) /\ Busy(h, o) => g = h
  /\ crashes = 0

\* Past its opening at the venue, for good.
Ending(o) == vstate[o] \in {"cancelling", "closed"}

\* What a handler that is alone with its order knows of it at every step.
Knows(h) ==
  LET o == on[h] IN
  /\ pc[h] \in {"hold", "refresh", "gate"} => status[o] = "draft"
  /\ pc[h] = "reset" => status[o] = "pending_open"
  /\ pc[h] = "cancelrow" => status[o] \in {"draft", "pending_open"}
  /\ pc[h] \in {"claim", "wait", "sweep"} => status[o] = "confirmed"
  /\ pc[h] \in {"claim", "sweep"} => idem[o] = "unsubmitted"
  /\ pc[h] \in {"find", "adopt", "expire", "reread"} => idem[o] = "unknown"
  /\ pc[h] \in {"getorder", "getfills", "ingest", "apply"} => idem[o] = "acknowledged"
  /\ pc[h] \in {"adopt", "getfills", "ingest", "apply"}
       => snap[h] \in OpenStatuses \/ Ending(o)
  /\ pc[h] = "cancelsave" => Ending(o)

\* What holds of an order, whoever is at work on it: no claim is abandoned, a POST
\* under way is of an unknown order, and what works at the venue is polled.
Orderly(o) ==
  /\ idem[o] = "submit_pending" => \E h \in Handlers : Waiting(h, o)
  /\ late[o] => idem[o] = "unknown"
  /\ status[o] \in {"absent", "draft", "pending_open"} => idem[o] = "unsubmitted"
  /\ status[o] = "confirmed" => idem[o] \in {"unsubmitted", "submit_pending"}
  /\ vstate[o] = "working" => Pollable(o) \/ idem[o] = "submit_pending"

TurnInv ==
  /\ \A h \in Handlers : Knows(h)
  /\ \A o \in Orders : Orderly(o)

\* Handlers and rows that a step of handler h on order o leaves alone.
OthersStay(h) == \A g \in Handlers : g # h => UNCHANGED <<pc[g], on[g], snap[g]>>

RowsStay(o) ==
  \A p \in Orders : p # o => UNCHANGED <<status[p], idem[p], vstate[p], late[p]>>

\* A step of one handler on the order that is its alone disturbs no one else's.
LEMMA Frame ==
  ASSUME TypeOK, TurnInv, NEW h \in Handlers, NEW o \in Orders,
         OthersStay(h), RowsStay(o),
         \A g \in Handlers : g # h => ~Busy(g, o),
         \A p \in Orders : p # o => ~Waiting(h, p),
         Knows(h)', Orderly(o)'
  PROVE  TurnInv'
  <1>1. ASSUME NEW g \in Handlers PROVE Knows(g)'
    <2>1. CASE g = h
      BY <2>1
    <2>2. CASE g # h /\ pc[g] = "idle"
      <3>1. pc'[g] = "idle"
        BY <2>2 DEF OthersStay
      <3> QED
        BY <3>1 DEF Knows
    <2>3. CASE g # h /\ pc[g] # "idle"
      <3>1. on[g] # o /\ on[g] \in Orders
        BY <2>3 DEF Busy, TypeOK, HandlerTypes
      <3>2. /\ UNCHANGED <<pc[g], on[g], snap[g]>>
            /\ UNCHANGED <<status[on[g]], idem[on[g]], vstate[on[g]]>>
        BY <2>3, <3>1 DEF OthersStay, RowsStay
      <3>3. Knows(g)
        BY DEF TurnInv
      <3>4. status'[on'[g]] = status[on[g]] /\ idem'[on'[g]] = idem[on[g]]
            /\ vstate'[on'[g]] = vstate[on[g]]
        BY <3>2
      <3> QED
        BY <3>2, <3>3, <3>4 DEF Knows, Ending
    <2> QED
      BY <2>1, <2>2, <2>3
  <1>2. ASSUME NEW p \in Orders, p # o PROVE Orderly(p)'
    <2>1. Orderly(p) /\ UNCHANGED <<status[p], idem[p], vstate[p], late[p]>>
      BY <1>2 DEF TurnInv, RowsStay
    <2>2. (\E g \in Handlers : Waiting(g, p)) => (\E g \in Handlers : Waiting(g, p)')
      BY <1>2 DEF Waiting, OthersStay
    <2> QED
      BY <2>1, <2>2 DEF Orderly, Pollable
  <1> QED
    BY <1>1, <1>2 DEF TurnInv

\* Steps of the owner, the venue and the network, which no handler takes.
LEMMA TurnOutside ==
  ASSUME SubmitInv, TurnInv, NEW o \in Orders, OrderStep(o)
  PROVE  TurnInv'
  <1> USE DEF SubmitInv, TypeOK, RowTypes, VenueTypes, HandlerTypes
  <1>0. UNCHANGED <<pc, on, snap>> /\ RowsStay(o) /\ idem' = idem
    BY DEF OrderStep, CreateDraft, LatePostArrives, LatePostLost, PlaceAtVenue,
           VenueExecutes, VenueCloses, SetStatus, RowsStay, rowVars, venueVars, handVars
  <1>1. /\ status[o] # "absent" => status'[o] = status[o]
        /\ status[o] = "absent" => status'[o] \in {"absent", "draft"}
    BY DEF OrderStep, CreateDraft, LatePostArrives, LatePostLost,
           VenueExecutes, VenueCloses, SetStatus, rowVars
  <1>2. /\ Ending(o) => Ending(o)'
        /\ late'[o] => late[o]
        /\ vstate'[o] = "working" => vstate[o] = "working" \/ idem[o] = "unknown"
    <2>1. late[o] => idem[o] = "unknown"
      BY DEF TurnInv, Orderly
    <2> QED
      BY <2>1 DEF OrderStep, CreateDraft, LatePostArrives, LatePostLost, PlaceAtVenue,
           VenueExecutes, VenueCloses, Ending, venueVars, VenueStates
  <1>3. ASSUME NEW h \in Handlers PROVE Knows(h)'
    <2>1. Knows(h)
      BY DEF TurnInv
    <2>2. CASE on[h] # o
      BY <1>0, <2>1, <2>2 DEF Knows, RowsStay, Ending
    <2>3. CASE on[h] = o
      BY <1>0, <1>1, <1>2, <2>1, <2>3 DEF Knows
    <2> QED
      BY <2>2, <2>3
  <1>4. ASSUME NEW p \in Orders PROVE Orderly(p)'
    <2>1. Orderly(p)
      BY DEF TurnInv
    <2>2. (\E g \in Handlers : Waiting(g, p)) => (\E g \in Handlers : Waiting(g, p)')
      BY <1>0 DEF Waiting
    <2>3. CASE p # o
      BY <1>0, <2>1, <2>2, <2>3 DEF Orderly, RowsStay, Pollable
    <2>4. CASE p = o
      BY <1>0, <1>1, <1>2, <2>1, <2>2, <2>4 DEF Orderly, Pollable, OpenStatuses
    <2> QED
      BY <2>3, <2>4
  <1> QED
    BY <1>3, <1>4 DEF TurnInv

LEMMA BidIsAcknowledged ==
  ASSUME SubmitInv
  PROVE  \A o \in Orders : bid[o] <=> idem[o] = "acknowledged"
  <1>1. AcknowledgedIsPlaced
    BY Zenon DEF SubmitInv, SubmitCore
  <1> QED
    BY <1>1 DEF AcknowledgedIsPlaced

\* A handler that begins on an order knows what it has just read.
LEMMA TurnStart ==
  ASSUME SubmitInv, TurnInv, InTurn', NEW h \in Handlers, NEW o \in Orders, StartStep(h, o)
  PROVE  TurnInv'
  <1> USE DEF SubmitInv, TypeOK, RowTypes, VenueTypes, HandlerTypes, SetStatus, Begin
  <1>0. Orderly(o)
    BY DEF TurnInv
  <1>1. /\ pc[h] = "idle" /\ pc'[h] # "idle" /\ on'[h] = o
        /\ OthersStay(h) /\ RowsStay(o)
    BY DEF StartStep, EmitClosed, EmitNow, StartConfirm, StartRelease, StartPoll,
           StartCancel, StartSweep, OthersStay, RowsStay, rowVars, venueVars
  <1>2. /\ \A g \in Handlers : g # h => ~Busy(g, o)
        /\ \A p \in Orders : ~Waiting(h, p)
    BY <1>1 DEF InTurn, Busy, OthersStay, Waiting
  <1>3. Orderly(o)'
    <2>1. ~Waiting(h, o)
      BY <1>2
    <2>2. (\E g \in Handlers : Waiting(g, o)) => (\E g \in Handlers : Waiting(g, o)')
      BY <1>1, <2>1 DEF Waiting, OthersStay
    <2>3. /\ UNCHANGED <<idem, vstate, late>>
          /\ \/ status'[o] = status[o]
             \/ status[o] = "absent" /\ status'[o] = "draft"
      BY DEF StartStep, EmitClosed, EmitNow, StartConfirm, StartRelease, StartPoll,
           StartCancel, StartSweep, rowVars, venueVars
    <2> QED
      BY <1>0, <2>2, <2>3 DEF Orderly, Pollable, OpenStatuses
  <1>4. Knows(h)'
    <2>1. CASE EmitClosed(h, o) \/ EmitNow(h, o) \/ StartConfirm(h, o) \/ StartRelease(h, o)
      BY <1>1, <2>1 DEF EmitClosed, EmitNow, StartConfirm, StartRelease, Knows, rowVars
    <2>2. CASE StartPoll(h, o)
      <3>1. bid[o] => idem[o] = "acknowledged"
        BY BidIsAcknowledged
      <3>2. /\ UNCHANGED <<status, idem, vstate>>
            /\ \/ pc'[h] = "find" /\ idem[o] = "unknown"
               \/ pc'[h] = "getorder" /\ idem[o] = "acknowledged"
        BY <2>2, <3>1 DEF StartPoll, rowVars, venueVars
      <3> QED
        BY <1>1, <3>2 DEF Knows
    <2>3. CASE StartCancel(h, o)
      BY <1>1, <2>3 DEF StartCancel, Knows, rowVars
    <2>4. CASE StartSweep(h, o)
      <3>1. idem[o] # "submit_pending"
        BY <1>0, <2>4 DEF StartSweep, Orderly, Waiting
      <3> QED
        BY <1>0, <1>1, <2>4, <3>1 DEF StartSweep, Knows, Orderly, rowVars
    <2> QED
      BY <2>1, <2>2, <2>3, <2>4 DEF StartStep
  <1> QED
    BY <1>1, <1>2, <1>3, <1>4, Frame

\* A step of a handler, alone with its order.
LEMMA TurnHandler ==
  ASSUME SubmitInv, TurnInv, InTurn, InTurn', NEW h \in Handlers, HandlerStep(h)
  PROVE  TurnInv'
  <1> SUFFICES ASSUME NEW o, o = on[h] PROVE TurnInv'
    OBVIOUS
  <1> USE DEF SubmitInv, TypeOK, RowTypes, VenueTypes, HandlerTypes, SetStatus, OtherTypes
  <1>0. /\ pc[h] # "idle" /\ o \in Orders /\ Knows(h) /\ Orderly(o)
        /\ \A g \in Handlers : g # h => ~Busy(g, o)
        /\ \A p \in Orders : p # o => ~Waiting(h, p)
    <2>1. pc[h] # "idle"
      BY DEF HandlerStep, HoldForOpen, ResetHeld, RefreshHeld, GatePasses, GateRefuses,
        Claim, ClaimConflict, VenueAccepts, VenueRefuses, SubmitAcknowledged,
        SubmitUnknown, SubmitDenied, SubmitRefused, Find, Adopt, GraceExpires,
        RereadUnknown, GetOrder, GetRecentFills, QueryFails, IngestFill, ApplyStatus,
        CancelRow, CancelAtVenue, CancelFails, CancelSave, SweepSave, Crash
    <2>2. o \in Orders
      BY <2>1
    <2> QED
      BY <2>1, <2>2 DEF TurnInv, InTurn, Busy, Waiting
  <1>o. on[h] = o
    OBVIOUS
  <1>w. Waiting(h, o) => /\ idem[o] = "submit_pending" /\ ~late[o]
                         /\ accepted[o] = (IF reply[h] = "accepted" THEN 1 ELSE 0)
    BY <1>0 DEF SubmitCore, WaitIsExclusive
  <1>v. /\ idem[o] = "unsubmitted" => vstate[o] = "none"
        /\ accepted[o] = 0 <=> vstate[o] = "none"
        /\ idem[o] = "acknowledged" => vstate[o] # "none"
    BY <1>0 DEF SubmitCore, WalkBackIsHonest, VenueCounts, AcknowledgedIsPlaced
  <1>b. bid[o] <=> idem[o] = "acknowledged"
    BY <1>0, BidIsAcknowledged
  <1>a. pc[h] = "adopt" => ~late[o]
    BY <1>0 DEF SubmitCore, ResolvesUnknown, VenueCounts
  <1>q. ASSUME OthersStay(h), RowsStay(o), Knows(h)', Orderly(o)' PROVE TurnInv'
    <2>1. TypeOK /\ o \in Orders
      BY <1>0
    <2> QED
      BY <1>0, <1>q, <2>1, Frame
  <1>1. ASSUME ~Crash(h) PROVE OthersStay(h) /\ RowsStay(o)
    <2> USE DEF OthersStay, RowsStay, rowVars, venueVars
    <2>1. CASE HoldForOpen(h)          BY <2>1 DEF HoldForOpen, End
    <2>2. CASE ResetHeld(h)            BY <2>2 DEF ResetHeld, Goto
    <2>3. CASE RefreshHeld(h)          BY <2>3 DEF RefreshHeld, Goto
    <2>4. CASE GatePasses(h)           BY <2>4 DEF GatePasses, Goto
    <2>5. CASE GateRefuses(h)          BY <2>5 DEF GateRefuses, End
    <2>6. CASE Claim(h)                BY <2>6 DEF Claim, Goto
    <2>7. CASE ClaimConflict(h)        BY <2>7 DEF ClaimConflict, End
    <2>8. CASE VenueAccepts(h)         BY <2>8 DEF VenueAccepts, PlaceAtVenue
    <2>9. CASE VenueRefuses(h)         BY <2>9 DEF VenueRefuses
    <2>10. CASE SubmitAcknowledged(h)  BY <2>10 DEF SubmitAcknowledged, Goto, End
    <2>11. CASE SubmitUnknown(h)       BY <2>11 DEF SubmitUnknown, AbandonPost, End
    <2>12. CASE SubmitDenied(h)        BY <2>12 DEF SubmitDenied, End
    <2>13. CASE SubmitRefused(h)       BY <2>13 DEF SubmitRefused, End
    <2>14. CASE Find(h)                BY <2>14 DEF Find, Goto, Report
    <2>15. CASE Adopt(h)               BY <2>15 DEF Adopt, Goto
    <2>16. CASE GraceExpires(h)        BY <2>16 DEF GraceExpires, Goto
    <2>17. CASE RereadUnknown(h)       BY <2>17 DEF RereadUnknown, Goto, End
    <2>18. CASE GetOrder(h)            BY <2>18 DEF GetOrder, Goto, Report
    <2>19. CASE GetRecentFills(h)      BY <2>19 DEF GetRecentFills, Goto
    <2>20. CASE QueryFails(h)          BY <2>20 DEF QueryFails, End
    <2>21. CASE IngestFill(h)          BY <2>21 DEF IngestFill, Goto
    <2>22. CASE ApplyStatus(h)         BY <2>22 DEF ApplyStatus, End
    <2>23. CASE CancelRow(h)           BY <2>23 DEF CancelRow, End
    <2>24. CASE CancelAtVenue(h)       BY <2>24 DEF CancelAtVenue, Goto
    <2>25. CASE CancelFails(h)         BY <2>25 DEF CancelFails, End
    <2>26. CASE CancelSave(h)          BY <2>26 DEF CancelSave, End
    <2>27. CASE SweepSave(h)           BY <2>27 DEF SweepSave, End
    <2> QED
      BY <2>1, <2>2, <2>3, <2>4, <2>5, <2>6, <2>7, <2>8, <2>9, <2>10, <2>11,
         <2>12, <2>13, <2>14, <2>15, <2>16, <2>17, <2>18, <2>19, <2>20, <2>21,
         <2>22, <2>23, <2>24, <2>25, <2>26, <2>27, <1>1 DEF HandlerStep
  <1>2. ASSUME ~Crash(h) PROVE Knows(h)'
    <2> USE <1>0, <1>o, <1>w, <1>v, <1>b DEF Knows, Orderly, Ending, OpenStatuses,
            Waiting, VenueStates, rowVars, venueVars
    <2>1. CASE HoldForOpen(h)          BY <2>1 DEF HoldForOpen, End
    <2>2. CASE ResetHeld(h)            BY <2>2 DEF ResetHeld, Goto
    <2>3. CASE RefreshHeld(h)          BY <2>3 DEF RefreshHeld, Goto
    <2>4. CASE GatePasses(h)           BY <2>4 DEF GatePasses, Goto
    <2>5. CASE GateRefuses(h)          BY <2>5 DEF GateRefuses, End
    <2>6. CASE Claim(h)                BY <2>6 DEF Claim, Goto
    <2>7. CASE ClaimConflict(h)        BY <2>7 DEF ClaimConflict, End
    <2>8. CASE VenueAccepts(h)         BY <2>8 DEF VenueAccepts, PlaceAtVenue
    <2>9. CASE VenueRefuses(h)         BY <2>9 DEF VenueRefuses
    <2>10. CASE SubmitAcknowledged(h)  BY <2>10 DEF SubmitAcknowledged, Goto, End
    <2>11. CASE SubmitUnknown(h)       BY <2>11 DEF SubmitUnknown, AbandonPost, End
    <2>12. CASE SubmitDenied(h)        BY <2>12 DEF SubmitDenied, End
    <2>13. CASE SubmitRefused(h)       BY <2>13 DEF SubmitRefused, End
    <2>14. CASE Find(h)                BY <2>14 DEF Find, Goto, Report
    <2>15. CASE Adopt(h)               BY <2>15 DEF Adopt, Goto
    <2>16. CASE GraceExpires(h)        BY <2>16 DEF GraceExpires, Goto
    <2>17. CASE RereadUnknown(h)       BY <2>17 DEF RereadUnknown, Goto, End
    <2>18. CASE GetOrder(h)            BY <2>18 DEF GetOrder, Goto, Report
    <2>19. CASE GetRecentFills(h)      BY <2>19 DEF GetRecentFills, Goto
    <2>20. CASE QueryFails(h)          BY <2>20 DEF QueryFails, End
    <2>21. CASE IngestFill(h)          BY <2>21 DEF IngestFill, Goto
    <2>22. CASE ApplyStatus(h)         BY <2>22 DEF ApplyStatus, End
    <2>23. CASE CancelRow(h)           BY <2>23 DEF CancelRow, End
    <2>24. CASE CancelAtVenue(h)       BY <2>24 DEF CancelAtVenue, Goto
    <2>25. CASE CancelFails(h)         BY <2>25 DEF CancelFails, End
    <2>26. CASE CancelSave(h)          BY <2>26 DEF CancelSave, End
    <2>27. CASE SweepSave(h)           BY <2>27 DEF SweepSave, End
    <2> QED
      BY <2>1, <2>2, <2>3, <2>4, <2>5, <2>6, <2>7, <2>8, <2>9, <2>10, <2>11,
         <2>12, <2>13, <2>14, <2>15, <2>16, <2>17, <2>18, <2>19, <2>20, <2>21,
         <2>22, <2>23, <2>24, <2>25, <2>26, <2>27, <1>2 DEF HandlerStep
  <1>3. ASSUME ~Crash(h) PROVE Orderly(o)'
    <2> USE <1>0, <1>o, <1>w, <1>v, <1>b, <1>a DEF Knows, Orderly, Pollable, Ending,
            OpenStatuses, Reports, Waiting, Busy, rowVars, venueVars
    <2>1. CASE HoldForOpen(h)          BY <2>1 DEF HoldForOpen, End
    <2>2. CASE ResetHeld(h)            BY <2>2 DEF ResetHeld, Goto
    <2>3. CASE RefreshHeld(h)          BY <2>3 DEF RefreshHeld, Goto
    <2>4. CASE GatePasses(h)           BY <2>4 DEF GatePasses, Goto
    <2>5. CASE GateRefuses(h)          BY <2>5 DEF GateRefuses, End
    <2>6. CASE Claim(h)                BY <2>6 DEF Claim, Goto
    <2>7. CASE ClaimConflict(h)        BY <2>7 DEF ClaimConflict, End
    <2>8. CASE VenueAccepts(h)         BY <2>8 DEF VenueAccepts, PlaceAtVenue
    <2>9. CASE VenueRefuses(h)         BY <2>9 DEF VenueRefuses
    <2>10. CASE SubmitAcknowledged(h)
      <3>1. /\ idem'[o] = "acknowledged" /\ ~late'[o] /\ vstate'[o] = vstate[o]
            /\ status'[o] \in Answers(o)
        BY <2>10 DEF SubmitAcknowledged
      <3>2. /\ status'[o] \in Reports
            /\ vstate[o] = "working" => status'[o] \in OpenStatuses
        BY <3>1, ReportTypes DEF Answers, Report
      <3> QED
        BY <3>1, <3>2
    <2>11. CASE SubmitUnknown(h)       BY <2>11 DEF SubmitUnknown, AbandonPost, End
    <2>12. CASE SubmitDenied(h)        BY <2>12 DEF SubmitDenied, End
    <2>13. CASE SubmitRefused(h)       BY <2>13 DEF SubmitRefused, End
    <2>14. CASE Find(h)                BY <2>14 DEF Find, Goto, Report
    <2>15. CASE Adopt(h)               BY <2>15 DEF Adopt, Goto
    <2>16. CASE GraceExpires(h)        BY <2>16 DEF GraceExpires, Goto
    <2>17. CASE RereadUnknown(h)       BY <2>17 DEF RereadUnknown, Goto, End
    <2>18. CASE GetOrder(h)            BY <2>18 DEF GetOrder, Goto, Report
    <2>19. CASE GetRecentFills(h)      BY <2>19 DEF GetRecentFills, Goto
    <2>20. CASE QueryFails(h)          BY <2>20 DEF QueryFails, End
    <2>21. CASE IngestFill(h)          BY <2>21 DEF IngestFill, Goto
    <2>22. CASE ApplyStatus(h)         BY <2>22 DEF ApplyStatus, End
    <2>23. CASE CancelRow(h)           BY <2>23 DEF CancelRow, End
    <2>24. CASE CancelAtVenue(h)       BY <2>24 DEF CancelAtVenue, Goto
    <2>25. CASE CancelFails(h)         BY <2>25 DEF CancelFails, End
    <2>26. CASE CancelSave(h)          BY <2>26 DEF CancelSave, End
    <2>27. CASE SweepSave(h)           BY <2>27 DEF SweepSave, End
    <2> QED
      BY <2>1, <2>2, <2>3, <2>4, <2>5, <2>6, <2>7, <2>8, <2>9, <2>10, <2>11,
         <2>12, <2>13, <2>14, <2>15, <2>16, <2>17, <2>18, <2>19, <2>20, <2>21,
         <2>22, <2>23, <2>24, <2>25, <2>26, <2>27, <1>3 DEF HandlerStep
  <1>4. ~Crash(h)
    BY DEF Crash, InTurn
  <1> QED
    BY <1>q, <1>1, <1>2, <1>3, <1>4

\* Every step preserves the invariant while orders are handled in turn.
LEMMA TurnStep ==
  SubmitInv /\ TurnInv /\ InTurn /\ InTurn' /\ [Next]_vars => TurnInv'
  <1> SUFFICES ASSUME SubmitInv, TurnInv, InTurn, InTurn', [Next]_vars PROVE TurnInv'
    OBVIOUS
  <1>1. CASE Reauthenticate \/ UNCHANGED vars
    BY <1>1 DEF Reauthenticate, vars, rowVars, venueVars, handVars, TurnInv, Knows,
                Orderly, Ending, Pollable, Waiting
  <1> QED
    BY <1>1, TurnOutside, TurnStart, TurnHandler DEF Next

\* The invariant holds as long as orders are handled in turn.
LEMMA TurnInvariant == Spec /\ []InTurn => []TurnInv
  <1>1. Init => TurnInv
    BY DEF Init, TurnInv, Knows, Orderly
  <1> QED
    BY <1>1, TurnStep, SubmitInvariant, PTL DEF Spec

\* As long as every order is handled by one request or task at a time, none of which
\* dies, an order that works at the venue is one the poll looks at, also after lost
\* answers, refusals, auth errors and expired grace windows.
THEOREM LiveOrderPolled == Spec /\ []InTurn => []LiveIsPolled
  <1>1. TurnInv => LiveIsPolled
    BY DEF TurnInv, Orderly, LiveIsPolled, Quiet, Waiting
  <1> QED
    BY <1>1, TurnInvariant, PTL

-----------------------------------------------------------------------------
(* Cancelled rows, whoever overlaps and dies.                              *)

\* What a handler past the venue's answer, or one that sweeps a row, knows of it
\* although others may be at work on it.
InHand(h) ==
  LET o == on[h] IN
  /\ pc[h] \in {"getorder", "getfills", "ingest", "apply"} => idem[o] = "acknowledged"
  /\ pc[h] = "sweep" => \/ idem[o] \in {"unknown", "acknowledged"}
                        \/ /\ status[o] = "confirmed"
                           /\ \A g \in Handlers : g # h => on[g] # o

CancelInv == SubmitInv /\ \A h \in Handlers : InHand(h)

\* A step of a handler leaves the others and their orders alone, and takes up no order.
LEMMA StepFrame ==
  ASSUME TypeOK, NEW h \in Handlers, HandlerStep(h)
  PROVE  /\ pc[h] # "idle"
         /\ on'[h] \in {on[h], NoOrder}
         /\ \A g \in Handlers : g # h => UNCHANGED <<pc[g], on[g]>>
         /\ \A p \in Orders : p # on[h] => UNCHANGED <<status[p], idem[p]>>
  BY SMTT(60) DEF TypeOK, RowTypes, HandlerTypes, SetStatus, rowVars, venueVars, Goto, End,
     AbandonPost, HandlerStep, HoldForOpen, ResetHeld, RefreshHeld, GatePasses,
     GateRefuses, Claim, ClaimConflict, VenueAccepts, VenueRefuses, SubmitAcknowledged,
     SubmitUnknown, SubmitDenied, SubmitRefused, Find, Adopt, GraceExpires,
     RereadUnknown, GetOrder, GetRecentFills, QueryFails, IngestFill, ApplyStatus,
     CancelRow, CancelAtVenue, CancelFails, CancelSave, SweepSave, Crash

\* A handler that takes up an order changes nothing of its row, or has just created it.
LEMMA StartFrame ==
  ASSUME TypeOK, NEW h \in Handlers, NEW o \in Orders, StartStep(h, o)
  PROVE  /\ pc[h] = "idle" /\ on'[h] = o
         /\ \A g \in Handlers : g # h => UNCHANGED <<pc[g], on[g]>>
         /\ idem' = idem
         /\ \A p \in Orders : p # o \/ status[p] # "absent" => UNCHANGED status[p]
         /\ \/ status[o] \in {"absent", "draft", "pending_open"} \cup OpenStatuses
            \/ idem[o] = "unknown"
            \/ /\ pc'[h] = "sweep" /\ status[o] = "confirmed"
               /\ \A g \in Handlers : on[g] # o
  BY DEF TypeOK, RowTypes, HandlerTypes, SetStatus, StartStep, Begin, EmitClosed, EmitNow,
     StartConfirm, StartRelease, StartPoll, Pollable, StartCancel, StartSweep, rowVars

\* A row whose placement is known, or in doubt, never becomes unsubmitted again.
LEMMA DoubtStays ==
  ASSUME SubmitInv, NEW h \in Handlers, HandlerStep(h), NEW o \in Orders
  PROVE  /\ idem[o] = "acknowledged" => idem'[o] = "acknowledged"
         /\ idem[o] = "unknown" => idem'[o] \in {"unknown", "acknowledged"}
  <1> USE DEF SubmitInv, TypeOK, RowTypes, HandlerTypes
  <1>1. CASE on[h] # o
    BY <1>1, StepFrame
  <1>2. CASE on[h] = o
    <2>1. pc[h] = "wait" => idem[o] = "submit_pending"
      BY <1>2 DEF SubmitCore, WaitIsExclusive, Waiting
    <2> QED
      BY <1>2, <2>1 DEF rowVars, HandlerStep, HoldForOpen, ResetHeld, RefreshHeld,
         GatePasses, GateRefuses, Claim, ClaimConflict, VenueAccepts, VenueRefuses,
         SubmitAcknowledged, SubmitUnknown, SubmitDenied, SubmitRefused, Find, Adopt,
         GraceExpires, RereadUnknown, GetOrder, GetRecentFills, QueryFails, IngestFill,
         ApplyStatus, CancelRow, CancelAtVenue, CancelFails, CancelSave, SweepSave, Crash
  <1> QED
    BY <1>1, <1>2

\* A handler gets past the venue's answer only once the row is acknowledged.
LEMMA AnswerIsKnown ==
  ASSUME SubmitInv, NEW h \in Handlers, HandlerStep(h), InHand(h)
  PROVE  /\ pc'[h] # "sweep"
         /\ pc'[h] \in {"getorder", "getfills", "ingest", "apply"}
              => on'[h] = on[h] /\ idem'[on[h]] = "acknowledged"
  <1> USE DEF SubmitInv, TypeOK, RowTypes, HandlerTypes, InHand
  <1>1. pc[h] # "idle" /\ on[h] \in Orders
    BY StepFrame
  <1>2. bid[on[h]] => idem[on[h]] = "acknowledged"
    BY <1>1, BidIsAcknowledged
  <1> QED
    BY <1>1, <1>2 DEF rowVars, Goto, End, HandlerStep, HoldForOpen, ResetHeld, RefreshHeld,
       GatePasses, GateRefuses, Claim, ClaimConflict, VenueAccepts, VenueRefuses,
       SubmitAcknowledged, SubmitUnknown, SubmitDenied, SubmitRefused, Find, Adopt,
       GraceExpires, RereadUnknown, GetOrder, GetRecentFills, QueryFails, IngestFill,
       ApplyStatus, CancelRow, CancelAtVenue, CancelFails, CancelSave, SweepSave, Crash

\* Every step preserves what handlers know of the orders in hand.
LEMMA InHandStep == CancelInv /\ [Next]_vars => CancelInv'
  <1> SUFFICES ASSUME CancelInv, [Next]_vars, NEW k \in Handlers PROVE InHand(k)'
    BY SubmitStep DEF CancelInv
  <1> USE DEF CancelInv
  <1>t. TypeOK
    BY DEF SubmitInv
  <1>k. InHand(k) /\ (pc[k] # "idle" => on[k] \in Orders)
    BY DEF SubmitInv, TypeOK, HandlerTypes
  <1>1. ASSUME NEW o \in Orders, OrderStep(o) PROVE InHand(k)'
    <2>1. /\ UNCHANGED <<pc, on, idem>>
          /\ \A p \in Orders : status[p] # "absent" => UNCHANGED status[p]
      BY <1>1, <1>t DEF TypeOK, RowTypes, OrderStep, CreateDraft, LatePostArrives,
         LatePostLost, VenueExecutes, VenueCloses, SetStatus, rowVars, handVars
    <2> QED
      BY <1>k, <2>1 DEF InHand
  <1>2. ASSUME NEW h \in Handlers, NEW o \in Orders, StartStep(h, o) PROVE InHand(k)'
    <2>1. CASE k = h
      <3>1. pc'[h] = "sweep" => /\ status'[o] = "confirmed"
                                /\ \A g \in Handlers : g # h => on'[g] # o
        BY <1>2, <1>t, StartFrame DEF StartStep, EmitClosed, EmitNow, StartConfirm,
           StartRelease, StartPoll, StartCancel, StartSweep, Begin, TypeOK, HandlerTypes,
           rowVars
      <3>2. bid[o] => idem[o] = "acknowledged"
        BY BidIsAcknowledged
      <3>3. pc'[h] \in {"getorder", "getfills", "ingest", "apply"} => idem[o] = "acknowledged"
        BY <1>2, <1>t, <3>2 DEF StartStep, EmitClosed, EmitNow, StartConfirm,
           StartRelease, StartPoll, StartCancel, StartSweep, Begin, TypeOK, HandlerTypes
      <3> QED
        BY <1>2, <1>t, <2>1, <3>1, <3>3, StartFrame DEF InHand
    <2>2. CASE k # h
      <3>1. UNCHANGED <<pc[k], on[k]>> /\ idem' = idem
        BY <1>2, <1>t, <2>2, StartFrame
      <3>2. CASE pc[k] # "sweep"
        BY <1>k, <3>1, <3>2 DEF InHand
      <3>3. CASE pc[k] = "sweep" /\ idem[on[k]] \in {"unknown", "acknowledged"}
        BY <3>1, <3>3 DEF InHand
      <3>4. CASE /\ pc[k] = "sweep" /\ idem[on[k]] \notin {"unknown", "acknowledged"}
                 /\ status[on[k]] = "confirmed"
                 /\ \A g \in Handlers : g # k => on[g] # on[k]
        <4>1. o # on[k]
          BY <1>2, <1>t, <3>4, StartFrame DEF OpenStatuses
        <4>2. /\ \A g \in Handlers : g # k => on'[g] # on[k]
              /\ status'[on[k]] = "confirmed"
          BY <1>2, <1>k, <1>t, <3>4, <4>1, StartFrame
        <4> QED
          BY <3>1, <3>4, <4>2 DEF InHand
      <3> QED
        BY <1>k, <3>2, <3>3, <3>4 DEF InHand
    <2> QED
      BY <2>1, <2>2
  <1>3. ASSUME NEW h \in Handlers, HandlerStep(h) PROVE InHand(k)'
    <2>1. CASE k = h
      BY <1>3, <1>k, <2>1, AnswerIsKnown DEF InHand
    <2>2. CASE k # h
      <3>1. UNCHANGED <<pc[k], on[k]>>
        BY <1>3, <1>t, <2>2, StepFrame
      <3>2. pc[k] # "idle" =>
              /\ idem[on[k]] = "acknowledged" => idem'[on[k]] = "acknowledged"
              /\ idem[on[k]] = "unknown" => idem'[on[k]] \in {"unknown", "acknowledged"}
        BY <1>3, <1>k, DoubtStays
      <3>3. CASE pc[k] # "sweep" \/ idem[on[k]] \in {"unknown", "acknowledged"}
        BY <1>k, <3>1, <3>2, <3>3 DEF InHand
      <3>4. CASE /\ pc[k] = "sweep"
                 /\ status[on[k]] = "confirmed"
                 /\ \A g \in Handlers : g # k => on[g] # on[k]
        <4>1. on[k] \in Orders /\ on[k] # NoOrder /\ on[h] # on[k]
          BY <1>k, <2>2, <3>4, NoOrderIsNone
        <4>2. /\ status'[on[k]] = "confirmed"
              /\ \A g \in Handlers : g # k => on'[g] # on[k]
          BY <1>3, <1>t, <3>4, <4>1, StepFrame
        <4> QED
          BY <3>1, <3>4, <4>2 DEF InHand
      <3> QED
        BY <1>k, <3>3, <3>4 DEF InHand
    <2> QED
      BY <2>1, <2>2
  <1>4. CASE Reauthenticate \/ UNCHANGED vars
    BY <1>k, <1>4 DEF InHand, Reauthenticate, vars, rowVars, handVars
  <1> QED
    BY <1>1, <1>2, <1>3, <1>4 DEF Next

\* Handlers know that of every reachable state.
LEMMA InHandInvariant == Spec => []CancelInv
  <1>1. Init /\ SubmitInv => CancelInv
    BY DEF Init, CancelInv, InHand
  <1> QED
    BY <1>1, InHandStep, SubmitInvariant, PTL DEF Spec

\* Whoever overlaps and dies, a cancelled order that was never sent is taken up by no
\* one, and only a handler that had it in hand to hold, release, pass or claim it
\* writes over the cancellation.
THEOREM CancelStands == Spec => CancelStopsNewcomers
  <1>1. ASSUME CancelInv, [Next]_vars, NEW o \in Orders, Cancelled(o)
        PROVE  \/ Cancelled(o)' /\ \A h \in Handlers : on'[h] = o => on[h] = o
               \/ \E h \in Handlers : /\ on[h] = o
                                      /\ pc[h] \in {"hold", "reset", "gate", "claim"}
                                      /\ pc'[h] # pc[h]
    <2>t. TypeOK /\ SubmitInv
      BY <1>1 DEF CancelInv, SubmitInv
    <2>1. ASSUME NEW p \in Orders, OrderStep(p)
          PROVE  Cancelled(o)' /\ \A h \in Handlers : on'[h] = o => on[h] = o
      BY <1>1, <2>1, <2>t DEF Cancelled, TypeOK, RowTypes, OrderStep, CreateDraft,
         LatePostArrives, LatePostLost, VenueExecutes, VenueCloses, SetStatus, rowVars,
         handVars
    <2>2. ASSUME NEW h \in Handlers, NEW p \in Orders, StartStep(h, p)
          PROVE  Cancelled(o)' /\ \A g \in Handlers : on'[g] = o => on[g] = o
      <3>1. p # o
        BY <1>1, <2>2, <2>t, StartFrame DEF Cancelled, OpenStatuses
      <3> QED
        BY <1>1, <2>2, <2>t, <3>1, StartFrame DEF Cancelled
    <2>3. ASSUME NEW h \in Handlers, HandlerStep(h), on[h] # o
          PROVE  Cancelled(o)' /\ \A g \in Handlers : on'[g] = o => on[g] = o
      BY <1>1, <2>3, <2>t, StepFrame, NoOrderIsNone DEF Cancelled
    <2>4. ASSUME NEW h \in Handlers, HandlerStep(h), on[h] = o
          PROVE  \/ Cancelled(o)' /\ \A g \in Handlers : on'[g] = o => on[g] = o
                 \/ pc[h] \in {"hold", "reset", "gate", "claim"} /\ pc'[h] # pc[h]
      <3>1. \A g \in Handlers : on'[g] = o => on[g] = o
        BY <2>4, <2>t, StepFrame
      <3>2. /\ pc[h] # "wait"
            /\ pc[h] \notin {"find", "adopt", "expire"}
            /\ pc[h] \notin {"getorder", "getfills", "ingest", "apply", "sweep"}
        BY <1>1, <2>4 DEF CancelInv, InHand, Cancelled, SubmitInv, SubmitCore,
           WaitIsExclusive, Waiting, ResolvesUnknown
      <3>3. CASE pc[h] \in {"hold", "reset", "gate", "claim"}
        BY <2>4, <2>t, <3>3 DEF TypeOK, HandlerTypes, Goto, End, HandlerStep, HoldForOpen,
           ResetHeld, RefreshHeld, GatePasses, GateRefuses, Claim, ClaimConflict,
           VenueAccepts, VenueRefuses, SubmitAcknowledged, SubmitUnknown, SubmitDenied,
           SubmitRefused, Find, Adopt, GraceExpires, RereadUnknown, GetOrder,
           GetRecentFills, QueryFails, IngestFill, ApplyStatus, CancelRow, CancelAtVenue,
           CancelFails, CancelSave, SweepSave, Crash
      <3>4. CASE pc[h] \notin {"hold", "reset", "gate", "claim"}
        <4>1. Cancelled(o)'
          BY <1>1, <2>4, <2>t, <3>2, <3>4 DEF Cancelled, TypeOK, RowTypes, SetStatus,
             rowVars, HandlerStep, HoldForOpen, ResetHeld, RefreshHeld, GatePasses,
             GateRefuses, Claim, ClaimConflict, VenueAccepts, VenueRefuses,
             SubmitAcknowledged, SubmitUnknown, SubmitDenied, SubmitRefused, Find, Adopt,
             GraceExpires, RereadUnknown, GetOrder, GetRecentFills, QueryFails,
             IngestFill, ApplyStatus, CancelRow, CancelAtVenue, CancelFails, CancelSave,
             SweepSave, Crash
        <4> QED
          BY <3>1, <4>1
      <3> QED
        BY <3>3, <3>4
    <2>5. CASE Reauthenticate \/ UNCHANGED vars
      BY <1>1, <2>5 DEF Cancelled, Reauthenticate, vars, rowVars, handVars
    <2> QED
      BY <1>1, <2>1, <2>2, <2>3, <2>4, <2>5 DEF Next
  <1>2. CancelInv /\ [Next]_vars
          => [\A o \in Orders :
                Cancelled(o)
                  => \/ Cancelled(o)' /\ \A h \in Handlers : on'[h] = o => on[h] = o
                     \/ \E h \in Handlers : /\ on[h] = o
                                            /\ pc[h] \in {"hold", "reset", "gate", "claim"}
                                            /\ pc'[h] # pc[h]]_vars
    BY <1>1
  <1> QED
    BY <1>2, InHandInvariant, PTL DEF Spec, CancelStopsNewcomers
=============================================================================
