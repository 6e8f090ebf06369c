------------------------- MODULE TaskRuntimeProofs -------------------------
(* Theorems about TaskRuntime, for every value of its constants. *)
EXTENDS TaskRuntime, FiniteSetTheorems, SequenceTheorems, TLAPS

USE DEF laneVars, admitVars, slotVars, cancelVars, steerVars, taskVars

SlotPoints == {"marking", "announce", "turn", "hbstop", "unwind"}
RunPoints == SlotPoints \ {"marking"}
LockPoints == {"gate", "fair", "closeL", "settleL"} \cup SlotPoints
SettlePoints == {"settleL", "settleH"}
MidTerm == {"settling", "written", "emitted"}

(***************************************************************************)
(* The inductive invariant, one part per mechanism.                        *)
(***************************************************************************)

\* The in-flight counter equals the number of slots held.  TypeOK alone is not
\* inductive: that `_global_in_flight -= 1` stays a natural number needs it.
Counted == inFlight = Cardinality(slots)

\* A driver between the two ends of `async with execution_lock` owns the lock.
LockInv == \A t \in Tasks : pc[t] \in LockPoints => lockOwner[SessionOf[t]] = t

\* acquired_slot is set exactly from _acquire_fair_slot to _release_slot.
SlotInv == \A t \in Tasks : t \in slots <=> pc[t] \in SlotPoints

\* A turn between its flip to RUNNING and its cleanup is open and registered.
RunInv ==
  \A t \in Tasks : pc[t] \in RunPoints =>
    /\ running[SessionOf[t]] = t
    /\ status[t] = "running"
    /\ term[t] = "open"

\* A settlement holds the steer claim, and is either the driver's or another's.
TermInv ==
  \A t \in Tasks :
    /\ term[t] \in MidTerm =>
         /\ steerClaim[t] = "term"
         /\ ext[t] = "owner" \/ pc[t] \in SettlePoints
    /\ ext[t] = "owner" =>
         /\ term[t] \in MidTerm
         /\ pc[t] \notin SettlePoints
         /\ status[t] = "cancelled"
    /\ pc[t] \in SettlePoints =>
         /\ term[t] \in MidTerm
         /\ status[t] \in TerminalStatuses
    /\ steerClaim[t] = "cancel" => term[t] = "open"

\* Whom somebody else settles, or is about to, was marked cancelled before it
\* could begin, and so never begins.
ExtInv ==
  \A t \in Tasks : ext[t] # "none" \/ cancelOp[t] = "unstarted" =>
    /\ t \in cancelReq
    /\ pc[t] \notin RunPoints
    /\ status[t] # "running"
    /\ running[SessionOf[t]] # t

\* What a driver is about to claim is a terminal status; a registered running
\* task never counts as waiting again.
WantInv ==
  /\ \A t \in Tasks :
       pc[t] \in {"hbstop", "unwind", "closeL", "handler"} => want[t] \in TerminalStatuses
  /\ \A t \in Tasks : running[SessionOf[t]] = t => status[t] # "queued"

\* A steer that is being persisted holds the steer claim of its turn, alone.
SteerInv ==
  \A x \in Steers : sst[x] = "persisting" =>
    /\ starget[x] \in Tasks
    /\ steerClaim[starget[x]] = "admit"
    /\ \A y \in Steers : sst[y] = "persisting" /\ starget[y] = starget[x] => x = y

\* With slots reserved, a subagent reaches _fair_cond only past the gate.
GateInv ==
  \A t \in Tasks : pc[t] = "fair" /\ Kind[t] = "subagent" => ~(SubagentReserved > 0)

Safe ==
  /\ LockInv /\ SlotInv /\ RunInv /\ TermInv /\ ExtInv /\ WantInv /\ SteerInv
  /\ GateInv /\ SettlementUninterrupted

Limits == inFlight <= MaxConcurrency /\ SubagentHeadroom

IInv == TypeOK /\ Counted /\ Safe /\ Limits

(***************************************************************************)
(* Type correctness.                                                       *)
(***************************************************************************)

\* Rotating a session's agent past it (rr.rotate) keeps a sequence of sessions.
LEMMA RotatePastType ==
  ASSUME NEW S, NEW q \in Seq(S), NEW e
  PROVE  RotatePast(q, e) \in Seq(S)
<1>1. CASE ~Holds(q, e)
  BY <1>1 DEF RotatePast
<1>2. CASE Holds(q, e)
  <2>1. PosIn(q, e) \in DOMAIN q
    BY <1>2 DEF Holds, PosIn
  <2>2. /\ PosIn(q, e) \in 1..Len(q)
        /\ Len(q) \in Nat
    BY <2>1
  <2>3. SubSeq(q, PosIn(q, e) + 1, Len(q)) \in Seq(S)
    BY <2>2, SubSeqProperties
  <2>4. SubSeq(q, 1, PosIn(q, e)) \in Seq(S)
    BY <2>2, SubSeqProperties
  <2>5. QED
    BY <1>2, <2>3, <2>4, ConcatProperties DEF RotatePast
<1>3. QED
  BY <1>1, <1>2

\* Removing a session from the rotation (rr.remove) does too.
LEMMA DropFromType ==
  ASSUME NEW S, NEW q \in Seq(S), NEW e
  PROVE  DropFrom(q, e) \in Seq(S)
<1>1. CASE ~Holds(q, e)
  BY <1>1 DEF DropFrom
<1>2. CASE Holds(q, e)
  <2>1. PosIn(q, e) \in DOMAIN q
    BY <1>2 DEF Holds, PosIn
  <2>2. /\ PosIn(q, e) \in 1..Len(q)
        /\ Len(q) \in Nat
    BY <2>1
  <2>3. SubSeq(q, 1, PosIn(q, e) - 1) \in Seq(S)
    BY <2>2, SubSeqProperties
  <2>4. SubSeq(q, PosIn(q, e) + 1, Len(q)) \in Seq(S)
    BY <2>2, SubSeqProperties
  <2>5. QED
    BY <1>2, <2>3, <2>4, ConcatProperties DEF DropFrom
<1>3. QED
  BY <1>1, <1>2

TermStates == {"open", "settling", "written", "emitted", "settled"}
SteerStates == {"none", "persisting", "refused", "pending", "claimed", "applied",
                "reclaimed", "promoted", "cancelled", "rejected"}

LEMMA InitType == Init => TypeOK
  BY ShapeAssumption DEF Init, TypeOK, Points, Statuses

\* The except-branches keep the types.
LEMMA EnterHandlerType ==
  ASSUME TypeOK, NEW t \in Tasks, NEW w \in Statuses, EnterHandler(t, w)
  PROVE  /\ pc' \in [Tasks -> Points]
         /\ want' \in [Tasks -> Statuses]
         /\ status' \in [Tasks -> Statuses]
         /\ sst' \in [Steers -> SteerStates]
         /\ UNCHANGED <<term, rows, laneVars, admitVars, ext, steerClaim, promo, starget>>
  BY DEF TypeOK, EnterHandler, Resolve, Points, Statuses, SteerStates

LEMMA ActivateType ==
  ASSUME TypeOK, NEW t \in Tasks, ActivateEffect(t),
         UNCHANGED <<promo, starget>>,
         sst' \in [Steers -> SteerStates]
  PROVE  TypeOK'
<1>1. /\ SessionOf[t] \in Sessions
      /\ TaskAgent(t) \in Agents
  BY ShapeAssumption DEF TaskAgent
<1>2. EvictedBy(t) \subseteq Tasks
  BY DEF EvictedBy, TypeOK
<1>3. /\ arrivals' \in [Sessions -> Seq(Tasks)]
      /\ rr' \in [Agents -> Seq(Sessions)]
  BY <1>1 DEF ActivateEffect, TypeOK
<1>4. InterruptTargets(t) \subseteq Tasks
  BY DEF InterruptTargets, Lane
<1>5. QED
  BY <1>1, <1>2, <1>3, <1>4 DEF ActivateEffect, TypeOK, Points, Statuses, SteerStates

\* _release_slot never drives the counter below zero: it only counts down for
\* a slot that is held, and then the counter is positive.
LEMMA ReleaseSlotType ==
  ASSUME TypeOK, NEW t \in Tasks, ReleaseSlot(t), inFlight = Cardinality(slots)
  PROVE  /\ slots' \subseteq Tasks
         /\ inFlight' \in Nat
         /\ inFlight' = Cardinality(slots')
         /\ woken' \subseteq Tasks
         /\ rr' = rr
<1>1. IsFiniteSet(slots)
  BY ShapeAssumption, FS_Subset DEF TypeOK
<1>2. Cardinality(slots \ {t}) = IF t \in slots THEN Cardinality(slots) - 1
                                                ELSE Cardinality(slots)
  BY <1>1, FS_RemoveElement
<1>3. IsFiniteSet(slots \ {t}) /\ Cardinality(slots \ {t}) \in Nat
  BY <1>1, FS_RemoveElement, FS_CardinalityType
<1>4. QED
  BY <1>2, <1>3 DEF ReleaseSlot, TypeOK, CondWaiters

LEMMA AbandonType ==
  ASSUME TypeOK, Counted, NEW t \in Tasks, NEW w \in Statuses, Abandon(t, w),
         UNCHANGED <<cancelReq, cancelSrc, cancelOp>>, cancelSig' \subseteq Tasks
  PROVE  TypeOK' /\ Counted'
<1>1. /\ slots' \subseteq Tasks
      /\ inFlight' \in Nat
      /\ inFlight' = Cardinality(slots')
      /\ woken' \subseteq Tasks
      /\ rr' = rr
  BY ReleaseSlotType DEF Abandon, Counted
<1>2. /\ pc' \in [Tasks -> Points]
      /\ want' \in [Tasks -> Statuses]
      /\ status' \in [Tasks -> Statuses]
      /\ sst' \in [Steers -> SteerStates]
      /\ UNCHANGED <<term, rows, laneVars, admitVars, ext, steerClaim, promo, starget>>
  BY EnterHandlerType DEF Abandon
<1>3. lockOwner' \in [Sessions -> Tasks \cup {NoTask}]
  BY DEF Abandon, ReleaseLock, TypeOK
<1>4. QED
  BY <1>1, <1>2, <1>3 DEF TypeOK, Counted, SteerStates

LEMMA TakeSlotType ==
  ASSUME TypeOK, Counted, NEW t \in Tasks, t \notin slots, TakeSlot(t)
  PROVE  /\ pc' \in [Tasks -> Points]
         /\ slots' \subseteq Tasks
         /\ inFlight' \in Nat
         /\ Counted'
         /\ rr' \in [Agents -> Seq(Sessions)]
         /\ woken' \subseteq Tasks
<1>1. IsFiniteSet(slots)
  BY ShapeAssumption, FS_Subset DEF TypeOK
<1>2. Cardinality(slots \cup {t}) = Cardinality(slots) + 1
  BY <1>1, FS_AddElement
<1>3. TaskAgent(t) \in Agents
  BY ShapeAssumption DEF TaskAgent
<1>4. RotatePast(rr[TaskAgent(t)], SessionOf[t]) \in Seq(Sessions)
  BY <1>3, RotatePastType DEF TypeOK
<1>5. QED
  BY <1>2, <1>3, <1>4 DEF TakeSlot, TypeOK, Counted, Points, FairWaiters

LEMMA ReserveVictimsType ==
  ASSUME TypeOK, NEW s, NEW m, NEW p
  PROVE  ReserveVictims(s, m, p) \subseteq Tasks \cup {NoTask}
  BY DEF ReserveVictims, Countable, TypeOK

LEMMA ClaimEffectType ==
  ASSUME TypeOK, NEW t \in Tasks, NEW st \in Statuses, ClaimEffect(t, st)
  PROVE  /\ status' \in [Tasks -> Statuses]
         /\ term' \in [Tasks -> TermStates]
         /\ steerClaim' \in [Tasks -> {"free", "admit", "cancel", "term"}]
  BY DEF ClaimEffect, TypeOK, TermStates

LEMMA TypeStep ==
  ASSUME TypeOK, Counted, SlotInv, [Next]_vars
  PROVE  TypeOK' /\ Counted'
<1>1. ASSUME NEW t \in Tasks, NEW m \in Modes, NEW p \in Policies, Enqueue(t, m, p)
     PROVE  TypeOK' /\ Counted'
  <2>1. ReserveVictims(SessionOf[t], m, p) \subseteq Tasks \cup {NoTask}
    BY ReserveVictimsType
  <2>2. m \in {"followup", "interrupt"} /\ SessionOf[t] \in Sessions
    BY ShapeAssumption, ClientAssumption
  <2>3. QED
    BY <2>1, <2>2, <1>1 DEF Enqueue, TypeOK, Counted, Points
<1>2. ASSUME NEW t \in Tasks, Activate(t) PROVE TypeOK' /\ Counted'
  <2>1. sst' \in [Steers -> SteerStates]
    BY <1>2 DEF Activate, TypeOK, SteerStates
  <2>2. TypeOK'
    BY <2>1, <1>2, ActivateType DEF Activate
  <2>3. QED
    BY <2>2, <1>2 DEF Activate, ActivateEffect, Counted
<1>3. ASSUME NEW t \in Tasks, EnqueueFails(t) PROVE TypeOK' /\ Counted'
  BY <1>3, ShapeAssumption DEF EnqueueFails, ReleaseGate, TypeOK, Counted, Points, Statuses
<1>4. ASSUME NEW t \in Tasks, Admitted(t) PROVE TypeOK' /\ Counted'
  BY <1>4, ShapeAssumption DEF Admitted, ReleaseGate, TypeOK, Counted, Points, Statuses
<1>5. ASSUME NEW t \in Tasks, DriverStart(t) PROVE TypeOK' /\ Counted'
  BY <1>5, ShapeAssumption DEF DriverStart, TypeOK, Counted, Points, Statuses
<1>6. ASSUME NEW t \in Tasks, LockAcquire(t) PROVE TypeOK' /\ Counted'
  <2>1. /\ pc' \in [Tasks -> Points]
        /\ want' \in [Tasks -> Statuses]
        /\ woken' \subseteq Tasks
    BY <1>6 DEF LockAcquire, TypeOK, Points, Statuses
  <2>2. lockOwner' \in [Sessions -> Tasks \cup {NoTask}]
    BY <1>6 DEF LockAcquire, TypeOK
  <2>3. QED
    BY <2>1, <2>2, <1>6 DEF LockAcquire, TypeOK, Counted
<1>7. ASSUME NEW t \in Tasks, GateWake(t) PROVE TypeOK' /\ Counted'
  <2>1. t \notin slots
    BY <1>7 DEF SlotInv, SlotPoints, GateWake
  <2>2. CASE TakeSlot(t)
    BY <2>1, <2>2, <1>7, TakeSlotType DEF GateWake, TypeOK
  <2>3. CASE ~TakeSlot(t)
    BY <2>3, <1>7 DEF GateWake, TypeOK, Counted
  <2>4. QED
    BY <2>2, <2>3
<1>8. ASSUME NEW t \in Tasks, FairWake(t) PROVE TypeOK' /\ Counted'
  <2>1. t \notin slots
    BY <1>8 DEF SlotInv, SlotPoints, FairWake
  <2>2. CASE TakeSlot(t)
    BY <2>1, <2>2, <1>8, TakeSlotType DEF FairWake, TypeOK
  <2>3. CASE ~TakeSlot(t)
    BY <2>3, <1>8 DEF FairWake, TypeOK, Counted
  <2>4. QED
    BY <2>2, <2>3
<1>9. ASSUME NEW t \in Tasks, MarkRunning(t) PROVE TypeOK' /\ Counted'
  <2>1. CASE term[t] # "open" \/ status[t] \in TerminalStatuses \/ t \in cancelReq
    BY <2>1, <1>9, AbandonType DEF MarkRunning, TypeOK, Statuses
  <2>2. CASE ~(term[t] # "open" \/ status[t] \in TerminalStatuses \/ t \in cancelReq)
    <3>1. pc' \in [Tasks -> Points] /\ status' \in [Tasks -> Statuses]
      <4>1. /\ pc' = [pc EXCEPT ![t] = "announce"]
            /\ status' = [status EXCEPT ![t] = "running"]
        BY <2>2, <1>9 DEF MarkRunning
      <4>2. pc \in [Tasks -> Points] /\ status \in [Tasks -> Statuses]
        BY DEF TypeOK
      <4>3. QED
        BY <4>1, <4>2 DEF Points, Statuses
    <3>2. running' \in [Sessions -> Tasks \cup {NoTask}]
      BY <2>2, <1>9 DEF MarkRunning, TypeOK
    <3>3. pending' \subseteq Tasks
      BY <2>2, <1>9 DEF MarkRunning, TypeOK
    <3>4. QED
      BY <3>1, <3>2, <3>3, <2>2, <1>9 DEF MarkRunning, TypeOK, Counted
  <2>3. QED
    BY <2>1, <2>2
<1>10. ASSUME NEW t \in Tasks, StartFails(t) PROVE TypeOK' /\ Counted'
  BY <1>10, AbandonType DEF StartFails, Deliver, TypeOK, Statuses
<1>11. ASSUME NEW t \in Tasks, Announce(t) PROVE TypeOK' /\ Counted'
  BY <1>11, ShapeAssumption DEF Announce, TypeOK, Counted, Points, Statuses
<1>12. ASSUME NEW t \in Tasks, TurnReturns(t) PROVE TypeOK' /\ Counted'
  BY <1>12, ShapeAssumption DEF TurnReturns, LeaveTurn, TypeOK, Counted, Points, Statuses
<1>13. ASSUME NEW t \in Tasks, TurnFails(t) PROVE TypeOK' /\ Counted'
  BY <1>13, ShapeAssumption DEF TurnFails, LeaveTurn, TypeOK, Counted, Points, Statuses
<1>14. ASSUME NEW t \in Tasks, HeartbeatStopped(t) PROVE TypeOK' /\ Counted'
  BY <1>14, ReleaseSlotType DEF HeartbeatStopped, AfterHeartbeat, TypeOK, Counted, Points
<1>15. ASSUME NEW t \in Tasks, Unwound(t) PROVE TypeOK' /\ Counted'
  <2>1. want[t] \in Statuses
    BY DEF TypeOK
  <2>2. QED
    BY <2>1, <1>15, AbandonType DEF Unwound, AfterUnwind, TypeOK
<1>16. ASSUME NEW t \in Tasks, CancelUnstarted(t) PROVE TypeOK' /\ Counted'
  BY <1>16, ShapeAssumption DEF CancelUnstarted, Deliver, TypeOK, Counted, Points, Statuses
<1>17. ASSUME NEW t \in Tasks, CancelLockWait(t) PROVE TypeOK' /\ Counted'
  <2>1. "cancelled" \in Statuses
    BY DEF Statuses
  <2>2. QED
    BY <2>1, <1>17, EnterHandlerType DEF CancelLockWait, Deliver, ReleaseLock, FairWaiters, TypeOK, Counted, SteerStates
<1>18. ASSUME NEW t \in Tasks, CancelSlotWait(t) PROVE TypeOK' /\ Counted'
  <2>1. "cancelled" \in Statuses
    BY DEF Statuses
  <2>2. /\ pc' \in [Tasks -> Points]
        /\ want' \in [Tasks -> Statuses]
        /\ status' \in [Tasks -> Statuses]
        /\ sst' \in [Steers -> SteerStates]
        /\ UNCHANGED <<term, rows, laneVars, admitVars, ext, steerClaim, promo, starget>>
    BY <2>1, <1>18, EnterHandlerType DEF CancelSlotWait
  <2>3. /\ lockOwner' \in [Sessions -> Tasks \cup {NoTask}]
        /\ woken' \subseteq Tasks
        /\ UNCHANGED <<slots, inFlight, rr>>
    BY <1>18 DEF CancelSlotWait, ReleaseLock, FairWaiters, TypeOK
  <2>4. QED
    BY <2>2, <2>3, <1>18 DEF CancelSlotWait, Deliver, TypeOK, Counted, SteerStates
<1>19. ASSUME NEW t \in Tasks, CancelStarting(t) PROVE TypeOK' /\ Counted'
  BY <1>19, AbandonType DEF CancelStarting, Deliver, TypeOK, Statuses
<1>20. ASSUME NEW t \in Tasks, CancelTurn(t) PROVE TypeOK' /\ Counted'
  BY <1>20, ShapeAssumption DEF CancelTurn, Deliver, LeaveTurn, TypeOK, Counted, Points, Statuses
<1>21. ASSUME NEW t \in Tasks, CancelSwallowed(t) PROVE TypeOK' /\ Counted'
  <2>1. want[t] \in Statuses /\ cancelSig' \subseteq Tasks
    BY <1>21 DEF TypeOK, CancelSwallowed, Deliver
  <2>2. CASE AfterHeartbeat(t)
    BY <2>1, <2>2, <1>21, ReleaseSlotType DEF CancelSwallowed, Deliver, AfterHeartbeat, TypeOK, Counted, Points
  <2>3. CASE AfterUnwind(t)
    BY <2>1, <2>3, <1>21, AbandonType DEF CancelSwallowed, Deliver, AfterUnwind
  <2>4. QED
    BY <2>2, <2>3, <1>21 DEF CancelSwallowed
<1>22. ASSUME NEW t \in Tasks, CancelClosing(t) PROVE TypeOK' /\ Counted'
  <2>1. "cancelled" \in Statuses
    BY DEF Statuses
  <2>2. /\ pc' \in [Tasks -> Points]
        /\ want' \in [Tasks -> Statuses]
        /\ status' \in [Tasks -> Statuses]
        /\ sst' \in [Steers -> SteerStates]
        /\ UNCHANGED <<term, rows, laneVars, admitVars, ext, steerClaim, promo, starget>>
    BY <2>1, <1>22, EnterHandlerType DEF CancelClosing
  <2>3. /\ lockOwner' \in [Sessions -> Tasks \cup {NoTask}]
        /\ woken' \subseteq Tasks
        /\ UNCHANGED <<slots, inFlight, rr>>
    BY <1>22 DEF CancelClosing, ReleaseLock, FairWaiters, TypeOK
  <2>4. QED
    BY <2>2, <2>3, <1>22 DEF CancelClosing, Deliver, TypeOK, Counted, SteerStates
<1>23. ASSUME NEW t \in Tasks, CancelHandler(t) PROVE TypeOK' /\ Counted'
  BY <1>23, ShapeAssumption DEF CancelHandler, Deliver, TypeOK, Counted, Points, Statuses
<1>24. ASSUME NEW t \in Tasks, ClaimTerminal(t) PROVE TypeOK' /\ Counted'
  BY <1>24, ShapeAssumption DEF ClaimTerminal, ClaimEffect, TypeOK, Counted, Points, Statuses
<1>25. ASSUME NEW t \in Tasks, AlreadyTerminal(t) PROVE TypeOK' /\ Counted'
  <2>1. lockOwner' \in [Sessions -> Tasks \cup {NoTask}]
    BY <1>25 DEF AlreadyTerminal, ReleaseLock, TypeOK
  <2>2. pc' \in [Tasks -> Points]
    BY <1>25 DEF AlreadyTerminal, TypeOK, Points
  <2>3. QED
    BY <2>1, <2>2, <1>25 DEF AlreadyTerminal, TypeOK, Counted
<1>26. ASSUME NEW t \in Tasks, TerminalRow(t) PROVE TypeOK' /\ Counted'
  BY <1>26, ShapeAssumption DEF TerminalRow, TypeOK, Counted, Points, Statuses
<1>27. ASSUME NEW t \in Tasks, PromoteRefused(t) PROVE TypeOK' /\ Counted'
  BY <1>27, ShapeAssumption DEF PromoteRefused, Resolve, TypeOK, Counted, Points, Statuses
<1>28. ASSUME NEW t \in Tasks, PromoteFails(t) PROVE TypeOK' /\ Counted'
  BY <1>28, ShapeAssumption DEF PromoteFails, Resolve, TypeOK, Counted, Points, Statuses
<1>29. ASSUME NEW t \in Tasks, PromoteActivate(t) PROVE TypeOK' /\ Counted'
  <2>1. promo[t] \in Tasks
    BY <1>29 DEF PromoteActivate, Promoting, TypeOK
  <2>2. sst' \in [Steers -> SteerStates]
    BY <1>29 DEF PromoteActivate, Resolve, TypeOK, SteerStates
  <2>3. QED
    BY <2>1, <2>2, <1>29, ActivateType DEF PromoteActivate, ActivateEffect, Counted
<1>30. ASSUME NEW t \in Tasks, Emit(t) PROVE TypeOK' /\ Counted'
  BY <1>30, ShapeAssumption DEF Emit, TypeOK, Counted, Points, Statuses
<1>31. ASSUME NEW t \in Tasks, Settle(t) PROVE TypeOK' /\ Counted'
  <2>1. TaskAgent(t) \in Agents /\ SessionOf[t] \in Sessions
    BY ShapeAssumption DEF TaskAgent
  <2>2. rr' \in [Agents -> Seq(Sessions)]
    BY <2>1, <1>31, DropFromType DEF Settle, TypeOK
  <2>3. /\ running' \in [Sessions -> Tasks \cup {NoTask}]
        /\ lockOwner' \in [Sessions -> Tasks \cup {NoTask}]
        /\ woken' \subseteq Tasks
    BY <1>31 DEF Settle, DropRunning, ReleaseLock, FairWaiters, TypeOK
  <2>4. /\ pc' \in [Tasks -> Points]
        /\ term' \in [Tasks -> TermStates]
        /\ ext' \in [Tasks -> {"none", "wanted", "owner"}]
        /\ steerClaim' \in [Tasks -> {"free", "admit", "cancel", "term"}]
        /\ pending' \subseteq Tasks
    BY <1>31 DEF Settle, TypeOK, Points, TermStates
  <2>5. QED
    BY <2>2, <2>3, <2>4, <1>31 DEF Settle, TypeOK, Counted, TermStates
<1>32. ASSUME NEW t \in Tasks, ExtClaim(t) PROVE TypeOK' /\ Counted'
  <2>1. /\ status' \in [Tasks -> Statuses]
        /\ term' \in [Tasks -> TermStates]
        /\ ext' \in [Tasks -> {"none", "wanted", "owner"}]
        /\ steerClaim' \in [Tasks -> {"free", "admit", "cancel", "term"}]
    <3>1. CASE term[t] = "open"
      <4>1. ClaimEffect(t, "cancelled") /\ ext' = [ext EXCEPT ![t] = "owner"]
        BY <3>1, <1>32 DEF ExtClaim
      <4>2. ext' \in [Tasks -> {"none", "wanted", "owner"}] /\ "cancelled" \in Statuses
        BY <4>1 DEF TypeOK, Statuses
      <4>3. QED
        BY <4>1, <4>2, ClaimEffectType
    <3>2. CASE term[t] # "open"
      BY <3>2, <1>32 DEF ExtClaim, TypeOK, TermStates
    <3>3. QED
      BY <3>1, <3>2
  <2>2. QED
    BY <2>1, <1>32 DEF ExtClaim, TypeOK, Counted, TermStates
<1>33. ASSUME NEW t \in Tasks, CancelSignal(t) PROVE TypeOK' /\ Counted'
  <2>1. /\ status' \in [Tasks -> Statuses]
        /\ term' \in [Tasks -> TermStates]
        /\ ext' \in [Tasks -> {"none", "wanted", "owner"}]
        /\ steerClaim' \in [Tasks -> {"free", "admit", "cancel", "term"}]
    <3>1. CASE cancelOp[t] = "unstarted" /\ pc[t] \notin {"marking", "announce"}
      BY <3>1, <1>33, ClaimEffectType DEF CancelSignal, TypeOK, Statuses
    <3>2. CASE ~(cancelOp[t] = "unstarted" /\ pc[t] \notin {"marking", "announce"})
      <4>1. /\ steerClaim' = [steerClaim EXCEPT ![t] = "free"]
            /\ ext' = [ext EXCEPT ![t] = IF cancelOp[t] = "unstarted" THEN "wanted" ELSE @]
            /\ UNCHANGED <<status, term>>
        BY <3>2, <1>33 DEF CancelSignal
      <4>2. QED
        BY <4>1 DEF TypeOK, TermStates
    <3>3. QED
      BY <3>1, <3>2
  <2>2. /\ cancelSig' \subseteq Tasks
        /\ cancelOp' \in [Tasks -> {"idle", "started", "unstarted"}]
    BY <1>33 DEF CancelSignal, TypeOK
  <2>3. QED
    BY <2>1, <2>2, <1>33 DEF CancelSignal, TypeOK, Counted, TermStates
<1>34. ASSUME NEW t \in Tasks, ClaimSteers(t) PROVE TypeOK' /\ Counted'
  BY <1>34, ShapeAssumption DEF ClaimSteers, Resolve, TypeOK, Counted, Points, Statuses
<1>35. ASSUME NEW t \in Tasks, ApplySteers(t) PROVE TypeOK' /\ Counted'
  BY <1>35, ShapeAssumption DEF ApplySteers, Resolve, TypeOK, Counted, Points, Statuses
<1>36. ASSUME NEW t \in Tasks, NEW f \in Tasks, Promote(t, f) PROVE TypeOK' /\ Counted'
  <2>1. ReserveVictims(SessionOf[t], "followup", DefaultPolicy) \subseteq Tasks \cup {NoTask}
    BY ReserveVictimsType
  <2>2. QED
    BY <2>1, <1>36 DEF Promote, Resolve, TypeOK, Counted, Points
<1>37. ASSUME NEW t \in Tasks, NEW src \in CancelSources, CancelBegin(t, src)
      PROVE  TypeOK' /\ Counted'
  BY <1>37, ClientAssumption DEF CancelBegin, TypeOK, Counted
<1>38. ASSUME NEW x \in Steers, NEW t \in Tasks, AdmitSteer(x, t) PROVE TypeOK' /\ Counted'
  BY <1>38 DEF AdmitSteer, TypeOK, Counted
<1>39. ASSUME NEW x \in Steers, SteerPersisted(x) PROVE TypeOK' /\ Counted'
  BY <1>39 DEF SteerPersisted, TypeOK, Counted
<1>40. CASE UNCHANGED vars
  BY <1>40 DEF vars, TypeOK, Counted
<1>41. QED
  BY <1>1, <1>2, <1>3, <1>4, <1>5, <1>6, <1>7, <1>8, <1>9, <1>10, <1>11, <1>12, <1>13, <1>14, <1>15, <1>16, <1>17, <1>18, <1>19, <1>20, <1>21, <1>22, <1>23, <1>24, <1>25, <1>26, <1>27, <1>28, <1>29, <1>30, <1>31, <1>32, <1>33, <1>34, <1>35, <1>36, <1>37, <1>38, <1>39, <1>40
  DEF Next, Admission, DriverStep, DeliverCancel, SettleStep, Quiescent

(***************************************************************************)
(* The safety parts.                                                       *)
(***************************************************************************)

LEMMA SafeStep ==
  ASSUME TypeOK, Safe, [Next]_vars, TypeOK'
  PROVE  Safe'
<1> USE ShapeAssumption
    DEF Safe, LockInv, SlotInv, RunInv, TermInv, ExtInv, WantInv, SteerInv,
        GateInv, SettlementUninterrupted
<1>1. ASSUME NEW t \in Tasks, Activate(t) PROVE Safe'
  BY <1>1 DEF Activate, ActivateEffect, InterruptTargets, EvictedBy,
    ClaimsFree, Lane, Live, TypeOK, LockPoints, SlotPoints, RunPoints,
    SettlePoints, MidTerm, TerminalStatuses
<1>2. ASSUME NEW t \in Tasks, EnqueueFails(t) PROVE Safe'
  BY <1>2 DEF EnqueueFails, ReleaseGate, TypeOK, LockPoints, SlotPoints,
    RunPoints, SettlePoints, MidTerm, TerminalStatuses
<1>3. ASSUME NEW t \in Tasks, Admitted(t) PROVE Safe'
  BY <1>3 DEF Admitted, ReleaseGate, TypeOK, LockPoints, SlotPoints, RunPoints,
    SettlePoints, MidTerm, TerminalStatuses
<1>4. ASSUME NEW t \in Tasks, DriverStart(t) PROVE Safe'
  BY <1>4 DEF DriverStart, TypeOK, LockPoints, SlotPoints, RunPoints,
    SettlePoints, MidTerm, TerminalStatuses
<1>5. ASSUME NEW t \in Tasks, LockAcquire(t) PROVE Safe'
  BY <1>5 DEF LockAcquire, TypeOK, LockPoints, SlotPoints, RunPoints,
    SettlePoints, MidTerm, TerminalStatuses
<1>6. ASSUME NEW t \in Tasks, GateWake(t) PROVE Safe'
  <2>1. CASE TakeSlot(t)
    BY <2>1, <1>6 DEF GateWake, TakeSlot, TypeOK, LockPoints, SlotPoints,
      RunPoints, SettlePoints, MidTerm, TerminalStatuses
  <2>2. CASE UNCHANGED <<pc, slots, inFlight, rr>>
    BY <2>2, <1>6 DEF GateWake, TypeOK, LockPoints, SlotPoints, RunPoints,
      SettlePoints, MidTerm, TerminalStatuses
  <2>3. QED
    BY <2>1, <2>2, <1>6 DEF GateWake
<1>7. ASSUME NEW t \in Tasks, FairWake(t) PROVE Safe'
  <2>1. CASE TakeSlot(t)
    BY <2>1, <1>7 DEF FairWake, TakeSlot, TypeOK, LockPoints, SlotPoints,
      RunPoints, SettlePoints, MidTerm, TerminalStatuses
  <2>2. CASE UNCHANGED <<pc, slots, inFlight, rr>>
    BY <2>2, <1>7 DEF FairWake, TypeOK, LockPoints, SlotPoints, RunPoints,
      SettlePoints, MidTerm, TerminalStatuses
  <2>3. QED
    BY <2>1, <2>2, <1>7 DEF FairWake
<1>8. ASSUME NEW t \in Tasks, MarkRunning(t) PROVE Safe'
  <2>1. CASE term[t] # "open" \/ status[t] \in TerminalStatuses \/ t \in cancelReq
    <3>1. Abandon(t, "cancelled") /\ UNCHANGED cancelVars
      BY <2>1, <1>8 DEF MarkRunning
    <3>2. pc[t] = "marking"
      BY <1>8 DEF MarkRunning
    <3>3. QED
      BY <3>1, <3>2 DEF Abandon, ReleaseSlot, ReleaseLock, EnterHandler, Resolve,
        Undrained, TypeOK, LockPoints, SlotPoints, RunPoints,
        SettlePoints, MidTerm, TerminalStatuses
  <2>2. CASE ~(term[t] # "open" \/ status[t] \in TerminalStatuses \/ t \in cancelReq)
    <3>1. /\ pc' = [pc EXCEPT ![t] = "announce"]
          /\ status' = [status EXCEPT ![t] = "running"]
          /\ running' = [running EXCEPT ![SessionOf[t]] = t]
          /\ UNCHANGED <<want, term, lockOwner, slots, cancelVars, ext, steerClaim, steerVars>>
      BY <2>2, <1>8 DEF MarkRunning
    <3>2. pc[t] = "marking" /\ term[t] = "open" /\ t \notin cancelReq
      BY <2>2, <1>8 DEF MarkRunning
    <3>3. LockInv' /\ SlotInv' /\ TermInv' /\ ExtInv'
      BY <3>1, <3>2 DEF TypeOK, LockPoints, SlotPoints, RunPoints, SettlePoints,
        MidTerm, TerminalStatuses
    <3>4. RunInv'
      <4>1. \A u \in Tasks : u # t /\ pc[u] \in RunPoints => SessionOf[u] # SessionOf[t]
        BY <3>2 DEF LockPoints, SlotPoints, RunPoints
      <4>2. QED
        BY <4>1, <3>1, <3>2 DEF TypeOK, RunPoints, SlotPoints
    <3>5. WantInv' /\ SteerInv' /\ SettlementUninterrupted' /\ GateInv'
      BY <3>1, <3>2 DEF TypeOK, SettlePoints, TerminalStatuses
    <3>6. QED
      BY <3>3, <3>4, <3>5
  <2>3. QED
    BY <2>1, <2>2
<1>9. ASSUME NEW t \in Tasks, StartFails(t) PROVE Safe'
  BY <1>9 DEF StartFails, Abandon, ReleaseSlot, ReleaseLock, EnterHandler,
    Resolve, Undrained, TypeOK, LockPoints, SlotPoints, RunPoints,
    SettlePoints, MidTerm, TerminalStatuses
<1>10. ASSUME NEW t \in Tasks, Announce(t) PROVE Safe'
  BY <1>10 DEF Announce, TypeOK, LockPoints, SlotPoints, RunPoints,
    SettlePoints, MidTerm, TerminalStatuses
<1>11. ASSUME NEW t \in Tasks, TurnReturns(t) PROVE Safe'
  BY <1>11 DEF TurnReturns, LeaveTurn, TypeOK, LockPoints, SlotPoints,
    RunPoints, SettlePoints, MidTerm, TerminalStatuses
<1>12. ASSUME NEW t \in Tasks, TurnFails(t) PROVE Safe'
  BY <1>12 DEF TurnFails, LeaveTurn, TypeOK, LockPoints, SlotPoints, RunPoints,
    SettlePoints, MidTerm, TerminalStatuses
<1>13. ASSUME NEW t \in Tasks, HeartbeatStopped(t) PROVE Safe'
  BY <1>13 DEF HeartbeatStopped, AfterHeartbeat, ReleaseSlot, TypeOK,
    LockPoints, SlotPoints, RunPoints, SettlePoints, MidTerm, TerminalStatuses
<1>14. ASSUME NEW t \in Tasks, Unwound(t) PROVE Safe'
  BY <1>14 DEF Unwound, AfterUnwind, Abandon, ReleaseSlot, ReleaseLock,
    EnterHandler, Resolve, Undrained, TypeOK, LockPoints, SlotPoints,
    RunPoints, SettlePoints, MidTerm, TerminalStatuses
<1>15. ASSUME NEW t \in Tasks, CancelUnstarted(t) PROVE Safe'
  <2>1. LockInv'
    BY <1>15 DEF CancelUnstarted, Deliver, TypeOK, LockPoints, SlotPoints,
      RunPoints, SettlePoints, MidTerm, TerminalStatuses
  <2>2. SlotInv'
    BY <1>15 DEF CancelUnstarted, Deliver, TypeOK, LockPoints, SlotPoints,
      RunPoints, SettlePoints, MidTerm, TerminalStatuses
  <2>3. RunInv'
    BY <1>15 DEF CancelUnstarted, Deliver, TypeOK, LockPoints, SlotPoints,
      RunPoints, SettlePoints, MidTerm, TerminalStatuses
  <2>4. TermInv'
    BY <1>15 DEF CancelUnstarted, Deliver, TypeOK, LockPoints, SlotPoints,
      RunPoints, SettlePoints, MidTerm, TerminalStatuses
  <2>5. ExtInv'
    BY <1>15 DEF CancelUnstarted, Deliver, TypeOK, LockPoints, SlotPoints,
      RunPoints, SettlePoints, MidTerm, TerminalStatuses
  <2>6. WantInv'
    BY <1>15 DEF CancelUnstarted, Deliver, TypeOK, LockPoints, SlotPoints,
      RunPoints, SettlePoints, MidTerm, TerminalStatuses
  <2>7. SteerInv'
    BY <1>15 DEF CancelUnstarted, Deliver, TypeOK, LockPoints, SlotPoints,
      RunPoints, SettlePoints, MidTerm, TerminalStatuses
  <2>8. SettlementUninterrupted'
    BY <1>15 DEF CancelUnstarted, Deliver, TypeOK, LockPoints, SlotPoints,
      RunPoints, SettlePoints, MidTerm, TerminalStatuses
  <2>9. GateInv'
    BY <1>15 DEF CancelUnstarted, Deliver, TypeOK, LockPoints, SlotPoints,
      RunPoints, SettlePoints, MidTerm, TerminalStatuses
  <2>10. QED
    BY <2>1, <2>2, <2>3, <2>4, <2>5, <2>6, <2>7, <2>8, <2>9
<1>16. ASSUME NEW t \in Tasks, CancelLockWait(t) PROVE Safe'
  BY <1>16 DEF CancelLockWait, Deliver, EnterHandler, Resolve, Undrained,
    TypeOK, LockPoints, SlotPoints, RunPoints, SettlePoints, MidTerm,
    TerminalStatuses
<1>17. ASSUME NEW t \in Tasks, CancelSlotWait(t) PROVE Safe'
  BY <1>17 DEF CancelSlotWait, Deliver, ReleaseLock, EnterHandler, Resolve,
    Undrained, TypeOK, LockPoints, SlotPoints, RunPoints, SettlePoints,
    MidTerm, TerminalStatuses
<1>18. ASSUME NEW t \in Tasks, CancelStarting(t) PROVE Safe'
  BY <1>18 DEF CancelStarting, Deliver, Abandon, ReleaseSlot, ReleaseLock,
    EnterHandler, Resolve, Undrained, TypeOK, LockPoints, SlotPoints,
    RunPoints, SettlePoints, MidTerm, TerminalStatuses
<1>19. ASSUME NEW t \in Tasks, CancelTurn(t) PROVE Safe'
  BY <1>19 DEF CancelTurn, Deliver, LeaveTurn, TypeOK, LockPoints, SlotPoints,
    RunPoints, SettlePoints, MidTerm, TerminalStatuses
<1>20. ASSUME NEW t \in Tasks, CancelSwallowed(t) PROVE Safe'
  <2>1. CASE AfterHeartbeat(t)
    <3>1. LockInv'
      BY <2>1, <1>20 DEF CancelSwallowed, Deliver, AfterHeartbeat, ReleaseSlot,
        TypeOK, LockPoints, SlotPoints, RunPoints, SettlePoints, MidTerm,
        TerminalStatuses
    <3>2. SlotInv'
      BY <2>1, <1>20 DEF CancelSwallowed, Deliver, AfterHeartbeat, ReleaseSlot,
        TypeOK, LockPoints, SlotPoints, RunPoints, SettlePoints, MidTerm,
        TerminalStatuses
    <3>3. RunInv'
      BY <2>1, <1>20 DEF CancelSwallowed, Deliver, AfterHeartbeat, ReleaseSlot,
        TypeOK, LockPoints, SlotPoints, RunPoints, SettlePoints, MidTerm,
        TerminalStatuses
    <3>4. TermInv'
      BY <2>1, <1>20 DEF CancelSwallowed, Deliver, AfterHeartbeat, ReleaseSlot,
        TypeOK, LockPoints, SlotPoints, RunPoints, SettlePoints, MidTerm,
        TerminalStatuses
    <3>5. ExtInv'
      BY <2>1, <1>20 DEF CancelSwallowed, Deliver, AfterHeartbeat, ReleaseSlot,
        TypeOK, LockPoints, SlotPoints, RunPoints, SettlePoints, MidTerm,
        TerminalStatuses
    <3>6. WantInv'
      BY <2>1, <1>20 DEF CancelSwallowed, Deliver, AfterHeartbeat, ReleaseSlot,
        TypeOK, LockPoints, SlotPoints, RunPoints, SettlePoints, MidTerm,
        TerminalStatuses
    <3>7. SteerInv'
      BY <2>1, <1>20 DEF CancelSwallowed, Deliver, AfterHeartbeat, ReleaseSlot,
        TypeOK, LockPoints, SlotPoints, RunPoints, SettlePoints, MidTerm,
        TerminalStatuses
    <3>8. SettlementUninterrupted'
      BY <2>1, <1>20 DEF CancelSwallowed, Deliver, AfterHeartbeat, ReleaseSlot,
        TypeOK, LockPoints, SlotPoints, RunPoints, SettlePoints, MidTerm,
        TerminalStatuses
    <3>9. GateInv'
      BY <2>1, <1>20 DEF CancelSwallowed, Deliver, AfterHeartbeat, ReleaseSlot,
        TypeOK, LockPoints, SlotPoints, RunPoints, SettlePoints, MidTerm,
        TerminalStatuses
    <3>10. QED
      BY <3>1, <3>2, <3>3, <3>4, <3>5, <3>6, <3>7, <3>8, <3>9
  <2>2. CASE AfterUnwind(t)
    <3>1. LockInv'
      BY <2>2, <1>20 DEF CancelSwallowed, Deliver, AfterUnwind, Abandon,
        ReleaseSlot, ReleaseLock, EnterHandler, Resolve, Undrained, TypeOK,
        LockPoints, SlotPoints, RunPoints, SettlePoints, MidTerm,
        TerminalStatuses
    <3>2. SlotInv'
      BY <2>2, <1>20 DEF CancelSwallowed, Deliver, AfterUnwind, Abandon,
        ReleaseSlot, ReleaseLock, EnterHandler, Resolve, Undrained, TypeOK,
        LockPoints, SlotPoints, RunPoints, SettlePoints, MidTerm,
        TerminalStatuses
    <3>3. RunInv'
      BY <2>2, <1>20 DEF CancelSwallowed, Deliver, AfterUnwind, Abandon,
        ReleaseSlot, ReleaseLock, EnterHandler, Resolve, Undrained, TypeOK,
        LockPoints, SlotPoints, RunPoints, SettlePoints, MidTerm,
        TerminalStatuses
    <3>4. TermInv'
      BY <2>2, <1>20 DEF CancelSwallowed, Deliver, AfterUnwind, Abandon,
        ReleaseSlot, ReleaseLock, EnterHandler, Resolve, Undrained, TypeOK,
        LockPoints, SlotPoints, RunPoints, SettlePoints, MidTerm,
        TerminalStatuses
    <3>5. ExtInv'
      BY <2>2, <1>20 DEF CancelSwallowed, Deliver, AfterUnwind, Abandon,
        ReleaseSlot, ReleaseLock, EnterHandler, Resolve, Undrained, TypeOK,
        LockPoints, SlotPoints, RunPoints, SettlePoints, MidTerm,
        TerminalStatuses
    <3>6. WantInv'
      BY <2>2, <1>20 DEF CancelSwallowed, Deliver, AfterUnwind, Abandon,
        ReleaseSlot, ReleaseLock, EnterHandler, Resolve, Undrained, TypeOK,
        LockPoints, SlotPoints, RunPoints, SettlePoints, MidTerm,
        TerminalStatuses
    <3>7. SteerInv'
      BY <2>2, <1>20 DEF CancelSwallowed, Deliver, AfterUnwind, Abandon,
        ReleaseSlot, ReleaseLock, EnterHandler, Resolve, Undrained, TypeOK,
        LockPoints, SlotPoints, RunPoints, SettlePoints, MidTerm,
        TerminalStatuses
    <3>8. SettlementUninterrupted'
      BY <2>2, <1>20 DEF CancelSwallowed, Deliver, AfterUnwind, Abandon,
        ReleaseSlot, ReleaseLock, EnterHandler, Resolve, Undrained, TypeOK,
        LockPoints, SlotPoints, RunPoints, SettlePoints, MidTerm,
        TerminalStatuses
    <3>9. GateInv'
      BY <2>2, <1>20 DEF CancelSwallowed, Deliver, AfterUnwind, Abandon,
        ReleaseSlot, ReleaseLock, EnterHandler, Resolve, Undrained, TypeOK,
        LockPoints, SlotPoints, RunPoints, SettlePoints, MidTerm,
        TerminalStatuses
    <3>10. QED
      BY <3>1, <3>2, <3>3, <3>4, <3>5, <3>6, <3>7, <3>8, <3>9
  <2>3. QED
    BY <2>1, <2>2, <1>20 DEF CancelSwallowed
<1>21. ASSUME NEW t \in Tasks, CancelClosing(t) PROVE Safe'
  <2>1. LockInv'
    BY <1>21 DEF CancelClosing, Deliver, ReleaseLock, EnterHandler, Resolve,
      Undrained, TypeOK, LockPoints, SlotPoints, RunPoints, SettlePoints,
      MidTerm, TerminalStatuses
  <2>2. SlotInv'
    BY <1>21 DEF CancelClosing, Deliver, ReleaseLock, EnterHandler, Resolve,
      Undrained, TypeOK, LockPoints, SlotPoints, RunPoints, SettlePoints,
      MidTerm, TerminalStatuses
  <2>3. RunInv'
    BY <1>21 DEF CancelClosing, Deliver, ReleaseLock, EnterHandler, Resolve,
      Undrained, TypeOK, LockPoints, SlotPoints, RunPoints, SettlePoints,
      MidTerm, TerminalStatuses
  <2>4. TermInv'
    BY <1>21 DEF CancelClosing, Deliver, ReleaseLock, EnterHandler, Resolve,
      Undrained, TypeOK, LockPoints, SlotPoints, RunPoints, SettlePoints,
      MidTerm, TerminalStatuses
  <2>5. ExtInv'
    BY <1>21 DEF CancelClosing, Deliver, ReleaseLock, EnterHandler, Resolve,
      Undrained, TypeOK, LockPoints, SlotPoints, RunPoints, SettlePoints,
      MidTerm, TerminalStatuses
  <2>6. WantInv'
    BY <1>21 DEF CancelClosing, Deliver, ReleaseLock, EnterHandler, Resolve,
      Undrained, TypeOK, LockPoints, SlotPoints, RunPoints, SettlePoints,
      MidTerm, TerminalStatuses
  <2>7. SteerInv'
    BY <1>21 DEF CancelClosing, Deliver, ReleaseLock, EnterHandler, Resolve,
      Undrained, TypeOK, LockPoints, SlotPoints, RunPoints, SettlePoints,
      MidTerm, TerminalStatuses
  <2>8. SettlementUninterrupted'
    BY <1>21 DEF CancelClosing, Deliver, ReleaseLock, EnterHandler, Resolve,
      Undrained, TypeOK, LockPoints, SlotPoints, RunPoints, SettlePoints,
      MidTerm, TerminalStatuses
  <2>9. GateInv'
    BY <1>21 DEF CancelClosing, Deliver, ReleaseLock, EnterHandler, Resolve,
      Undrained, TypeOK, LockPoints, SlotPoints, RunPoints, SettlePoints,
      MidTerm, TerminalStatuses
  <2>10. QED
    BY <2>1, <2>2, <2>3, <2>4, <2>5, <2>6, <2>7, <2>8, <2>9
<1>22. ASSUME NEW t \in Tasks, CancelHandler(t) PROVE Safe'
  <2>1. LockInv'
    BY <1>22 DEF CancelHandler, Deliver, TypeOK, LockPoints, SlotPoints,
      RunPoints, SettlePoints, MidTerm, TerminalStatuses
  <2>2. SlotInv'
    BY <1>22 DEF CancelHandler, Deliver, TypeOK, LockPoints, SlotPoints,
      RunPoints, SettlePoints, MidTerm, TerminalStatuses
  <2>3. RunInv'
    BY <1>22 DEF CancelHandler, Deliver, TypeOK, LockPoints, SlotPoints,
      RunPoints, SettlePoints, MidTerm, TerminalStatuses
  <2>4. TermInv'
    BY <1>22 DEF CancelHandler, Deliver, TypeOK, LockPoints, SlotPoints,
      RunPoints, SettlePoints, MidTerm, TerminalStatuses
  <2>5. ExtInv'
    BY <1>22 DEF CancelHandler, Deliver, TypeOK, LockPoints, SlotPoints,
      RunPoints, SettlePoints, MidTerm, TerminalStatuses
  <2>6. WantInv'
    BY <1>22 DEF CancelHandler, Deliver, TypeOK, LockPoints, SlotPoints,
      RunPoints, SettlePoints, MidTerm, TerminalStatuses
  <2>7. SteerInv'
    BY <1>22 DEF CancelHandler, Deliver, TypeOK, LockPoints, SlotPoints,
      RunPoints, SettlePoints, MidTerm, TerminalStatuses
  <2>8. SettlementUninterrupted'
    BY <1>22 DEF CancelHandler, Deliver, TypeOK, LockPoints, SlotPoints,
      RunPoints, SettlePoints, MidTerm, TerminalStatuses
  <2>9. GateInv'
    BY <1>22 DEF CancelHandler, Deliver, TypeOK, LockPoints, SlotPoints,
      RunPoints, SettlePoints, MidTerm, TerminalStatuses
  <2>10. QED
    BY <2>1, <2>2, <2>3, <2>4, <2>5, <2>6, <2>7, <2>8, <2>9
<1>23. ASSUME NEW t \in Tasks, ClaimTerminal(t) PROVE Safe'
  BY <1>23 DEF ClaimTerminal, ClaimEffect, Claimable, TypeOK, LockPoints,
    SlotPoints, RunPoints, SettlePoints, MidTerm, TerminalStatuses
<1>24. ASSUME NEW t \in Tasks, AlreadyTerminal(t) PROVE Safe'
  BY <1>24 DEF AlreadyTerminal, ReleaseLock, TypeOK, LockPoints, SlotPoints,
    RunPoints, SettlePoints, MidTerm, TerminalStatuses
<1>25. ASSUME NEW t \in Tasks, TerminalRow(t) PROVE Safe'
  BY <1>25 DEF TerminalRow, TypeOK, LockPoints, SlotPoints, RunPoints,
    SettlePoints, MidTerm, TerminalStatuses
<1>26. ASSUME NEW t \in Tasks, PromoteRefused(t) PROVE Safe'
  BY <1>26 DEF PromoteRefused, Resolve, Undrained, TypeOK, LockPoints,
    SlotPoints, RunPoints, SettlePoints, MidTerm, TerminalStatuses
<1>27. ASSUME NEW t \in Tasks, PromoteFails(t) PROVE Safe'
  BY <1>27 DEF PromoteFails, Promoting, Resolve, Reclaimed, TypeOK, LockPoints,
    SlotPoints, RunPoints, SettlePoints, MidTerm, TerminalStatuses
<1>28. ASSUME NEW t \in Tasks, PromoteActivate(t) PROVE Safe'
  <2>1. LockInv'
    BY <1>28 DEF PromoteActivate, Promoting, Resolve, Reclaimed,
      ActivateEffect, InterruptTargets, EvictedBy, ClaimsFree, Lane, Live,
      TypeOK, LockPoints, SlotPoints, RunPoints, SettlePoints, MidTerm,
      TerminalStatuses
  <2>2. SlotInv'
    BY <1>28 DEF PromoteActivate, Promoting, Resolve, Reclaimed,
      ActivateEffect, InterruptTargets, EvictedBy, ClaimsFree, Lane, Live,
      TypeOK, LockPoints, SlotPoints, RunPoints, SettlePoints, MidTerm,
      TerminalStatuses
  <2>3. RunInv'
    BY <1>28 DEF PromoteActivate, Promoting, Resolve, Reclaimed,
      ActivateEffect, InterruptTargets, EvictedBy, ClaimsFree, Lane, Live,
      TypeOK, LockPoints, SlotPoints, RunPoints, SettlePoints, MidTerm,
      TerminalStatuses
  <2>4. TermInv'
    BY <1>28 DEF PromoteActivate, Promoting, Resolve, Reclaimed,
      ActivateEffect, InterruptTargets, EvictedBy, ClaimsFree, Lane, Live,
      TypeOK, LockPoints, SlotPoints, RunPoints, SettlePoints, MidTerm,
      TerminalStatuses
  <2>5. ExtInv'
    BY <1>28 DEF PromoteActivate, Promoting, Resolve, Reclaimed,
      ActivateEffect, InterruptTargets, EvictedBy, ClaimsFree, Lane, Live,
      TypeOK, LockPoints, SlotPoints, RunPoints, SettlePoints, MidTerm,
      TerminalStatuses
  <2>6. WantInv'
    BY <1>28 DEF PromoteActivate, Promoting, Resolve, Reclaimed,
      ActivateEffect, InterruptTargets, EvictedBy, ClaimsFree, Lane, Live,
      TypeOK, LockPoints, SlotPoints, RunPoints, SettlePoints, MidTerm,
      TerminalStatuses
  <2>7. SteerInv'
    BY <1>28 DEF PromoteActivate, Promoting, Resolve, Reclaimed,
      ActivateEffect, InterruptTargets, EvictedBy, ClaimsFree, Lane, Live,
      TypeOK, LockPoints, SlotPoints, RunPoints, SettlePoints, MidTerm,
      TerminalStatuses
  <2>8. SettlementUninterrupted'
    BY <1>28 DEF PromoteActivate, Promoting, Resolve, Reclaimed,
      ActivateEffect, InterruptTargets, EvictedBy, ClaimsFree, Lane, Live,
      TypeOK, LockPoints, SlotPoints, RunPoints, SettlePoints, MidTerm,
      TerminalStatuses
  <2>9. GateInv'
    BY <1>28 DEF PromoteActivate, Promoting, Resolve, Reclaimed,
      ActivateEffect, InterruptTargets, EvictedBy, ClaimsFree, Lane, Live,
      TypeOK, LockPoints, SlotPoints, RunPoints, SettlePoints, MidTerm,
      TerminalStatuses
  <2>10. QED
    BY <2>1, <2>2, <2>3, <2>4, <2>5, <2>6, <2>7, <2>8, <2>9
<1>29. ASSUME NEW t \in Tasks, Emit(t) PROVE Safe'
  BY <1>29 DEF Emit, TypeOK, LockPoints, SlotPoints, RunPoints, SettlePoints,
    MidTerm, TerminalStatuses
<1>30. ASSUME NEW t \in Tasks, Settle(t) PROVE Safe'
  <2>1. LockInv'
    BY <1>30 DEF Settle, DropRunning, ReleaseLock, TypeOK, LockPoints,
      SlotPoints, RunPoints, SettlePoints, MidTerm, TerminalStatuses
  <2>2. SlotInv'
    <3>1. term[t] \in MidTerm /\ slots' = slots
      BY <1>30 DEF Settle, MidTerm
    <3>2. pc' = IF ext[t] = "owner" THEN pc ELSE [pc EXCEPT ![t] = "done"]
      BY <1>30 DEF Settle
    <3>3. ext[t] # "owner" => pc[t] \notin SlotPoints
      BY <3>1 DEF SettlePoints, SlotPoints
    <3>4. QED
      BY <3>1, <3>2, <3>3 DEF TypeOK, SlotPoints
  <2>3. RunInv'
    BY <1>30 DEF Settle, DropRunning, ReleaseLock, TypeOK, LockPoints,
      SlotPoints, RunPoints, SettlePoints, MidTerm, TerminalStatuses
  <2>4. TermInv'
    BY <1>30 DEF Settle, DropRunning, ReleaseLock, TypeOK, LockPoints,
      SlotPoints, RunPoints, SettlePoints, MidTerm, TerminalStatuses
  <2>5. ExtInv'
    BY <1>30 DEF Settle, DropRunning, ReleaseLock, TypeOK, LockPoints,
      SlotPoints, RunPoints, SettlePoints, MidTerm, TerminalStatuses
  <2>6. WantInv'
    BY <1>30 DEF Settle, DropRunning, ReleaseLock, TypeOK, LockPoints,
      SlotPoints, RunPoints, SettlePoints, MidTerm, TerminalStatuses
  <2>7. SteerInv'
    BY <1>30 DEF Settle, DropRunning, ReleaseLock, TypeOK, LockPoints,
      SlotPoints, RunPoints, SettlePoints, MidTerm, TerminalStatuses
  <2>8. SettlementUninterrupted'
    BY <1>30 DEF Settle, DropRunning, ReleaseLock, TypeOK, LockPoints,
      SlotPoints, RunPoints, SettlePoints, MidTerm, TerminalStatuses
  <2>9. GateInv'
    BY <1>30 DEF Settle, DropRunning, ReleaseLock, TypeOK, LockPoints,
      SlotPoints, RunPoints, SettlePoints, MidTerm, TerminalStatuses
  <2>10. QED
    BY <2>1, <2>2, <2>3, <2>4, <2>5, <2>6, <2>7, <2>8, <2>9
<1>31. ASSUME NEW t \in Tasks, ExtClaim(t) PROVE Safe'
  <2>1. LockInv'
    BY <1>31 DEF ExtClaim, ClaimEffect, ClaimsFree, TypeOK, LockPoints,
      SlotPoints, RunPoints, SettlePoints, MidTerm, TerminalStatuses
  <2>2. SlotInv'
    BY <1>31 DEF ExtClaim, ClaimEffect, ClaimsFree, TypeOK, LockPoints,
      SlotPoints, RunPoints, SettlePoints, MidTerm, TerminalStatuses
  <2>3. RunInv'
    BY <1>31 DEF ExtClaim, ClaimEffect, ClaimsFree, TypeOK, LockPoints,
      SlotPoints, RunPoints, SettlePoints, MidTerm, TerminalStatuses
  <2>4. TermInv'
    BY <1>31 DEF ExtClaim, ClaimEffect, ClaimsFree, TypeOK, LockPoints,
      SlotPoints, RunPoints, SettlePoints, MidTerm, TerminalStatuses
  <2>5. ExtInv'
    BY <1>31 DEF ExtClaim, ClaimEffect, ClaimsFree, TypeOK, LockPoints,
      SlotPoints, RunPoints, SettlePoints, MidTerm, TerminalStatuses
  <2>6. WantInv'
    BY <1>31 DEF ExtClaim, ClaimEffect, ClaimsFree, TypeOK, LockPoints,
      SlotPoints, RunPoints, SettlePoints, MidTerm, TerminalStatuses
  <2>7. SteerInv'
    BY <1>31 DEF ExtClaim, ClaimEffect, ClaimsFree, TypeOK, LockPoints,
      SlotPoints, RunPoints, SettlePoints, MidTerm, TerminalStatuses
  <2>8. SettlementUninterrupted'
    BY <1>31 DEF ExtClaim, ClaimEffect, ClaimsFree, TypeOK, LockPoints,
      SlotPoints, RunPoints, SettlePoints, MidTerm, TerminalStatuses
  <2>9. GateInv'
    BY <1>31 DEF ExtClaim, ClaimEffect, ClaimsFree, TypeOK, LockPoints,
      SlotPoints, RunPoints, SettlePoints, MidTerm, TerminalStatuses
  <2>10. QED
    BY <2>1, <2>2, <2>3, <2>4, <2>5, <2>6, <2>7, <2>8, <2>9
<1>32. ASSUME NEW t \in Tasks, CancelSignal(t) PROVE Safe'
  BY <1>32 DEF CancelSignal, ClaimEffect, TypeOK, LockPoints, SlotPoints,
    RunPoints, SettlePoints, MidTerm, TerminalStatuses
<1>33. ASSUME NEW t \in Tasks, ClaimSteers(t) PROVE Safe'
  BY <1>33 DEF ClaimSteers, Resolve, TypeOK, LockPoints, SlotPoints, RunPoints,
    SettlePoints, MidTerm, TerminalStatuses
<1>34. ASSUME NEW t \in Tasks, ApplySteers(t) PROVE Safe'
  BY <1>34 DEF ApplySteers, Resolve, TypeOK, LockPoints, SlotPoints, RunPoints,
    SettlePoints, MidTerm, TerminalStatuses
<1>35. ASSUME NEW t \in Tasks, NEW m \in Modes, NEW p \in Policies, Enqueue(t, m, p)
      PROVE  Safe'
  BY <1>35 DEF Enqueue, TypeOK, LockPoints, SlotPoints, RunPoints,
    SettlePoints, MidTerm, TerminalStatuses
<1>36. ASSUME NEW t \in Tasks, NEW f \in Tasks, Promote(t, f)
      PROVE  Safe'
  BY <1>36 DEF Promote, Resolve, Undrained, TypeOK, LockPoints, SlotPoints,
    RunPoints, SettlePoints, MidTerm, TerminalStatuses
<1>37. ASSUME NEW t \in Tasks, NEW src \in CancelSources, CancelBegin(t, src)
      PROVE  Safe'
  BY <1>37 DEF CancelBegin, Unstarted, Live, TypeOK, LockPoints, SlotPoints, RunPoints,
    SettlePoints, MidTerm, TerminalStatuses
<1>38. ASSUME NEW x \in Steers, NEW t \in Tasks, AdmitSteer(x, t)
      PROVE  Safe'
  BY <1>38 DEF AdmitSteer, TypeOK, LockPoints, SlotPoints, RunPoints,
    SettlePoints, MidTerm, TerminalStatuses
<1>39. ASSUME NEW x \in Steers, SteerPersisted(x)
      PROVE  Safe'
  BY <1>39 DEF SteerPersisted, TypeOK, LockPoints, SlotPoints, RunPoints,
    SettlePoints, MidTerm, TerminalStatuses
<1>40. CASE UNCHANGED vars
  BY <1>40 DEF vars
<1>41. QED
  BY <1>1, <1>2, <1>3, <1>4, <1>5, <1>6, <1>7, <1>8, <1>9, <1>10, <1>11, <1>12,
    <1>13, <1>14, <1>15, <1>16, <1>17, <1>18, <1>19, <1>20, <1>21, <1>22,
    <1>23, <1>24, <1>25, <1>26, <1>27, <1>28, <1>29, <1>30, <1>31, <1>32,
    <1>33, <1>34, <1>35, <1>36, <1>37, <1>38, <1>39, <1>40
  DEF Next, Admission, DriverStep, DeliverCancel, SettleStep, Quiescent

(***************************************************************************)
(* The limits.                                                             *)
(***************************************************************************)

\* Only a grant adds to the slots held, and everything else keeps them or gives
\* one back.
Grants(t) ==
  /\ TakeSlot(t)
  /\ \/ pc[t] = "gate" /\ GateGrantable(t)
     \/ pc[t] = "fair" /\ FairGrantable(t)

LEMMA SlotsChange ==
  ASSUME [Next]_vars
  PROVE  \/ UNCHANGED <<slots, inFlight>>
         \/ \E t \in Tasks : ReleaseSlot(t) \/ Grants(t)
<1>1. ASSUME NEW t \in Tasks, Admission(t) PROVE UNCHANGED <<slots, inFlight>>
  BY <1>1 DEF Admission, Activate, ActivateEffect, EnqueueFails, Admitted
<1>2. ASSUME NEW t \in Tasks, GateWake(t) \/ FairWake(t)
      PROVE  UNCHANGED <<slots, inFlight>> \/ Grants(t)
  BY <1>2 DEF GateWake, FairWake, Grants
<1>3. ASSUME NEW t \in Tasks, DeliverCancel(t)
      PROVE  UNCHANGED <<slots, inFlight>> \/ ReleaseSlot(t)
  BY <1>3 DEF DeliverCancel, CancelUnstarted, CancelLockWait, CancelSlotWait,
    CancelStarting, CancelTurn, CancelSwallowed, CancelClosing, CancelHandler,
    LeaveTurn, AfterHeartbeat, AfterUnwind, Abandon
<1>4. ASSUME NEW t \in Tasks, DriverStep(t),
             ~DeliverCancel(t), ~GateWake(t), ~FairWake(t)
      PROVE  UNCHANGED <<slots, inFlight>> \/ ReleaseSlot(t)
  BY <1>4 DEF DriverStep, DriverStart, LockAcquire, MarkRunning, StartFails,
    Announce, TurnReturns, TurnFails, HeartbeatStopped, Unwound, ClaimTerminal,
    AlreadyTerminal, LeaveTurn, AfterHeartbeat, AfterUnwind, Abandon
<1>5. ASSUME NEW t \in Tasks, SettleStep(t) PROVE UNCHANGED <<slots, inFlight>>
  BY <1>5 DEF SettleStep, TerminalRow, Promote, PromoteRefused, PromoteFails,
    PromoteActivate, ActivateEffect, Emit, Settle
<1>6. ASSUME NEW t \in Tasks, ExtClaim(t) \/ CancelSignal(t) \/ ClaimSteers(t) \/ ApplySteers(t)
      PROVE  UNCHANGED <<slots, inFlight>>
  BY <1>6 DEF ExtClaim, CancelSignal, ClaimSteers, ApplySteers
<1>7. ASSUME NEW t \in Tasks, NEW m \in Modes, NEW p \in Policies, Enqueue(t, m, p)
      PROVE  UNCHANGED <<slots, inFlight>>
  BY <1>7 DEF Enqueue
<1>8. ASSUME NEW t \in Tasks, NEW src \in CancelSources, CancelBegin(t, src)
      PROVE  UNCHANGED <<slots, inFlight>>
  BY <1>8 DEF CancelBegin
<1>9. ASSUME NEW x \in Steers, NEW t \in Tasks, AdmitSteer(x, t)
      PROVE  UNCHANGED <<slots, inFlight>>
  BY <1>9 DEF AdmitSteer
<1>10. ASSUME NEW x \in Steers, SteerPersisted(x) PROVE UNCHANGED <<slots, inFlight>>
  BY <1>10 DEF SteerPersisted
<1>11. CASE UNCHANGED vars
  BY <1>11 DEF vars
<1>12. QED
  BY <1>1, <1>2, <1>3, <1>4, <1>5, <1>6, <1>7, <1>8, <1>9, <1>10, <1>11
  DEF Next, Quiescent

LEMMA LimitStep ==
  ASSUME TypeOK, Counted, Safe, Limits, [Next]_vars, Counted'
  PROVE  Limits'
<1> DEFINE sub == {t \in slots : Kind[t] = "subagent"}
<1>1. /\ IsFiniteSet(slots) /\ IsFiniteSet(sub)
      /\ Cardinality(slots) \in Nat /\ Cardinality(sub) \in Nat
      /\ Cardinality(sub) <= Cardinality(slots)
  BY ShapeAssumption, FS_Subset, FS_CardinalityType DEF TypeOK
<1>2. CASE UNCHANGED <<slots, inFlight>>
  BY <1>2 DEF Limits, SubagentHeadroom
<1>3. ASSUME NEW t \in Tasks, ReleaseSlot(t) PROVE Limits'
  <2>1. sub' \subseteq sub
    BY <1>3 DEF ReleaseSlot
  <2>2. Cardinality(sub') <= Cardinality(sub) /\ Cardinality(sub') \in Nat
    BY <2>1, <1>1, FS_Subset, FS_CardinalityType
  <2>3. inFlight' <= inFlight
    BY <1>3 DEF ReleaseSlot, TypeOK
  <2>4. QED
    BY <2>2, <2>3, <1>1, LimitAssumption, <1>3 DEF Limits, SubagentHeadroom, TypeOK, ReleaseSlot
<1>4. ASSUME NEW t \in Tasks, Grants(t) PROVE Limits'
  <2>1. inFlight' = inFlight + 1 /\ inFlight < MaxConcurrency
    BY <1>4, LimitAssumption DEF Grants, TakeSlot, GateGrantable, FairGrantable, TypeOK
  <2>2. CASE Kind[t] # "subagent"
    <3>1. sub' = sub
      BY <2>2, <1>4 DEF Grants, TakeSlot
    <3>2. SubagentHeadroom'
      BY <3>1 DEF Limits, SubagentHeadroom
    <3>3. QED
      BY <3>2, <2>1, LimitAssumption DEF Limits, TypeOK
  <2>3. CASE Kind[t] = "subagent"
    <3>1. inFlight + 1 <= MaxConcurrency - SubagentReserved
      BY <2>1, <2>3, <1>4, LimitAssumption
      DEF Grants, GateGrantable, Safe, GateInv, TypeOK
    <3>2. sub' = sub \cup {t}
      BY <2>3, <1>4 DEF Grants, TakeSlot
    <3>3. Cardinality(sub') <= Cardinality(sub) + 1 /\ Cardinality(sub') \in Nat
      <4>1. /\ IsFiniteSet(sub \cup {t})
            /\ Cardinality(sub \cup {t}) <= Cardinality(sub) + 1
        <5> HIDE DEF sub
        <5>1. /\ IsFiniteSet(sub \cup {t})
              /\ Cardinality(sub \cup {t}) = IF t \in sub THEN Cardinality(sub)
                                             ELSE Cardinality(sub) + 1
          BY <1>1, FS_AddElement
        <5>2. QED
          BY <5>1, <1>1
      <4>2. QED
        BY <4>1, <3>2, FS_CardinalityType
    <3>4. Cardinality(sub) <= inFlight
      BY <1>1 DEF Counted
    <3>5. QED
      BY <3>1, <3>3, <3>4, <2>1, <1>1, LimitAssumption DEF Limits, SubagentHeadroom, TypeOK
  <2>4. QED
    BY <2>2, <2>3
<1>5. QED
  BY <1>2, <1>3, <1>4, SlotsChange

(***************************************************************************)
(* The theorems.                                                           *)
(***************************************************************************)

LEMMA InitIInv == Init => IInv
<1>1. SUFFICES ASSUME Init PROVE IInv
  OBVIOUS
<1>2. TypeOK
  BY <1>1, InitType
<1>3. Counted /\ Limits
  <2>1. Cardinality({}) = 0 /\ slots = {} /\ {t \in slots : Kind[t] = "subagent"} = {}
    BY <1>1, FS_EmptySet DEF Init
  <2>2. QED
    BY <2>1, <1>1, LimitAssumption DEF Init, Counted, Limits, SubagentHeadroom
<1>4. Safe
  BY <1>1, ShapeAssumption DEF Init, Safe, LockInv, SlotInv, RunInv, TermInv, ExtInv,
    WantInv, SteerInv, GateInv, SettlementUninterrupted, LockPoints, SlotPoints,
    RunPoints, SettlePoints, MidTerm
<1>5. QED
  BY <1>2, <1>3, <1>4 DEF IInv

\* The inductive invariant holds of the runtime, for any number of tasks,
\* sessions, slots and steers and whatever fails or is cancelled.
THEOREM Invariance == Spec => []IInv
<1>1. IInv /\ [Next]_vars => IInv'
  <2>1. SUFFICES ASSUME IInv, [Next]_vars PROVE IInv'
    OBVIOUS
  <2>2. TypeOK' /\ Counted'
    BY <2>1, TypeStep DEF IInv, Safe
  <2>3. Safe'
    BY <2>1, <2>2, SafeStep DEF IInv
  <2>4. QED
    BY <2>1, <2>2, <2>3, LimitStep DEF IInv
<1>2. QED
  BY <1>1, InitIInv, PTL DEF Spec

\* Type correctness; in particular `_global_in_flight` never goes below zero.
THEOREM TypeCorrect == Spec => []TypeOK
<1>1. IInv => TypeOK
  BY DEF IInv
<1>2. QED
  BY <1>1, Invariance, PTL

\* Between its flip to RUNNING and its last cleanup a turn has its session to
\* itself: the execution lock, the running entry, a slot, and its settlement.
THEOREM TurnOwnership == Spec => []TurnOwnsSession
<1>1. IInv => TurnOwnsSession
  BY ShapeAssumption DEF IInv, Safe, LockInv, SlotInv, RunInv, TurnOwnsSession,
    LockPoints, SlotPoints, RunPoints, Lane
<1>2. QED
  BY <1>1, Invariance, PTL

\* The in-flight counter counts the slots held and respects the limit.
THEOREM SlotSafety == Spec => []SlotAccounting
<1>1. IInv => SlotAccounting
  BY DEF IInv, Safe, Limits, Counted, SlotInv, SlotAccounting, SlotPoints, TypeOK
<1>2. QED
  BY <1>1, Invariance, PTL

\* Subagents never occupy the slots kept back for other turns.
THEOREM HeadroomKept == Spec => []SubagentHeadroom
<1>1. IInv => SubagentHeadroom
  BY DEF IInv, Limits
<1>2. QED
  BY <1>1, Invariance, PTL

\* Nobody but its driver settles a turn that has begun.
THEOREM EvictionSafety == Spec => []EvictsOnlyWaiting
<1>1. IInv => EvictsOnlyWaiting
  BY DEF IInv, Safe, ExtInv, EvictsOnlyWaiting
<1>2. QED
  BY <1>1, Invariance, PTL

\* No CancelledError is on its way to a driver that is settling its task.
THEOREM SettlementsComplete == Spec => []SettlementUninterrupted
<1>1. IInv => SettlementUninterrupted
  BY DEF IInv, Safe
<1>2. QED
  BY <1>1, Invariance, PTL

=============================================================================
