-------------------------- MODULE TaskSteerProofs --------------------------
(* Theorems about TaskRuntime: what becomes of the same-turn inputs of a    *)
(* turn, and that a settlement is final.                                    *)
EXTENDS TaskRuntimeProofs

USE DEF laneVars, admitVars, slotVars, cancelVars, steerVars, taskVars

(***************************************************************************)
(* The inductive invariant: IInv, and the following parts.                 *)
(***************************************************************************)

\* x was admitted and belongs to the turn t.
Attached(x, t) == starget[x] = t /\ sst[x] # "none"

\* Where a turn that has been given a steer can be.
BegunPoints == RunPoints \cup SettlePoints \cup {"closeL", "handler", "done"}

\* Every admitted steer names its turn.
TargetInv == \A x \in Steers : sst[x] # "none" => starget[x] \in Tasks

\* A turn with a steer has begun, so that its own driver settles it, and is
\* open for as long as that driver has not claimed the settlement.
BegunInv ==
  \A x \in Steers, t \in Tasks : Attached(x, t) =>
    /\ status[t] # "queued"
    /\ ext[t] = "none"
    /\ cancelOp[t] # "unstarted"
    /\ pc[t] \in BegunPoints
    /\ pc[t] \in {"hbstop", "closeL", "settleL"} => want[t] = "succeeded"
    /\ pc[t] \in RunPoints \cup {"closeL", "handler"} => term[t] = "open"

\* A running turn is open, and the way it leaves tells what it will settle as.
RunningInv ==
  \A t \in Tasks : status[t] = "running" =>
    /\ pc[t] \in BegunPoints \ SettlePoints
    /\ term[t] = "open"
    /\ pc[t] \in {"hbstop", "closeL"} => want[t] = "succeeded"
    /\ pc[t] = "handler" => want[t] # "cancelled"

\* A CancelledError is raised only for a cancelled task, and whoever settles it
\* keeps a terminal status in mind.
CancelInv ==
  /\ cancelSig \subseteq cancelReq
  /\ \A t \in Tasks :
       /\ steerClaim[t] = "cancel" => t \in cancelReq
       /\ pc[t] = "unwind" => /\ want[t] \in {"failed", "cancelled"}
                              /\ want[t] = "cancelled" => t \in cancelReq
       /\ pc[t] \in SettlePoints => want[t] \in TerminalStatuses

\* A steer that is being persisted belongs to an open turn that no user has
\* cancelled meanwhile: the steer claim keeps cancel() out.
PersistInv ==
  \A x \in Steers, t \in Tasks : starget[x] = t /\ sst[x] = "persisting" =>
    /\ term[t] = "open"
    /\ t \in cancelReq => cancelSrc[t] = "system"

\* A user's stop leaves no steer of the turn unresolved.
StopInv ==
  \A x \in Steers, t \in Tasks :
    /\ Attached(x, t)
    /\ pc[t] \in {"handler", "settleH"}
    /\ want[t] = "cancelled"
    => /\ status[t] = "cancelled"
       /\ t \in cancelReq
       /\ cancelSrc[t] = "user" => sst[x] \notin {"persisting", "pending", "claimed"}

\* Once the terminal event is out, no steer of a turn with a durable row is
\* left undrained.
DrainedInv ==
  \A x \in Steers, t \in Tasks :
    /\ starget[x] = t
    /\ sst[x] \in {"pending", "claimed"}
    /\ term[t] \in {"emitted", "settled"}
    => t \notin rows

\* A reclaimed steer waits for the follow-up that its turn has reserved.
ReclaimedInv ==
  \A x \in Steers, t \in Tasks : starget[x] = t /\ sst[x] = "reclaimed" =>
    term[t] = "written" /\ Promoting(t)

\* A promoted follow-up serves one turn, and takes no part in an enqueue().
PromoInv ==
  \A t \in Tasks : promo[t] # NoTask =>
    /\ pc[promo[t]] # "fresh"
    /\ gate[SessionOf[promo[t]]] # promo[t]
    /\ term[t] # "open"
    /\ \A x \in Steers : starget[x] = t => sst[x] \notin {"persisting", "pending", "claimed"}
    /\ \A u \in Tasks : promo[u] = promo[t] => u = t

\* Whoever holds an admission gate has reserved.
HolderInv == \A t \in Tasks : gate[SessionOf[t]] = t => pc[t] # "fresh"

Steering ==
  /\ TargetInv /\ BegunInv /\ RunningInv /\ CancelInv /\ PersistInv /\ StopInv
  /\ DrainedInv /\ ReclaimedInv /\ PromoInv /\ HolderInv

(***************************************************************************)
(* A settlement is final.                                                  *)
(***************************************************************************)

\* No step takes a settled task out of its terminal state: every claim of a
\* settlement finds the task open, and so does the flip to RUNNING.
LEMMA FinalStep ==
  ASSUME TypeOK, Safe, [Next]_vars, NEW u \in Tasks, term[u] = "settled"
  PROVE  /\ term'[u] = "settled"
         /\ status'[u] = status[u]
         /\ pc'[u] \notin {"announce", "turn"}
<1> DEFINE Final ==
      /\ term'[u] = "settled"
      /\ status'[u] = status[u]
      /\ pc'[u] \notin {"announce", "turn"}
<1>0. /\ pc[u] \notin RunPoints
      /\ ext[u] # "owner"
      /\ pc[u] \notin SettlePoints
      /\ steerClaim[u] # "cancel"
  BY DEF Safe, RunInv, TermInv, MidTerm
<1> USE <1>0, ShapeAssumption
<1>1. ASSUME NEW t \in Tasks, Activate(t) PROVE Final
  BY <1>1 DEF Activate, ActivateEffect, InterruptTargets, EvictedBy,
    ClaimsFree, Lane, Live, DriverLive, TypeOK, RunPoints, SlotPoints, MidTerm,
    SettlePoints
<1>2. ASSUME NEW t \in Tasks, EnqueueFails(t) PROVE Final
  BY <1>2 DEF EnqueueFails, ReleaseGate, TypeOK, RunPoints, SlotPoints,
    MidTerm, SettlePoints
<1>3. ASSUME NEW t \in Tasks, Admitted(t) PROVE Final
  BY <1>3 DEF Admitted, ReleaseGate, TypeOK, RunPoints, SlotPoints, MidTerm,
    SettlePoints
<1>4. ASSUME NEW t \in Tasks, DriverStart(t) PROVE Final
  BY <1>4 DEF DriverStart, TypeOK, RunPoints, SlotPoints, MidTerm, SettlePoints
<1>5. ASSUME NEW t \in Tasks, LockAcquire(t) PROVE Final
  BY <1>5 DEF LockAcquire, TypeOK, RunPoints, SlotPoints, MidTerm, SettlePoints
<1>6. ASSUME NEW t \in Tasks, GateWake(t) PROVE Final
  BY <1>6 DEF GateWake, TakeSlot, TypeOK, RunPoints, SlotPoints, MidTerm,
    SettlePoints
<1>7. ASSUME NEW t \in Tasks, FairWake(t) PROVE Final
  BY <1>7 DEF FairWake, TakeSlot, TypeOK, RunPoints, SlotPoints, MidTerm,
    SettlePoints
<1>8. ASSUME NEW t \in Tasks, MarkRunning(t) PROVE Final
  BY <1>8 DEF MarkRunning, Abandon, ReleaseSlot, ReleaseLock, EnterHandler,
    Resolve, Undrained, TypeOK, RunPoints, SlotPoints, MidTerm, SettlePoints
<1>9. ASSUME NEW t \in Tasks, StartFails(t) PROVE Final
  BY <1>9 DEF StartFails, Abandon, ReleaseSlot, ReleaseLock, EnterHandler,
    Resolve, Undrained, TypeOK, RunPoints, SlotPoints, MidTerm, SettlePoints
<1>10. ASSUME NEW t \in Tasks, Announce(t) PROVE Final
  BY <1>10 DEF Announce, TypeOK, RunPoints, SlotPoints, MidTerm, SettlePoints
<1>11. ASSUME NEW t \in Tasks, TurnReturns(t) PROVE Final
  BY <1>11 DEF TurnReturns, LeaveTurn, TypeOK, RunPoints, SlotPoints, MidTerm,
    SettlePoints
<1>12. ASSUME NEW t \in Tasks, TurnFails(t) PROVE Final
  BY <1>12 DEF TurnFails, LeaveTurn, TypeOK, RunPoints, SlotPoints, MidTerm,
    SettlePoints
<1>13. ASSUME NEW t \in Tasks, HeartbeatStopped(t) PROVE Final
  BY <1>13 DEF HeartbeatStopped, AfterHeartbeat, ReleaseSlot, TypeOK,
    RunPoints, SlotPoints, MidTerm, SettlePoints
<1>14. ASSUME NEW t \in Tasks, Unwound(t) PROVE Final
  BY <1>14 DEF Unwound, AfterUnwind, Abandon, ReleaseSlot, ReleaseLock,
    EnterHandler, Resolve, Undrained, TypeOK, RunPoints, SlotPoints, MidTerm,
    SettlePoints
<1>15. ASSUME NEW t \in Tasks, CancelUnstarted(t) PROVE Final
  BY <1>15 DEF CancelUnstarted, Deliver, TypeOK, RunPoints, SlotPoints,
    MidTerm, SettlePoints
<1>16. ASSUME NEW t \in Tasks, CancelLockWait(t) PROVE Final
  BY <1>16 DEF CancelLockWait, Deliver, EnterHandler, Resolve, Undrained,
    TypeOK, RunPoints, SlotPoints, MidTerm, SettlePoints
<1>17. ASSUME NEW t \in Tasks, CancelSlotWait(t) PROVE Final
  BY <1>17 DEF CancelSlotWait, Deliver, ReleaseLock, EnterHandler, Resolve,
    Undrained, TypeOK, RunPoints, SlotPoints, MidTerm, SettlePoints
<1>18. ASSUME NEW t \in Tasks, CancelStarting(t) PROVE Final
  BY <1>18 DEF CancelStarting, Deliver, Abandon, ReleaseSlot, ReleaseLock,
    EnterHandler, Resolve, Undrained, TypeOK, RunPoints, SlotPoints, MidTerm,
    SettlePoints
<1>19. ASSUME NEW t \in Tasks, CancelTurn(t) PROVE Final
  BY <1>19 DEF CancelTurn, Deliver, LeaveTurn, TypeOK, RunPoints, SlotPoints,
    MidTerm, SettlePoints
<1>20. ASSUME NEW t \in Tasks, CancelSwallowed(t) PROVE Final
  BY <1>20 DEF CancelSwallowed, Deliver, AfterHeartbeat, AfterUnwind, Abandon,
    ReleaseSlot, ReleaseLock, EnterHandler, Resolve, Undrained, TypeOK,
    RunPoints, SlotPoints, MidTerm, SettlePoints
<1>21. ASSUME NEW t \in Tasks, CancelClosing(t) PROVE Final
  BY <1>21 DEF CancelClosing, Deliver, ReleaseLock, EnterHandler, Resolve,
    Undrained, TypeOK, RunPoints, SlotPoints, MidTerm, SettlePoints
<1>22. ASSUME NEW t \in Tasks, CancelHandler(t) PROVE Final
  BY <1>22 DEF CancelHandler, Deliver, TypeOK, RunPoints, SlotPoints, MidTerm,
    SettlePoints
<1>23. ASSUME NEW t \in Tasks, ClaimTerminal(t) PROVE Final
  BY <1>23 DEF ClaimTerminal, Claimable, ClaimEffect, TypeOK, RunPoints,
    SlotPoints, MidTerm, SettlePoints
<1>24. ASSUME NEW t \in Tasks, AlreadyTerminal(t) PROVE Final
  BY <1>24 DEF AlreadyTerminal, ReleaseLock, TypeOK, RunPoints, SlotPoints,
    MidTerm, SettlePoints
<1>25. ASSUME NEW t \in Tasks, TerminalRow(t) PROVE Final
  BY <1>25 DEF TerminalRow, TypeOK, RunPoints, SlotPoints, MidTerm,
    SettlePoints
<1>26. ASSUME NEW t \in Tasks, PromoteRefused(t) PROVE Final
  BY <1>26 DEF PromoteRefused, MustPromote, Resolve, Undrained, TypeOK,
    RunPoints, SlotPoints, MidTerm, SettlePoints
<1>27. ASSUME NEW t \in Tasks, PromoteFails(t) PROVE Final
  BY <1>27 DEF PromoteFails, Resolve, Reclaimed, TypeOK, RunPoints, SlotPoints,
    MidTerm, SettlePoints
<1>28. ASSUME NEW t \in Tasks, PromoteActivate(t) PROVE Final
  BY <1>28 DEF PromoteActivate, Resolve, Reclaimed, ActivateEffect,
    InterruptTargets, EvictedBy, ClaimsFree, Lane, Live, DriverLive, TypeOK,
    RunPoints, SlotPoints, MidTerm, SettlePoints
<1>29. ASSUME NEW t \in Tasks, Emit(t) PROVE Final
  BY <1>29 DEF Emit, PromotionOver, MustPromote, PromotesSteers, Undrained,
    TypeOK, RunPoints, SlotPoints, MidTerm, SettlePoints
<1>30. ASSUME NEW t \in Tasks, Settle(t) PROVE Final
  BY <1>30 DEF Settle, DropRunning, ReleaseLock, PromotionOver, MustPromote,
    PromotesSteers, Undrained, TypeOK, RunPoints, SlotPoints, MidTerm,
    SettlePoints
<1>31. ASSUME NEW t \in Tasks, ExtClaim(t) PROVE Final
  BY <1>31 DEF ExtClaim, ClaimEffect, ClaimsFree, TypeOK, RunPoints,
    SlotPoints, MidTerm, SettlePoints
<1>32. ASSUME NEW t \in Tasks, CancelSignal(t) PROVE Final
  BY <1>32 DEF CancelSignal, ClaimEffect, DriverLive, TypeOK, RunPoints,
    SlotPoints, MidTerm, SettlePoints
<1>33. ASSUME NEW t \in Tasks, ClaimSteers(t) PROVE Final
  BY <1>33 DEF ClaimSteers, Resolve, TypeOK, RunPoints, SlotPoints, MidTerm,
    SettlePoints
<1>34. ASSUME NEW t \in Tasks, ApplySteers(t) PROVE Final
  BY <1>34 DEF ApplySteers, Resolve, TypeOK, RunPoints, SlotPoints, MidTerm,
    SettlePoints
<1>35. ASSUME NEW t \in Tasks, NEW m \in Modes, NEW p \in Policies, Enqueue(t, m, p)
      PROVE  Final
  BY <1>35 DEF Enqueue, TypeOK, RunPoints, SlotPoints, MidTerm, SettlePoints
<1>36. ASSUME NEW t \in Tasks, NEW f \in Tasks, Promote(t, f) PROVE Final
  BY <1>36 DEF Promote, MustPromote, Resolve, Undrained, TypeOK, RunPoints,
    SlotPoints, MidTerm, SettlePoints
<1>37. ASSUME NEW t \in Tasks, NEW src \in CancelSources, CancelBegin(t, src)
      PROVE  Final
  BY <1>37 DEF CancelBegin, Live, TypeOK, RunPoints, SlotPoints, MidTerm,
    SettlePoints
<1>38. ASSUME NEW x \in Steers, NEW t \in Tasks, AdmitSteer(x, t) PROVE Final
  BY <1>38 DEF AdmitSteer, TypeOK, RunPoints, SlotPoints, MidTerm, SettlePoints
<1>39. ASSUME NEW x \in Steers, SteerPersisted(x) PROVE Final
  BY <1>39 DEF SteerPersisted, TypeOK, RunPoints, SlotPoints, MidTerm,
    SettlePoints
<1>40. CASE UNCHANGED vars
  BY <1>40 DEF vars, RunPoints, SlotPoints
<1>41. QED
  BY <1>1, <1>2, <1>3, <1>4, <1>5, <1>6, <1>7, <1>8, <1>9, <1>10, <1>11, <1>12,
    <1>13, <1>14, <1>15, <1>16, <1>17, <1>18, <1>19, <1>20, <1>21, <1>22,
    <1>23, <1>24, <1>25, <1>26, <1>27, <1>28, <1>29, <1>30, <1>31, <1>32,
    <1>33, <1>34, <1>35, <1>36, <1>37, <1>38, <1>39, <1>40
  DEF Next, Admission, DriverStep, DeliverCancel, SettleStep, Quiescent

(***************************************************************************)
(* The steers.                                                             *)
(***************************************************************************)

\* The except-branches of _execute keep the invariant, wherever they are entered
\* from: the CancelledError branch is entered only by a cancelled task.
LEMMA HandlerSteering ==
  ASSUME TypeOK, Safe, Steering, NEW t \in Tasks, NEW w \in {"failed", "cancelled"},
         EnterHandler(t, w),
         pc[t] \in {"lock", "gate", "fair", "marking", "announce", "unwind", "closeL"},
         pc[t] # "marking" /\ w = "cancelled" => t \in cancelReq,
         UNCHANGED <<cancelReq, cancelSrc, cancelOp>>, cancelSig' \subseteq cancelSig
  PROVE  Steering'
<1> DEFINE drains == w = "cancelled" /\ cancelSrc[t] = "user"
<1>1. /\ pc' = [pc EXCEPT ![t] = "handler"]
      /\ want' = [want EXCEPT ![t] = w]
      /\ status' = IF w = "cancelled" /\ term[t] = "open"
                   THEN [status EXCEPT ![t] = "cancelled"] ELSE status
      /\ UNCHANGED <<ext, cancelOp, cancelSrc, cancelReq, term, rows, gate,
                     steerClaim, promo, starget>>
      /\ pc \in [Tasks -> Points] /\ want \in [Tasks -> Statuses]
      /\ status \in [Tasks -> Statuses]
  BY DEF EnterHandler, TypeOK
<1>2. ASSUME NEW u \in Tasks
      PROVE  /\ pc'[u] = IF u = t THEN "handler" ELSE pc[u]
             /\ want'[u] = IF u = t THEN w ELSE want[u]
             /\ status'[u] = IF u = t /\ w = "cancelled" /\ term[t] = "open"
                             THEN "cancelled" ELSE status[u]
  BY <1>1
<1>3. ASSUME NEW x \in Steers
      PROVE  sst'[x] = IF drains /\ starget[x] = t /\ sst[x] \in {"pending", "claimed"}
                       THEN "cancelled" ELSE sst[x]
  <2>1. CASE drains
    BY <2>1 DEF EnterHandler, Resolve, Undrained
  <2>2. CASE ~drains
    BY <2>2 DEF EnterHandler
  <2>3. QED
    BY <2>1, <2>2
<1>4. ASSUME NEW x \in Steers, Attached(x, t)
      PROVE  /\ status[t] # "queued" /\ ext[t] = "none" /\ cancelOp[t] # "unstarted"
             /\ term[t] = "open"
             /\ pc[t] # "marking"
  BY <1>4 DEF Steering, BegunInv, BegunPoints, RunPoints, SlotPoints, SettlePoints
<1> HIDE DEF drains
<1>5. ASSUME NEW x \in Steers, NEW u \in Tasks PROVE Attached(x, u)' <=> Attached(x, u)
  BY <1>1, <1>3 DEF Attached
<1>6. BegunInv'
  <2>1. ASSUME NEW x \in Steers, Attached(x, t)
        PROVE  /\ status'[t] # "queued" /\ ext'[t] = "none" /\ cancelOp'[t] # "unstarted"
               /\ pc'[t] = "handler" /\ term'[t] = "open"
    BY <2>1, <1>1, <1>2, <1>4
  <2>2. QED
    BY <2>1, <1>1, <1>2, <1>5 DEF Steering, BegunInv, BegunPoints, RunPoints,
      SlotPoints, SettlePoints
<1>7. StopInv'
  <2>1. ASSUME NEW x \in Steers, Attached(x, t), w = "cancelled"
        PROVE  /\ status'[t] = "cancelled"
               /\ t \in cancelReq
               /\ cancelSrc[t] = "user" => sst'[x] \notin {"persisting", "pending", "claimed"}
    <3>1. status'[t] = "cancelled" /\ t \in cancelReq
      BY <2>1, <1>2, <1>4
    <3>2. cancelSrc[t] = "user" => sst[x] # "persisting"
      BY <3>1, <2>1 DEF Steering, PersistInv, Attached
    <3>3. QED
      BY <3>1, <3>2, <2>1, <1>3 DEF Attached, drains
  <2>2. QED
    BY <2>1, <1>1, <1>2, <1>3, <1>5 DEF Steering, StopInv, SettlePoints
<1>8. PersistInv'
  BY <1>1, <1>3 DEF Steering, PersistInv
<1>9. DrainedInv'
  BY <1>1, <1>3 DEF Steering, DrainedInv
<1>10. RunningInv'
  BY <1>1, <1>2 DEF Steering, RunningInv, BegunPoints, RunPoints, SlotPoints, SettlePoints
<1>11. CancelInv'
  BY <1>1, <1>2 DEF Steering, CancelInv, SettlePoints
<1>12. TargetInv' /\ HolderInv'
  BY <1>1, <1>2, <1>3 DEF Steering, TargetInv, HolderInv
<1>13. ReclaimedInv' /\ PromoInv'
  BY <1>1, <1>2, <1>3, ShapeAssumption DEF Steering, ReclaimedInv, PromoInv, Promoting, TypeOK
<1>14. QED
  BY <1>6, <1>7, <1>8, <1>9, <1>10, <1>11, <1>12, <1>13 DEF Steering

\* Every step keeps the invariant of the steers.
LEMMA SteeringStep ==
  ASSUME TypeOK, Safe, Steering, [Next]_vars, TypeOK'
  PROVE  Steering'
<1> USE ShapeAssumption
    DEF Safe, LockInv, RunInv, TermInv, ExtInv, WantInv, SteerInv, SettlementUninterrupted,
        Steering, TargetInv, BegunInv, CancelInv, PersistInv, StopInv,
        DrainedInv, ReclaimedInv, PromoInv, RunningInv, HolderInv
<1>1. ASSUME NEW t \in Tasks, Activate(t) PROVE Steering'
  BY <1>1 DEF Activate, ActivateEffect, InterruptTargets, EvictedBy,
    ClaimsFree, Lane, Live, DriverLive, TypeOK, BegunPoints, LockPoints,
    SlotPoints, RunPoints, SettlePoints, MidTerm, TerminalStatuses, Promoting,
    Attached
<1>2. ASSUME NEW t \in Tasks, EnqueueFails(t) PROVE Steering'
  BY <1>2 DEF EnqueueFails, ReleaseGate, TypeOK, BegunPoints, LockPoints,
    SlotPoints, RunPoints, SettlePoints, MidTerm, TerminalStatuses, Promoting,
    Attached
<1>3. ASSUME NEW t \in Tasks, Admitted(t) PROVE Steering'
  BY <1>3 DEF Admitted, ReleaseGate, TypeOK, BegunPoints, LockPoints,
    SlotPoints, RunPoints, SettlePoints, MidTerm, TerminalStatuses, Promoting,
    Attached
<1>4. ASSUME NEW t \in Tasks, DriverStart(t) PROVE Steering'
  BY <1>4 DEF DriverStart, TypeOK, BegunPoints, LockPoints, SlotPoints,
    RunPoints, SettlePoints, MidTerm, TerminalStatuses, Promoting, Attached
<1>5. ASSUME NEW t \in Tasks, LockAcquire(t) PROVE Steering'
  BY <1>5 DEF LockAcquire, TypeOK, BegunPoints, LockPoints, SlotPoints,
    RunPoints, SettlePoints, MidTerm, TerminalStatuses, Promoting, Attached
<1>6. ASSUME NEW t \in Tasks, GateWake(t) PROVE Steering'
  <2>1. CASE TakeSlot(t)
    BY <2>1, <1>6 DEF GateWake, TakeSlot, TypeOK, BegunPoints, SlotPoints, RunPoints,
      SettlePoints, Promoting, Attached
  <2>2. CASE UNCHANGED <<pc, slots, inFlight, rr>>
    BY <2>2, <1>6 DEF GateWake, TypeOK, Promoting, Attached
  <2>3. QED
    BY <2>1, <2>2, <1>6 DEF GateWake
<1>7. ASSUME NEW t \in Tasks, FairWake(t) PROVE Steering'
  <2>1. CASE TakeSlot(t)
    BY <2>1, <1>7 DEF FairWake, TakeSlot, TypeOK, BegunPoints, SlotPoints, RunPoints,
      SettlePoints, Promoting, Attached
  <2>2. CASE UNCHANGED <<pc, slots, inFlight, rr>>
    BY <2>2, <1>7 DEF FairWake, TypeOK, Promoting, Attached
  <2>3. QED
    BY <2>1, <2>2, <1>7 DEF FairWake
<1>8. ASSUME NEW t \in Tasks, MarkRunning(t) PROVE Steering'
  <2>1. CASE term[t] # "open" \/ status[t] \in TerminalStatuses \/ t \in cancelReq
    BY <2>1, <1>8, HandlerSteering DEF MarkRunning, Abandon
  <2>2. CASE ~(term[t] # "open" \/ status[t] \in TerminalStatuses \/ t \in cancelReq)
    BY <2>2, <1>8 DEF MarkRunning, TypeOK, BegunPoints, LockPoints, SlotPoints,
      RunPoints, SettlePoints, MidTerm, TerminalStatuses, Promoting, Attached
  <2>3. QED
    BY <2>1, <2>2
<1>9. ASSUME NEW t \in Tasks, StartFails(t) PROVE Steering'
  BY <1>9, HandlerSteering DEF StartFails, Abandon
<1>10. ASSUME NEW t \in Tasks, Announce(t) PROVE Steering'
  BY <1>10 DEF Announce, TypeOK, BegunPoints, LockPoints, SlotPoints,
    RunPoints, SettlePoints, MidTerm, TerminalStatuses, Promoting, Attached
<1>11. ASSUME NEW t \in Tasks, TurnReturns(t) PROVE Steering'
  BY <1>11 DEF TurnReturns, LeaveTurn, TypeOK, BegunPoints, LockPoints,
    SlotPoints, RunPoints, SettlePoints, MidTerm, TerminalStatuses, Promoting,
    Attached
<1>12. ASSUME NEW t \in Tasks, TurnFails(t) PROVE Steering'
  BY <1>12 DEF TurnFails, LeaveTurn, TypeOK, BegunPoints, LockPoints,
    SlotPoints, RunPoints, SettlePoints, MidTerm, TerminalStatuses, Promoting,
    Attached
<1>13. ASSUME NEW t \in Tasks, HeartbeatStopped(t) PROVE Steering'
  BY <1>13 DEF HeartbeatStopped, AfterHeartbeat, ReleaseSlot, TypeOK,
    BegunPoints, LockPoints, SlotPoints, RunPoints, SettlePoints, MidTerm,
    TerminalStatuses, Promoting, Attached
<1>14. ASSUME NEW t \in Tasks, Unwound(t) PROVE Steering'
  <2>1. AfterUnwind(t)
    BY <1>14 DEF Unwound
  <2>2. Steering'
    <3>1. want[t] \in {"failed", "cancelled"}
      BY <2>1 DEF AfterUnwind, Steering, CancelInv
    <3>2. QED
      BY <3>1, <2>1, <1>14, HandlerSteering DEF Unwound, AfterUnwind, Abandon
  <2>3. QED
    BY <2>2
<1>15. ASSUME NEW t \in Tasks, CancelUnstarted(t) PROVE Steering'
  BY <1>15 DEF CancelUnstarted, Deliver, TypeOK, BegunPoints, LockPoints,
    SlotPoints, RunPoints, SettlePoints, MidTerm, TerminalStatuses, Promoting,
    Attached
<1>16. ASSUME NEW t \in Tasks, CancelLockWait(t) PROVE Steering'
  BY <1>16, HandlerSteering DEF CancelLockWait, Deliver
<1>17. ASSUME NEW t \in Tasks, CancelSlotWait(t) PROVE Steering'
  BY <1>17, HandlerSteering DEF CancelSlotWait, Deliver
<1>18. ASSUME NEW t \in Tasks, CancelStarting(t) PROVE Steering'
  BY <1>18, HandlerSteering DEF CancelStarting, Deliver, Abandon
<1>19. ASSUME NEW t \in Tasks, CancelTurn(t) PROVE Steering'
  BY <1>19 DEF CancelTurn, Deliver, LeaveTurn, TypeOK, BegunPoints, LockPoints,
    SlotPoints, RunPoints, SettlePoints, MidTerm, TerminalStatuses, Promoting,
    Attached
<1>20. ASSUME NEW t \in Tasks, CancelSwallowed(t) PROVE Steering'
  <2>1. CASE AfterUnwind(t)
    <3>1. want[t] \in {"failed", "cancelled"}
      BY <2>1 DEF AfterUnwind, Steering, CancelInv
    <3>2. QED
      BY <3>1, <2>1, <1>20, HandlerSteering DEF CancelSwallowed, Deliver, AfterUnwind, Abandon
  <2>2. CASE AfterHeartbeat(t)
    BY <2>2, <1>20 DEF CancelSwallowed, Deliver, AfterHeartbeat, ReleaseSlot, TypeOK, BegunPoints,
      LockPoints, SlotPoints, RunPoints, SettlePoints, MidTerm, TerminalStatuses,
      Promoting, Attached
  <2>3. QED
    BY <2>1, <2>2, <1>20 DEF CancelSwallowed
<1>21. ASSUME NEW t \in Tasks, CancelClosing(t) PROVE Steering'
  BY <1>21, HandlerSteering DEF CancelClosing, Deliver
<1>22. ASSUME NEW t \in Tasks, CancelHandler(t) PROVE Steering'
  BY <1>22 DEF CancelHandler, Deliver, TypeOK, BegunPoints, LockPoints,
    SlotPoints, RunPoints, SettlePoints, MidTerm, TerminalStatuses, Promoting,
    Attached
<1>23. ASSUME NEW t \in Tasks, ClaimTerminal(t) PROVE Steering'
  BY <1>23 DEF ClaimTerminal, Claimable, ClaimEffect, TypeOK, BegunPoints,
    LockPoints, SlotPoints, RunPoints, SettlePoints, MidTerm, TerminalStatuses,
    Promoting, Attached
<1>24. ASSUME NEW t \in Tasks, AlreadyTerminal(t) PROVE Steering'
  BY <1>24 DEF AlreadyTerminal, ReleaseLock, TypeOK, BegunPoints, LockPoints,
    SlotPoints, RunPoints, SettlePoints, MidTerm, TerminalStatuses, Promoting,
    Attached
<1>25. ASSUME NEW t \in Tasks, TerminalRow(t) PROVE Steering'
  BY <1>25 DEF TerminalRow, TypeOK, BegunPoints, LockPoints, SlotPoints,
    RunPoints, SettlePoints, MidTerm, TerminalStatuses, Promoting, Attached
<1>26. ASSUME NEW t \in Tasks, PromoteRefused(t) PROVE Steering'
  BY <1>26 DEF PromoteRefused, MustPromote, Resolve, Undrained, TypeOK,
    BegunPoints, LockPoints, SlotPoints, RunPoints, SettlePoints, MidTerm,
    TerminalStatuses, Promoting, Attached
<1>27. ASSUME NEW t \in Tasks, PromoteFails(t) PROVE Steering'
  BY <1>27 DEF PromoteFails, Resolve, Reclaimed, TypeOK, BegunPoints,
    LockPoints, SlotPoints, RunPoints, SettlePoints, MidTerm, TerminalStatuses,
    Promoting, Attached
<1>28. ASSUME NEW t \in Tasks, PromoteActivate(t) PROVE Steering'
  <2>1. TargetInv' /\ BegunInv' /\ RunningInv' /\ CancelInv' /\ HolderInv'
    BY <1>28 DEF PromoteActivate, Resolve, Reclaimed, ActivateEffect,
      InterruptTargets, EvictedBy, ClaimsFree, Lane, Live, DriverLive, TypeOK,
      BegunPoints, LockPoints, SlotPoints, RunPoints, SettlePoints, MidTerm,
      TerminalStatuses, Promoting, Attached
  <2>2. PersistInv' /\ StopInv' /\ DrainedInv'
    BY <1>28 DEF PromoteActivate, Resolve, Reclaimed, ActivateEffect,
      InterruptTargets, EvictedBy, ClaimsFree, Lane, Live, DriverLive, TypeOK,
      BegunPoints, LockPoints, SlotPoints, RunPoints, SettlePoints, MidTerm,
      TerminalStatuses, Promoting, Attached
  <2>3. ReclaimedInv'
    BY <1>28 DEF PromoteActivate, Resolve, Reclaimed, ActivateEffect,
      InterruptTargets, EvictedBy, ClaimsFree, Lane, Live, DriverLive, TypeOK,
      BegunPoints, LockPoints, SlotPoints, RunPoints, SettlePoints, MidTerm,
      TerminalStatuses, Promoting, Attached
  <2>4. PromoInv'
    BY <1>28 DEF PromoteActivate, Resolve, Reclaimed, ActivateEffect,
      InterruptTargets, EvictedBy, ClaimsFree, Lane, Live, DriverLive, TypeOK,
      BegunPoints, LockPoints, SlotPoints, RunPoints, SettlePoints, MidTerm,
      TerminalStatuses, Promoting, Attached
  <2>5. QED
    BY <2>1, <2>2, <2>3, <2>4
<1>29. ASSUME NEW t \in Tasks, Emit(t) PROVE Steering'
  BY <1>29 DEF Emit, PromotionOver, MustPromote, PromotesSteers, Undrained,
    TypeOK, BegunPoints, LockPoints, SlotPoints, RunPoints, SettlePoints,
    MidTerm, TerminalStatuses, Promoting, Attached
<1>30. ASSUME NEW t \in Tasks, Settle(t) PROVE Steering'
  <2>1. TargetInv' /\ CancelInv' /\ HolderInv'
    BY <1>30 DEF Settle, DropRunning, ReleaseLock, PromotionOver, MustPromote,
      PromotesSteers, Undrained, TypeOK, BegunPoints, LockPoints, SlotPoints,
      RunPoints, SettlePoints, MidTerm, TerminalStatuses, Promoting, Attached
  <2>2. BegunInv'
    BY <1>30 DEF Settle, DropRunning, ReleaseLock, PromotionOver, MustPromote,
      PromotesSteers, Undrained, TypeOK, BegunPoints, LockPoints, SlotPoints,
      RunPoints, SettlePoints, MidTerm, TerminalStatuses, Promoting, Attached
  <2>3. RunningInv'
    BY <1>30 DEF Settle, DropRunning, ReleaseLock, PromotionOver, MustPromote,
      PromotesSteers, Undrained, TypeOK, BegunPoints, LockPoints, SlotPoints,
      RunPoints, SettlePoints, MidTerm, TerminalStatuses, Promoting, Attached
  <2>4. PersistInv' /\ StopInv' /\ DrainedInv'
    BY <1>30 DEF Settle, DropRunning, ReleaseLock, PromotionOver, MustPromote,
      PromotesSteers, Undrained, TypeOK, BegunPoints, LockPoints, SlotPoints,
      RunPoints, SettlePoints, MidTerm, TerminalStatuses, Promoting, Attached
  <2>5. ReclaimedInv'
    BY <1>30 DEF Settle, DropRunning, ReleaseLock, PromotionOver, MustPromote,
      PromotesSteers, Undrained, TypeOK, BegunPoints, LockPoints, SlotPoints,
      RunPoints, SettlePoints, MidTerm, TerminalStatuses, Promoting, Attached
  <2>6. PromoInv'
    BY <1>30 DEF Settle, DropRunning, ReleaseLock, PromotionOver, MustPromote,
      PromotesSteers, Undrained, TypeOK, BegunPoints, LockPoints, SlotPoints,
      RunPoints, SettlePoints, MidTerm, TerminalStatuses, Promoting, Attached
  <2>7. QED
    BY <2>1, <2>2, <2>3, <2>4, <2>5, <2>6
<1>31. ASSUME NEW t \in Tasks, ExtClaim(t) PROVE Steering'
  BY <1>31 DEF ExtClaim, ClaimEffect, ClaimsFree, TypeOK, BegunPoints,
    LockPoints, SlotPoints, RunPoints, SettlePoints, MidTerm, TerminalStatuses,
    Promoting, Attached
<1>32. ASSUME NEW t \in Tasks, CancelSignal(t) PROVE Steering'
  BY <1>32 DEF CancelSignal, ClaimEffect, DriverLive, TypeOK, BegunPoints,
    LockPoints, SlotPoints, RunPoints, SettlePoints, MidTerm, TerminalStatuses,
    Promoting, Attached
<1>33. ASSUME NEW t \in Tasks, ClaimSteers(t) PROVE Steering'
  BY <1>33 DEF ClaimSteers, Resolve, TypeOK, BegunPoints, LockPoints,
    SlotPoints, RunPoints, SettlePoints, MidTerm, TerminalStatuses, Promoting,
    Attached
<1>34. ASSUME NEW t \in Tasks, ApplySteers(t) PROVE Steering'
  BY <1>34 DEF ApplySteers, Resolve, TypeOK, BegunPoints, LockPoints,
    SlotPoints, RunPoints, SettlePoints, MidTerm, TerminalStatuses, Promoting,
    Attached
<1>35. ASSUME NEW t \in Tasks, NEW m \in Modes, NEW p \in Policies, Enqueue(t, m, p)
      PROVE  Steering'
  BY <1>35 DEF Enqueue, TypeOK, BegunPoints, LockPoints, SlotPoints, RunPoints,
    SettlePoints, MidTerm, TerminalStatuses, Promoting, Attached
<1>36. ASSUME NEW t \in Tasks, NEW f \in Tasks, Promote(t, f) PROVE Steering'
  <2>1. TargetInv' /\ BegunInv' /\ RunningInv' /\ CancelInv' /\ HolderInv'
    BY <1>36 DEF Promote, MustPromote, Resolve, Undrained, TypeOK, BegunPoints,
      LockPoints, SlotPoints, RunPoints, SettlePoints, MidTerm,
      TerminalStatuses, Promoting, Attached
  <2>2. PersistInv' /\ StopInv' /\ DrainedInv'
    BY <1>36 DEF Promote, MustPromote, Resolve, Undrained, TypeOK, BegunPoints,
      LockPoints, SlotPoints, RunPoints, SettlePoints, MidTerm,
      TerminalStatuses, Promoting, Attached
  <2>3. ReclaimedInv'
    BY <1>36 DEF Promote, MustPromote, Resolve, Undrained, TypeOK, BegunPoints,
      LockPoints, SlotPoints, RunPoints, SettlePoints, MidTerm,
      TerminalStatuses, Promoting, Attached
  <2>4. PromoInv'
    BY <1>36 DEF Promote, MustPromote, Resolve, Undrained, TypeOK, BegunPoints,
      LockPoints, SlotPoints, RunPoints, SettlePoints, MidTerm,
      TerminalStatuses, Promoting, Attached
  <2>5. QED
    BY <2>1, <2>2, <2>3, <2>4
<1>37. ASSUME NEW t \in Tasks, NEW src \in CancelSources, CancelBegin(t, src)
      PROVE  Steering'
  BY <1>37 DEF CancelBegin, Unstarted, Live, TypeOK, BegunPoints, LockPoints, SlotPoints,
    RunPoints, SettlePoints, MidTerm, TerminalStatuses, Promoting, Attached
<1>38. ASSUME NEW x \in Steers, NEW t \in Tasks, AdmitSteer(x, t) PROVE Steering'
  BY <1>38 DEF AdmitSteer, TypeOK, BegunPoints, LockPoints, SlotPoints,
    RunPoints, SettlePoints, MidTerm, TerminalStatuses, Promoting, Attached
<1>39. ASSUME NEW x \in Steers, SteerPersisted(x) PROVE Steering'
  <2>1. /\ UNCHANGED <<pc, want, status, cancelReq, cancelSrc, starget>>
        /\ \A y \in Steers : y # x => sst'[y] = sst[y]
        /\ sst[x] = "persisting"
    BY <1>39 DEF SteerPersisted, TypeOK
  <2>2. ASSUME NEW y \in Steers, NEW u \in Tasks, Attached(y, u)'
        PROVE  Attached(y, u)
    BY <2>1, <2>2 DEF Attached
  <2>3. StopInv'
    <3>1. ASSUME NEW y \in Steers, NEW u \in Tasks, Attached(y, u),
                 pc[u] \in {"handler", "settleH"}, want[u] = "cancelled"
          PROVE  /\ status'[u] = "cancelled"
                 /\ u \in cancelReq'
                 /\ cancelSrc'[u] = "user" => sst'[y] \notin {"persisting", "pending", "claimed"}
      <4>1. /\ status[u] = "cancelled"
            /\ u \in cancelReq
            /\ cancelSrc[u] = "user" => sst[y] \notin {"persisting", "pending", "claimed"}
        BY <3>1
      <4>2. cancelSrc[u] = "user" => y # x
        BY <4>1, <2>1
      <4>3. QED
        BY <4>1, <4>2, <2>1
    <3>2. QED
      BY <3>1, <2>1, <2>2
  <2>4. TargetInv' /\ BegunInv' /\ CancelInv' /\ PersistInv' /\ DrainedInv' /\ RunningInv'
    BY <1>39 DEF SteerPersisted, TypeOK, BegunPoints, LockPoints, SlotPoints,
      RunPoints, SettlePoints, MidTerm, TerminalStatuses, Attached
  <2>5. ReclaimedInv' /\ PromoInv' /\ HolderInv'
    BY <1>39 DEF SteerPersisted, TypeOK, Promoting
  <2>6. QED
    BY <2>3, <2>4, <2>5
<1>40. CASE UNCHANGED vars
  BY <1>40 DEF vars, Promoting, Attached
<1>41. QED
  BY <1>1, <1>2, <1>3, <1>4, <1>5, <1>6, <1>7, <1>8, <1>9, <1>10, <1>11, <1>12,
    <1>13, <1>14, <1>15, <1>16, <1>17, <1>18, <1>19, <1>20, <1>21, <1>22,
    <1>23, <1>24, <1>25, <1>26, <1>27, <1>28, <1>29, <1>30, <1>31, <1>32,
    <1>33, <1>34, <1>35, <1>36, <1>37, <1>38, <1>39, <1>40
  DEF Next, Admission, DriverStep, DeliverCancel, SettleStep, Quiescent

(***************************************************************************)
(* The theorems.                                                           *)
(***************************************************************************)

\* The invariant of the steers holds along with the one of the turns.
THEOREM SteeringInvariance == Spec => [](IInv /\ Steering)
<1>1. Init => Steering
  BY ShapeAssumption DEF Init, Steering, TargetInv, BegunInv, RunningInv, CancelInv,
    PersistInv, StopInv, DrainedInv, ReclaimedInv, PromoInv, HolderInv,
    Attached, Promoting, SettlePoints
<1>2. IInv /\ IInv' /\ Steering /\ [Next]_vars => Steering'
  BY SteeringStep DEF IInv
<1>3. QED
  BY <1>1, <1>2, Invariance, PTL DEF Spec

\* An accepted steer never evaporates: once its turn is settled it was applied,
\* handed to a follow-up or given back, or startup recovery still finds it.
THEOREM SteersNeverLost == Spec => []SteersResolved
<1>1. Steering => SteersResolved
  BY DEF Steering, TargetInv, PersistInv, DrainedInv, ReclaimedInv, SteersResolved
<1>2. QED
  BY <1>1, SteeringInvariance, PTL

\* A settled task keeps its terminal status, and its driver runs no turn again.
THEOREM SettlementIsFinal == Spec => SettledForGood
<1>1. IInv /\ [Next]_vars => [\A t \in Tasks : term[t] = "settled" =>
        /\ term'[t] = "settled"
        /\ status'[t] = status[t]
        /\ pc'[t] \notin {"announce", "turn"}]_vars
  BY FinalStep DEF IInv
<1>2. QED
  BY <1>1, Invariance, PTL DEF Spec, SettledForGood

=============================================================================
