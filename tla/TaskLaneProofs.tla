--------------------------- MODULE TaskLaneProofs ---------------------------
(* Theorems about TaskRuntime: the tasks that wait for their lane or a slot, *)
(* and the limit of their queue.                                            *)
EXTENDS TaskSteerProofs

USE DEF laneVars, admitVars, slotVars, cancelVars, steerVars, taskVars

(***************************************************************************)
(* The inductive invariant: IInv, and the following parts.                 *)
(***************************************************************************)

\* Where a created driver waits, before it flips its task to RUNNING.
WaitPoints == {"ready", "lock", "gate", "fair", "marking"}
IdlePoints == {"fresh", "reserved", "aborted"}

\* Nothing happens to a task before it is activated.
UnbornInv ==
  \A t \in Tasks : pc[t] \in IdlePoints =>
    ext[t] = "none" /\ t \notin pending /\ term[t] = "open" /\ steerClaim[t] = "free"

\* A waiting driver whose task somebody else settles has been signalled.
SignalledInv ==
  \A t \in Tasks : ext[t] # "none" /\ pc[t] \in WaitPoints => t \in cancelSig

\* A waiting driver that nobody has signalled is still queued.
QueuedInv ==
  \A t \in Tasks : pc[t] \in WaitPoints /\ t \notin cancelSig => t \in pending

\* The session of a queued task takes part in its agent's rotation, and so does
\* the session of every task asleep on _fair_cond.
InRotation(t) == Holds(rr[TaskAgent(t)], SessionOf[t])
RotationInv ==
  \A t \in Tasks : t \in pending \/ (pc[t] = "fair" /\ t \notin woken) => InRotation(t)

Waiting ==
  UnbornInv /\ SignalledInv /\ QueuedInv /\ RotationInv /\ NoLostWakeup

\* The tasks of a session are listed once each, from their activation on.
ArrivedInv ==
  /\ \A s \in Sessions : \A i \in DOMAIN arrivals[s] :
       /\ SessionOf[arrivals[s][i]] = s
       /\ pc[arrivals[s][i]] \notin IdlePoints
       /\ \A j \in DOMAIN arrivals[s] : arrivals[s][j] = arrivals[s][i] => j = i
  /\ \A t \in Tasks : pc[t] \notin IdlePoints => Holds(arrivals[SessionOf[t]], t)

\* Who has the lane's lock and waits for a slot has nobody before him who still
\* waits for the lock.
BehindInv ==
  \A s \in Sessions : \A i \in DOMAIN arrivals[s] :
    pc[arrivals[s][i]] \in {"gate", "fair", "marking"} =>
      \A j \in 1..(i - 1) : pc[arrivals[s][j]] \notin {"ready", "lock"}

\* A driver that returned leaves no waiting task behind, unless it was cancelled.
LeftInv ==
  \A t \in Tasks :
    /\ t \in pending /\ pc[t] = "done" /\ status[t] = "queued" => t \in cancelReq
    /\ term[t] = "settled" => t \notin pending

Ordered == ArrivedInv /\ BehindInv /\ LeftInv

(***************************************************************************)
(* The rotation of the sessions.                                           *)
(***************************************************************************)

\* Whoever takes part in a rotation keeps taking part when a session joins ...
LEMMA HoldsAppend ==
  ASSUME NEW S, NEW q \in Seq(S), NEW e \in S, NEW d
  PROVE  Holds(Append(q, e), d) <=> Holds(q, d) \/ d = e
<1>1. /\ Len(Append(q, e)) = Len(q) + 1
      /\ \A i \in 1..Len(q) : Append(q, e)[i] = q[i]
      /\ Append(q, e)[Len(q) + 1] = e
      /\ DOMAIN q = 1..Len(q)
      /\ DOMAIN Append(q, e) = 1..Len(q) + 1
      /\ Len(q) \in Nat
  OBVIOUS
<1>2. QED
  BY <1>1 DEF Holds

\* ... when the rotation advances ...
LEMMA HoldsRotate ==
  ASSUME NEW S, NEW q \in Seq(S), NEW e, NEW d, Holds(q, d)
  PROVE  Holds(RotatePast(q, e), d)
<1>1. CASE ~Holds(q, e)
  BY <1>1 DEF RotatePast
<1>2. CASE Holds(q, e)
  <2> DEFINE p == PosIn(q, e)
             a == SubSeq(q, p + 1, Len(q))
             b == SubSeq(q, 1, p)
  <2>1. p \in 1..Len(q) /\ Len(q) \in Nat
    BY <1>2 DEF Holds, PosIn
  <2>2. PICK i \in 1..Len(q) : q[i] = d
    BY DEF Holds
  <2> HIDE DEF p
  <2>3. /\ a \in Seq(S) /\ Len(a) = Len(q) - p
        /\ \A k \in 1..(Len(q) - p) : a[k] = q[p + k]
    <3>1. p + 1 \in 1..(Len(q) + 1) /\ Len(q) \in 0..Len(q)
      BY <2>1
    <3>2. QED
      BY <3>1, <2>1
  <2>4. /\ b \in Seq(S) /\ Len(b) = p
        /\ \A k \in 1..p : b[k] = q[k]
    BY <2>1
  <2> HIDE DEF a, b
  <2>5. /\ DOMAIN (a \o b) = 1..(Len(a) + Len(b))
        /\ \A k \in 1..Len(a) : (a \o b)[k] = a[k]
        /\ \A k \in 1..Len(b) : (a \o b)[Len(a) + k] = b[k]
    <3>1. /\ Len(a \o b) = Len(a) + Len(b)
          /\ a \o b \in Seq(S)
          /\ \A k \in 1..(Len(a) + Len(b)) :
               (a \o b)[k] = IF k <= Len(a) THEN a[k] ELSE b[k - Len(a)]
      BY <2>3, <2>4, ConcatProperties
    <3>2. DOMAIN (a \o b) = 1..(Len(a) + Len(b))
      BY <3>1
    <3>3. Len(a) \in Nat /\ Len(b) \in Nat
      BY <2>3, <2>4
    <3>4. QED
      BY <3>1, <3>2, <3>3
  <2>6. CASE i > p
    <3>1. i - p \in 1..Len(a) /\ a[i - p] = d
      BY <2>1, <2>2, <2>3, <2>6
    <3>2. i - p \in DOMAIN (a \o b) /\ (a \o b)[i - p] = d
      BY <3>1, <2>1, <2>3, <2>4, <2>5
    <3>3. QED
      BY <3>2, <1>2 DEF Holds, RotatePast, a, b, p
  <2>7. CASE i <= p
    <3>1. i \in 1..Len(b) /\ b[i] = d
      BY <2>1, <2>2, <2>4, <2>7
    <3>2. Len(a) + i \in DOMAIN (a \o b) /\ (a \o b)[Len(a) + i] = d
      BY <3>1, <2>1, <2>3, <2>4, <2>5
    <3>3. QED
      BY <3>2, <1>2 DEF Holds, RotatePast, a, b, p
  <2>8. QED
    BY <2>1, <2>2, <2>6, <2>7
<1>3. QED
  BY <1>1, <1>2

\* ... and when another one leaves it.
LEMMA HoldsDrop ==
  ASSUME NEW S, NEW q \in Seq(S), NEW e, NEW d, Holds(q, d), d # e
  PROVE  Holds(DropFrom(q, e), d)
<1>1. CASE ~Holds(q, e)
  BY <1>1 DEF DropFrom
<1>2. CASE Holds(q, e)
  <2> DEFINE p == PosIn(q, e)
             a == SubSeq(q, 1, p - 1)
             b == SubSeq(q, p + 1, Len(q))
  <2>1. p \in 1..Len(q) /\ Len(q) \in Nat /\ q[p] = e
    BY <1>2 DEF Holds, PosIn
  <2>2. PICK i \in 1..Len(q) : q[i] = d
    BY DEF Holds
  <2> HIDE DEF p
  <2>3. /\ b \in Seq(S) /\ Len(b) = Len(q) - p
        /\ \A k \in 1..(Len(q) - p) : b[k] = q[p + k]
    <3>1. p + 1 \in 1..(Len(q) + 1) /\ Len(q) \in 0..Len(q)
      BY <2>1
    <3>2. QED
      BY <3>1, <2>1
  <2>4. /\ a \in Seq(S) /\ Len(a) = p - 1
        /\ \A k \in 1..(p - 1) : a[k] = q[k]
    <3>1. 1 \in 1..(Len(q) + 1) /\ p - 1 \in 0..Len(q)
      BY <2>1
    <3>2. QED
      BY <3>1, <2>1
  <2> HIDE DEF a, b
  <2>5. /\ DOMAIN (a \o b) = 1..(Len(a) + Len(b))
        /\ \A k \in 1..Len(a) : (a \o b)[k] = a[k]
        /\ \A k \in 1..Len(b) : (a \o b)[Len(a) + k] = b[k]
    <3>1. /\ Len(a \o b) = Len(a) + Len(b)
          /\ a \o b \in Seq(S)
          /\ \A k \in 1..(Len(a) + Len(b)) :
               (a \o b)[k] = IF k <= Len(a) THEN a[k] ELSE b[k - Len(a)]
      BY <2>3, <2>4, ConcatProperties
    <3>2. DOMAIN (a \o b) = 1..(Len(a) + Len(b))
      BY <3>1
    <3>3. Len(a) \in Nat /\ Len(b) \in Nat
      BY <2>3, <2>4
    <3>4. QED
      BY <3>1, <3>2, <3>3
  <2>6. CASE i < p
    <3>1. i \in DOMAIN (a \o b) /\ (a \o b)[i] = d
      BY <2>1, <2>2, <2>3, <2>4, <2>5, <2>6
    <3>2. QED
      BY <3>1, <1>2 DEF Holds, DropFrom, a, b, p
  <2>7. CASE i > p
    <3>1. i - p \in 1..Len(b) /\ b[i - p] = d
      BY <2>1, <2>2, <2>3, <2>7
    <3>2. Len(a) + (i - p) \in DOMAIN (a \o b) /\ (a \o b)[Len(a) + (i - p)] = d
      BY <3>1, <2>1, <2>3, <2>4, <2>5
    <3>3. QED
      BY <3>2, <1>2 DEF Holds, DropFrom, a, b, p
  <2>8. QED
    BY <2>1, <2>2, <2>6, <2>7
<1>3. QED
  BY <1>1, <1>2

\* Every step keeps the tasks that wait queued or signalled.
LEMMA QueuedStep ==
  ASSUME TypeOK, Safe, Steering, UnbornInv, SignalledInv, QueuedInv, [Next]_vars
  PROVE  UnbornInv' /\ SignalledInv' /\ QueuedInv'
<1> USE ShapeAssumption DEF Safe, TermInv, UnbornInv, SignalledInv, QueuedInv
<1> DEFINE Kept == UnbornInv' /\ SignalledInv' /\ QueuedInv'
<1>0. /\ \A t \in Tasks : status[t] = "running" => pc[t] \notin IdlePoints
      /\ \A t \in Tasks : gate[SessionOf[t]] = t => pc[t] # "fresh"
      /\ \A t \in Tasks : status[t] = "running" => pc[t] \in BegunPoints
  BY DEF Steering, RunningInv, HolderInv, BegunPoints, IdlePoints, RunPoints,
    SlotPoints, SettlePoints
<1> USE <1>0
<1>1. ASSUME NEW t \in Tasks, Activate(t) PROVE Kept
  BY <1>1 DEF Activate, ActivateEffect, InterruptTargets, EvictedBy,
    ClaimsFree, Lane, Live, DriverLive, TypeOK, WaitPoints, IdlePoints,
    SettlePoints, BegunPoints, RunPoints, SlotPoints, MidTerm
<1>2. ASSUME NEW t \in Tasks, EnqueueFails(t) PROVE Kept
  BY <1>2 DEF EnqueueFails, ReleaseGate, TypeOK, WaitPoints, IdlePoints,
    SettlePoints, BegunPoints, RunPoints, SlotPoints, MidTerm
<1>3. ASSUME NEW t \in Tasks, Admitted(t) PROVE Kept
  BY <1>3 DEF Admitted, ReleaseGate, TypeOK, WaitPoints, IdlePoints,
    SettlePoints, BegunPoints, RunPoints, SlotPoints, MidTerm
<1>4. ASSUME NEW t \in Tasks, DriverStart(t) PROVE Kept
  BY <1>4 DEF DriverStart, TypeOK, WaitPoints, IdlePoints, SettlePoints,
    BegunPoints, RunPoints, SlotPoints, MidTerm
<1>5. ASSUME NEW t \in Tasks, LockAcquire(t) PROVE Kept
  BY <1>5 DEF LockAcquire, TypeOK, WaitPoints, IdlePoints, SettlePoints,
    BegunPoints, RunPoints, SlotPoints, MidTerm
<1>6. ASSUME NEW t \in Tasks, GateWake(t) PROVE Kept
  BY <1>6 DEF GateWake, TakeSlot, TypeOK, WaitPoints, IdlePoints, SettlePoints,
    BegunPoints, RunPoints, SlotPoints, MidTerm
<1>7. ASSUME NEW t \in Tasks, FairWake(t) PROVE Kept
  BY <1>7 DEF FairWake, TakeSlot, TypeOK, WaitPoints, IdlePoints, SettlePoints,
    BegunPoints, RunPoints, SlotPoints, MidTerm
<1>8. ASSUME NEW t \in Tasks, MarkRunning(t) PROVE Kept
  <2>1. CASE term[t] # "open" \/ status[t] \in TerminalStatuses \/ t \in cancelReq
    BY <2>1, <1>8 DEF MarkRunning, Abandon, EnterHandler, TypeOK, WaitPoints,
      IdlePoints, SettlePoints, MidTerm
  <2>2. CASE ~(term[t] # "open" \/ status[t] \in TerminalStatuses \/ t \in cancelReq)
    <3>1. /\ pc' = [pc EXCEPT ![t] = "announce"]
          /\ pending' = pending \ {t}
          /\ UNCHANGED <<ext, term, steerClaim, cancelSig>>
      BY <2>2, <1>8 DEF MarkRunning
    <3>2. QED
      BY <3>1 DEF TypeOK, WaitPoints, IdlePoints
  <2>3. QED
    BY <2>1, <2>2
<1>9. ASSUME NEW t \in Tasks, StartFails(t) PROVE Kept
  BY <1>9 DEF StartFails, Abandon, ReleaseSlot, ReleaseLock, EnterHandler,
    Resolve, Undrained, TypeOK, WaitPoints, IdlePoints, SettlePoints,
    BegunPoints, RunPoints, SlotPoints, MidTerm
<1>10. ASSUME NEW t \in Tasks, Announce(t) PROVE Kept
  BY <1>10 DEF Announce, TypeOK, WaitPoints, IdlePoints, SettlePoints,
    BegunPoints, RunPoints, SlotPoints, MidTerm
<1>11. ASSUME NEW t \in Tasks, TurnReturns(t) PROVE Kept
  BY <1>11 DEF TurnReturns, LeaveTurn, TypeOK, WaitPoints, IdlePoints,
    SettlePoints, BegunPoints, RunPoints, SlotPoints, MidTerm
<1>12. ASSUME NEW t \in Tasks, TurnFails(t) PROVE Kept
  BY <1>12 DEF TurnFails, LeaveTurn, TypeOK, WaitPoints, IdlePoints,
    SettlePoints, BegunPoints, RunPoints, SlotPoints, MidTerm
<1>13. ASSUME NEW t \in Tasks, HeartbeatStopped(t) PROVE Kept
  BY <1>13 DEF HeartbeatStopped, AfterHeartbeat, ReleaseSlot, TypeOK,
    WaitPoints, IdlePoints, SettlePoints, BegunPoints, RunPoints, SlotPoints,
    MidTerm
<1>14. ASSUME NEW t \in Tasks, Unwound(t) PROVE Kept
  BY <1>14 DEF Unwound, AfterUnwind, Abandon, ReleaseSlot, ReleaseLock,
    EnterHandler, Resolve, Undrained, TypeOK, WaitPoints, IdlePoints,
    SettlePoints, BegunPoints, RunPoints, SlotPoints, MidTerm
<1>15. ASSUME NEW t \in Tasks, CancelUnstarted(t) PROVE Kept
  BY <1>15 DEF CancelUnstarted, Deliver, TypeOK, WaitPoints, IdlePoints,
    SettlePoints, BegunPoints, RunPoints, SlotPoints, MidTerm
<1>16. ASSUME NEW t \in Tasks, CancelLockWait(t) PROVE Kept
  BY <1>16 DEF CancelLockWait, Deliver, EnterHandler, Resolve, Undrained,
    TypeOK, WaitPoints, IdlePoints, SettlePoints, BegunPoints, RunPoints,
    SlotPoints, MidTerm
<1>17. ASSUME NEW t \in Tasks, CancelSlotWait(t) PROVE Kept
  BY <1>17 DEF CancelSlotWait, Deliver, ReleaseLock, EnterHandler, Resolve,
    Undrained, TypeOK, WaitPoints, IdlePoints, SettlePoints, BegunPoints,
    RunPoints, SlotPoints, MidTerm
<1>18. ASSUME NEW t \in Tasks, CancelStarting(t) PROVE Kept
  BY <1>18 DEF CancelStarting, Deliver, Abandon, ReleaseSlot, ReleaseLock,
    EnterHandler, Resolve, Undrained, TypeOK, WaitPoints, IdlePoints,
    SettlePoints, BegunPoints, RunPoints, SlotPoints, MidTerm
<1>19. ASSUME NEW t \in Tasks, CancelTurn(t) PROVE Kept
  BY <1>19 DEF CancelTurn, Deliver, LeaveTurn, TypeOK, WaitPoints, IdlePoints,
    SettlePoints, BegunPoints, RunPoints, SlotPoints, MidTerm
<1>20. ASSUME NEW t \in Tasks, CancelSwallowed(t) PROVE Kept
  BY <1>20 DEF CancelSwallowed, Deliver, AfterHeartbeat, AfterUnwind, Abandon,
    ReleaseSlot, ReleaseLock, EnterHandler, Resolve, Undrained, TypeOK,
    WaitPoints, IdlePoints, SettlePoints, BegunPoints, RunPoints, SlotPoints,
    MidTerm
<1>21. ASSUME NEW t \in Tasks, CancelClosing(t) PROVE Kept
  BY <1>21 DEF CancelClosing, Deliver, ReleaseLock, EnterHandler, Resolve,
    Undrained, TypeOK, WaitPoints, IdlePoints, SettlePoints, BegunPoints,
    RunPoints, SlotPoints, MidTerm
<1>22. ASSUME NEW t \in Tasks, CancelHandler(t) PROVE Kept
  BY <1>22 DEF CancelHandler, Deliver, TypeOK, WaitPoints, IdlePoints,
    SettlePoints, BegunPoints, RunPoints, SlotPoints, MidTerm
<1>23. ASSUME NEW t \in Tasks, ClaimTerminal(t) PROVE Kept
  BY <1>23 DEF ClaimTerminal, Claimable, ClaimEffect, TypeOK, WaitPoints,
    IdlePoints, SettlePoints, BegunPoints, RunPoints, SlotPoints, MidTerm
<1>24. ASSUME NEW t \in Tasks, AlreadyTerminal(t) PROVE Kept
  BY <1>24 DEF AlreadyTerminal, ReleaseLock, TypeOK, WaitPoints, IdlePoints,
    SettlePoints, BegunPoints, RunPoints, SlotPoints, MidTerm
<1>25. ASSUME NEW t \in Tasks, TerminalRow(t) PROVE Kept
  BY <1>25 DEF TerminalRow, TypeOK, WaitPoints, IdlePoints, SettlePoints,
    BegunPoints, RunPoints, SlotPoints, MidTerm
<1>26. ASSUME NEW t \in Tasks, PromoteRefused(t) PROVE Kept
  BY <1>26 DEF PromoteRefused, MustPromote, Resolve, Undrained, TypeOK,
    WaitPoints, IdlePoints, SettlePoints, BegunPoints, RunPoints, SlotPoints,
    MidTerm
<1>27. ASSUME NEW t \in Tasks, PromoteFails(t) PROVE Kept
  <2>1. PICK f \in Tasks : f = promo[t] /\ pc[f] = "reserved"
    BY <1>27 DEF PromoteFails, Promoting, TypeOK
  <2>2. QED
    BY <2>1, <1>27 DEF PromoteFails, TypeOK, WaitPoints, IdlePoints, SettlePoints, MidTerm
<1>28. ASSUME NEW t \in Tasks, PromoteActivate(t) PROVE Kept
  <2>1. PICK f \in Tasks : f = promo[t] /\ pc[f] = "reserved"
    BY <1>28 DEF PromoteActivate, Promoting, TypeOK
  <2>2. QED
    BY <2>1, <1>28 DEF PromoteActivate, ActivateEffect, InterruptTargets, EvictedBy,
      ClaimsFree, Lane, Live, DriverLive, TypeOK, WaitPoints, IdlePoints,
      SettlePoints, MidTerm
<1>29. ASSUME NEW t \in Tasks, Emit(t) PROVE Kept
  BY <1>29 DEF Emit, PromotionOver, MustPromote, PromotesSteers, Undrained,
    TypeOK, WaitPoints, IdlePoints, SettlePoints, BegunPoints, RunPoints,
    SlotPoints, MidTerm
<1>30. ASSUME NEW t \in Tasks, Settle(t) PROVE Kept
  BY <1>30 DEF Settle, DropRunning, ReleaseLock, PromotionOver, MustPromote,
    PromotesSteers, Undrained, TypeOK, WaitPoints, IdlePoints, SettlePoints,
    BegunPoints, RunPoints, SlotPoints, MidTerm
<1>31. ASSUME NEW t \in Tasks, ExtClaim(t) PROVE Kept
  BY <1>31 DEF ExtClaim, ClaimEffect, ClaimsFree, TypeOK, WaitPoints,
    IdlePoints, SettlePoints, BegunPoints, RunPoints, SlotPoints, MidTerm
<1>32. ASSUME NEW t \in Tasks, CancelSignal(t) PROVE Kept
  BY <1>32 DEF CancelSignal, ClaimEffect, DriverLive, TypeOK, WaitPoints,
    IdlePoints, SettlePoints, BegunPoints, RunPoints, SlotPoints, MidTerm
<1>33. ASSUME NEW t \in Tasks, ClaimSteers(t) PROVE Kept
  BY <1>33 DEF ClaimSteers, Resolve, TypeOK, WaitPoints, IdlePoints,
    SettlePoints, BegunPoints, RunPoints, SlotPoints, MidTerm
<1>34. ASSUME NEW t \in Tasks, ApplySteers(t) PROVE Kept
  BY <1>34 DEF ApplySteers, Resolve, TypeOK, WaitPoints, IdlePoints,
    SettlePoints, BegunPoints, RunPoints, SlotPoints, MidTerm
<1>35. ASSUME NEW t \in Tasks, NEW m \in Modes, NEW p \in Policies, Enqueue(t, m, p)
      PROVE  Kept
  BY <1>35 DEF Enqueue, TypeOK, WaitPoints, IdlePoints, SettlePoints,
    BegunPoints, RunPoints, SlotPoints, MidTerm
<1>36. ASSUME NEW t \in Tasks, NEW f \in Tasks, Promote(t, f) PROVE Kept
  BY <1>36 DEF Promote, MustPromote, Resolve, Undrained, TypeOK, WaitPoints,
    IdlePoints, SettlePoints, BegunPoints, RunPoints, SlotPoints, MidTerm
<1>37. ASSUME NEW t \in Tasks, NEW src \in CancelSources, CancelBegin(t, src)
      PROVE  Kept
  BY <1>37 DEF CancelBegin, Live, TypeOK, WaitPoints, IdlePoints, SettlePoints,
    BegunPoints, RunPoints, SlotPoints, MidTerm
<1>38. ASSUME NEW x \in Steers, NEW t \in Tasks, AdmitSteer(x, t) PROVE Kept
  BY <1>38 DEF AdmitSteer, TypeOK, WaitPoints, IdlePoints, SettlePoints,
    BegunPoints, RunPoints, SlotPoints, MidTerm
<1>39. ASSUME NEW x \in Steers, SteerPersisted(x) PROVE Kept
  BY <1>39 DEF SteerPersisted, TypeOK, WaitPoints, IdlePoints, SettlePoints,
    BegunPoints, RunPoints, SlotPoints, MidTerm
<1>40. CASE UNCHANGED vars
  BY <1>40 DEF vars
<1>41. QED
  BY <1>1, <1>2, <1>3, <1>4, <1>5, <1>6, <1>7, <1>8, <1>9, <1>10, <1>11, <1>12,
    <1>13, <1>14, <1>15, <1>16, <1>17, <1>18, <1>19, <1>20, <1>21, <1>22,
    <1>23, <1>24, <1>25, <1>26, <1>27, <1>28, <1>29, <1>30, <1>31, <1>32,
    <1>33, <1>34, <1>35, <1>36, <1>37, <1>38, <1>39, <1>40
  DEF Next, Admission, DriverStep, DeliverCancel, SettleStep, Quiescent

(***************************************************************************)
(* What a step does to the waiters of the two conditions.                  *)
(***************************************************************************)

\* Nobody leaves _fair_cond, falls asleep or joins the queue of a session.
Quiet ==
  /\ UNCHANGED <<inFlight, rr>>
  /\ pending' \subseteq pending
  /\ \A u \in Tasks :
       /\ pc'[u] \in {"gate", "fair"} /\ u \notin woken' => pc'[u] = pc[u] /\ u \notin woken
       /\ pc[u] = "fair" => pc'[u] = "fair"

\* A waiter looks, is not granted a slot, and sleeps on.
Denied(t) ==
  /\ \/ pc[t] = "fair" /\ ~FairGrantable(t)
     \/ pc[t] = "gate" /\ ~GateGrantable(t)
  /\ t \notin cancelSig
  /\ woken' = woken \ {t}
  /\ UNCHANGED <<pc, inFlight, rr, pending>>

\* A waiter takes a slot.
Served(t) == TakeSlot(t) /\ UNCHANGED pending

\* A cancelled waiter leaves _fair_cond.
Withdraws(t) ==
  /\ pc' = [pc EXCEPT ![t] = "handler"]
  /\ woken' = (woken \cup FairWaiters) \ {t}
  /\ UNCHANGED <<inFlight, rr, pending>>

\* A driver gives its slot back, or would if it had one.
Releases(t) ==
  /\ ReleaseSlot(t)
  /\ pc'[t] \notin {"gate", "fair"}
  /\ \A u \in Tasks \ {t} : pc'[u] = pc[u]
  /\ UNCHANGED pending

\* A task is activated.
Joins(t) == pc[t] = "reserved" /\ ActivateEffect(t)

\* The last task of a session is settled and takes it out of the rotation.
Retires(t) ==
  /\ (pending \ {t}) \cap Lane(SessionOf[t]) = {}
  /\ pending' = pending \ {t}
  /\ rr' = [rr EXCEPT ![TaskAgent(t)] = DropFrom(@, SessionOf[t])]
  /\ woken' = woken \cup FairWaiters
  /\ \A u \in Tasks : pc'[u] \in {"gate", "fair"} => pc'[u] = pc[u]
  /\ UNCHANGED inFlight

WaitEffect(t) ==
  \/ Denied(t) \/ Served(t) \/ Withdraws(t) \/ Releases(t) \/ Joins(t) \/ Retires(t)

\* So does every way out of a start or a turn that did not succeed.
LEMMA AbandonReleases ==
  ASSUME TypeOK, NEW t \in Tasks, NEW w, Abandon(t, w)
  PROVE  Releases(t)
<1>1. /\ ReleaseSlot(t)
      /\ pc' = [pc EXCEPT ![t] = "handler"]
      /\ UNCHANGED pending
  BY DEF Abandon, EnterHandler
<1>2. QED
  BY <1>1 DEF Releases, TypeOK

\* Every step is of one of these kinds.
LEMMA WaitStep ==
  ASSUME TypeOK, Safe, [Next]_vars
  PROVE  Quiet \/ \E t \in Tasks : WaitEffect(t)
<1> USE ShapeAssumption
<1> DEFINE Effect == Quiet \/ \E u \in Tasks : WaitEffect(u)
<1>1. ASSUME NEW t \in Tasks, Activate(t) PROVE Effect
  BY <1>1 DEF Activate, WaitEffect, Joins
<1>2. ASSUME NEW t \in Tasks, EnqueueFails(t) PROVE Effect
  BY <1>2 DEF EnqueueFails, ReleaseGate, Quiet, TypeOK
<1>3. ASSUME NEW t \in Tasks, Admitted(t) PROVE Effect
  BY <1>3 DEF Admitted, ReleaseGate, Quiet, TypeOK
<1>4. ASSUME NEW t \in Tasks, DriverStart(t) PROVE Effect
  BY <1>4 DEF DriverStart, Quiet, TypeOK
<1>5. ASSUME NEW t \in Tasks, LockAcquire(t) PROVE Effect
  BY <1>5 DEF LockAcquire, Quiet, TypeOK
<1>6. ASSUME NEW t \in Tasks, GateWake(t) PROVE Effect
  <2>1. CASE GateGrantable(t) /\ TakeSlot(t)
    BY <2>1, <1>6 DEF GateWake, WaitEffect, Served
  <2>2. CASE ~GateGrantable(t) /\ woken' = woken \ {t} /\ UNCHANGED <<pc, slots, inFlight, rr>>
    BY <2>2, <1>6 DEF GateWake, WaitEffect, Denied
  <2>3. QED
    BY <2>1, <2>2, <1>6 DEF GateWake
<1>7. ASSUME NEW t \in Tasks, FairWake(t) PROVE Effect
  <2>1. CASE FairGrantable(t) /\ TakeSlot(t)
    BY <2>1, <1>7 DEF FairWake, WaitEffect, Served
  <2>2. CASE ~FairGrantable(t) /\ woken' = woken \ {t} /\ UNCHANGED <<pc, slots, inFlight, rr>>
    BY <2>2, <1>7 DEF FairWake, WaitEffect, Denied
  <2>3. QED
    BY <2>1, <2>2, <1>7 DEF FairWake
<1>8. ASSUME NEW t \in Tasks, MarkRunning(t) PROVE Effect
  <2>1. CASE term[t] # "open" \/ status[t] \in TerminalStatuses \/ t \in cancelReq
    BY <2>1, <1>8, AbandonReleases DEF MarkRunning, WaitEffect
  <2>2. CASE ~(term[t] # "open" \/ status[t] \in TerminalStatuses \/ t \in cancelReq)
    BY <2>2, <1>8 DEF MarkRunning, Quiet, TypeOK
  <2>3. QED
    BY <2>1, <2>2
<1>9. ASSUME NEW t \in Tasks, StartFails(t) PROVE Effect
  BY <1>9, AbandonReleases DEF StartFails, WaitEffect
<1>10. ASSUME NEW t \in Tasks, Announce(t) PROVE Effect
  BY <1>10 DEF Announce, Quiet, TypeOK
<1>11. ASSUME NEW t \in Tasks, TurnReturns(t) PROVE Effect
  BY <1>11 DEF TurnReturns, LeaveTurn, Quiet, TypeOK
<1>12. ASSUME NEW t \in Tasks, TurnFails(t) PROVE Effect
  BY <1>12 DEF TurnFails, LeaveTurn, Quiet, TypeOK
<1>13. ASSUME NEW t \in Tasks, HeartbeatStopped(t) PROVE Effect
  BY <1>13 DEF HeartbeatStopped, AfterHeartbeat, WaitEffect, Releases, TypeOK
<1>14. ASSUME NEW t \in Tasks, Unwound(t) PROVE Effect
  BY <1>14, AbandonReleases DEF Unwound, AfterUnwind, WaitEffect
<1>15. ASSUME NEW t \in Tasks, CancelUnstarted(t) PROVE Effect
  BY <1>15 DEF CancelUnstarted, Deliver, Quiet, TypeOK
<1>16. ASSUME NEW t \in Tasks, CancelLockWait(t) PROVE Effect
  BY <1>16 DEF CancelLockWait, Deliver, EnterHandler, Resolve, Undrained,
    Quiet, TypeOK
<1>17. ASSUME NEW t \in Tasks, CancelSlotWait(t) PROVE Effect
  <2>1. CASE pc[t] = "fair"
    BY <2>1, <1>17 DEF CancelSlotWait, EnterHandler, WaitEffect, Withdraws
  <2>2. CASE pc[t] = "gate"
    BY <2>2, <1>17 DEF CancelSlotWait, EnterHandler, Quiet, TypeOK
  <2>3. QED
    BY <2>1, <2>2, <1>17 DEF CancelSlotWait
<1>18. ASSUME NEW t \in Tasks, CancelStarting(t) PROVE Effect
  BY <1>18, AbandonReleases DEF CancelStarting, WaitEffect
<1>19. ASSUME NEW t \in Tasks, CancelTurn(t) PROVE Effect
  BY <1>19 DEF CancelTurn, Deliver, LeaveTurn, Quiet, TypeOK
<1>20. ASSUME NEW t \in Tasks, CancelSwallowed(t) PROVE Effect
  <2>1. CASE AfterHeartbeat(t)
    BY <2>1 DEF AfterHeartbeat, WaitEffect, Releases, TypeOK
  <2>2. CASE AfterUnwind(t)
    BY <2>2, AbandonReleases DEF AfterUnwind, WaitEffect
  <2>3. QED
    BY <2>1, <2>2, <1>20 DEF CancelSwallowed
<1>21. ASSUME NEW t \in Tasks, CancelClosing(t) PROVE Effect
  BY <1>21 DEF CancelClosing, Deliver, ReleaseLock, EnterHandler, Resolve,
    Undrained, Quiet, TypeOK
<1>22. ASSUME NEW t \in Tasks, CancelHandler(t) PROVE Effect
  BY <1>22 DEF CancelHandler, Deliver, Quiet, TypeOK
<1>23. ASSUME NEW t \in Tasks, ClaimTerminal(t) PROVE Effect
  BY <1>23 DEF ClaimTerminal, Claimable, ClaimEffect, Quiet, TypeOK
<1>24. ASSUME NEW t \in Tasks, AlreadyTerminal(t) PROVE Effect
  BY <1>24 DEF AlreadyTerminal, ReleaseLock, Quiet, TypeOK
<1>25. ASSUME NEW t \in Tasks, TerminalRow(t) PROVE Effect
  BY <1>25 DEF TerminalRow, Quiet, TypeOK
<1>26. ASSUME NEW t \in Tasks, PromoteRefused(t) PROVE Effect
  BY <1>26 DEF PromoteRefused, MustPromote, Resolve, Undrained, Quiet, TypeOK
<1>27. ASSUME NEW t \in Tasks, PromoteFails(t) PROVE Effect
  <2>1. PICK f \in Tasks : pc[f] = "reserved" /\ pc' = [pc EXCEPT ![f] = "aborted"]
    BY <1>27 DEF PromoteFails, Promoting, TypeOK
  <2>2. QED
    BY <2>1, <1>27 DEF PromoteFails, Quiet, TypeOK
<1>28. ASSUME NEW t \in Tasks, PromoteActivate(t) PROVE Effect
  BY <1>28 DEF PromoteActivate, Promoting, WaitEffect, Joins, TypeOK
<1>29. ASSUME NEW t \in Tasks, Emit(t) PROVE Effect
  BY <1>29 DEF Emit, PromotionOver, MustPromote, PromotesSteers, Undrained,
    Quiet, TypeOK
<1>30. ASSUME NEW t \in Tasks, Settle(t) PROVE Effect
  <2> DEFINE idle == /\ (pending \ {t}) \cap Lane(SessionOf[t]) = {}
                     /\ running[SessionOf[t]] \in {t, NoTask}
  <2>1. \A u \in Tasks : pc'[u] = pc[u] \/ (u = t /\ pc'[u] = "done" /\ pc[t] \in SettlePoints)
    BY <1>30 DEF Settle, Safe, TermInv, MidTerm, SettlePoints, TypeOK
  <2>2. pending' = pending \ {t} /\ inFlight' = inFlight
    BY <1>30 DEF Settle
  <2>3. CASE idle /\ Holds(rr[TaskAgent(t)], SessionOf[t])
    BY <2>1, <2>2, <2>3, <1>30 DEF Settle, WaitEffect, Retires
  <2>4. CASE ~(idle /\ Holds(rr[TaskAgent(t)], SessionOf[t]))
    <3>1. woken' = woken
      BY <2>4, <1>30 DEF Settle
    <3>2. rr' = rr
      BY <2>4, <1>30 DEF Settle, DropFrom, TypeOK
    <3>3. QED
      BY <3>1, <3>2, <2>1, <2>2 DEF Quiet, SettlePoints
  <2>5. QED
    BY <2>3, <2>4
<1>31. ASSUME NEW t \in Tasks, ExtClaim(t) PROVE Effect
  BY <1>31 DEF ExtClaim, ClaimEffect, ClaimsFree, Quiet, TypeOK
<1>32. ASSUME NEW t \in Tasks, CancelSignal(t) PROVE Effect
  BY <1>32 DEF CancelSignal, ClaimEffect, DriverLive, Quiet, TypeOK
<1>33. ASSUME NEW t \in Tasks, ClaimSteers(t) PROVE Effect
  BY <1>33 DEF ClaimSteers, Resolve, Quiet, TypeOK
<1>34. ASSUME NEW t \in Tasks, ApplySteers(t) PROVE Effect
  BY <1>34 DEF ApplySteers, Resolve, Quiet, TypeOK
<1>35. ASSUME NEW t \in Tasks, NEW m \in Modes, NEW p \in Policies, Enqueue(t, m, p)
      PROVE  Effect
  BY <1>35 DEF Enqueue, Quiet, TypeOK
<1>36. ASSUME NEW t \in Tasks, NEW f \in Tasks, Promote(t, f) PROVE Effect
  BY <1>36 DEF Promote, MustPromote, Resolve, Undrained, Quiet, TypeOK
<1>37. ASSUME NEW t \in Tasks, NEW src \in CancelSources, CancelBegin(t, src)
      PROVE  Effect
  BY <1>37 DEF CancelBegin, Live, Quiet, TypeOK
<1>38. ASSUME NEW x \in Steers, NEW t \in Tasks, AdmitSteer(x, t) PROVE Effect
  BY <1>38 DEF AdmitSteer, Quiet, TypeOK
<1>39. ASSUME NEW x \in Steers, SteerPersisted(x) PROVE Effect
  BY <1>39 DEF SteerPersisted, Quiet, TypeOK
<1>40. CASE UNCHANGED vars
  BY <1>40 DEF vars, Quiet
<1>41. QED
  BY <1>1, <1>2, <1>3, <1>4, <1>5, <1>6, <1>7, <1>8, <1>9, <1>10, <1>11, <1>12,
    <1>13, <1>14, <1>15, <1>16, <1>17, <1>18, <1>19, <1>20, <1>21, <1>22,
    <1>23, <1>24, <1>25, <1>26, <1>27, <1>28, <1>29, <1>30, <1>31, <1>32,
    <1>33, <1>34, <1>35, <1>36, <1>37, <1>38, <1>39, <1>40
  DEF Next, Admission, DriverStep, DeliverCancel, SettleStep, Quiescent

\* The session of whoever is queued or asleep stays in the rotation.
LEMMA RotationStep ==
  ASSUME TypeOK, QueuedInv, RotationInv, [Next]_vars,
         Quiet \/ \E t \in Tasks : WaitEffect(t)
  PROVE  RotationInv'
<1> USE ShapeAssumption
<1>1. CASE Quiet
  BY <1>1 DEF Quiet, RotationInv, InRotation
<1>2. ASSUME NEW t \in Tasks, Denied(t) PROVE RotationInv'
  BY <1>2 DEF Denied, RotationInv, InRotation, QueuedInv, WaitPoints
<1>3. ASSUME NEW t \in Tasks, Served(t) PROVE RotationInv'
  <2>1. ASSUME NEW u \in Tasks, InRotation(u) PROVE InRotation(u)'
    <3>1. TaskAgent(t) \in Agents /\ TaskAgent(u) \in Agents
      BY DEF TaskAgent
    <3>2. rr' = [rr EXCEPT ![TaskAgent(t)] = RotatePast(@, SessionOf[t])]
      BY <1>3 DEF Served, TakeSlot
    <3>3. rr[TaskAgent(u)] \in Seq(Sessions)
      BY <3>1 DEF TypeOK
    <3>4. Holds(RotatePast(rr[TaskAgent(u)], SessionOf[t]), SessionOf[u])
      BY <2>1, <3>3, HoldsRotate DEF InRotation
    <3>5. QED
      BY <2>1, <3>1, <3>2, <3>4 DEF InRotation, TypeOK
  <2>2. ASSUME NEW u \in Tasks, pc'[u] = "fair" PROVE u \in woken'
    BY <2>2, <1>3 DEF Served, TakeSlot, FairWaiters, TypeOK
  <2>3. pending' = pending
    BY <1>3 DEF Served
  <2>4. QED
    BY <2>1, <2>2, <2>3 DEF RotationInv
<1>4. ASSUME NEW t \in Tasks, Withdraws(t) PROVE RotationInv'
  BY <1>4 DEF Withdraws, RotationInv, InRotation, TypeOK
<1>5. ASSUME NEW t \in Tasks, Releases(t) PROVE RotationInv'
  BY <1>5 DEF Releases, ReleaseSlot, RotationInv, InRotation
<1>6. ASSUME NEW t \in Tasks, Joins(t) PROVE RotationInv'
  <2> DEFINE a == TaskAgent(t)
             s == SessionOf[t]
  <2>1. a \in Agents /\ s \in Sessions /\ rr[a] \in Seq(Sessions)
    BY DEF TaskAgent, TypeOK
  <2>2. /\ rr' = [rr EXCEPT ![a] = IF Holds(@, s) THEN @ ELSE Append(@, s)]
        /\ pending' = pending \cup {t}
        /\ pc' = [pc EXCEPT ![t] = "ready"]
        /\ woken' = woken
    BY <1>6 DEF Joins, ActivateEffect
  <2>3. \A d : Holds(rr'[a], d) <=> Holds(rr[a], d) \/ d = s
    BY <2>1, <2>2, HoldsAppend DEF TypeOK
  <2>4. \A b \in Agents : b # a => rr'[b] = rr[b]
    BY <2>1, <2>2 DEF TypeOK
  <2>5. ASSUME NEW u \in Tasks, InRotation(u) \/ u = t PROVE InRotation(u)'
    <3>1. TaskAgent(u) \in Agents
      BY DEF TaskAgent
    <3>2. CASE TaskAgent(u) = a
      BY <2>3, <2>5, <3>2 DEF InRotation
    <3>3. CASE TaskAgent(u) # a
      BY <2>4, <2>5, <3>1, <3>3 DEF InRotation
    <3>4. QED
      BY <3>2, <3>3
  <2>6. ASSUME NEW u \in Tasks PROVE pc'[u] = "fair" => pc[u] = "fair"
    BY <2>2 DEF TypeOK
  <2>7. QED
    BY <2>2, <2>5, <2>6 DEF RotationInv
<1>7. ASSUME NEW t \in Tasks, Retires(t) PROVE RotationInv'
  <2>1. ASSUME NEW u \in Tasks, u \in pending' PROVE InRotation(u)'
    <3>1. SessionOf[u] # SessionOf[t]
      BY <2>1, <1>7 DEF Retires, Lane
    <3>2. InRotation(u)
      BY <2>1, <1>7 DEF Retires, RotationInv
    <3>3. TaskAgent(t) \in Agents /\ TaskAgent(u) \in Agents
      BY DEF TaskAgent
    <3>4. rr' = [rr EXCEPT ![TaskAgent(t)] = DropFrom(@, SessionOf[t])]
      BY <1>7 DEF Retires
    <3>5. rr[TaskAgent(u)] \in Seq(Sessions)
      BY <3>3 DEF TypeOK
    <3>6. Holds(DropFrom(rr[TaskAgent(u)], SessionOf[t]), SessionOf[u])
      BY <3>1, <3>2, <3>5, HoldsDrop DEF InRotation
    <3>7. QED
      BY <3>2, <3>3, <3>4, <3>6 DEF InRotation, TypeOK
  <2>2. ASSUME NEW u \in Tasks, pc'[u] = "fair" PROVE u \in woken'
    BY <2>2, <1>7 DEF Retires, FairWaiters
  <2>3. QED
    BY <2>1, <2>2 DEF RotationInv
<1>8. QED
  BY <1>1, <1>2, <1>3, <1>4, <1>5, <1>6, <1>7 DEF WaitEffect

\* A task asleep stays one that would not be granted a slot.
LEMMA AsleepStep ==
  ASSUME TypeOK, RotationInv, NoLostWakeup, [Next]_vars,
         Quiet \/ \E t \in Tasks : WaitEffect(t)
  PROVE  NoLostWakeup'
<1> USE ShapeAssumption, LimitAssumption
\* The waiters of _fair_cond have all been notified, and no slot became free.
<1>1. ASSUME inFlight' >= inFlight, inFlight' \in Nat,
             \A u \in Tasks : pc'[u] = "fair" => u \in woken',
             \A u \in Tasks : pc'[u] = "gate" /\ u \notin woken' =>
                                pc[u] = "gate" /\ u \notin woken
      PROVE  NoLostWakeup'
  <2>1. ASSUME NEW u \in Tasks, u \notin woken', pc'[u] = "gate" PROVE ~GateGrantable(u)'
    <3>1. ~GateGrantable(u)
      BY <2>1, <1>1 DEF NoLostWakeup
    <3>2. MaxConcurrency \in Nat /\ SubagentReserved \in Nat /\ inFlight \in Nat
      BY DEF TypeOK
    <3> DEFINE n == inFlight'
    <3>3. n \in Nat /\ n >= inFlight
      BY <1>1
    <3> HIDE DEF n
    <3>4. ~(MaxConcurrency - n > SubagentReserved)
      BY <3>1, <3>2, <3>3 DEF GateGrantable
    <3>5. QED
      BY <3>4 DEF GateGrantable, n
  <2>2. QED
    BY <2>1, <1>1 DEF NoLostWakeup
<1>2. CASE Quiet
  <2>1. ASSUME NEW u \in Tasks, u \notin woken', pc'[u] = "fair" PROVE ~FairGrantable(u)'
    <3>1. pc[u] = "fair" /\ u \notin woken /\ ~FairGrantable(u)
      BY <2>1, <1>2 DEF Quiet, NoLostWakeup
    <3>2. \A a : SlotWaiters(a) \subseteq SlotWaiters(a)'
      BY <1>2 DEF Quiet, SlotWaiters, FairWaiters
    <3>3. SessionOf[u] \in SlotWaiters(AgentOf[SessionOf[u]])
      BY <3>1 DEF SlotWaiters, FairWaiters, TaskAgent
    <3>4. IsFairSession(SessionOf[u])' => IsFairSession(SessionOf[u])
      BY <3>2, <3>3, <1>2 DEF Quiet, IsFairSession
    <3>5. QED
      BY <3>1, <3>4, <1>2 DEF Quiet, FairGrantable
  <2>2. ASSUME NEW u \in Tasks, u \notin woken', pc'[u] = "gate" PROVE ~GateGrantable(u)'
    BY <2>2, <1>2 DEF Quiet, NoLostWakeup, GateGrantable
  <2>3. QED
    BY <2>1, <2>2 DEF NoLostWakeup
<1>3. ASSUME NEW t \in Tasks, Denied(t) PROVE NoLostWakeup'
  <2>1. \A u \in Tasks : /\ FairGrantable(u)' <=> FairGrantable(u)
                         /\ GateGrantable(u)' <=> GateGrantable(u)
    BY <1>3 DEF Denied, FairGrantable, GateGrantable, IsFairSession, SlotWaiters, FairWaiters
  <2>2. QED
    BY <2>1, <1>3 DEF Denied, NoLostWakeup
<1>4. ASSUME NEW t \in Tasks, Served(t) PROVE NoLostWakeup'
  <2>1. inFlight' >= inFlight /\ inFlight' \in Nat
    BY <1>4 DEF Served, TakeSlot, TypeOK
  <2>2. ASSUME NEW u \in Tasks
        PROVE  /\ pc'[u] = "fair" => u \in woken'
               /\ pc'[u] = "gate" /\ u \notin woken' => pc[u] = "gate" /\ u \notin woken
    BY <1>4 DEF Served, TakeSlot, FairWaiters, TypeOK
  <2>3. QED
    BY <1>1, <2>1, <2>2
<1>5. ASSUME NEW t \in Tasks, Withdraws(t) PROVE NoLostWakeup'
  <2>1. inFlight' >= inFlight /\ inFlight' \in Nat
    BY <1>5 DEF Withdraws, TypeOK
  <2>2. ASSUME NEW u \in Tasks
        PROVE  /\ pc'[u] = "fair" => u \in woken'
               /\ pc'[u] = "gate" /\ u \notin woken' => pc[u] = "gate" /\ u \notin woken
    BY <1>5 DEF Withdraws, FairWaiters, TypeOK
  <2>3. QED
    BY <1>1, <2>1, <2>2
<1>6. ASSUME NEW t \in Tasks, Releases(t) PROVE NoLostWakeup'
  BY <1>6 DEF Releases, ReleaseSlot, CondWaiters, NoLostWakeup
<1>7. ASSUME NEW t \in Tasks, Retires(t) PROVE NoLostWakeup'
  <2>1. inFlight' >= inFlight /\ inFlight' \in Nat
    BY <1>7 DEF Retires, TypeOK
  <2>2. ASSUME NEW u \in Tasks
        PROVE  /\ pc'[u] = "fair" => u \in woken'
               /\ pc'[u] = "gate" /\ u \notin woken' => pc[u] = "gate" /\ u \notin woken
    BY <1>7 DEF Retires, FairWaiters, TypeOK
  <2>3. QED
    BY <1>1, <2>1, <2>2
<1>8. ASSUME NEW t \in Tasks, Joins(t) PROVE NoLostWakeup'
  <2> DEFINE a == TaskAgent(t)
             s == SessionOf[t]
  <2>1. a \in Agents /\ s \in Sessions /\ rr[a] \in Seq(Sessions)
    BY DEF TaskAgent, TypeOK
  <2>2. /\ rr' = [rr EXCEPT ![a] = IF Holds(@, s) THEN @ ELSE Append(@, s)]
        /\ pc' = [pc EXCEPT ![t] = "ready"]
        /\ pc[t] = "reserved"
        /\ UNCHANGED <<woken, inFlight>>
    BY <1>8 DEF Joins, ActivateEffect
  <2>3. \A u \in Tasks : pc'[u] \in {"gate", "fair"} => pc'[u] = pc[u]
    BY <2>2 DEF TypeOK
  <2>4. FairWaiters' = FairWaiters
    BY <2>2 DEF FairWaiters, TypeOK
  <2>5. ASSUME NEW u \in Tasks, u \notin woken', pc'[u] = "fair" PROVE ~FairGrantable(u)'
    <3>1. pc[u] = "fair" /\ u \notin woken /\ ~FairGrantable(u) /\ InRotation(u)
      BY <2>5, <2>2, <2>3 DEF NoLostWakeup, RotationInv
    <3>2. CASE TaskAgent(u) = a /\ ~Holds(rr[a], s)
      <4>1. SessionOf[u] # s
        BY <3>1, <3>2 DEF InRotation
      <4>2. rr'[a] = Append(rr[a], s)
        BY <3>2, <2>1, <2>2 DEF TypeOK
      <4>3. /\ DOMAIN rr[a] = 1..Len(rr[a]) /\ Len(rr[a]) \in Nat
            /\ DOMAIN rr'[a] = 1..(Len(rr[a]) + 1)
            /\ \A i \in 1..Len(rr[a]) : rr'[a][i] = rr[a][i]
            /\ rr'[a][Len(rr[a]) + 1] = s
        BY <4>2, <2>1
      <4>4. SlotWaiters(a)' = SlotWaiters(a)
        BY <2>4 DEF SlotWaiters
      <4>5. IsFairSession(SessionOf[u])' => IsFairSession(SessionOf[u])
        <5>1. SUFFICES ASSUME IsFairSession(SessionOf[u])' PROVE IsFairSession(SessionOf[u])
          OBVIOUS
        <5>2. AgentOf[SessionOf[u]] = a
          BY <3>2 DEF TaskAgent
        <5>3. PICK i \in DOMAIN rr'[a] :
                 /\ rr'[a][i] = SessionOf[u]
                 /\ SessionOf[u] \in SlotWaiters(a)
                 /\ \A j \in 1..(i - 1) : rr'[a][j] \notin SlotWaiters(a)
          BY <5>1, <5>2, <4>4 DEF IsFairSession
        <5>4. i \in 1..Len(rr[a])
          BY <5>3, <4>1, <4>3
        <5>5. \A j \in 1..(i - 1) : rr[a][j] \notin SlotWaiters(a)
          BY <5>3, <5>4, <4>3
        <5>6. QED
          BY <5>2, <5>3, <5>4, <5>5, <4>3 DEF IsFairSession
      <4>6. QED
        BY <4>5, <3>1, <2>2 DEF FairGrantable
    <3>3. CASE ~(TaskAgent(u) = a /\ ~Holds(rr[a], s))
      <4>1. rr'[TaskAgent(u)] = rr[TaskAgent(u)]
        <5>1. TaskAgent(u) \in Agents
          BY DEF TaskAgent
        <5>2. QED
          BY <5>1, <3>3, <2>1, <2>2 DEF TypeOK
      <4>2. IsFairSession(SessionOf[u])' <=> IsFairSession(SessionOf[u])
        BY <4>1, <2>4 DEF IsFairSession, SlotWaiters, TaskAgent
      <4>3. QED
        BY <4>2, <3>1, <2>2 DEF FairGrantable
    <3>4. QED
      BY <3>2, <3>3
  <2>6. ASSUME NEW u \in Tasks, u \notin woken', pc'[u] = "gate" PROVE ~GateGrantable(u)'
    BY <2>6, <2>2, <2>3 DEF NoLostWakeup, GateGrantable
  <2>7. QED
    BY <2>5, <2>6 DEF NoLostWakeup
<1>9. QED
  BY <1>2, <1>3, <1>4, <1>5, <1>6, <1>7, <1>8 DEF WaitEffect

(***************************************************************************)
(* The order of a lane.                                                    *)
(***************************************************************************)

\* Activation appends the task to its session's list.
LEMMA JoinOrder ==
  ASSUME TypeOK, ArrivedInv, BehindInv, NEW t \in Tasks, Joins(t)
  PROVE  ArrivedInv' /\ BehindInv'
<1> USE ShapeAssumption
<1> DEFINE z == SessionOf[t]
           n == Len(arrivals[z])
<1>1. z \in Sessions /\ arrivals[z] \in Seq(Tasks) /\ n \in Nat
  BY DEF TypeOK
<1>2. /\ arrivals' = [arrivals EXCEPT ![z] = Append(@, t)]
      /\ pc' = [pc EXCEPT ![t] = "ready"]
      /\ pc[t] \in IdlePoints
  BY DEF Joins, ActivateEffect, IdlePoints
<1>3. /\ DOMAIN arrivals[z] = 1..n
      /\ DOMAIN arrivals'[z] = 1..(n + 1)
      /\ arrivals'[z][n + 1] = t
      /\ \A i \in 1..n : arrivals'[z][i] = arrivals[z][i] /\ arrivals[z][i] \in Tasks
  BY <1>1, <1>2 DEF TypeOK
<1>4. ASSUME NEW s \in Sessions, s # z PROVE arrivals'[s] = arrivals[s]
  BY <1>4, <1>1, <1>2 DEF TypeOK
<1>5. ASSUME NEW u \in Tasks PROVE pc'[u] = IF u = t THEN "ready" ELSE pc[u]
  BY <1>2 DEF TypeOK
<1>6. \A s \in Sessions : \A i \in DOMAIN arrivals[s] :
        arrivals[s][i] # t /\ arrivals[s][i] \in Tasks
  BY <1>2 DEF ArrivedInv, TypeOK
<1>7. ArrivedInv'
  <2>1. ASSUME NEW s \in Sessions, NEW i \in DOMAIN arrivals'[s]
        PROVE  /\ SessionOf[arrivals'[s][i]] = s
               /\ pc'[arrivals'[s][i]] \notin IdlePoints
               /\ \A j \in DOMAIN arrivals'[s] : arrivals'[s][j] = arrivals'[s][i] => j = i
    <3>1. CASE s # z
      BY <3>1, <1>4, <1>5, <1>6 DEF ArrivedInv
    <3>2. CASE s = z /\ i \in 1..n
      <4>1. /\ arrivals'[z][i] = arrivals[z][i] /\ arrivals[z][i] # t
            /\ arrivals[z][i] \in Tasks
        BY <3>2, <1>1, <1>3, <1>6
      <4>2. SessionOf[arrivals[z][i]] = z /\ pc'[arrivals[z][i]] \notin IdlePoints
        BY <3>2, <4>1, <1>1, <1>3, <1>5 DEF ArrivedInv
      <4>3. ASSUME NEW j \in 1..(n + 1), arrivals'[z][j] = arrivals'[z][i] PROVE j = i
        <5>1. j # n + 1
          BY <4>1, <4>3, <1>3
        <5>2. j \in 1..n
          BY <5>1, <1>1
        <5>3. QED
          BY <5>2, <4>1, <4>3, <3>2, <1>1, <1>3 DEF ArrivedInv
      <4>4. QED
        BY <4>1, <4>2, <4>3, <3>2, <1>3
    <3>3. CASE s = z /\ i = n + 1
      <4>1. \A j \in 1..(n + 1) : j \in 1..n \/ j = n + 1
        BY <1>1
      <4>2. QED
        BY <3>3, <4>1, <1>1, <1>3, <1>5, <1>6 DEF IdlePoints
    <3>4. QED
      BY <3>1, <3>2, <3>3, <1>1, <1>3
  <2>2. ASSUME NEW u \in Tasks, pc'[u] \notin IdlePoints
        PROVE  Holds(arrivals'[SessionOf[u]], u)
    <3>1. SessionOf[u] \in Sessions
      OBVIOUS
    <3>2. CASE u = t
      BY <3>2, <1>1, <1>3 DEF Holds
    <3>3. CASE u # t
      <4>1. Holds(arrivals[SessionOf[u]], u)
        BY <3>3, <2>2, <1>5 DEF ArrivedInv
      <4>2. CASE SessionOf[u] = z
        BY <4>1, <4>2, <1>1, <1>3 DEF Holds
      <4>3. CASE SessionOf[u] # z
        BY <4>1, <4>3, <3>1, <1>4 DEF Holds
      <4>4. QED
        BY <4>2, <4>3
    <3>4. QED
      BY <3>2, <3>3
  <2>3. QED
    BY <2>1, <2>2 DEF ArrivedInv
<1>8. BehindInv'
  <2>1. SUFFICES ASSUME NEW s \in Sessions, NEW i \in DOMAIN arrivals'[s],
                        pc'[arrivals'[s][i]] \in {"gate", "fair", "marking"},
                        NEW j \in 1..(i - 1)
                 PROVE  pc'[arrivals'[s][j]] \notin {"ready", "lock"}
    BY DEF BehindInv
  <2>2. CASE s # z
    <3>1. arrivals'[s] = arrivals[s] /\ DOMAIN arrivals[s] = 1..Len(arrivals[s])
          /\ Len(arrivals[s]) \in Nat
      BY <2>2, <1>4 DEF TypeOK
    <3>2. i \in DOMAIN arrivals[s] /\ j \in DOMAIN arrivals[s]
      BY <2>1, <3>1
    <3>3. QED
      BY <2>1, <3>1, <3>2, <1>5, <1>6 DEF BehindInv
  <2>3. CASE s = z
    <3>1. i \in 1..n
      BY <2>1, <2>3, <1>1, <1>3, <1>5
    <3>2. j \in 1..n
      BY <3>1, <1>1
    <3>3. /\ arrivals'[s][i] = arrivals[z][i] /\ arrivals'[s][j] = arrivals[z][j]
          /\ pc'[arrivals[z][i]] = pc[arrivals[z][i]]
          /\ pc'[arrivals[z][j]] = pc[arrivals[z][j]]
      BY <2>3, <3>1, <3>2, <1>1, <1>3, <1>5, <1>6
    <3>4. QED
      BY <2>1, <2>3, <3>1, <3>3, <1>1, <1>3 DEF BehindInv
  <2>4. QED
    BY <2>2, <2>3
<1>9. QED
  BY <1>7, <1>8

\* Nobody is activated, and whoever leaves the wait for the lock towards a slot
\* is the next of the lane.
InLane ==
  /\ UNCHANGED arrivals
  /\ \A u \in Tasks :
       /\ pc'[u] \in {"ready", "lock"} => pc[u] \in {"ready", "lock"}
       /\ pc'[u] \in {"gate", "fair", "marking"} =>
            pc[u] \in {"gate", "fair", "marking"} \/ NextInLane(u)
       /\ pc'[u] \in IdlePoints <=> pc[u] \in IdlePoints
       /\ pc'[u] = "announce" => pc[u] \in {"marking", "announce"}

\* Every step but an activation is of this kind.
LEMMA LaneStep ==
  ASSUME TypeOK, Safe, [Next]_vars
  PROVE  InLane \/ \E t \in Tasks : Joins(t)
<1> USE ShapeAssumption
<1> DEFINE Moves == InLane \/ \E u \in Tasks : Joins(u)
<1>1. ASSUME NEW t \in Tasks, Activate(t) PROVE Moves
  BY <1>1 DEF Activate, Joins
<1>2. ASSUME NEW t \in Tasks, EnqueueFails(t) PROVE Moves
  BY <1>2 DEF EnqueueFails, ReleaseGate, InLane, TypeOK, IdlePoints
<1>3. ASSUME NEW t \in Tasks, Admitted(t) PROVE Moves
  BY <1>3 DEF Admitted, ReleaseGate, InLane, TypeOK, IdlePoints
<1>4. ASSUME NEW t \in Tasks, DriverStart(t) PROVE Moves
  BY <1>4 DEF DriverStart, InLane, TypeOK, IdlePoints
<1>5. ASSUME NEW t \in Tasks, LockAcquire(t) PROVE Moves
  BY <1>5 DEF LockAcquire, InLane, TypeOK, IdlePoints
<1>6. ASSUME NEW t \in Tasks, GateWake(t) PROVE Moves
  BY <1>6 DEF GateWake, TakeSlot, InLane, TypeOK, IdlePoints
<1>7. ASSUME NEW t \in Tasks, FairWake(t) PROVE Moves
  BY <1>7 DEF FairWake, TakeSlot, InLane, TypeOK, IdlePoints
<1>8. ASSUME NEW t \in Tasks, MarkRunning(t) PROVE Moves
  <2>1. CASE term[t] # "open" \/ status[t] \in TerminalStatuses \/ t \in cancelReq
    BY <2>1, <1>8 DEF MarkRunning, Abandon, EnterHandler, InLane, TypeOK, IdlePoints
  <2>2. CASE ~(term[t] # "open" \/ status[t] \in TerminalStatuses \/ t \in cancelReq)
    BY <2>2, <1>8 DEF MarkRunning, InLane, TypeOK, IdlePoints
  <2>3. QED
    BY <2>1, <2>2
<1>9. ASSUME NEW t \in Tasks, StartFails(t) PROVE Moves
  BY <1>9 DEF StartFails, Abandon, ReleaseSlot, ReleaseLock, EnterHandler,
    Resolve, Undrained, InLane, TypeOK, IdlePoints
<1>10. ASSUME NEW t \in Tasks, Announce(t) PROVE Moves
  BY <1>10 DEF Announce, InLane, TypeOK, IdlePoints
<1>11. ASSUME NEW t \in Tasks, TurnReturns(t) PROVE Moves
  BY <1>11 DEF TurnReturns, LeaveTurn, InLane, TypeOK, IdlePoints
<1>12. ASSUME NEW t \in Tasks, TurnFails(t) PROVE Moves
  BY <1>12 DEF TurnFails, LeaveTurn, InLane, TypeOK, IdlePoints
<1>13. ASSUME NEW t \in Tasks, HeartbeatStopped(t) PROVE Moves
  BY <1>13 DEF HeartbeatStopped, AfterHeartbeat, ReleaseSlot, InLane, TypeOK,
    IdlePoints
<1>14. ASSUME NEW t \in Tasks, Unwound(t) PROVE Moves
  BY <1>14 DEF Unwound, AfterUnwind, Abandon, ReleaseSlot, ReleaseLock,
    EnterHandler, Resolve, Undrained, InLane, TypeOK, IdlePoints
<1>15. ASSUME NEW t \in Tasks, CancelUnstarted(t) PROVE Moves
  BY <1>15 DEF CancelUnstarted, Deliver, InLane, TypeOK, IdlePoints
<1>16. ASSUME NEW t \in Tasks, CancelLockWait(t) PROVE Moves
  BY <1>16 DEF CancelLockWait, Deliver, EnterHandler, Resolve, Undrained,
    InLane, TypeOK, IdlePoints
<1>17. ASSUME NEW t \in Tasks, CancelSlotWait(t) PROVE Moves
  BY <1>17 DEF CancelSlotWait, Deliver, ReleaseLock, EnterHandler, Resolve,
    Undrained, InLane, TypeOK, IdlePoints
<1>18. ASSUME NEW t \in Tasks, CancelStarting(t) PROVE Moves
  BY <1>18 DEF CancelStarting, Deliver, Abandon, ReleaseSlot, ReleaseLock,
    EnterHandler, Resolve, Undrained, InLane, TypeOK, IdlePoints
<1>19. ASSUME NEW t \in Tasks, CancelTurn(t) PROVE Moves
  BY <1>19 DEF CancelTurn, Deliver, LeaveTurn, InLane, TypeOK, IdlePoints
<1>20. ASSUME NEW t \in Tasks, CancelSwallowed(t) PROVE Moves
  BY <1>20 DEF CancelSwallowed, Deliver, AfterHeartbeat, AfterUnwind, Abandon,
    ReleaseSlot, ReleaseLock, EnterHandler, Resolve, Undrained, InLane, TypeOK,
    IdlePoints
<1>21. ASSUME NEW t \in Tasks, CancelClosing(t) PROVE Moves
  BY <1>21 DEF CancelClosing, Deliver, ReleaseLock, EnterHandler, Resolve,
    Undrained, InLane, TypeOK, IdlePoints
<1>22. ASSUME NEW t \in Tasks, CancelHandler(t) PROVE Moves
  BY <1>22 DEF CancelHandler, Deliver, InLane, TypeOK, IdlePoints
<1>23. ASSUME NEW t \in Tasks, ClaimTerminal(t) PROVE Moves
  BY <1>23 DEF ClaimTerminal, Claimable, ClaimEffect, InLane, TypeOK,
    IdlePoints
<1>24. ASSUME NEW t \in Tasks, AlreadyTerminal(t) PROVE Moves
  BY <1>24 DEF AlreadyTerminal, ReleaseLock, InLane, TypeOK, IdlePoints
<1>25. ASSUME NEW t \in Tasks, TerminalRow(t) PROVE Moves
  BY <1>25 DEF TerminalRow, InLane, TypeOK, IdlePoints
<1>26. ASSUME NEW t \in Tasks, PromoteRefused(t) PROVE Moves
  BY <1>26 DEF PromoteRefused, MustPromote, Resolve, Undrained, InLane, TypeOK,
    IdlePoints
<1>27. ASSUME NEW t \in Tasks, PromoteFails(t) PROVE Moves
  <2>1. PICK f \in Tasks : pc[f] = "reserved" /\ pc' = [pc EXCEPT ![f] = "aborted"]
    BY <1>27 DEF PromoteFails, Promoting, TypeOK
  <2>2. QED
    BY <2>1, <1>27 DEF PromoteFails, InLane, TypeOK, IdlePoints
<1>28. ASSUME NEW t \in Tasks, PromoteActivate(t) PROVE Moves
  BY <1>28 DEF PromoteActivate, Promoting, Joins, TypeOK
<1>29. ASSUME NEW t \in Tasks, Emit(t) PROVE Moves
  BY <1>29 DEF Emit, PromotionOver, MustPromote, PromotesSteers, Undrained,
    InLane, TypeOK, IdlePoints
<1>30. ASSUME NEW t \in Tasks, Settle(t) PROVE Moves
  <2>1. \A u \in Tasks : pc'[u] = pc[u] \/ (u = t /\ pc'[u] = "done" /\ pc[t] \in SettlePoints)
    BY <1>30 DEF Settle, Safe, TermInv, MidTerm, SettlePoints, TypeOK
  <2>2. QED
    BY <2>1, <1>30 DEF Settle, InLane, SettlePoints, IdlePoints
<1>31. ASSUME NEW t \in Tasks, ExtClaim(t) PROVE Moves
  BY <1>31 DEF ExtClaim, ClaimEffect, ClaimsFree, InLane, TypeOK, IdlePoints
<1>32. ASSUME NEW t \in Tasks, CancelSignal(t) PROVE Moves
  BY <1>32 DEF CancelSignal, ClaimEffect, DriverLive, InLane, TypeOK,
    IdlePoints
<1>33. ASSUME NEW t \in Tasks, ClaimSteers(t) PROVE Moves
  BY <1>33 DEF ClaimSteers, Resolve, InLane, TypeOK, IdlePoints
<1>34. ASSUME NEW t \in Tasks, ApplySteers(t) PROVE Moves
  BY <1>34 DEF ApplySteers, Resolve, InLane, TypeOK, IdlePoints
<1>35. ASSUME NEW t \in Tasks, NEW m \in Modes, NEW p \in Policies, Enqueue(t, m, p)
      PROVE  Moves
  BY <1>35 DEF Enqueue, InLane, TypeOK, IdlePoints
<1>36. ASSUME NEW t \in Tasks, NEW f \in Tasks, Promote(t, f) PROVE Moves
  BY <1>36 DEF Promote, MustPromote, Resolve, Undrained, InLane, TypeOK,
    IdlePoints
<1>37. ASSUME NEW t \in Tasks, NEW src \in CancelSources, CancelBegin(t, src)
      PROVE  Moves
  BY <1>37 DEF CancelBegin, Live, InLane, TypeOK, IdlePoints
<1>38. ASSUME NEW x \in Steers, NEW t \in Tasks, AdmitSteer(x, t) PROVE Moves
  BY <1>38 DEF AdmitSteer, InLane, TypeOK, IdlePoints
<1>39. ASSUME NEW x \in Steers, SteerPersisted(x) PROVE Moves
  BY <1>39 DEF SteerPersisted, InLane, TypeOK, IdlePoints
<1>40. CASE UNCHANGED vars
  BY <1>40 DEF vars, InLane
<1>41. QED
  BY <1>1, <1>2, <1>3, <1>4, <1>5, <1>6, <1>7, <1>8, <1>9, <1>10, <1>11, <1>12,
    <1>13, <1>14, <1>15, <1>16, <1>17, <1>18, <1>19, <1>20, <1>21, <1>22,
    <1>23, <1>24, <1>25, <1>26, <1>27, <1>28, <1>29, <1>30, <1>31, <1>32,
    <1>33, <1>34, <1>35, <1>36, <1>37, <1>38, <1>39, <1>40
  DEF Next, Admission, DriverStep, DeliverCancel, SettleStep, Quiescent

\* Such a step keeps the order of the lanes.
LEMMA InLaneOrder ==
  ASSUME TypeOK, ArrivedInv, BehindInv, InLane
  PROVE  ArrivedInv' /\ BehindInv'
<1>1. ASSUME NEW s \in Sessions
      PROVE  /\ arrivals[s] \in Seq(Tasks)
             /\ DOMAIN arrivals[s] = 1..Len(arrivals[s])
             /\ Len(arrivals[s]) \in Nat
             /\ \A i \in DOMAIN arrivals[s] : arrivals[s][i] \in Tasks
  BY DEF TypeOK
<1>2. ArrivedInv'
  BY <1>1 DEF InLane, ArrivedInv
<1>3. BehindInv'
  <2>1. SUFFICES ASSUME NEW s \in Sessions, NEW i \in DOMAIN arrivals[s],
                        pc'[arrivals[s][i]] \in {"gate", "fair", "marking"},
                        NEW j \in 1..(i - 1)
                 PROVE  pc'[arrivals[s][j]] \notin {"ready", "lock"}
    BY DEF BehindInv, InLane
  <2>2. j \in DOMAIN arrivals[s] /\ i \in Int
    BY <1>1
  <2>3. CASE pc[arrivals[s][i]] \in {"gate", "fair", "marking"}
    BY <2>1, <2>2, <2>3, <1>1 DEF BehindInv, InLane
  <2>4. CASE NextInLane(arrivals[s][i])
    <3>1. SessionOf[arrivals[s][i]] = s
      BY DEF ArrivedInv
    <3>2. PICK k \in DOMAIN arrivals[s] :
             /\ arrivals[s][k] = arrivals[s][i]
             /\ \A l \in 1..(k - 1) :
                  arrivals[s][l] \notin {u \in Tasks : pc[u] \in {"ready", "lock"}}
      BY <2>4, <3>1 DEF NextInLane, FirstIn
    <3>3. k = i
      BY <3>2 DEF ArrivedInv
    <3>4. pc[arrivals[s][j]] \notin {"ready", "lock"}
      BY <3>2, <3>3, <2>2, <1>1
    <3>5. QED
      BY <3>4, <2>2, <1>1 DEF InLane
  <2>5. QED
    BY <2>1, <2>3, <2>4, <1>1 DEF InLane
<1>4. QED
  BY <1>2, <1>3

\* Every step keeps track of whom a driver that returned leaves behind.
LEMMA LeftStep ==
  ASSUME TypeOK, Safe, Steering, UnbornInv, LeftInv, [Next]_vars
  PROVE  LeftInv'
<1> USE ShapeAssumption DEF Safe, TermInv, UnbornInv, LeftInv
<1>0. cancelSig \subseteq cancelReq
  BY DEF Steering, CancelInv
<1> USE <1>0
<1>1. ASSUME NEW t \in Tasks, Activate(t) PROVE LeftInv'
  BY <1>1 DEF Activate, ActivateEffect, InterruptTargets, EvictedBy,
    ClaimsFree, Lane, Live, DriverLive, TypeOK, IdlePoints, SettlePoints,
    MidTerm
<1>2. ASSUME NEW t \in Tasks, EnqueueFails(t) PROVE LeftInv'
  BY <1>2 DEF EnqueueFails, ReleaseGate, TypeOK, IdlePoints, SettlePoints,
    MidTerm
<1>3. ASSUME NEW t \in Tasks, Admitted(t) PROVE LeftInv'
  BY <1>3 DEF Admitted, ReleaseGate, TypeOK, IdlePoints, SettlePoints, MidTerm
<1>4. ASSUME NEW t \in Tasks, DriverStart(t) PROVE LeftInv'
  BY <1>4 DEF DriverStart, TypeOK, IdlePoints, SettlePoints, MidTerm
<1>5. ASSUME NEW t \in Tasks, LockAcquire(t) PROVE LeftInv'
  BY <1>5 DEF LockAcquire, TypeOK, IdlePoints, SettlePoints, MidTerm
<1>6. ASSUME NEW t \in Tasks, GateWake(t) PROVE LeftInv'
  BY <1>6 DEF GateWake, TakeSlot, TypeOK, IdlePoints, SettlePoints, MidTerm
<1>7. ASSUME NEW t \in Tasks, FairWake(t) PROVE LeftInv'
  BY <1>7 DEF FairWake, TakeSlot, TypeOK, IdlePoints, SettlePoints, MidTerm
<1>8. ASSUME NEW t \in Tasks, MarkRunning(t) PROVE LeftInv'
  <2>1. CASE term[t] # "open" \/ status[t] \in TerminalStatuses \/ t \in cancelReq
    <3>1. /\ pc' = [pc EXCEPT ![t] = "handler"]
          /\ status' = [status EXCEPT ![t] = "cancelled"] \/ status' = status
          /\ UNCHANGED <<pending, term, cancelReq>>
      BY <2>1, <1>8 DEF MarkRunning, Abandon, EnterHandler
    <3>2. QED
      BY <3>1 DEF TypeOK
  <2>2. CASE ~(term[t] # "open" \/ status[t] \in TerminalStatuses \/ t \in cancelReq)
    BY <2>2, <1>8 DEF MarkRunning, TypeOK
  <2>3. QED
    BY <2>1, <2>2
<1>9. ASSUME NEW t \in Tasks, StartFails(t) PROVE LeftInv'
  BY <1>9 DEF StartFails, Abandon, ReleaseSlot, ReleaseLock, EnterHandler,
    Resolve, Undrained, TypeOK, IdlePoints, SettlePoints, MidTerm
<1>10. ASSUME NEW t \in Tasks, Announce(t) PROVE LeftInv'
  BY <1>10 DEF Announce, TypeOK, IdlePoints, SettlePoints, MidTerm
<1>11. ASSUME NEW t \in Tasks, TurnReturns(t) PROVE LeftInv'
  BY <1>11 DEF TurnReturns, LeaveTurn, TypeOK, IdlePoints, SettlePoints,
    MidTerm
<1>12. ASSUME NEW t \in Tasks, TurnFails(t) PROVE LeftInv'
  BY <1>12 DEF TurnFails, LeaveTurn, TypeOK, IdlePoints, SettlePoints, MidTerm
<1>13. ASSUME NEW t \in Tasks, HeartbeatStopped(t) PROVE LeftInv'
  BY <1>13 DEF HeartbeatStopped, AfterHeartbeat, ReleaseSlot, TypeOK,
    IdlePoints, SettlePoints, MidTerm
<1>14. ASSUME NEW t \in Tasks, Unwound(t) PROVE LeftInv'
  BY <1>14 DEF Unwound, AfterUnwind, Abandon, ReleaseSlot, ReleaseLock,
    EnterHandler, Resolve, Undrained, TypeOK, IdlePoints, SettlePoints, MidTerm
<1>15. ASSUME NEW t \in Tasks, CancelUnstarted(t) PROVE LeftInv'
  BY <1>15 DEF CancelUnstarted, Deliver, TypeOK, IdlePoints, SettlePoints,
    MidTerm
<1>16. ASSUME NEW t \in Tasks, CancelLockWait(t) PROVE LeftInv'
  BY <1>16 DEF CancelLockWait, Deliver, EnterHandler, Resolve, Undrained,
    TypeOK, IdlePoints, SettlePoints, MidTerm
<1>17. ASSUME NEW t \in Tasks, CancelSlotWait(t) PROVE LeftInv'
  BY <1>17 DEF CancelSlotWait, Deliver, ReleaseLock, EnterHandler, Resolve,
    Undrained, TypeOK, IdlePoints, SettlePoints, MidTerm
<1>18. ASSUME NEW t \in Tasks, CancelStarting(t) PROVE LeftInv'
  BY <1>18 DEF CancelStarting, Deliver, Abandon, ReleaseSlot, ReleaseLock,
    EnterHandler, Resolve, Undrained, TypeOK, IdlePoints, SettlePoints, MidTerm
<1>19. ASSUME NEW t \in Tasks, CancelTurn(t) PROVE LeftInv'
  BY <1>19 DEF CancelTurn, Deliver, LeaveTurn, TypeOK, IdlePoints,
    SettlePoints, MidTerm
<1>20. ASSUME NEW t \in Tasks, CancelSwallowed(t) PROVE LeftInv'
  BY <1>20 DEF CancelSwallowed, Deliver, AfterHeartbeat, AfterUnwind, Abandon,
    ReleaseSlot, ReleaseLock, EnterHandler, Resolve, Undrained, TypeOK,
    IdlePoints, SettlePoints, MidTerm
<1>21. ASSUME NEW t \in Tasks, CancelClosing(t) PROVE LeftInv'
  BY <1>21 DEF CancelClosing, Deliver, ReleaseLock, EnterHandler, Resolve,
    Undrained, TypeOK, IdlePoints, SettlePoints, MidTerm
<1>22. ASSUME NEW t \in Tasks, CancelHandler(t) PROVE LeftInv'
  BY <1>22 DEF CancelHandler, Deliver, TypeOK, IdlePoints, SettlePoints,
    MidTerm
<1>23. ASSUME NEW t \in Tasks, ClaimTerminal(t) PROVE LeftInv'
  BY <1>23 DEF ClaimTerminal, Claimable, ClaimEffect, TypeOK, IdlePoints,
    SettlePoints, MidTerm
<1>24. ASSUME NEW t \in Tasks, AlreadyTerminal(t) PROVE LeftInv'
  <2>1. t \notin pending \/ status[t] = "cancelled"
    BY <1>24 DEF AlreadyTerminal, TypeOK, MidTerm, SettlePoints
  <2>2. QED
    BY <2>1, <1>24 DEF AlreadyTerminal, TypeOK
<1>25. ASSUME NEW t \in Tasks, TerminalRow(t) PROVE LeftInv'
  BY <1>25 DEF TerminalRow, TypeOK, IdlePoints, SettlePoints, MidTerm
<1>26. ASSUME NEW t \in Tasks, PromoteRefused(t) PROVE LeftInv'
  BY <1>26 DEF PromoteRefused, MustPromote, Resolve, Undrained, TypeOK,
    IdlePoints, SettlePoints, MidTerm
<1>27. ASSUME NEW t \in Tasks, PromoteFails(t) PROVE LeftInv'
  <2>1. PICK f \in Tasks : pc[f] = "reserved" /\ pc' = [pc EXCEPT ![f] = "aborted"]
    BY <1>27 DEF PromoteFails, Promoting, TypeOK
  <2>2. QED
    BY <2>1, <1>27 DEF PromoteFails, TypeOK
<1>28. ASSUME NEW t \in Tasks, PromoteActivate(t) PROVE LeftInv'
  <2>1. PICK f \in Tasks : f = promo[t] /\ pc[f] = "reserved"
    BY <1>28 DEF PromoteActivate, Promoting, TypeOK
  <2>2. QED
    BY <2>1, <1>28 DEF PromoteActivate, ActivateEffect, InterruptTargets, EvictedBy,
      ClaimsFree, Lane, Live, DriverLive, TypeOK, IdlePoints
<1>29. ASSUME NEW t \in Tasks, Emit(t) PROVE LeftInv'
  BY <1>29 DEF Emit, PromotionOver, MustPromote, PromotesSteers, Undrained,
    TypeOK, IdlePoints, SettlePoints, MidTerm
<1>30. ASSUME NEW t \in Tasks, Settle(t) PROVE LeftInv'
  BY <1>30 DEF Settle, DropRunning, ReleaseLock, PromotionOver, MustPromote,
    PromotesSteers, Undrained, TypeOK, IdlePoints, SettlePoints, MidTerm
<1>31. ASSUME NEW t \in Tasks, ExtClaim(t) PROVE LeftInv'
  BY <1>31 DEF ExtClaim, ClaimEffect, ClaimsFree, TypeOK, IdlePoints,
    SettlePoints, MidTerm
<1>32. ASSUME NEW t \in Tasks, CancelSignal(t) PROVE LeftInv'
  BY <1>32 DEF CancelSignal, ClaimEffect, DriverLive, TypeOK, IdlePoints,
    SettlePoints, MidTerm
<1>33. ASSUME NEW t \in Tasks, ClaimSteers(t) PROVE LeftInv'
  BY <1>33 DEF ClaimSteers, Resolve, TypeOK, IdlePoints, SettlePoints, MidTerm
<1>34. ASSUME NEW t \in Tasks, ApplySteers(t) PROVE LeftInv'
  BY <1>34 DEF ApplySteers, Resolve, TypeOK, IdlePoints, SettlePoints, MidTerm
<1>35. ASSUME NEW t \in Tasks, NEW m \in Modes, NEW p \in Policies, Enqueue(t, m, p)
      PROVE  LeftInv'
  BY <1>35 DEF Enqueue, TypeOK, IdlePoints, SettlePoints, MidTerm
<1>36. ASSUME NEW t \in Tasks, NEW f \in Tasks, Promote(t, f) PROVE LeftInv'
  BY <1>36 DEF Promote, MustPromote, Resolve, Undrained, TypeOK, IdlePoints,
    SettlePoints, MidTerm
<1>37. ASSUME NEW t \in Tasks, NEW src \in CancelSources, CancelBegin(t, src)
      PROVE  LeftInv'
  BY <1>37 DEF CancelBegin, Live, TypeOK, IdlePoints, SettlePoints, MidTerm
<1>38. ASSUME NEW x \in Steers, NEW t \in Tasks, AdmitSteer(x, t) PROVE LeftInv'
  BY <1>38 DEF AdmitSteer, TypeOK, IdlePoints, SettlePoints, MidTerm
<1>39. ASSUME NEW x \in Steers, SteerPersisted(x) PROVE LeftInv'
  BY <1>39 DEF SteerPersisted, TypeOK, IdlePoints, SettlePoints, MidTerm
<1>40. CASE UNCHANGED vars
  BY <1>40 DEF vars
<1>41. QED
  BY <1>1, <1>2, <1>3, <1>4, <1>5, <1>6, <1>7, <1>8, <1>9, <1>10, <1>11, <1>12,
    <1>13, <1>14, <1>15, <1>16, <1>17, <1>18, <1>19, <1>20, <1>21, <1>22,
    <1>23, <1>24, <1>25, <1>26, <1>27, <1>28, <1>29, <1>30, <1>31, <1>32,
    <1>33, <1>34, <1>35, <1>36, <1>37, <1>38, <1>39, <1>40
  DEF Next, Admission, DriverStep, DeliverCancel, SettleStep, Quiescent

\* When a driver flips its task to RUNNING, nobody before it in its lane still
\* waits for his turn.
LEMMA StartStep ==
  ASSUME TypeOK, Safe, Steering, UnbornInv, Ordered, [Next]_vars, NEW t \in Tasks,
         pc[t] # "announce", pc'[t] = "announce"
  PROVE  FirstIn(t, {u \in pending \ cancelReq : status[u] = "queued" /\ pc[u] # "handler"})
<1> DEFINE s == SessionOf[t]
           X == {u \in pending \ cancelReq : status[u] = "queued" /\ pc[u] # "handler"}
<1>1. pc[t] = "marking"
  BY LaneStep, ShapeAssumption DEF InLane, Joins, ActivateEffect, TypeOK
<1>2. lockOwner[s] = t /\ s \in Sessions
  BY <1>1, ShapeAssumption DEF Safe, LockInv, LockPoints, SlotPoints
<1>3. PICK i \in DOMAIN arrivals[s] : arrivals[s][i] = t
  BY <1>1 DEF Ordered, ArrivedInv, Holds, IdlePoints
<1>4. ASSUME NEW j \in 1..(i - 1), arrivals[s][j] \in X PROVE FALSE
  <2> DEFINE u == arrivals[s][j]
  <2>1. /\ j \in DOMAIN arrivals[s] /\ j # i
        /\ u \in Tasks
    BY <1>2, <1>3 DEF TypeOK
  <2>2. u # t /\ SessionOf[u] = s
    BY <1>2, <1>3, <2>1 DEF Ordered, ArrivedInv
  <2>3. pc[u] \notin {"ready", "lock"}
    BY <1>1, <1>2, <1>3 DEF Ordered, BehindInv
  <2>4. pc[u] \notin LockPoints
    BY <1>2, <2>1, <2>2 DEF Safe, LockInv
  <2>5. /\ u \in pending /\ u \notin cancelReq
        /\ status[u] = "queued" /\ pc[u] # "handler"
    BY <1>4
  <2> HIDE DEF u
  <2>6. pc[u] \notin IdlePoints
    BY <2>1, <2>5 DEF UnbornInv
  <2>7. pc[u] \notin SettlePoints
    BY <2>1, <2>5 DEF Safe, TermInv, TerminalStatuses
  <2>8. pc[u] # "done"
    BY <2>1, <2>5 DEF Ordered, LeftInv
  <2>9. pc[u] \in Points
    BY <2>1 DEF TypeOK
  <2>10. QED
    BY <2>3, <2>4, <2>5, <2>6, <2>7, <2>8, <2>9
    DEF Points, LockPoints, SlotPoints, IdlePoints, SettlePoints
<1>5. QED
  BY <1>3, <1>4 DEF FirstIn

(***************************************************************************)
(* The theorems.                                                           *)
(***************************************************************************)

\* The invariant of the waiting tasks holds along with the earlier ones.
THEOREM WaitingInvariance == Spec => [](IInv /\ Steering /\ Waiting)
<1>1. Init => Waiting
  BY DEF Init, Waiting, UnbornInv, SignalledInv, QueuedInv, RotationInv, NoLostWakeup,
    WaitPoints, IdlePoints
<1>2. IInv /\ Steering /\ Waiting /\ [Next]_vars => Waiting'
  BY QueuedStep, WaitStep, RotationStep, AsleepStep DEF IInv, Waiting
<1>3. QED
  BY <1>1, <1>2, SteeringInvariance, PTL DEF Spec

\* No lost wake-up, whatever is cancelled, evicted or fails and however the
\* sessions of an agent rotate: a task asleep on _fair_cond or _slot_cond would
\* not be granted a slot if it looked.
THEOREM WakeupsNeverLost == Spec => []NoLostWakeup
<1>1. Waiting => NoLostWakeup
  BY DEF Waiting
<1>2. QED
  BY <1>1, WaitingInvariance, PTL

\* The order of the lanes is kept along with everything before.
THEOREM OrderInvariance == Spec => [](IInv /\ Steering /\ Waiting /\ Ordered)
<1>1. Init => Ordered
  <2>1. SUFFICES ASSUME Init PROVE Ordered
    OBVIOUS
  <2>2. \A s \in Sessions : DOMAIN arrivals[s] = {}
    BY <2>1 DEF Init
  <2>3. \A t \in Tasks : pc[t] = "fresh" /\ term[t] = "open"
    BY <2>1 DEF Init
  <2>4. QED
    BY <2>2, <2>3 DEF Ordered, ArrivedInv, BehindInv, LeftInv, IdlePoints
<1>2. IInv /\ Steering /\ Waiting /\ Ordered /\ [Next]_vars => Ordered'
  BY LaneStep, JoinOrder, InLaneOrder, LeftStep DEF IInv, Waiting, Ordered
<1>3. QED
  BY <1>1, <1>2, WaitingInvariance, PTL DEF Spec

\* Turns of one session start in the order in which they were activated, the
\* follow-ups of promoted steers included, unless an earlier one was cancelled
\* or failed.
THEOREM TurnsInOrder == Spec => StartsInOrder
<1>1. IInv /\ Steering /\ Waiting /\ Ordered /\ [Next]_vars =>
        [\A t \in Tasks : pc[t] # "announce" /\ pc'[t] = "announce" =>
           FirstIn(t, {u \in pending \ cancelReq :
                        status[u] = "queued" /\ pc[u] # "handler"})]_vars
  BY StartStep DEF IInv, Waiting
<1>2. QED
  BY <1>1, OrderInvariance, PTL DEF Spec, StartsInOrder

(***************************************************************************)
(* The limit of the queue.                                                 *)
(***************************************************************************)

\* Who was, or will be, evicted by an admission in progress.
Victims == {victim[u] : u \in Tasks} \ {NoTask}

\* The waiting tasks that keep their place.
Kept(s) == {t \in pending \cap Lane(s) : status[t] = "queued"} \ Victims

\* Only the admission that holds the gate has a victim, one of its own session,
\* and it keeps it until that task is settled; once activated it has cancelled it.
VictimInv ==
  \A t \in Tasks : victim[t] # NoTask =>
    /\ gate[SessionOf[t]] = t
    /\ SessionOf[victim[t]] = SessionOf[t]
    /\ pc[t] \notin {"fresh", "aborted"}
    /\ pc[t] = "reserved" \/ victim[t] \in cancelReq

\* Who keeps his place and who has reserved one fit the limit together.
RoomInv ==
  \A s \in Sessions : Cardinality(Kept(s)) + Cardinality(Reserved(s)) <= MaxPending

\* A step that is no part of an admission: nobody starts to wait.
Calm ==
  /\ UNCHANGED <<gate, victim>>
  /\ pending' \subseteq pending
  /\ cancelReq \subseteq cancelReq'
  /\ \A t \in Tasks : pc[t] \in IdlePoints \/ pc'[t] \in IdlePoints => pc'[t] = pc[t]
  /\ \A t \in Tasks : status'[t] = "queued" => status[t] = "queued"

\* A driver's step neither makes anybody wait nor reserves a place.
LEMMA DriverCalm ==
  ASSUME TypeOK, Safe, NEW t \in Tasks, DriverStep(t)
  PROVE  Calm
<1> USE DEF Calm, TypeOK, IdlePoints
<1>1. ASSUME DriverStart(t) \/ LockAcquire(t) \/ GateWake(t) \/ FairWake(t) \/ Announce(t)
      PROVE  Calm
  BY <1>1 DEF DriverStart, LockAcquire, GateWake, FairWake, TakeSlot, Announce
<1>2. ASSUME NEW w \in Statuses, Abandon(t, w), cancelReq' = cancelReq, pc[t] \notin IdlePoints
      PROVE Calm
  BY <1>2 DEF Abandon, EnterHandler
<1>3. ASSUME MarkRunning(t) PROVE Calm
  <2>1. pc[t] = "marking" /\ "cancelled" \in Statuses
    BY <1>3 DEF MarkRunning, Statuses
  <2>2. CASE term[t] # "open" \/ status[t] \in TerminalStatuses \/ t \in cancelReq
    BY <2>1, <2>2, <1>2, <1>3 DEF MarkRunning
  <2>3. CASE ~(term[t] # "open" \/ status[t] \in TerminalStatuses \/ t \in cancelReq)
    BY <2>1, <2>3, <1>3 DEF MarkRunning
  <2>4. QED
    BY <2>2, <2>3
<1>4. ASSUME StartFails(t) PROVE Calm
  BY <1>2, <1>4 DEF StartFails, Statuses
<1>5. ASSUME TurnReturns(t) \/ TurnFails(t) \/ HeartbeatStopped(t) PROVE Calm
  BY <1>5 DEF TurnReturns, TurnFails, LeaveTurn, HeartbeatStopped, AfterHeartbeat
<1>6. ASSUME Unwound(t) PROVE Calm
  BY <1>2, <1>6 DEF Unwound, AfterUnwind
<1>7. ASSUME DeliverCancel(t) PROVE Calm
  <2>1. ASSUME CancelUnstarted(t) \/ CancelTurn(t) \/ CancelHandler(t) PROVE Calm
    BY <2>1 DEF CancelUnstarted, CancelTurn, CancelHandler, Deliver, LeaveTurn
  <2>2. ASSUME CancelLockWait(t) \/ CancelSlotWait(t) \/ CancelClosing(t) PROVE Calm
    BY <2>2 DEF CancelLockWait, CancelSlotWait, CancelClosing, Deliver, EnterHandler
  <2>3. ASSUME CancelStarting(t) PROVE Calm
    BY <1>2, <2>3 DEF CancelStarting, Deliver, Statuses
  <2>4. ASSUME CancelSwallowed(t) PROVE Calm
    <3>1. CASE AfterHeartbeat(t)
      BY <2>4, <3>1 DEF CancelSwallowed, Deliver, AfterHeartbeat
    <3>2. CASE AfterUnwind(t)
      BY <1>2, <2>4, <3>2 DEF CancelSwallowed, Deliver, AfterUnwind
    <3>3. QED
      BY <2>4, <3>1, <3>2 DEF CancelSwallowed
  <2>5. QED
    BY <1>7, <2>1, <2>2, <2>3, <2>4 DEF DeliverCancel
<1>8. ASSUME ClaimTerminal(t) PROVE Calm
  <2>1. want[t] # "queued"
    BY <1>8 DEF ClaimTerminal, Safe, WantInv, TerminalStatuses
  <2>2. QED
    BY <2>1, <1>8 DEF ClaimTerminal, ClaimEffect
<1>9. ASSUME AlreadyTerminal(t) PROVE Calm
  BY <1>9 DEF AlreadyTerminal
<1>10. QED
  BY <1>1, <1>3, <1>4, <1>5, <1>6, <1>7, <1>8, <1>9 DEF DriverStep

\* Nor do the steps of settlements, of cancel() and of steers, but for what a
\* promotion does.
LEMMA OtherCalm ==
  ASSUME TypeOK, Safe, [Next]_vars
  PROVE  \/ Calm
         \/ \E t \in Tasks, m \in Modes, p \in Policies : Enqueue(t, m, p)
         \/ \E t \in Tasks : Admission(t) \/ PromoteFails(t) \/ PromoteActivate(t)
         \/ \E t \in Tasks, f \in Tasks : Promote(t, f)
<1> USE DEF Calm, TypeOK, IdlePoints
<1>1. ASSUME NEW t \in Tasks, DriverStep(t) PROVE Calm
  BY <1>1, DriverCalm
<1>2. ASSUME NEW t \in Tasks, TerminalRow(t) \/ PromoteRefused(t) \/ Emit(t) PROVE Calm
  BY <1>2 DEF TerminalRow, PromoteRefused, Emit
<1>3. ASSUME NEW t \in Tasks, Settle(t) PROVE Calm
  <2>1. ext[t] = "owner" \/ pc[t] \in SettlePoints
    BY <1>3 DEF Settle, Safe, TermInv, MidTerm
  <2>2. QED
    BY <2>1, <1>3 DEF Settle, SettlePoints
<1>4. ASSUME NEW t \in Tasks, ExtClaim(t) PROVE Calm
  BY <1>4 DEF ExtClaim, ClaimEffect
<1>5. ASSUME NEW t \in Tasks, CancelSignal(t) PROVE Calm
  BY <1>5 DEF CancelSignal, ClaimEffect
<1>6. ASSUME NEW t \in Tasks, NEW src \in CancelSources, CancelBegin(t, src) PROVE Calm
  BY <1>6 DEF CancelBegin
<1>7. ASSUME NEW x \in Steers, NEW t \in Tasks, AdmitSteer(x, t) PROVE Calm
  BY <1>7 DEF AdmitSteer
<1>8. ASSUME NEW x \in Steers, SteerPersisted(x) PROVE Calm
  BY <1>8 DEF SteerPersisted
<1>9. ASSUME NEW t \in Tasks, ClaimSteers(t) \/ ApplySteers(t) PROVE Calm
  BY <1>9 DEF ClaimSteers, ApplySteers
<1>10. CASE UNCHANGED vars
  BY <1>10 DEF vars
<1>11. QED
  BY <1>1, <1>2, <1>3, <1>4, <1>5, <1>6, <1>7, <1>8, <1>9, <1>10 DEF Next, SettleStep, Quiescent

\* What a lane gains by one task it loses by another.
LEMMA LaneCounts ==
  ASSUME NEW K \in SUBSET Tasks, NEW R \in SUBSET Tasks,
         NEW L \in SUBSET Tasks, NEW S \in SUBSET Tasks
  PROVE  /\ Cardinality(K) \in Nat /\ Cardinality(R) \in Nat
         /\ Cardinality(L) \in Nat /\ Cardinality(S) \in Nat
         /\ L \subseteq K /\ S \subseteq R =>
              Cardinality(L) + Cardinality(S) <= Cardinality(K) + Cardinality(R)
         /\ \A x : L \subseteq K /\ S \subseteq R \cup {x} =>
              Cardinality(L) + Cardinality(S) <= Cardinality(K) + Cardinality(R) + 1
         /\ \A x : \A y \in R : L \subseteq K \cup {x} /\ S \subseteq R \ {y} =>
              Cardinality(L) + Cardinality(S) <= Cardinality(K) + Cardinality(R)
         /\ \A x : \A y \in K : L \subseteq K \ {y} /\ S \subseteq R \cup {x} =>
              Cardinality(L) + Cardinality(S) <= Cardinality(K) + Cardinality(R)
<1>1. /\ IsFiniteSet(K) /\ IsFiniteSet(R) /\ IsFiniteSet(L) /\ IsFiniteSet(S)
      /\ Cardinality(K) \in Nat /\ Cardinality(R) \in Nat
      /\ Cardinality(L) \in Nat /\ Cardinality(S) \in Nat
  BY FS_Subset, FS_CardinalityType, ShapeAssumption
<1>2. ASSUME NEW A, NEW B, IsFiniteSet(A), B \subseteq A PROVE Cardinality(B) <= Cardinality(A)
  BY <1>2, FS_Subset
<1>3. ASSUME NEW A, NEW B, NEW x, IsFiniteSet(A), Cardinality(A) \in Nat, IsFiniteSet(B),
             Cardinality(B) \in Nat, B \subseteq A \cup {x}
      PROVE  Cardinality(B) <= Cardinality(A) + 1
  <2>1. IsFiniteSet(A \cup {x}) /\ Cardinality(A \cup {x}) \in {Cardinality(A), Cardinality(A) + 1}
    BY <1>3, FS_AddElement
  <2>2. Cardinality(B) <= Cardinality(A \cup {x})
    BY <1>2, <1>3, <2>1
  <2>3. QED
    BY <1>3, <2>1, <2>2
<1>4. ASSUME NEW A, NEW B, NEW y \in A, IsFiniteSet(A), Cardinality(A) \in Nat,
             Cardinality(B) \in Nat, B \subseteq A \ {y}
      PROVE  Cardinality(B) + 1 <= Cardinality(A)
  <2>1. IsFiniteSet(A \ {y}) /\ Cardinality(A \ {y}) = Cardinality(A) - 1
    BY <1>4, FS_RemoveElement
  <2>2. Cardinality(B) <= Cardinality(A \ {y})
    BY <1>2, <1>4, <2>1
  <2>3. QED
    BY <1>4, <2>1, <2>2
<1>5. L \subseteq K => Cardinality(L) <= Cardinality(K)
  BY <1>1, <1>2
<1>6. S \subseteq R => Cardinality(S) <= Cardinality(R)
  BY <1>1, <1>2
<1>7. \A x : S \subseteq R \cup {x} => Cardinality(S) <= Cardinality(R) + 1
  BY <1>1, <1>3
<1>8. \A x : L \subseteq K \cup {x} => Cardinality(L) <= Cardinality(K) + 1
  BY <1>1, <1>3
<1>9. \A y \in R : S \subseteq R \ {y} => Cardinality(S) + 1 <= Cardinality(R)
  BY <1>1, <1>4
<1>10. \A y \in K : L \subseteq K \ {y} => Cardinality(L) + 1 <= Cardinality(K)
  BY <1>1, <1>4
<1>11. ASSUME NEW x, NEW y \in R, L \subseteq K \cup {x}, S \subseteq R \ {y}
       PROVE  Cardinality(L) + Cardinality(S) <= Cardinality(K) + Cardinality(R)
  <2>1. Cardinality(L) <= Cardinality(K) + 1
    BY <1>8, <1>11
  <2>2. Cardinality(S) + 1 <= Cardinality(R)
    BY <1>9, <1>11
  <2>3. QED
    BY <1>1, <2>1, <2>2
<1>12. ASSUME NEW x, NEW y \in K, L \subseteq K \ {y}, S \subseteq R \cup {x}
       PROVE  Cardinality(L) + Cardinality(S) <= Cardinality(K) + Cardinality(R)
  <2>1. Cardinality(S) <= Cardinality(R) + 1
    BY <1>7, <1>12
  <2>2. Cardinality(L) + 1 <= Cardinality(K)
    BY <1>10, <1>12
  <2>3. QED
    BY <1>1, <2>1, <2>2
<1>13. L \subseteq K /\ S \subseteq R =>
         Cardinality(L) + Cardinality(S) <= Cardinality(K) + Cardinality(R)
  BY <1>1, <1>5, <1>6
<1>14. ASSUME NEW x, L \subseteq K, S \subseteq R \cup {x}
       PROVE  Cardinality(L) + Cardinality(S) <= Cardinality(K) + Cardinality(R) + 1
  <2>1. Cardinality(S) <= Cardinality(R) + 1
    BY <1>7, <1>14
  <2>2. QED
    BY <1>1, <1>5, <1>14, <2>1
<1>15. QED
  BY <1>1, <1>11, <1>12, <1>13, <1>14

\* The places of a lane are sets of its tasks.
LEMMA LaneParts ==
  \A s : /\ Kept(s) \in SUBSET Tasks /\ Reserved(s) \in SUBSET Tasks
         /\ Kept(s) \subseteq Lane(s) /\ Reserved(s) \subseteq Lane(s)
         /\ Kept(s) \subseteq pending
  BY DEF Kept, Reserved, Lane

\* A calm step leaves the admissions alone and may only empty the queue.
LEMMA CalmRoom ==
  ASSUME TypeOK, VictimInv, RoomInv, Calm
  PROVE  VictimInv' /\ RoomInv'
<1>1. VictimInv'
  BY DEF VictimInv, Calm, TypeOK, IdlePoints
<1>2. ASSUME NEW s \in Sessions
      PROVE  Cardinality(Kept(s)') + Cardinality(Reserved(s)') <= MaxPending
  <2>1. Kept(s)' \subseteq Kept(s)
    BY DEF Kept, Calm, Victims, Lane
  <2>2. Reserved(s)' \subseteq Reserved(s)
    BY DEF Reserved, Calm, Lane, IdlePoints
  <2>3. Kept(s)' \in SUBSET Tasks /\ Reserved(s)' \in SUBSET Tasks
        /\ Kept(s) \in SUBSET Tasks /\ Reserved(s) \in SUBSET Tasks
    BY DEF Kept, Reserved, Lane
  <2>4. /\ Cardinality(Kept(s)) \in Nat /\ Cardinality(Reserved(s)) \in Nat
        /\ Cardinality(Kept(s)') \in Nat /\ Cardinality(Reserved(s)') \in Nat
        /\ Cardinality(Kept(s)') + Cardinality(Reserved(s)')
             <= Cardinality(Kept(s)) + Cardinality(Reserved(s))
    BY <2>1, <2>2, <2>3, LaneCounts
  <2>5. QED
    BY <2>4, LimitAssumption DEF RoomInv
<1>3. QED
  BY <1>1, <1>2 DEF RoomInv

\* A lane has room after a step in which no place is added, or one is for one
\* that is given up.
LEMMA RoomLeft ==
  ASSUME RoomInv, NEW s \in Sessions,
         \/ Kept(s)' \subseteq Kept(s) /\ Reserved(s)' \subseteq Reserved(s)
         \/ \E x : \E y \in Reserved(s) :
              Kept(s)' \subseteq Kept(s) \cup {x} /\ Reserved(s)' \subseteq Reserved(s) \ {y}
         \/ \E x : \E y \in Kept(s) :
              Kept(s)' \subseteq Kept(s) \ {y} /\ Reserved(s)' \subseteq Reserved(s) \cup {x}
  PROVE  Cardinality(Kept(s)') + Cardinality(Reserved(s)') <= MaxPending
<1>1. /\ Kept(s)' \in SUBSET Tasks /\ Reserved(s)' \in SUBSET Tasks
      /\ Kept(s) \in SUBSET Tasks /\ Reserved(s) \in SUBSET Tasks
  BY DEF Kept, Reserved, Lane
<1>2. /\ Cardinality(Kept(s)) \in Nat /\ Cardinality(Reserved(s)) \in Nat
      /\ Cardinality(Kept(s)') \in Nat /\ Cardinality(Reserved(s)') \in Nat
      /\ Cardinality(Kept(s)') + Cardinality(Reserved(s)')
           <= Cardinality(Kept(s)) + Cardinality(Reserved(s))
  BY <1>1, LaneCounts
<1>3. QED
  BY <1>2, LimitAssumption DEF RoomInv

\* activate() turns the reservation into a waiting task; the victim that still
\* waits is cancelled, and one that has begun is none.
LEMMA ActivateRoom ==
  ASSUME TypeOK, VictimInv, RoomInv, NEW f \in Tasks, pc[f] = "reserved", ActivateEffect(f)
  PROVE  VictimInv' /\ RoomInv'
<1>1. /\ pending' = pending \cup {f} /\ gate' = gate /\ cancelReq \subseteq cancelReq'
      /\ EvictedBy(f) \subseteq cancelReq'
      /\ pc'[f] = "ready" /\ \A u \in Tasks \ {f} : pc'[u] = pc[u]
      /\ \A u \in Tasks : status'[u] = "queued" => status[u] = "queued"
      /\ victim'[f] = (IF EvictedBy(f) = {} THEN NoTask ELSE victim[f])
      /\ \A u \in Tasks \ {f} : victim'[u] = victim[u]
  BY DEF ActivateEffect, TypeOK
<1>2. VictimInv'
  <2>1. ASSUME NEW u \in Tasks \ {f}, victim'[u] # NoTask
        PROVE  /\ gate'[SessionOf[u]] = u /\ SessionOf[victim'[u]] = SessionOf[u]
               /\ pc'[u] \notin {"fresh", "aborted"}
               /\ pc'[u] = "reserved" \/ victim'[u] \in cancelReq'
    BY <1>1, <2>1 DEF VictimInv
  <2>2. ASSUME victim'[f] # NoTask
        PROVE  /\ gate'[SessionOf[f]] = f /\ SessionOf[victim'[f]] = SessionOf[f]
               /\ pc'[f] \notin {"fresh", "aborted"}
               /\ victim'[f] \in cancelReq'
    <3>1. EvictedBy(f) # {} /\ victim'[f] = victim[f]
      BY <1>1, <2>2
    <3>2. victim[f] \in EvictedBy(f)
      BY <3>1 DEF EvictedBy
    <3>3. QED
      BY <1>1, <2>2, <3>1, <3>2 DEF VictimInv
  <2>3. QED
    BY <2>1, <2>2 DEF VictimInv
<1>3. ASSUME NEW s \in Sessions, NEW x \in Kept(s)', x # f PROVE x \in Kept(s)
  <2>1. x \in pending /\ x \in Tasks /\ x \in Lane(s) /\ status[x] = "queued" /\ x \notin Victims'
    BY <1>1, <1>3 DEF Kept, Lane
  <2>2. ASSUME NEW u \in Tasks, victim[u] = x PROVE FALSE
    <3>1. victim'[u] # x /\ x # NoTask
      BY <2>1, ShapeAssumption DEF Victims
    <3>2. u = f /\ EvictedBy(f) = {}
      BY <1>1, <2>2, <3>1
    <3>3. x \in EvictedBy(f)
      BY <2>1, <2>2, <3>1, <3>2 DEF EvictedBy
    <3>4. QED
      BY <3>2, <3>3
  <2>3. QED
    BY <2>1, <2>2 DEF Kept, Victims
<1>4. \A s \in Sessions : Reserved(s)' = Reserved(s) \ {f}
  BY <1>1 DEF Reserved, Lane
<1>5. ASSUME NEW s \in Sessions
      PROVE  Cardinality(Kept(s)') + Cardinality(Reserved(s)') <= MaxPending
  <2>1. CASE SessionOf[f] = s
    <3>1. f \in Reserved(s)
      BY <2>1 DEF Reserved, Lane
    <3>2. Kept(s)' \subseteq Kept(s) \cup {f} /\ Reserved(s)' \subseteq Reserved(s) \ {f}
      BY <1>3, <1>4
    <3>3. QED
      BY <3>1, <3>2, RoomLeft
  <2>2. CASE SessionOf[f] # s
    <3>1. f \notin Kept(s)'
      BY <2>2 DEF Kept, Lane
    <3>2. Kept(s)' \subseteq Kept(s) /\ Reserved(s)' \subseteq Reserved(s)
      BY <1>3, <1>4, <3>1
    <3>3. QED
      BY <3>2, RoomLeft
  <2>3. QED
    BY <2>1, <2>2
<1>6. QED
  BY <1>2, <1>5 DEF RoomInv

\* abort_reservation: the reserved place is free, and the victim keeps his.
LEMMA AbortRoom ==
  ASSUME TypeOK, VictimInv, RoomInv, NEW f \in Tasks, pc[f] = "reserved",
         pc' = [pc EXCEPT ![f] = "aborted"], victim' = [victim EXCEPT ![f] = NoTask],
         UNCHANGED <<pending, status, cancelReq>>,
         \/ gate' = gate
         \/ gate[SessionOf[f]] = f /\ gate' = [gate EXCEPT ![SessionOf[f]] = NoTask]
  PROVE  VictimInv' /\ RoomInv'
<1>1. /\ pc'[f] = "aborted" /\ victim'[f] = NoTask
      /\ \A u \in Tasks \ {f} : pc'[u] = pc[u] /\ victim'[u] = victim[u]
  BY DEF TypeOK
<1>2. VictimInv'
  <2>1. ASSUME NEW u \in Tasks \ {f}, victim[u] # NoTask
        PROVE  gate'[SessionOf[u]] = u
    <3>1. gate[SessionOf[u]] = u /\ u # f /\ SessionOf[u] \in Sessions
      BY <2>1, ShapeAssumption DEF VictimInv
    <3>2. CASE gate' = gate
      BY <3>1, <3>2
    <3>3. CASE gate[SessionOf[f]] = f /\ gate' = [gate EXCEPT ![SessionOf[f]] = NoTask]
      <4>1. SessionOf[u] # SessionOf[f]
        BY <3>1, <3>3
      <4>2. QED
        BY <3>1, <3>3, <4>1 DEF TypeOK
    <3>4. QED
      BY <3>2, <3>3
  <2>2. QED
    BY <1>1, <2>1 DEF VictimInv
<1>3. \A s \in Sessions : Kept(s)' \subseteq Kept(s) \cup {victim[f]}
  BY <1>1 DEF Kept, Lane, Victims
<1>4. \A s \in Sessions : Reserved(s)' = Reserved(s) \ {f}
  BY <1>1 DEF Reserved, Lane
<1>5. ASSUME NEW s \in Sessions
      PROVE  Cardinality(Kept(s)') + Cardinality(Reserved(s)') <= MaxPending
  <2>1. CASE SessionOf[f] = s
    <3>1. f \in Reserved(s)
      BY <2>1 DEF Reserved, Lane
    <3>2. QED
      BY <1>3, <1>4, <3>1, RoomLeft
  <2>2. CASE SessionOf[f] # s
    <3>1. victim[f] \notin Kept(s)'
      BY <2>2, ShapeAssumption DEF Kept, Lane, VictimInv
    <3>2. QED
      BY <1>3, <1>4, <3>1, RoomLeft
  <2>3. QED
    BY <2>1, <2>2
<1>6. QED
  BY <1>2, <1>5 DEF RoomInv

\* The gate opens when the victim is settled, and so waits no more.
LEMMA AdmittedRoom ==
  ASSUME TypeOK, VictimInv, RoomInv, LeftInv, NEW t \in Tasks, Admitted(t)
  PROVE  VictimInv' /\ RoomInv'
<1>1. /\ victim'[t] = NoTask /\ \A u \in Tasks \ {t} : victim'[u] = victim[u]
      /\ gate[SessionOf[t]] = t /\ gate' = [gate EXCEPT ![SessionOf[t]] = NoTask]
      /\ UNCHANGED <<pc, pending, status, cancelReq>>
      /\ victim[t] # NoTask => term[victim[t]] = "settled"
  BY DEF Admitted, ReleaseGate, VictimSettled, TypeOK
<1>2. VictimInv'
  <2>1. ASSUME NEW u \in Tasks \ {t}, victim[u] # NoTask
        PROVE  gate'[SessionOf[u]] = u
    BY <1>1, <2>1, ShapeAssumption DEF VictimInv, TypeOK
  <2>2. QED
    BY <1>1, <2>1 DEF VictimInv
<1>3. victim[t] \notin pending
  BY <1>1, ShapeAssumption DEF LeftInv, TypeOK
<1>4. \A s \in Sessions : Kept(s)' \subseteq Kept(s) /\ Reserved(s)' = Reserved(s)
  BY <1>1, <1>3 DEF Kept, Reserved, Lane, Victims
<1>5. QED
  BY <1>2, <1>4, RoomLeft DEF RoomInv

\* Below the limit one more place can be reserved: those who keep theirs are
\* among those whom reserve() counts.
LEMMA BelowLimit ==
  ASSUME NEW s, ~Full(s), NEW x,
         Kept(s)' \subseteq Kept(s), Reserved(s)' \subseteq Reserved(s) \cup {x}
  PROVE  Cardinality(Kept(s)') + Cardinality(Reserved(s)') <= MaxPending
<1>1. Kept(s) \subseteq Countable(s)
  BY DEF Kept, Countable, Victims, ReservedVictims
<1>2. /\ Kept(s)' \in SUBSET Tasks /\ Reserved(s)' \in SUBSET Tasks
      /\ Countable(s) \in SUBSET Tasks /\ Reserved(s) \in SUBSET Tasks
  BY DEF Kept, Reserved, Lane, Countable
<1>3. /\ Cardinality(Countable(s)) \in Nat /\ Cardinality(Reserved(s)) \in Nat
      /\ Cardinality(Kept(s)') \in Nat /\ Cardinality(Reserved(s)') \in Nat
      /\ Cardinality(Kept(s)') + Cardinality(Reserved(s)')
           <= Cardinality(Countable(s)) + Cardinality(Reserved(s)) + 1
  BY <1>1, <1>2, LaneCounts
<1>4. ~(Cardinality(Countable(s)) + Cardinality(Reserved(s)) >= MaxPending)
  BY DEF Full
<1>5. QED
  BY <1>3, <1>4, LimitAssumption

\* enqueue() of a follow-up finds a free place, or a waiting task that is
\* nobody's victim yet: the gate it holds is the only one.
LEMMA EnqueueRoom ==
  ASSUME TypeOK, VictimInv, RoomInv,
         NEW t \in Tasks, NEW m, m # "interrupt", NEW p, Enqueue(t, m, p)
  PROVE  VictimInv' /\ RoomInv'
<1> DEFINE s == SessionOf[t]
<1>0. s \in Sessions
  BY ShapeAssumption
<1>1. PICK v \in ReserveVictims(s, m, p) : victim' = [victim EXCEPT ![t] = v]
  BY DEF Enqueue
<1>2. /\ victim'[t] = v /\ \A u \in Tasks \ {t} : victim'[u] = victim[u]
      /\ pc[t] = "fresh" /\ pc'[t] = "reserved" /\ \A u \in Tasks \ {t} : pc'[u] = pc[u]
      /\ gate[s] = NoTask /\ gate' = [gate EXCEPT ![s] = t]
      /\ UNCHANGED <<pending, status, cancelReq>>
  BY <1>1 DEF Enqueue, TypeOK
<1>3. \A u \in Lane(s) : victim[u] = NoTask
  BY <1>2, ShapeAssumption DEF Lane, VictimInv
<1>4. v # NoTask => v \in Kept(s) /\ SessionOf[v] = s
  <2>1. ASSUME v # NoTask PROVE v \in Countable(s) /\ status[v] = "queued" /\ v \in Tasks
    BY <1>1, <2>1 DEF ReserveVictims, Countable, TypeOK
  <2>2. ASSUME v # NoTask, NEW u \in Tasks, victim[u] = v PROVE FALSE
    <3>1. SessionOf[v] = s
      BY <2>1, <2>2 DEF Countable, Lane
    <3>2. u \in Lane(s)
      BY <2>2, <3>1 DEF VictimInv, Lane
    <3>3. QED
      BY <1>3, <2>2, <3>2
  <2>3. QED
    BY <2>1, <2>2 DEF Kept, Countable, Victims, Lane
<1>5. VictimInv'
  <2>1. ASSUME NEW u \in Tasks \ {t}, victim[u] # NoTask PROVE gate'[SessionOf[u]] = u
    <3>1. SessionOf[u] # s
      BY <1>3, <2>1 DEF Lane
    <3>2. QED
      BY <1>2, <2>1, <3>1, ShapeAssumption DEF VictimInv, TypeOK
  <2>2. gate'[s] = t
    BY <1>0, <1>2 DEF TypeOK
  <2>3. QED
    BY <1>2, <1>4, <2>1, <2>2 DEF VictimInv
<1> HIDE DEF s
<1>6. \A r \in Sessions : Kept(r)' \subseteq Kept(r) \ {v}
  <2>1. victim[t] = NoTask
    BY <1>3 DEF Lane, s
  <2>2. QED
    BY <1>2, <2>1, ShapeAssumption DEF Kept, Lane, Victims
<1>7. \A r \in Sessions : Reserved(r)' \subseteq Reserved(r) \cup (IF r = s THEN {t} ELSE {})
  BY <1>2 DEF Reserved, Lane, s
<1>8. ASSUME NEW r \in Sessions
      PROVE  Cardinality(Kept(r)') + Cardinality(Reserved(r)') <= MaxPending
  <2>1. CASE r # s
    BY <1>6, <1>7, <2>1, RoomLeft
  <2>2. CASE r = s /\ v # NoTask
    BY <1>4, <1>6, <1>7, <2>2, RoomLeft
  <2>3. CASE r = s /\ v = NoTask
    <3>1. ~Full(s)
      BY <1>1, <2>3, ShapeAssumption DEF ReserveVictims, Countable, TypeOK
    <3>2. Kept(s)' \subseteq Kept(s) /\ Reserved(s)' \subseteq Reserved(s) \cup {t}
      BY <1>6, <1>7, <2>3
    <3>3. QED
      BY <2>3, <3>1, <3>2, BelowLimit
  <2>4. QED
    BY <2>1, <2>2, <2>3
<1>9. QED
  BY <1>5, <1>8 DEF RoomInv

\* A promotion that may not evict finds a free place.
LEMMA PromoteRoom ==
  ASSUME DefaultPolicy = "reject_newest", TypeOK, VictimInv, RoomInv,
         NEW t \in Tasks, NEW f \in Tasks, Promote(t, f)
  PROVE  VictimInv' /\ RoomInv'
<1>1. /\ ~Full(SessionOf[f])
      /\ victim' = [victim EXCEPT ![f] = NoTask]
  BY DEF Promote, ReserveVictims
<1>2. /\ victim'[f] = NoTask /\ \A u \in Tasks \ {f} : victim'[u] = victim[u]
      /\ pc[f] = "fresh" /\ pc'[f] = "reserved" /\ \A u \in Tasks \ {f} : pc'[u] = pc[u]
      /\ UNCHANGED <<gate, pending, status, cancelReq>>
  BY <1>1 DEF Promote, TypeOK
<1>3. victim[f] = NoTask
  BY <1>2 DEF VictimInv
<1>4. VictimInv'
  BY <1>2 DEF VictimInv
<1>5. \A r \in Sessions : Kept(r)' \subseteq Kept(r)
  BY <1>2, <1>3 DEF Kept, Lane, Victims
<1>6. \A r \in Sessions :
        Reserved(r)' \subseteq Reserved(r) \cup (IF r = SessionOf[f] THEN {f} ELSE {})
  BY <1>2 DEF Reserved, Lane
<1>7. ASSUME NEW r \in Sessions
      PROVE  Cardinality(Kept(r)') + Cardinality(Reserved(r)') <= MaxPending
  <2>1. CASE r # SessionOf[f]
    BY <1>5, <1>6, <2>1, RoomLeft
  <2>2. CASE r = SessionOf[f]
    <3>1. Kept(r)' \subseteq Kept(r) /\ Reserved(r)' \subseteq Reserved(r) \cup {f}
      BY <1>5, <1>6, <2>2
    <3>2. QED
      BY <1>1, <2>2, <3>1, BelowLimit
  <2>3. QED
    BY <2>1, <2>2
<1>8. QED
  BY <1>4, <1>7 DEF RoomInv

\* Every step leaves room, as long as nobody skips the limit (interrupt mode)
\* and promotions do not evict.
LEMMA RoomStep ==
  ASSUME "interrupt" \notin Modes, DefaultPolicy = "reject_newest",
         TypeOK, Safe, LeftInv, VictimInv, RoomInv, [Next]_vars
  PROVE  VictimInv' /\ RoomInv'
<1>1. CASE Calm
  BY <1>1, CalmRoom
<1>2. ASSUME NEW t \in Tasks, NEW m \in Modes, NEW p \in Policies, Enqueue(t, m, p)
      PROVE  VictimInv' /\ RoomInv'
  BY <1>2, EnqueueRoom
<1>3. ASSUME NEW t \in Tasks, Admission(t) PROVE VictimInv' /\ RoomInv'
  <2>1. CASE Activate(t)
    BY <2>1, ActivateRoom DEF Activate
  <2>2. CASE EnqueueFails(t)
    BY <2>2, AbortRoom DEF EnqueueFails, ReleaseGate
  <2>3. CASE Admitted(t)
    BY <2>3, AdmittedRoom
  <2>4. QED
    BY <1>3, <2>1, <2>2, <2>3 DEF Admission
<1>4. ASSUME NEW t \in Tasks, PromoteFails(t) PROVE VictimInv' /\ RoomInv'
  <2>1. PICK f \in Tasks : f = promo[t] /\ pc[f] = "reserved"
    BY <1>4 DEF PromoteFails, Promoting, TypeOK
  <2>2. /\ pc' = [pc EXCEPT ![f] = "aborted"]
        /\ victim' = [victim EXCEPT ![f] = NoTask]
        /\ pending' = pending /\ status' = status /\ cancelReq' = cancelReq
        /\ gate' = gate
    BY <1>4, <2>1 DEF PromoteFails
  <2>3. QED
    BY <2>1, <2>2, AbortRoom
<1>5. ASSUME NEW t \in Tasks, PromoteActivate(t) PROVE VictimInv' /\ RoomInv'
  <2>1. promo[t] \in Tasks /\ pc[promo[t]] = "reserved"
    BY <1>5 DEF PromoteActivate, Promoting, TypeOK
  <2>2. QED
    BY <1>5, <2>1, ActivateRoom DEF PromoteActivate
<1>6. ASSUME NEW t \in Tasks, NEW f \in Tasks, Promote(t, f) PROVE VictimInv' /\ RoomInv'
  BY <1>6, PromoteRoom
<1>7. QED
  BY <1>1, <1>2, <1>3, <1>4, <1>5, <1>6, OtherCalm

\* Whoever waits uncancelled keeps his place, or is the victim of one who has
\* reserved it.
LEMMA RoomBounds ==
  ASSUME TypeOK, VictimInv, RoomInv
  PROVE  QueueBound
<1> SUFFICES ASSUME NEW s \in Sessions
             PROVE  Cardinality({t \in pending \cap Lane(s) :
                                   status[t] = "queued" /\ t \notin cancelReq}) <= MaxPending
  BY DEF QueueBound
<1> DEFINE W == {t \in pending \cap Lane(s) : status[t] = "queued" /\ t \notin cancelReq}
           R == {u \in Reserved(s) : victim[u] # NoTask}
           V == {victim[u] : u \in R}
<1>1. W \subseteq Kept(s) \cup V
  <2>1. ASSUME NEW w \in W, w \notin Kept(s) PROVE w \in V
    <3>1. PICK u \in Tasks : victim[u] = w /\ w # NoTask
      BY <2>1 DEF Kept, Victims
    <3>2. SessionOf[u] = s /\ pc[u] = "reserved"
      BY <2>1, <3>1 DEF VictimInv, Lane
    <3>3. QED
      BY <3>1, <3>2 DEF Reserved, Lane
  <2>2. QED
    BY <2>1
<1>2. /\ IsFiniteSet(Kept(s)) /\ IsFiniteSet(Reserved(s)) /\ IsFiniteSet(R)
      /\ Cardinality(R) <= Cardinality(Reserved(s))
      /\ Cardinality(Kept(s)) \in Nat /\ Cardinality(Reserved(s)) \in Nat /\ Cardinality(R) \in Nat
  <2>1. IsFiniteSet(Kept(s)) /\ IsFiniteSet(Reserved(s))
    BY LaneParts, FS_Subset, ShapeAssumption
  <2>2. IsFiniteSet(R) /\ Cardinality(R) <= Cardinality(Reserved(s))
    BY <2>1, FS_Subset
  <2>3. QED
    BY <2>1, <2>2, FS_CardinalityType
<1>3. IsFiniteSet(V) /\ Cardinality(V) <= Cardinality(R) /\ Cardinality(V) \in Nat
  <2> DEFINE f == [u \in R |-> victim[u]]
  <2>1. f \in Surjection(R, V)
    BY DEF Surjection
  <2>2. IsFiniteSet(V) /\ Cardinality(V) <= Cardinality(R)
    BY <1>2, <2>1, FS_Surjection
  <2>3. QED
    BY <2>2, FS_CardinalityType
<1> HIDE DEF V, R
<1>4. /\ IsFiniteSet(Kept(s) \cup V) /\ Cardinality(Kept(s) \cup V) \in Nat
      /\ Cardinality(Kept(s) \cup V) <= Cardinality(Kept(s)) + Cardinality(V)
  <2>1. /\ IsFiniteSet(Kept(s) \cup V)
        /\ Cardinality(Kept(s) \cup V) =
             Cardinality(Kept(s)) + Cardinality(V) - Cardinality(Kept(s) \cap V)
    BY <1>2, <1>3, FS_Union
  <2>2. Cardinality(Kept(s) \cap V) \in Nat
    BY <1>2, FS_Intersection, FS_CardinalityType
  <2>3. QED
    BY <1>2, <1>3, <2>1, <2>2, FS_CardinalityType
<1>5. IsFiniteSet(W) /\ Cardinality(W) <= Cardinality(Kept(s) \cup V) /\ Cardinality(W) \in Nat
  BY <1>1, <1>4, FS_Subset, FS_CardinalityType
<1>6. QED
  BY <1>2, <1>3, <1>4, <1>5, LimitAssumption DEF RoomInv

\* The waiting tasks of a session never exceed max_pending_per_session, although
\* promoted follow-ups do not pass the admission gate and whatever is cancelled,
\* evicted or fails: the place that reserve() found is still there when
\* activate() takes it.  Two conditions are needed, both of them the defaults:
\* interrupt mode skips the limit, and a promotion that evicts may pick a task
\* that is already on its way out.
THEOREM QueueStaysBounded ==
  ASSUME "interrupt" \notin Modes, DefaultPolicy = "reject_newest"
  PROVE  Spec => []QueueBound
<1>1. Init => VictimInv /\ RoomInv
  <2>1. SUFFICES ASSUME Init PROVE VictimInv /\ RoomInv
    OBVIOUS
  <2>2. \A s \in Sessions : Kept(s) = {} /\ Reserved(s) = {}
    <3>1. pending = {} /\ \A t \in Tasks : pc[t] = "fresh"
      BY <2>1 DEF Init
    <3>2. \A s \in Sessions : Kept(s) = {}
      BY <3>1 DEF Kept
    <3>3. \A s \in Sessions : Reserved(s) = {}
      BY <3>1 DEF Reserved, Lane
    <3>4. QED
      BY <3>2, <3>3
  <2>3. \A t \in Tasks : victim[t] = NoTask
    BY <2>1 DEF Init
  <2>4. QED
    BY <2>2, <2>3, FS_EmptySet, LimitAssumption DEF VictimInv, RoomInv
<1>2. IInv /\ Steering /\ Waiting /\ Ordered /\ VictimInv /\ RoomInv /\ [Next]_vars
        => VictimInv' /\ RoomInv'
  BY RoomStep DEF IInv, Ordered
<1>3. IInv /\ VictimInv /\ RoomInv => QueueBound
  BY RoomBounds DEF IInv
<1>4. QED
  BY <1>1, <1>2, <1>3, OrderInvariance, PTL DEF Spec

=============================================================================
